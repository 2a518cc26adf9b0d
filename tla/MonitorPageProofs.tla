---------------------------- MODULE MonitorPageProofs ----------------------------
(***************************************************************************)
(* Proofs about the store catalog and the settings page that asks it, for  *)
(* any number of lookups, refreshes, clicks and worker deaths, and for any *)
(* packaged catalogs and finds of the provider.                            *)
(***************************************************************************)
EXTENDS MonitorPage, TLAPS

(* Records of the model: of most fields only the presence matters.         *)

LookupFields == {"at", "late", "base", "found", "next"}

AskFields == {"at", "current", "fits", "stores"}

PageFields == {"busy", "pending", "region", "fits", "stores", "catalog", "editing",
               "teleBusy", "tele"}

RefreshFields == {"at", "fresh", "tele", "catalog", "old"}

RunFields == {"at", "disconnect", "tele"}

Lookup(h) == DOMAIN h = LookupFields

-------------------------------------------------------------------------------
(* The catalog's invariant.                                                *)

Extends(f, g) == DOMAIN f \subseteq DOMAIN g /\ Agree(f, g)

\* Only the commit at the head of the gate has a write under way, and the cache has
\* not changed since it was prepared.
OnlyTheHeadWrites ==
    /\ gate \in Seq(Lookups)
    /\ \A l \in Lookups : lookup[l].at = "writing" =>
          /\ HasGate(l)
          /\ Extends(cache, lookup[l].next)
          /\ DOMAIN lookup[l].found \subseteq DOMAIN catalog \cup DOMAIN lookup[l].next

\* Lookups run only against a catalog that has been loaded, and that catalog is the
\* packaged one with the cache.
LoadedFirst ==
    /\ loaded \in {"no", "catalog", "none"}
    /\ loaded = "catalog" => DOMAIN catalog = DOMAIN release \cup DOMAIN cache
    /\ loaded = "none" => catalog = Nothing
    /\ loaded # "catalog" => \A l \in Lookups : lookup[l].at = "idle"

\* While a worker runs, what lookups have answered is in its cache.
PromisedIsCached ==
    ~forgotten => /\ promised \subseteq DOMAIN stored
                  /\ loaded = "catalog" => promised \subseteq DOMAIN cache

LookupsSound == DOMAIN lookup = Lookups /\ \A l \in Lookups : Lookup(lookup[l])

CatalogSound ==
    /\ LookupsSound /\ OnlyTheHeadWrites /\ LoadedFirst
    /\ PromisedIsCached /\ PublishedIsStored

\* What the catalog's invariant speaks of.
catalogState == <<release, stored, loaded, cache, catalog, lookup, gate, promised, forgotten>>

LEMMA OverIsBoth ==
    ASSUME NEW f, NEW g
    PROVE  /\ DOMAIN Over(f, g) = DOMAIN f \cup DOMAIN g
           /\ \A n \in DOMAIN f : Over(f, g)[n] = f[n]
           /\ Agree(f, Over(f, g))
BY DEF Over, Agree

\* What a commit is about to write extends the cache by what it has found.
LEMMA DiscoveredExtends ==
    ASSUME NEW l \in Lookups
    PROVE  /\ Extends(cache, Discovered(l))
           /\ DOMAIN lookup[l].found \subseteq DOMAIN catalog \cup DOMAIN Discovered(l)
<1> DEFINE new == Restrict(lookup[l].found, DOMAIN lookup[l].found \ DOMAIN catalog)
<1>1. DOMAIN new = DOMAIN lookup[l].found \ DOMAIN catalog
  BY DEF Restrict
<1>2. Discovered(l) = Over(cache, new)
  BY DEF Discovered
<1> HIDE DEF new
<1>3. DOMAIN Discovered(l) = DOMAIN cache \cup DOMAIN new /\ Agree(cache, Discovered(l))
  BY <1>2, OverIsBoth
<1>4. QED
  BY <1>1, <1>3 DEF Extends

\* The head of the gate leaves it: then nobody has a write under way.
LEMMA GateOpens ==
    ASSUME LookupsSound, OnlyTheHeadWrites, NEW l \in Lookups, HasGate(l), Release,
           lookup' = [lookup EXCEPT ![l] = NoLookup]
    PROVE  LookupsSound' /\ OnlyTheHeadWrites'
<1>1. gate' \in Seq(Lookups)
  BY DEF Release, HasGate, OnlyTheHeadWrites
<1>2. \A m \in Lookups : lookup'[m].at # "writing"
  BY DEF LookupsSound, OnlyTheHeadWrites, HasGate, NoLookup
<1>3. LookupsSound'
  BY DEF LookupsSound, Lookup, LookupFields, NoLookup
<1>4. QED
  BY <1>1, <1>2, <1>3 DEF OnlyTheHeadWrites

\* A lookup that is over without a match, or that waits for the provider or the gate,
\* has no write under way.
LEMMA NoNewWrite ==
    ASSUME LookupsSound, OnlyTheHeadWrites, NEW l \in Lookups, NEW h, Lookup(h), Become(l, h),
           h.at # "writing",
           gate' = gate \/ (gate' = Append(gate, l) /\ lookup[l].at # "writing"),
           UNCHANGED <<cache, catalog>>
    PROVE  LookupsSound' /\ OnlyTheHeadWrites'
<1>1. gate' \in Seq(Lookups)
  BY DEF OnlyTheHeadWrites
<1>2. LookupsSound'
  BY DEF LookupsSound, Become
<1>3. ASSUME NEW m \in Lookups, lookup'[m].at = "writing"
      PROVE  lookup[m] = lookup'[m] /\ HasGate(m)'
  <2>1. lookup[m] = lookup'[m] /\ lookup[m].at = "writing"
    BY <1>3 DEF LookupsSound, Become
  <2>2. gate # <<>> /\ Head(gate) = m
    BY <2>1 DEF OnlyTheHeadWrites, HasGate
  <2>3. gate' # <<>> /\ Head(gate') = m
    BY <2>2 DEF OnlyTheHeadWrites
  <2>4. QED
    BY <2>1, <2>3 DEF HasGate
<1>4. QED
  BY <1>1, <1>2, <1>3 DEF OnlyTheHeadWrites, LookupsSound

LEMMA LoadingKeeps ==
    ASSUME CatalogSound, Load \/ LoadWithoutCache \/ LoadFails
    PROVE  CatalogSound'
<1>1. loaded = "no" /\ UNCHANGED <<release, stored, lookup, gate, promised>>
  BY DEF Load, LoadWithoutCache, LoadFails
<1>2. \A l \in Lookups : lookup'[l].at = "idle"
  BY <1>1 DEF CatalogSound, LoadedFirst
<1>3. LookupsSound' /\ OnlyTheHeadWrites'
  BY <1>1, <1>2 DEF CatalogSound, LookupsSound, OnlyTheHeadWrites
<1>4. CASE Load
  <2>1. loaded' = "catalog"
    BY <1>4 DEF Load
  <2>2. CASE cache' = stored /\ catalog' = Over(release, stored) /\ UNCHANGED forgotten
    <3>1. DOMAIN catalog' = DOMAIN release' \cup DOMAIN cache'
      BY <1>1, <2>2, OverIsBoth
    <3>2. PromisedIsCached' /\ PublishedIsStored'
      BY <1>1, <2>2 DEF CatalogSound, PromisedIsCached, PublishedIsStored, Agree
    <3>3. QED
      BY <1>2, <1>3, <2>1, <3>1, <3>2 DEF CatalogSound, LoadedFirst
  <2>3. CASE cache' = Nothing /\ catalog' = release /\ forgotten' = TRUE
    <3>1. DOMAIN cache' = {}
      BY <2>3 DEF Nothing
    <3>2. LoadedFirst' /\ PromisedIsCached' /\ PublishedIsStored'
      BY <1>1, <1>2, <2>1, <2>3, <3>1
         DEF LoadedFirst, PromisedIsCached, PublishedIsStored, Agree
    <3>3. QED
      BY <1>3, <3>2 DEF CatalogSound
  <2>4. QED
    BY <1>4, <2>2, <2>3 DEF Load
<1>5. CASE LoadWithoutCache
  <2>1. /\ loaded' = "catalog" /\ forgotten' = (forgotten \/ stored # Nothing)
        /\ cache' = Nothing /\ catalog' = release
    BY <1>5 DEF LoadWithoutCache
  <2>2. DOMAIN cache' = {} /\ (stored = Nothing => DOMAIN stored = {})
    BY <2>1 DEF Nothing
  <2>3. LoadedFirst' /\ PublishedIsStored'
    BY <1>1, <1>2, <2>1, <2>2 DEF LoadedFirst, PublishedIsStored, Agree
  <2>4. PromisedIsCached'
    BY <1>1, <2>1, <2>2 DEF CatalogSound, PromisedIsCached
  <2>5. QED
    BY <1>3, <2>3, <2>4 DEF CatalogSound
<1>6. CASE LoadFails
  BY <1>1, <1>2, <1>3, <1>6
     DEF LoadFails, CatalogSound, LoadedFirst, PromisedIsCached, PublishedIsStored
<1>7. QED
  BY <1>4, <1>5, <1>6

\* A lookup moves, but nothing is written.
LEMMA WaitingKeeps ==
    ASSUME CatalogSound, NEW l \in Lookups,
           Begin(l) \/ Found(l) \/ NotFound(l) \/ Deadline(l)
    PROVE  CatalogSound'
<1>1. UNCHANGED <<release, stored, loaded, cache, catalog, promised, forgotten>>
  BY DEF Begin, Found, NotFound, Deadline
<1>2. PICK h : /\ Lookup(h) /\ Become(l, h)
               /\ h.at = "writing" => h.at = lookup[l].at
               /\ loaded # "catalog" => h.at = "idle"
               /\ gate' = gate \/ (gate' = Append(gate, l) /\ lookup[l].at # "writing")
               /\ (h.next = lookup[l].next /\ h.found = lookup[l].found) \/ h.at # "writing"
  <2>1. Lookup(lookup[l]) /\ Lookup(NoLookup)
    BY DEF CatalogSound, LookupsSound, Lookup, LookupFields, NoLookup
  <2>2. lookup[l].at # "idle" => loaded = "catalog"
    BY DEF CatalogSound, LoadedFirst
  <2>3. CASE Begin(l)
    <3>1. CASE loaded = "none"
      <4>1. Become(l, NoLookup) /\ UNCHANGED gate /\ NoLookup.at = "idle"
        BY <2>3, <3>1 DEF Begin, GivesUp, NoLookup
      <4>2. QED
        BY <2>1, <4>1, Zenon
    <3>2. CASE loaded # "none"
      <4> DEFINE h == [NoLookup EXCEPT !.at = "asking", !.base = catalog]
      <4>1. loaded = "catalog" /\ Become(l, h) /\ UNCHANGED gate
        BY <2>3, <3>2 DEF Begin, CatalogSound, LoadedFirst
      <4>2. Lookup(h) /\ h.at = "asking"
        BY DEF Lookup, LookupFields, NoLookup
      <4>3. QED
        BY <4>1, <4>2
    <3>3. QED
      BY <3>1, <3>2
  <2>4. CASE Found(l)
    <3>1. PICK f \in Finds :
            Become(l, [lookup[l] EXCEPT !.at = "queued",
                          !.found = Restrict(Over(lookup[l].base, f), DOMAIN f)])
      BY <2>4 DEF Found
    <3> DEFINE h == [lookup[l] EXCEPT !.at = "queued",
                          !.found = Restrict(Over(lookup[l].base, f), DOMAIN f)]
    <3>2. lookup[l].at = "asking" /\ gate' = Append(gate, l)
      BY <2>4 DEF Found
    <3>3. Lookup(h) /\ h.at = "queued"
      BY <2>1 DEF Lookup, LookupFields
    <3>4. QED
      BY <2>2, <3>1, <3>2, <3>3
  <2>5. CASE NotFound(l)
    <3>1. Become(l, NoLookup) /\ UNCHANGED gate /\ NoLookup.at = "idle"
      BY <2>5 DEF NotFound, GivesUp, NoLookup
    <3>2. QED
      BY <2>1, <3>1
  <2>6. CASE Deadline(l)
    <3>1. CASE lookup[l].at = "asking"
      <4>1. Become(l, NoLookup) /\ UNCHANGED gate /\ NoLookup.at = "idle"
        BY <2>6, <3>1 DEF Deadline, NoLookup
      <4>2. QED
        BY <2>1, <4>1
    <3>2. CASE lookup[l].at # "asking"
      <4> DEFINE h == [lookup[l] EXCEPT !.late = TRUE]
      <4>1. Become(l, h) /\ UNCHANGED gate /\ lookup[l].at # "idle"
        BY <2>6, <3>2 DEF Deadline
      <4>2. Lookup(h) /\ h.at = lookup[l].at /\ h.next = lookup[l].next
            /\ h.found = lookup[l].found
        BY <2>1 DEF Lookup, LookupFields
      <4>3. QED
        BY <2>2, <4>1, <4>2
    <3>3. QED
      BY <3>1, <3>2
  <2>7. QED
    BY <2>3, <2>4, <2>5, <2>6
<1>3. LookupsSound' /\ OnlyTheHeadWrites'
  <2>1. CASE h.at # "writing"
    BY <1>1, <1>2, <2>1, NoNewWrite DEF CatalogSound
  <2>2. CASE h.at = "writing"
    <3>1. gate' = gate /\ lookup[l].at = "writing"
          /\ h.next = lookup[l].next /\ h.found = lookup[l].found
      BY <1>2, <2>2
    <3>2. \A m \in Lookups : /\ Lookup(lookup'[m])
                             /\ lookup'[m].at = lookup[m].at
                             /\ lookup'[m].next = lookup[m].next
                             /\ lookup'[m].found = lookup[m].found
      BY <1>2, <2>2, <3>1 DEF CatalogSound, LookupsSound, Become
    <3>3. DOMAIN lookup' = Lookups
      BY <1>2 DEF CatalogSound, LookupsSound, Become
    <3>4. QED
      BY <1>1, <3>1, <3>2, <3>3 DEF CatalogSound, LookupsSound, OnlyTheHeadWrites, HasGate
  <2>3. QED
    BY <2>1, <2>2
<1>4. LoadedFirst'
  BY <1>1, <1>2 DEF CatalogSound, LookupsSound, LoadedFirst, Become
<1>5. PromisedIsCached' /\ PublishedIsStored'
  BY <1>1 DEF CatalogSound, PromisedIsCached, PublishedIsStored
<1>6. QED
  BY <1>3, <1>4, <1>5 DEF CatalogSound

LEMMA StartingKeeps ==
    ASSUME CatalogSound, NEW l \in Lookups, StartWrite(l)
    PROVE  CatalogSound'
<1>1. /\ UNCHANGED <<release, stored, loaded, cache, catalog, promised, forgotten>>
      /\ HasGate(l) /\ lookup[l].at = "queued"
  BY DEF StartWrite
<1>2. LookupsSound' /\ OnlyTheHeadWrites'
  <2>1. CASE NothingToWrite(l)
    BY <1>1, <2>1, GateOpens DEF CatalogSound, NothingToWrite, GivesUp, Become
  <2>2. CASE ~NothingToWrite(l)
    <3> DEFINE h == [lookup[l] EXCEPT !.at = "writing", !.next = Discovered(l)]
    <3>1. Become(l, h) /\ gate' = gate
      BY <2>2 DEF StartWrite
    <3>2. /\ Lookup(h) /\ h.next = Discovered(l) /\ h.found = lookup[l].found
      BY DEF CatalogSound, LookupsSound, Lookup, LookupFields
    <3> HIDE DEF h
    <3>3. LookupsSound'
      BY <3>1, <3>2 DEF CatalogSound, LookupsSound, Become
    <3>4. lookup'[l] = h /\ \A m \in Lookups \ {l} : lookup'[m] = lookup[m]
      BY <3>1 DEF CatalogSound, LookupsSound, Become
    <3>5. HasGate(l)' /\ Extends(cache, lookup'[l].next)
          /\ DOMAIN lookup'[l].found \subseteq DOMAIN catalog \cup DOMAIN lookup'[l].next
      BY <1>1, <3>1, <3>2, <3>4, DiscoveredExtends DEF HasGate
    <3>6. \A m \in Lookups \ {l} : lookup'[m].at # "writing"
      BY <1>1, <3>4 DEF CatalogSound, OnlyTheHeadWrites, HasGate
    <3>7. QED
      BY <1>1, <3>1, <3>3, <3>5, <3>6 DEF CatalogSound, OnlyTheHeadWrites, Extends, Agree
  <2>3. QED
    BY <2>1, <2>2
<1>3. LoadedFirst'
  <2>1. loaded = "catalog"
    BY <1>1 DEF CatalogSound, LoadedFirst
  <2>2. QED
    BY <1>1, <2>1 DEF CatalogSound, LoadedFirst
<1>4. PromisedIsCached' /\ PublishedIsStored'
  BY <1>1 DEF CatalogSound, PromisedIsCached, PublishedIsStored
<1>5. QED
  BY <1>2, <1>3, <1>4 DEF CatalogSound

\* A write in time: what it answers is in the cache it publishes.
LEMMA WriteInTimeKeeps ==
    ASSUME CatalogSound, NEW l \in Lookups, WriteInTime(l)
    PROVE  /\ CatalogSound'
           /\ DOMAIN lookup[l].found \subseteq promised' \cup DOMAIN release'
<1> DEFINE next == lookup[l].next  found == DOMAIN lookup[l].found
<1>1. /\ stored' = next /\ cache' = next /\ catalog' = Over(catalog, next)
      /\ promised' = promised \cup (found \ DOMAIN release)
      /\ lookup' = [lookup EXCEPT ![l] = NoLookup]
      /\ HasGate(l) /\ Release /\ UNCHANGED <<release, loaded, forgotten>>
      /\ lookup[l].at = "writing"
  BY DEF WriteInTime, Become, Published
<1>2. LookupsSound' /\ OnlyTheHeadWrites'
  BY <1>1, GateOpens DEF CatalogSound
<1>3. loaded = "catalog" /\ DOMAIN catalog = DOMAIN release \cup DOMAIN cache
  BY <1>1 DEF CatalogSound, LoadedFirst
<1>4. DOMAIN cache \subseteq DOMAIN next /\ found \subseteq DOMAIN catalog \cup DOMAIN next
  BY <1>1 DEF CatalogSound, OnlyTheHeadWrites, Extends
<1>5. DOMAIN catalog' = DOMAIN catalog \cup DOMAIN next
  BY <1>1, OverIsBoth
<1> HIDE DEF next, found
<1>6. DOMAIN catalog' = DOMAIN release' \cup DOMAIN cache'
  BY <1>1, <1>3, <1>4, <1>5
<1>7. LoadedFirst'
  BY <1>1, <1>3, <1>6 DEF LoadedFirst
<1>8. PromisedIsCached'
  <2>1. found \ DOMAIN release \subseteq DOMAIN next
    BY <1>3, <1>4
  <2>2. QED
    BY <1>1, <1>3, <1>4, <2>1 DEF CatalogSound, PromisedIsCached
<1>9. PublishedIsStored'
  BY <1>1 DEF PublishedIsStored, Agree
<1>10. found \subseteq promised' \cup DOMAIN release'
  BY <1>1
<1>11. QED
  BY <1>2, <1>7, <1>8, <1>9, <1>10 DEF CatalogSound, found

LEMMA WriteLateKeeps ==
    ASSUME CatalogSound, NEW l \in Lookups, WriteLate(l) \/ WriteFails(l)
    PROVE  CatalogSound'
<1>1. /\ UNCHANGED <<release, loaded, cache, catalog, promised, forgotten>>
      /\ lookup[l].at = "writing" /\ lookup' = [lookup EXCEPT ![l] = NoLookup]
      /\ stored' = lookup[l].next \/ stored' = stored
  BY DEF WriteLate, WriteFails, GivesUp, Become
<1>2. HasGate(l) /\ Extends(cache, lookup[l].next)
  BY <1>1 DEF CatalogSound, OnlyTheHeadWrites
<1>3. Release
  BY <1>2 DEF WriteLate, WriteFails
<1>4. LookupsSound' /\ OnlyTheHeadWrites'
  BY <1>1, <1>2, <1>3, GateOpens DEF CatalogSound
<1>5. loaded = "catalog"
  BY <1>1 DEF CatalogSound, LoadedFirst
<1>6. LoadedFirst' /\ PromisedIsCached' /\ PublishedIsStored'
  <2>1. Extends(cache', stored')
    BY <1>1, <1>2 DEF CatalogSound, PublishedIsStored, Extends
  <2>2. PublishedIsStored'
    BY <2>1 DEF PublishedIsStored, Extends
  <2>3. PromisedIsCached'
    BY <1>1, <1>5, <2>1 DEF CatalogSound, PromisedIsCached, Extends
  <2>4. QED
    BY <1>1, <1>5, <2>2, <2>3 DEF CatalogSound, LoadedFirst
<1>7. QED
  BY <1>4, <1>6 DEF CatalogSound

LEMMA DyingKeeps ==
    ASSUME CatalogSound, NEW b, CatalogDie(b)
    PROVE  CatalogSound'
<1>1. /\ loaded' = "no" /\ cache' = Nothing /\ gate' = <<>>
      /\ lookup' = [l \in Lookups |-> NoLookup] /\ UNCHANGED <<promised, forgotten>>
      /\ stored' = stored \/ \E l \in Lookups : lookup[l].at = "writing" /\ stored' = lookup[l].next
  BY DEF CatalogDie
<1>2. /\ LookupsSound' /\ \A l \in Lookups : lookup'[l].at = "idle"
  BY <1>1 DEF LookupsSound, Lookup, LookupFields, NoLookup
<1>3. OnlyTheHeadWrites' /\ LoadedFirst'
  BY <1>1, <1>2 DEF OnlyTheHeadWrites, LoadedFirst
<1>4. PublishedIsStored'
  BY <1>1 DEF PublishedIsStored, Agree, Nothing
<1>5. ~forgotten => promised \subseteq DOMAIN stored'
  <2>1. CASE stored' = stored
    BY <2>1 DEF CatalogSound, PromisedIsCached
  <2>2. ASSUME NEW l \in Lookups, lookup[l].at = "writing", stored' = lookup[l].next
        PROVE  ~forgotten => promised \subseteq DOMAIN stored'
    <3>1. loaded = "catalog" /\ Extends(cache, lookup[l].next)
      BY <2>2 DEF CatalogSound, LoadedFirst, OnlyTheHeadWrites
    <3>2. QED
      BY <2>2, <3>1 DEF CatalogSound, PromisedIsCached, Extends
  <2>3. QED
    BY <1>1, <2>1, <2>2
<1>6. QED
  BY <1>1, <1>2, <1>3, <1>4, <1>5 DEF CatalogSound, PromisedIsCached

\* Every step of the page and its background, seen from the catalog.
LEMMA NextKeepsCatalog ==
    ASSUME CatalogSound, [Next]_vars
    PROVE  CatalogSound'
<1>1. ASSUME UNCHANGED catalogState PROVE CatalogSound'
  BY <1>1 DEF catalogState, CatalogSound, LookupsSound, OnlyTheHeadWrites, LoadedFirst,
       PromisedIsCached, PublishedIsStored, HasGate
<1>2. CASE CatalogMoves
  BY <1>2, LoadingKeeps, WaitingKeeps, StartingKeeps, WriteInTimeKeeps, WriteLateKeeps
     DEF CatalogMoves, CatalogStep
<1>3. ASSUME NEW l \in Lookups, ReceiveLookup(l) PROVE CatalogSound'
  BY <1>3, WaitingKeeps DEF ReceiveLookup
<1>4. CASE \E l \in Lookups : HearLookup(l) \/ ShowStores(l) \/ CatalogUnread(l)
  BY <1>1, <1>4 DEF HearLookup, ShowStores, CatalogUnread, catalogState, catalogVars
<1>5. CASE \E c \in {"save", "command"} : CommandEnds(c)
  BY <1>1, <1>5 DEF CommandEnds, catalogState, catalogVars
<1>6. CASE TelegramDone \/ TelegramRefused \/ TelegramAnswered \/ TelegramReread
  BY <1>1, <1>6
     DEF TelegramDone, TelegramRefused, TelegramAnswered, TelegramReread, TelegramEnds,
         catalogState, catalogVars
<1>7. CASE \E r \in Refreshes :
             RefreshStatus(r) \/ RefreshRead(r) \/ RefreshFails(r) \/ RefreshShown(r)
  BY <1>1, <1>7
     DEF RefreshStatus, RefreshRead, RefreshFails, RefreshShown, catalogState, catalogVars
<1>8. CASE UserStep
  BY <1>1, <1>8
     DEF UserStep, EnterLocation, ChooseRegion, EditWatch, CancelEdit, Submit, Command, Reset,
         TelegramCommand, Reload, AskLookup, catalogState, catalogVars
<1>9. CASE WorkerDies \/ Update
  BY <1>9, DyingKeeps DEF WorkerDies, Update
<1>10. CASE UNCHANGED vars
  BY <1>1, <1>10 DEF vars, catalogState, catalogVars
<1>11. QED
  BY <1>2, <1>3, <1>4, <1>5, <1>6, <1>7, <1>8, <1>9, <1>10 DEF Next, SystemStep
-------------------------------------------------------------------------------
(* The page's invariant.                                                   *)

\* The page waits for one lookup at most, and for none while a command runs; after
\* one was given up without freeing the page, no answer is taken that would free it.
OneThingAtATime ==
    /\ \A l, m \in Lookups : ask[l].current /\ ask[m].current => l = m
    /\ \A l \in Lookups : ask[l].current => page.pending /\ ask[l].at # "idle"
    /\ page.pending => page.busy
    /\ running # {} => page.busy /\ ~page.pending /\ stranded = "no"
    /\ stranded # "no" => page.busy /\ \A l \in Lookups : ~IsCurrentLookup(l)
    /\ \A c, d \in running : c = d

\* Every Telegram status on its way to the page is at least as new as the one a
\* command has shown last.
StatusesAreNew ==
    /\ lastTele <= page.tele /\ page.tele <= tele
    /\ teleRun.tele <= tele
    /\ \A r \in Refreshes : refresh[r].at \in {"loading", "loaded"} =>
          /\ refresh[r].tele <= tele
          /\ refresh[r].fresh => lastTele <= refresh[r].tele

\* The stores that have been answered are known, and those that are shown stay in
\* every catalog the page may still show, but for an overtaken one.
Known(stores) == forgotten \/ stores \subseteq promised \cup DOMAIN release

ShownStayKnown ==
    /\ \A l \in Lookups : /\ answer[l].kind = "matches" => Known(answer[l].stores)
                          /\ ask[l].at = "catalog" => Known(ask[l].stores)
    /\ Known(page.stores)
    /\ \A r \in Refreshes :
          refresh[r].at = "loaded" /\ ~refresh[r].old =>
              \/ page.stores \subseteq refresh[r].catalog
              \/ refresh[r].catalog = {}
              \/ forgotten

-------------------------------------------------------------------------------
(* The page.                                                               *)

PageShaped ==
    /\ DOMAIN page = PageFields
    /\ DOMAIN ask = Lookups /\ \A l \in Lookups : DOMAIN ask[l] = AskFields
    /\ DOMAIN refresh = Refreshes /\ \A r \in Refreshes : DOMAIN refresh[r] = RefreshFields
    /\ DOMAIN teleRun = RunFields
    /\ DOMAIN answer = Lookups

\* Records keep their fields.
LEMMA PageKeepsShape ==
    ASSUME PageShaped, [Next]_vars
    PROVE  PageShaped'
<1>1. CASE CatalogMoves
  <2>1. UNCHANGED <<page, ask, refresh, teleRun>>
    BY <1>1 DEF CatalogMoves, pageVars
  <2>2. DOMAIN answer' = Lookups
    BY <1>1 DEF CatalogMoves, CatalogStep, Load, LoadWithoutCache, LoadFails, Found, NotFound,
         Deadline, StartWrite, NothingToWrite, WriteInTime, WriteLate, WriteFails, GivesUp,
         Answer, PageShaped
  <2>3. QED
    BY <2>1, <2>2 DEF PageShaped
<1>2. ASSUME NEW l \in Lookups,
             ReceiveLookup(l) \/ HearLookup(l) \/ ShowStores(l) \/ CatalogUnread(l)
      PROVE  PageShaped'
  <2>1. CASE ReceiveLookup(l)
    BY <2>1 DEF ReceiveLookup, Begin, GivesUp, Answer, catalogVars, PageShaped, AskFields
  <2>2. CASE HearLookup(l)
    BY <2>2 DEF HearLookup, Hear, EndLookup, NoAsk, PageShaped, AskFields, PageFields
  <2>3. CASE ShowStores(l)
    BY <2>3 DEF ShowStores, Show, EndLookup, NoAsk, catalogVars, PageShaped, AskFields,
         PageFields, RefreshFields
  <2>4. CASE CatalogUnread(l)
    BY <2>4 DEF CatalogUnread, EndLookup, NoAsk, catalogVars, PageShaped, AskFields, PageFields
  <2>5. QED
    BY <1>2, <2>1, <2>2, <2>3, <2>4
<1>3. ASSUME NEW c, CommandEnds(c)
      PROVE  PageShaped'
  BY <1>3 DEF CommandEnds, Unplaced, Refresh, NewRefresh, NoRefresh, catalogVars, PageShaped,
       AskFields, PageFields, RefreshFields
<1>4. CASE TelegramDone \/ TelegramRefused
  BY <1>4 DEF TelegramDone, TelegramRefused, catalogVars, PageShaped, RunFields
<1>5. CASE TelegramAnswered \/ TelegramReread
  <2>1. PICK v : TelegramEnds(v)
    BY <1>5 DEF TelegramAnswered, TelegramReread
  <2>2. QED
    BY <2>1 DEF TelegramEnds, Refresh, AfterAnswer, Revised, NewRefresh, NoRefresh, NoRun,
         catalogVars, PageShaped, PageFields, RefreshFields, RunFields
<1>6. ASSUME NEW r \in Refreshes,
             RefreshStatus(r) \/ RefreshRead(r) \/ RefreshFails(r) \/ RefreshShown(r)
      PROVE  PageShaped'
  <2>1. CASE RefreshStatus(r) \/ RefreshRead(r) \/ RefreshFails(r)
    BY <2>1 DEF RefreshStatus, RefreshRead, RefreshFails, NoRefresh, catalogVars, PageShaped,
         RefreshFields
  <2>2. CASE RefreshShown(r)
    <3>1. DOMAIN page' = PageFields /\ UNCHANGED <<teleRun, answer>>
      BY <2>2 DEF RefreshShown, catalogVars, PageShaped, PageFields
    <3>2. ask' = ask \/ ask' = Unplaced(ask)
      BY <2>2 DEF RefreshShown
    <3>3. DOMAIN ask' = Lookups /\ \A l \in Lookups : DOMAIN ask'[l] = AskFields
      BY <3>2 DEF Unplaced, PageShaped, AskFields
    <3>4. /\ DOMAIN refresh' = Refreshes
          /\ \A q \in Refreshes : DOMAIN refresh'[q] = RefreshFields
      BY <2>2 DEF RefreshShown, NoRefresh, PageShaped, RefreshFields
    <3>5. QED
      BY <3>1, <3>3, <3>4 DEF PageShaped
  <2>3. QED
    BY <1>6, <2>1, <2>2
<1>7. CASE EnterLocation \/ ChooseRegion \/ EditWatch \/ CancelEdit
  BY <1>7 DEF EnterLocation, ChooseRegion, EditWatch, CancelEdit, Redrafted, catalogVars,
       PageShaped, PageFields, AskFields
<1>8. ASSUME NEW l \in Lookups, AskLookup(l)
      PROVE  PageShaped'
  BY <1>8 DEF AskLookup, Outdated, catalogVars, PageShaped, PageFields, AskFields
<1>9. CASE Submit \/ Command \/ Reset
  BY <1>9 DEF Submit, Command, Reset, Outdated, catalogVars, PageShaped, PageFields, AskFields
<1>10. CASE TelegramCommand
  BY <1>10 DEF TelegramCommand, Revised, NoRun, catalogVars, PageShaped, PageFields, RunFields,
       RefreshFields
<1>11. ASSUME NewPage, DOMAIN answer' = Lookups, DOMAIN ask' = Lookups,
              \A l \in Lookups : DOMAIN ask'[l] = AskFields
       PROVE  PageShaped'
  BY <1>11 DEF NewPage, Blank, NoRun, NewRefresh, NoRefresh, PageShaped, PageFields,
       RefreshFields, RunFields
<1>12. CASE Reload
  BY <1>11, <1>12 DEF Reload, NoAsk, catalogVars, PageShaped, AskFields
<1>13. CASE Update
  BY <1>11, <1>13 DEF Update, NoAsk, AskFields
<1>14. CASE WorkerDies
  BY <1>14 DEF WorkerDies, NoAsk, PageShaped, AskFields
<1>15. CASE UNCHANGED vars
  BY <1>15 DEF vars, pageVars, catalogVars, PageShaped
<1>16. QED
  BY <1>1, <1>2, <1>3, <1>4, <1>5, <1>6, <1>7, <1>8, <1>9, <1>10, <1>12, <1>13, <1>14, <1>15
     DEF Next, SystemStep, UserStep

\* A lookup whose region is deselected is asked for as before.
LEMMA UnplacedStaysAsked ==
    ASSUME PageShaped
    PROVE  \A l \in Lookups : /\ Unplaced(ask)[l].at = ask[l].at
                             /\ Unplaced(ask)[l].current = ask[l].current
                             /\ Unplaced(ask)[l].stores = ask[l].stores
                             /\ ~Unplaced(ask)[l].fits
BY DEF Unplaced, PageShaped, AskFields

LEMMA OneThingStays ==
    ASSUME PageShaped, OneThingAtATime, [Next]_vars
    PROVE  OneThingAtATime'
<1>1. ASSUME page'.busy = page.busy, page'.pending = page.pending,
             UNCHANGED <<ask, running, stranded>>
      PROVE  OneThingAtATime'
  BY <1>1 DEF OneThingAtATime, IsCurrentLookup
<1>2. CASE CatalogMoves \/ UNCHANGED vars
  BY <1>1, <1>2 DEF CatalogMoves, pageVars, vars
<1>3. ASSUME NEW l \in Lookups, ReceiveLookup(l)
      PROVE  OneThingAtATime'
  <2>1. \A m \in Lookups : /\ ask'[m].current = ask[m].current /\ ask'[m].fits = ask[m].fits
                           /\ ask[m].at # "idle" => ask'[m].at # "idle"
    BY <1>3 DEF ReceiveLookup, PageShaped, AskFields
  <2>2. QED
    BY <1>3, <2>1 DEF ReceiveLookup, OneThingAtATime, IsCurrentLookup
<1>4. ASSUME NEW l \in Lookups, page' = page \/ (IsCurrentLookup(l) /\ EndLookup),
             ask' = [ask EXCEPT ![l] = NoAsk], UNCHANGED <<running, stranded>>
      PROVE  OneThingAtATime'
  <2>1. /\ ~ask'[l].current
        /\ \A m \in Lookups \ {l} : ask'[m] = ask[m]
    BY <1>4 DEF NoAsk, PageShaped
  <2>2. CASE page' = page
    BY <1>4, <2>1, <2>2 DEF OneThingAtATime, IsCurrentLookup
  <2>3. CASE IsCurrentLookup(l) /\ EndLookup
    <3>1. stranded = "no" /\ running = {} /\ \A m \in Lookups \ {l} : ~ask[m].current
      BY <2>3 DEF OneThingAtATime, IsCurrentLookup
    <3>2. page'.busy = FALSE /\ page'.pending = FALSE
      BY <2>3 DEF EndLookup, PageShaped, PageFields
    <3>3. QED
      BY <1>4, <2>1, <3>1, <3>2 DEF OneThingAtATime
  <2>4. QED
    BY <1>4, <2>2, <2>3
<1>5. ASSUME NEW l \in Lookups, HearLookup(l)
      PROVE  OneThingAtATime'
  <2>1. CASE ask' = [ask EXCEPT ![l] = NoAsk] /\ UNCHANGED page
    BY <1>4, <1>5, <2>1 DEF HearLookup
  <2>2. CASE ask' = [ask EXCEPT ![l] = NoAsk] /\ IsCurrentLookup(l) /\ EndLookup
    BY <1>4, <1>5, <2>2 DEF HearLookup
  <2>3. CASE /\ UNCHANGED page
             /\ ask' = [ask EXCEPT ![l].at = "catalog", ![l].stores = answer[l].stores]
    <3>1. \A m \in Lookups : /\ ask'[m].current = ask[m].current
                             /\ ask'[m].fits = ask[m].fits
                             /\ ask[m].at # "idle" => ask'[m].at # "idle"
      BY <2>3 DEF PageShaped, AskFields
    <3>2. QED
      BY <1>5, <2>3, <3>1 DEF HearLookup, OneThingAtATime, IsCurrentLookup
  <2>4. QED
    BY <1>5, <2>1, <2>2, <2>3 DEF HearLookup
<1>6. ASSUME NEW l \in Lookups, ShowStores(l)
      PROVE  OneThingAtATime'
  <2>1. CASE ~StillCurrentLookup(l) \/ loaded # "catalog"
    BY <1>4, <1>6, <2>1 DEF ShowStores, StillCurrentLookup
  <2>2. CASE StillCurrentLookup(l) /\ loaded = "catalog"
    <3>1. page'.busy = FALSE /\ page'.pending = FALSE
      BY <1>6, <2>2 DEF ShowStores, Show, PageShaped, PageFields
    <3>2. /\ IsCurrentLookup(l) /\ ask' = [ask EXCEPT ![l] = NoAsk]
          /\ UNCHANGED <<running, stranded>>
      BY <1>6, <2>2 DEF ShowStores, StillCurrentLookup
    <3>3. stranded = "no" /\ running = {} /\ \A m \in Lookups \ {l} : ~ask[m].current
      BY <3>2 DEF OneThingAtATime, IsCurrentLookup
    <3>4. \A m \in Lookups : ~ask'[m].current
      BY <3>2, <3>3 DEF NoAsk, PageShaped
    <3>5. QED
      BY <3>1, <3>2, <3>3, <3>4 DEF OneThingAtATime
  <2>3. QED
    BY <2>1, <2>2
<1>7. ASSUME NEW l \in Lookups, CatalogUnread(l)
      PROVE  OneThingAtATime'
  BY <1>4, <1>7 DEF CatalogUnread, StillCurrentLookup
<1>8. ASSUME NEW c, CommandEnds(c)
      PROVE  OneThingAtATime'
  <2>1. c \in running /\ running' = {} /\ stranded = "no" /\ UNCHANGED stranded
    BY <1>8 DEF CommandEnds, OneThingAtATime
  <2>2. page'.busy = FALSE /\ page'.pending = page.pending
    BY <1>8 DEF CommandEnds, PageShaped, PageFields
  <2>3. ask' = ask \/ ask' = Unplaced(ask)
    BY <1>8 DEF CommandEnds
  <2>4. \A l \in Lookups : ask'[l].current = ask[l].current /\ ask'[l].at = ask[l].at
    BY <2>3, UnplacedStaysAsked
  <2>5. QED
    BY <2>1, <2>2, <2>4 DEF OneThingAtATime
<1>9. CASE TelegramDone \/ TelegramRefused
  BY <1>1, <1>9 DEF TelegramDone, TelegramRefused
<1>10. CASE TelegramAnswered \/ TelegramReread
  BY <1>1, <1>10 DEF TelegramAnswered, TelegramReread, TelegramEnds, PageShaped, PageFields
<1>11. ASSUME NEW r \in Refreshes, RefreshStatus(r) \/ RefreshRead(r) \/ RefreshFails(r)
       PROVE  OneThingAtATime'
  BY <1>1, <1>11 DEF RefreshStatus, RefreshRead, RefreshFails
<1>12. ASSUME ask' = Redrafted(ask) \/ ask' = Outdated(ask)
       PROVE  \A l \in Lookups : ~ask'[l].current
  BY <1>12 DEF Redrafted, Outdated, PageShaped, AskFields
<1>13. CASE EnterLocation \/ ChooseRegion \/ EditWatch \/ CancelEdit
  BY <1>12, <1>13 DEF EnterLocation, ChooseRegion, Interactive, EditWatch, CancelEdit, PageShaped,
       PageFields, OneThingAtATime, IsCurrentLookup
<1>14. ASSUME NEW l \in Lookups, AskLookup(l)
       PROVE  OneThingAtATime'
  <2>1. /\ \A m \in Lookups \ {l} : ~ask'[m].current
        /\ ask'[l].at = "sent"
        /\ page'.pending /\ page'.busy
        /\ ~page.busy /\ UNCHANGED <<running, stranded>>
    BY <1>14 DEF AskLookup, Interactive, Outdated, PageShaped, PageFields, AskFields
  <2>2. QED
    BY <2>1 DEF OneThingAtATime
<1>15. CASE Submit \/ Command
  BY <1>15 DEF Submit, Command, Interactive, PageShaped, PageFields, OneThingAtATime,
       IsCurrentLookup
<1>16. CASE Reset
  BY <1>12, <1>16 DEF Reset, PageShaped, PageFields, OneThingAtATime, IsCurrentLookup
<1>17. CASE TelegramCommand
  BY <1>1, <1>17 DEF TelegramCommand, PageShaped, PageFields
<1>18. ASSUME NewPage, \A l \in Lookups : ~ask'[l].current
       PROVE  OneThingAtATime'
  BY <1>18 DEF NewPage, Blank, OneThingAtATime
<1>19. CASE Reload
  BY <1>18, <1>19 DEF Reload, NoAsk
<1>20. CASE Update
  BY <1>18, <1>20 DEF Update, NoAsk
<1>21. CASE WorkerDies
  <2>1. \A l \in Lookups : ask'[l].current => /\ ask[l].current /\ ask'[l].at # "idle"
                                              /\ ask'[l].fits = ask[l].fits
    BY <1>21 DEF WorkerDies, NoAsk, PageShaped, AskFields, OneThingAtATime
  <2>2. QED
    BY <1>21, <2>1 DEF WorkerDies, OneThingAtATime, IsCurrentLookup
<1>22. ASSUME NEW r \in Refreshes, RefreshShown(r)
       PROVE  OneThingAtATime'
  <2>1. page'.busy = page.busy /\ page'.pending = page.pending /\ UNCHANGED running
    BY <1>22 DEF RefreshShown, PageShaped, PageFields
  <2>2. \/ stranded' = stranded /\ ask' = ask
        \/ stranded' = stranded /\ ask' = Unplaced(ask)
        \/ page.pending /\ ask' = Unplaced(ask)
    BY <1>22 DEF RefreshShown
  <2>3. \A l \in Lookups : /\ ask'[l].current = ask[l].current /\ ask'[l].at = ask[l].at
                           /\ ask'[l].fits => ask[l].fits
                           /\ ask' = Unplaced(ask) => ~ask'[l].fits
    BY <2>2, UnplacedStaysAsked
  <2>4. QED
    BY <2>1, <2>2, <2>3 DEF OneThingAtATime, IsCurrentLookup
<1>23. QED
  BY <1>2, <1>3, <1>5, <1>6, <1>7, <1>8, <1>9, <1>10, <1>11, <1>13, <1>14, <1>15, <1>16,
     <1>17, <1>19, <1>20, <1>21, <1>22
     DEF Next, SystemStep, UserStep

StatusesTyped ==
    /\ tele \in Nat /\ lastTele \in Nat /\ page.tele \in Nat /\ teleRun.tele \in Nat
    /\ \A r \in Refreshes : refresh[r].tele \in Nat

\* A refresh begins.
LEMMA NewRefreshIsHarmless ==
    ASSUME PageShaped, StatusesTyped, NEW state, DOMAIN state = Refreshes,
           \A r \in Refreshes : state[r].at \in {"loading", "loaded"} =>
              state[r].tele <= tele /\ ~state[r].fresh,
           \A r \in Refreshes : state[r].tele \in Nat,
           Refresh(state)
    PROVE  \A r \in Refreshes :
              /\ refresh'[r].tele \in Nat
              /\ refresh'[r].at \in {"loading", "loaded"} =>
                    refresh'[r].tele <= tele /\ ~refresh'[r].fresh
BY DEF Refresh, NewRefresh, NoRefresh

LEMMA StatusesStayNew ==
    ASSUME PageShaped, StatusesTyped, StatusesAreNew, [Next]_vars
    PROVE  StatusesTyped' /\ StatusesAreNew'
<1> USE DEF StatusesTyped, StatusesAreNew
<1>1. ASSUME page'.tele = page.tele, UNCHANGED <<tele, lastTele, teleRun>>,
             \A r \in Refreshes : \/ refresh'[r] = refresh[r]
                                  \/ refresh'[r] = NewRefresh
                                  \/ refresh'[r] = NoRefresh
                                  \/ /\ refresh'[r].tele = refresh[r].tele
                                     /\ refresh'[r].fresh = refresh[r].fresh
                                     /\ refresh[r].at \in {"loading", "loaded"}
      PROVE  StatusesTyped' /\ StatusesAreNew'
  <2>1. /\ NewRefresh.at = "status" /\ NewRefresh.tele = 0
        /\ NoRefresh.at = "idle" /\ NoRefresh.tele = 0
    BY DEF NewRefresh, NoRefresh
  <2>2. \A r \in Refreshes : refresh'[r].tele \in Nat
    BY <1>1, <2>1
  <2>3. ASSUME NEW r \in Refreshes, refresh'[r].at \in {"loading", "loaded"}
        PROVE  refresh'[r].tele <= tele /\ (refresh'[r].fresh => lastTele <= refresh'[r].tele)
    <3>1. /\ refresh[r].at \in {"loading", "loaded"}
          /\ refresh'[r].tele = refresh[r].tele
          /\ refresh'[r].fresh = refresh[r].fresh
      BY <1>1, <2>1, <2>3
    <3>2. QED
      BY <3>1
  <2>4. StatusesTyped'
    BY <1>1, <2>2
  <2>5. QED
    BY <1>1, <2>3, <2>4
<1>2. CASE CatalogMoves \/ UNCHANGED vars
  BY <1>1, <1>2 DEF CatalogMoves, pageVars, vars
<1>3. ASSUME NEW l \in Lookups,
             ReceiveLookup(l) \/ HearLookup(l) \/ CatalogUnread(l) \/ AskLookup(l)
      PROVE  StatusesTyped' /\ StatusesAreNew'
  BY <1>1, <1>3 DEF ReceiveLookup, HearLookup, CatalogUnread, AskLookup, EndLookup, PageShaped,
       PageFields
<1>4. ASSUME NEW l \in Lookups, ShowStores(l)
      PROVE  StatusesTyped' /\ StatusesAreNew'
  <2>1. page'.tele = page.tele /\ UNCHANGED <<tele, lastTele, teleRun>>
    BY <1>4 DEF ShowStores, Show, EndLookup, PageShaped, PageFields
  <2>2. \A r \in Refreshes : /\ refresh'[r].at = refresh[r].at
                             /\ refresh'[r].tele = refresh[r].tele
                             /\ refresh'[r].fresh = refresh[r].fresh
    BY <1>4 DEF ShowStores, PageShaped, RefreshFields
  <2>3. QED
    BY <2>1, <2>2
<1>5. ASSUME NEW c, CommandEnds(c)
      PROVE  StatusesTyped' /\ StatusesAreNew'
  <2>1. page'.tele = page.tele /\ UNCHANGED <<tele, lastTele, teleRun>>
    BY <1>5 DEF CommandEnds, PageShaped, PageFields
  <2>2. \A r \in Refreshes : refresh'[r] = refresh[r] \/ refresh'[r] = NewRefresh
    BY <1>5 DEF CommandEnds, Refresh, PageShaped
  <2>3. QED
    BY <1>1, <2>1, <2>2
<1>6. CASE TelegramDone
  BY <1>6 DEF TelegramDone, PageShaped, RunFields
<1>7. CASE TelegramRefused
  BY <1>7 DEF TelegramRefused, PageShaped, RunFields
<1>8. CASE TelegramAnswered \/ TelegramReread
  <2>1. PICK v : v \in Nat /\ v <= tele /\ TelegramEnds(v)
    BY <1>8 DEF TelegramAnswered, TelegramReread
  <2>2. /\ page'.tele = v /\ lastTele' = v /\ tele' = tele /\ teleRun' = NoRun
    BY <2>1 DEF TelegramEnds, PageShaped, PageFields
  <2>3. /\ DOMAIN Revised = Refreshes
        /\ \A r \in Refreshes : /\ Revised[r].tele = refresh[r].tele
                                /\ Revised[r].at = refresh[r].at
                                /\ ~Revised[r].fresh
    BY DEF Revised, PageShaped, RefreshFields
  <2>4. \A r \in Refreshes :
           /\ refresh'[r].tele \in Nat
           /\ refresh'[r].at \in {"loading", "loaded"} =>
                 refresh'[r].tele <= tele /\ ~refresh'[r].fresh
    <3>1. CASE refresh' = Revised
      BY <2>3, <3>1
    <3>2. CASE Refresh(Revised)
      <4> HIDE DEF StatusesTyped, StatusesAreNew
      <4>1. \A r \in Refreshes : Revised[r].tele \in Nat
        BY <2>3 DEF StatusesTyped
      <4>2. \A r \in Refreshes : Revised[r].at \in {"loading", "loaded"} =>
                 Revised[r].tele <= tele /\ ~Revised[r].fresh
        BY <2>3 DEF StatusesAreNew
      <4>3. QED
        BY <2>3, <3>2, <4>1, <4>2, NewRefreshIsHarmless
    <3>3. QED
      BY <2>1, <3>1, <3>2 DEF TelegramEnds, AfterAnswer
  <2>5. QED
    BY <2>1, <2>2, <2>4 DEF NoRun
<1>9. ASSUME NEW r \in Refreshes, RefreshStatus(r)
      PROVE  StatusesTyped' /\ StatusesAreNew'
  <2>1. PICK v \in {tele, page.tele} :
          refresh' = [refresh EXCEPT ![r].at = "loading", ![r].tele = v]
    BY <1>9 DEF RefreshStatus
  <2>2. /\ refresh'[r].tele = v /\ \A q \in Refreshes \ {r} : refresh'[q] = refresh[q]
        /\ UNCHANGED <<page, teleRun, tele, lastTele>>
    BY <1>9, <2>1 DEF RefreshStatus, PageShaped, RefreshFields
  <2>3. v \in Nat /\ lastTele <= v /\ v <= tele
    BY <2>1
  <2>4. \A q \in Refreshes :
           /\ refresh'[q].tele \in Nat
           /\ refresh'[q].at \in {"loading", "loaded"} =>
                 /\ refresh'[q].tele <= tele
                 /\ refresh'[q].fresh => lastTele <= refresh'[q].tele
    BY <2>2, <2>3
  <2>5. QED
    BY <2>2, <2>4
<1>10. ASSUME NEW r \in Refreshes, RefreshRead(r)
       PROVE  StatusesTyped' /\ StatusesAreNew'
  BY <1>1, <1>10 DEF RefreshRead, PageShaped, RefreshFields
<1>11. ASSUME NEW r \in Refreshes, RefreshFails(r)
       PROVE  StatusesTyped' /\ StatusesAreNew'
  BY <1>1, <1>11 DEF RefreshFails, PageShaped
<1>12. ASSUME NEW r \in Refreshes, RefreshShown(r)
       PROVE  StatusesTyped' /\ StatusesAreNew'
  <2>1. /\ page'.tele = IF refresh[r].fresh THEN refresh[r].tele ELSE page.tele
        /\ refresh[r].at = "loaded"
        /\ \A q \in Refreshes : refresh'[q] = refresh[q] \/ refresh'[q] = NoRefresh
        /\ UNCHANGED <<teleRun, tele, lastTele>>
    BY <1>12 DEF RefreshShown, PageShaped, PageFields
  <2>2. QED
    BY <2>1 DEF NoRefresh
<1>13. CASE \/ EnterLocation \/ ChooseRegion \/ EditWatch \/ CancelEdit
            \/ Submit \/ Command \/ Reset
  BY <1>1, <1>13 DEF EnterLocation, ChooseRegion, EditWatch, CancelEdit, Submit, Command, Reset,
       PageShaped, PageFields
<1>14. CASE TelegramCommand
  <2>1. page'.tele = page.tele /\ UNCHANGED <<tele, lastTele>> /\ teleRun'.tele = 0
    BY <1>14 DEF TelegramCommand, NoRun, PageShaped, PageFields
  <2>2. \A r \in Refreshes : /\ refresh'[r].at = refresh[r].at
                             /\ refresh'[r].tele = refresh[r].tele
                             /\ ~refresh'[r].fresh
    BY <1>14 DEF TelegramCommand, Revised, PageShaped, RefreshFields
  <2>3. QED
    BY <2>1, <2>2
<1>15. CASE NewPage
  BY <1>15 DEF NewPage, Blank, NoRun, NewRefresh, NoRefresh
<1>16. CASE Reload \/ Update
  BY <1>15, <1>16 DEF Reload, Update
<1>17. CASE WorkerDies
  BY <1>1, <1>17 DEF WorkerDies
<1>18. QED
  BY <1>2, <1>3, <1>4, <1>5, <1>6, <1>7, <1>8, <1>9, <1>10, <1>11, <1>12, <1>13, <1>14,
     <1>16, <1>17
     DEF Next, SystemStep, UserStep

StoresSound == ShownStayKnown /\ ShownStoresAreInCatalog /\ StaleLookupNotShown

LEMMA KnownAreCatalogued ==
    ASSUME CatalogSound, NEW S, Known(S), loaded = "catalog"
    PROVE  forgotten \/ S \subseteq DOMAIN catalog
BY DEF CatalogSound, PromisedIsCached, LoadedFirst, Known

\* Once known, stores stay so until the release changes.
KeepsKnown ==
    /\ release' = release /\ promised \subseteq promised' /\ (forgotten => forgotten')

\* The page shows the same stores, under the same region if there is still one, or none.
SameOrNone ==
    \/ page'.stores = {}
    \/ /\ page'.stores = page.stores
       /\ page'.region => (page.region /\ (page.fits => page'.fits))

\* The page shows what it did, or no stores; refreshes are what they were, or read
\* nothing yet; what is answered and asked for is known.
LEMMA SameStores ==
    ASSUME StoresSound, KeepsKnown,
           SameOrNone, page'.catalog = page.catalog, overtaken => overtaken',
           \A r \in Refreshes : \/ refresh'[r].at # "loaded"
                                \/ /\ refresh[r].at = "loaded"
                                   /\ refresh'[r].old = refresh[r].old
                                   /\ refresh'[r].catalog = refresh[r].catalog,
           \A l \in Lookups : answer'[l].kind = "matches" =>
               \/ Known(answer[l].stores)'
               \/ answer'[l] = answer[l],
           \A l \in Lookups : ask'[l].at = "catalog" =>
               \/ ask[l].at = "catalog" /\ ask'[l].stores = ask[l].stores
               \/ answer[l].kind = "matches" /\ ask'[l].stores = answer[l].stores
    PROVE  StoresSound'
<1>1. \A S : Known(S) => forgotten' \/ S \subseteq promised' \cup DOMAIN release'
  BY DEF KeepsKnown, Known
<1>2. Known(page.stores)'
  <2>1. CASE page'.stores = {}
    BY <2>1 DEF Known
  <2>2. CASE page'.stores = page.stores
    BY <1>1, <2>2 DEF Known, StoresSound, ShownStayKnown
  <2>3. QED
    BY <2>1, <2>2 DEF SameOrNone
<1>3. ASSUME NEW l \in Lookups
      PROVE  /\ answer'[l].kind = "matches" => Known(answer[l].stores)'
             /\ ask'[l].at = "catalog" => Known(ask[l].stores)'
  <2>1. /\ answer[l].kind = "matches" => Known(answer[l].stores)
        /\ ask[l].at = "catalog" => Known(ask[l].stores)
    BY DEF StoresSound, ShownStayKnown
  <2>2. QED
    BY <1>1, <2>1 DEF Known
<1>4. ASSUME NEW r \in Refreshes, refresh'[r].at = "loaded", ~refresh'[r].old
      PROVE  page'.stores \subseteq refresh'[r].catalog \/ refresh'[r].catalog = {} \/ forgotten'
  <2>1. page.stores \subseteq refresh[r].catalog \/ refresh[r].catalog = {} \/ forgotten
    BY <1>4 DEF StoresSound, ShownStayKnown
  <2>2. QED
    BY <1>4, <2>1 DEF KeepsKnown, SameOrNone
<1>5. ShownStoresAreInCatalog' /\ StaleLookupNotShown'
  BY DEF StoresSound, ShownStoresAreInCatalog, StaleLookupNotShown, KeepsKnown, SameOrNone
<1>6. QED
  BY <1>2, <1>3, <1>4, <1>5 DEF StoresSound, ShownStayKnown

\* What a catalog that has just been read shows.
LEMMA ShowingKeeps ==
    ASSUME CatalogSound, PageShaped, StoresSound, NEW l \in Lookups, ShowStores(l)
    PROVE  StoresSound'
<1>1. /\ UNCHANGED catalogVars /\ overtaken' = overtaken
      /\ ask[l].at = "catalog" /\ ask' = [ask EXCEPT ![l] = NoAsk]
  BY DEF ShowStores
<1>2. KeepsKnown /\ \A m \in Lookups :
         ask'[m].at = "catalog" => ask[m].at = "catalog" /\ ask'[m].stores = ask[m].stores
  BY <1>1 DEF KeepsKnown, catalogVars, NoAsk, PageShaped
<1>3. CASE ~StillCurrentLookup(l) \/ loaded = "none"
  <2>1. SameOrNone /\ page'.catalog = page.catalog /\ UNCHANGED refresh
    BY <1>3 DEF ShowStores, EndLookup, PageShaped, PageFields, SameOrNone
  <2>2. QED
    BY <1>1, <1>2, <2>1, SameStores DEF catalogVars
<1>4. CASE StillCurrentLookup(l) /\ loaded = "catalog"
  <2>1. /\ Show(l)
        /\ refresh' = [r \in Refreshes |-> [refresh[r] EXCEPT !.old = refresh[r].at = "loaded"]]
    BY <1>4 DEF ShowStores
  <2>2. \A r \in Refreshes : refresh'[r].at = "loaded" => refresh'[r].old
    BY <2>1 DEF PageShaped, RefreshFields
  <2>3. Known(page.stores) /\ Known(ask[l].stores) /\ ask[l].fits
    BY <1>1, <1>4 DEF StoresSound, ShownStayKnown, StillCurrentLookup, IsCurrentLookup
  <2>4. /\ page'.catalog = DOMAIN catalog /\ page'.region = page.region
        /\ \/ /\ page'.stores = ask[l].stores /\ page'.fits = ask[l].fits
              /\ ask[l].stores \subseteq DOMAIN catalog
           \/ page'.stores = page.stores /\ page'.fits = page.fits
    BY <2>1 DEF Show, PageShaped, PageFields
  <2>5. forgotten \/ page.stores \subseteq DOMAIN catalog
    BY <1>4, <2>3, KnownAreCatalogued
  <2>6. ShownStoresAreInCatalog' /\ StaleLookupNotShown'
    BY <1>1, <2>3, <2>4, <2>5
       DEF ShownStoresAreInCatalog, StaleLookupNotShown, StoresSound, catalogVars
  <2>7. forgotten' = forgotten /\ promised' = promised /\ release' = release /\ answer' = answer
    BY <1>1 DEF catalogVars
  <2>8. Known(page.stores)'
    BY <2>3, <2>4, <2>7 DEF Known
  <2>9. \A m \in Lookups : /\ answer'[m].kind = "matches" => Known(answer[m].stores)'
                           /\ ask'[m].at = "catalog" => Known(ask[m].stores)'
    BY <1>2, <2>7 DEF StoresSound, ShownStayKnown, Known
  <2>10. QED
    BY <2>2, <2>6, <2>8, <2>9 DEF StoresSound, ShownStayKnown
<1>5. QED
  BY <1>3, <1>4 DEF ShowStores, CatalogSound, LoadedFirst

\* A refresh reads the catalog: it has all the stores that are shown.
LEMMA ReadingKeeps ==
    ASSUME CatalogSound, PageShaped, StoresSound, NEW r \in Refreshes, RefreshRead(r)
    PROVE  StoresSound'
<1>1. /\ UNCHANGED <<page, ask, overtaken>> /\ UNCHANGED catalogVars /\ loaded # "no"
      /\ \A q \in Refreshes \ {r} : refresh'[q] = refresh[q]
      /\ refresh'[r].catalog = DOMAIN catalog
  BY DEF RefreshRead, PageShaped, RefreshFields
<1>2. page.stores \subseteq DOMAIN catalog \/ DOMAIN catalog = {} \/ forgotten
  <2>1. CASE loaded = "none"
    BY <2>1 DEF CatalogSound, LoadedFirst, Nothing
  <2>2. CASE loaded = "catalog"
    BY <2>2, KnownAreCatalogued DEF StoresSound, ShownStayKnown
  <2>3. QED
    BY <1>1, <2>1, <2>2 DEF CatalogSound, LoadedFirst
<1>3. UNCHANGED <<release, promised, forgotten, answer>>
  BY <1>1 DEF catalogVars
<1>4. QED
  BY <1>1, <1>2, <1>3
     DEF StoresSound, ShownStayKnown, ShownStoresAreInCatalog, StaleLookupNotShown, Known

LEMMA RefreshingKeeps ==
    ASSUME PageShaped, StoresSound, NEW r \in Refreshes, RefreshShown(r)
    PROVE  StoresSound'
<1>1. /\ page'.stores = page.stores
      /\ page'.region => (page.region /\ (page.fits => page'.fits))
      /\ page'.catalog = refresh[r].catalog
      /\ overtaken' = (overtaken \/ refresh[r].old) /\ refresh[r].at = "loaded"
      /\ \A q \in Refreshes : refresh'[q] = refresh[q] \/ refresh'[q] = NoRefresh
      /\ \A l \in Lookups : ask'[l].at = ask[l].at /\ ask'[l].stores = ask[l].stores
  <2>1. /\ page'.stores = page.stores /\ page'.catalog = refresh[r].catalog
        /\ page'.region = (page.region /\ refresh[r].catalog # {})
        /\ page'.fits = (page.fits /\ refresh[r].catalog # {})
    BY DEF RefreshShown, PageShaped, PageFields
  <2>2. \A q \in Refreshes : refresh'[q] = refresh[q] \/ refresh'[q] = NoRefresh
    BY DEF RefreshShown, PageShaped
  <2>3. ask' = ask \/ ask' = Unplaced(ask)
    BY DEF RefreshShown
  <2>4. \A l \in Lookups : ask'[l].at = ask[l].at /\ ask'[l].stores = ask[l].stores
    BY <2>3, UnplacedStaysAsked
  <2>5. page'.region => (page.region /\ (page.fits => page'.fits))
    BY <2>1
  <2>6. QED
    BY <2>1, <2>2, <2>4, <2>5 DEF RefreshShown
<1>2. UNCHANGED <<release, promised, forgotten, answer>>
  BY DEF RefreshShown, catalogVars
<1>3. ShownStoresAreInCatalog' /\ StaleLookupNotShown'
  BY <1>1, <1>2
     DEF StoresSound, ShownStayKnown, ShownStoresAreInCatalog, StaleLookupNotShown
<1>4. ASSUME NEW q \in Refreshes, refresh'[q].at = "loaded", ~refresh'[q].old
      PROVE  page'.stores \subseteq refresh'[q].catalog \/ refresh'[q].catalog = {} \/ forgotten'
  <2>1. refresh'[q] = refresh[q]
    BY <1>1, <1>4 DEF NoRefresh
  <2>2. QED
    BY <1>1, <1>2, <1>4, <2>1 DEF StoresSound, ShownStayKnown
<1>5. Known(page.stores)' /\ \A l \in Lookups :
         /\ answer'[l].kind = "matches" => Known(answer[l].stores)'
         /\ ask'[l].at = "catalog" => Known(ask[l].stores)'
  BY <1>1, <1>2 DEF StoresSound, ShownStayKnown, Known
<1>6. QED
  BY <1>3, <1>4, <1>5 DEF StoresSound, ShownStayKnown

\* A new page shows nothing.
LEMMA NewPageKeeps ==
    ASSUME NewPage, \A l \in Lookups : ask'[l].at # "catalog",
           \A l \in Lookups : answer'[l].kind = "matches" => Known(answer[l].stores)'
    PROVE  StoresSound'
<1>1. page'.stores = {} /\ \A r \in Refreshes : refresh'[r].at # "loaded"
  BY DEF NewPage, Blank, NewRefresh, NoRefresh
<1>2. QED
  BY <1>1 DEF StoresSound, ShownStayKnown, ShownStoresAreInCatalog, StaleLookupNotShown, Known

\* The background answers known stores only.
LEMMA AnswersAreKnown ==
    ASSUME CatalogSound, PageShaped, CatalogMoves \/ \E l \in Lookups : Begin(l)
    PROVE  /\ KeepsKnown
           /\ \A l \in Lookups : answer'[l].kind = "matches" =>
                 Known(answer[l].stores)' \/ answer'[l] = answer[l]
<1>1. ASSUME KeepsKnown, NEW l \in Lookups, UNCHANGED answer \/ Answer(l, "failed", {})
      PROVE  \A m \in Lookups : answer'[m].kind = "matches" =>
                Known(answer[m].stores)' \/ answer'[m] = answer[m]
  BY <1>1 DEF Answer, PageShaped
<1>2. CASE Load \/ LoadWithoutCache \/ LoadFails
  <2>1. UNCHANGED <<release, promised, answer>>
    BY <1>2 DEF Load, LoadWithoutCache, LoadFails
  <2>2. forgotten => forgotten'
    BY <1>2 DEF Load, LoadWithoutCache, LoadFails
  <2>3. QED
    BY <2>1, <2>2 DEF KeepsKnown
<1>3. ASSUME NEW l \in Lookups,
             Begin(l) \/ Found(l) \/ NotFound(l) \/ Deadline(l) \/ StartWrite(l)
               \/ WriteLate(l) \/ WriteFails(l)
      PROVE  KeepsKnown /\ (UNCHANGED answer \/ Answer(l, "failed", {}))
  <2>1. KeepsKnown
    <3>1. UNCHANGED <<release, promised, forgotten>>
      BY <1>3 DEF Begin, Found, NotFound, Deadline, StartWrite, WriteLate, WriteFails
    <3>2. QED
      BY <3>1 DEF KeepsKnown
  <2>2. ASSUME GivesUp(l)
        PROVE  UNCHANGED answer \/ Answer(l, "failed", {})
    BY <2>2 DEF GivesUp
  <2>3. UNCHANGED answer \/ Answer(l, "failed", {}) \/ GivesUp(l)
    BY <1>3 DEF Begin, Found, NotFound, Deadline, StartWrite, NothingToWrite, WriteLate,
         WriteFails
  <2>4. QED
    BY <2>1, <2>2, <2>3
<1>4. ASSUME NEW l \in Lookups, WriteInTime(l)
      PROVE  /\ KeepsKnown
             /\ \A m \in Lookups : answer'[m].kind = "matches" =>
                   Known(answer[m].stores)' \/ answer'[m] = answer[m]
  <2>1. KeepsKnown /\ Answer(l, "matches", DOMAIN lookup[l].found)
    BY <1>4 DEF WriteInTime, KeepsKnown
  <2>2. Known(answer[l].stores)'
    BY <1>4, <2>1, WriteInTimeKeeps DEF Answer, Known, PageShaped
  <2>3. QED
    BY <2>1, <2>2 DEF Answer, PageShaped
<1>5. CASE \E l \in Lookups : Begin(l) \/ Found(l) \/ NotFound(l) \/ Deadline(l)
               \/ StartWrite(l) \/ WriteLate(l) \/ WriteFails(l)
  <2>1. PICK l \in Lookups : KeepsKnown /\ (UNCHANGED answer \/ Answer(l, "failed", {}))
    BY <1>3, <1>5
  <2>2. QED
    BY <1>1, <2>1
<1>6. QED
  BY <1>2, <1>4, <1>5 DEF CatalogMoves, CatalogStep

LEMMA StoresStaySound ==
    ASSUME CatalogSound, PageShaped, StoresSound, [Next]_vars
    PROVE  StoresSound'
<1>1. ASSUME UNCHANGED catalogVars, UNCHANGED overtaken,
             SameOrNone, page'.catalog = page.catalog,
             \A r \in Refreshes : \/ refresh'[r].at # "loaded"
                                  \/ /\ refresh[r].at = "loaded"
                                     /\ refresh'[r].old = refresh[r].old
                                     /\ refresh'[r].catalog = refresh[r].catalog,
             \A l \in Lookups : ask'[l].at = "catalog" =>
                ask[l].at = "catalog" /\ ask'[l].stores = ask[l].stores
      PROVE  StoresSound'
  BY <1>1, SameStores DEF catalogVars, KeepsKnown
<1>2. CASE CatalogMoves
  BY <1>2, AnswersAreKnown, SameStores DEF CatalogMoves, pageVars, SameOrNone
<1>3. ASSUME NEW l \in Lookups, ReceiveLookup(l)
      PROVE  StoresSound'
  <2>1. \A m \in Lookups : ask'[m].at = "catalog" =>
           ask[m].at = "catalog" /\ ask'[m].stores = ask[m].stores
    BY <1>3 DEF ReceiveLookup, PageShaped, AskFields
  <2>2. QED
    BY <1>3, <2>1, AnswersAreKnown, SameStores DEF ReceiveLookup, SameOrNone
<1>4. ASSUME NEW l \in Lookups, HearLookup(l)
      PROVE  StoresSound'
  <2>1. /\ SameOrNone /\ page'.catalog = page.catalog /\ UNCHANGED <<refresh, overtaken>>
        /\ UNCHANGED <<release, promised, forgotten>>
    BY <1>4 DEF HearLookup, EndLookup, PageShaped, PageFields, SameOrNone
  <2>2. \A m \in Lookups : answer'[m].kind = "matches" => answer'[m] = answer[m]
    BY <1>4 DEF HearLookup, Hear, NoAnswer, PageShaped
  <2>3. \A m \in Lookups : ask'[m].at = "catalog" =>
               \/ ask[m].at = "catalog" /\ ask'[m].stores = ask[m].stores
               \/ answer[m].kind = "matches" /\ ask'[m].stores = answer[m].stores
    BY <1>4 DEF HearLookup, NoAsk, PageShaped, AskFields
  <2>4. QED
    BY <2>1, <2>2, <2>3, SameStores DEF KeepsKnown
<1>5. ASSUME NEW l \in Lookups, ShowStores(l)
      PROVE  StoresSound'
  BY <1>5, ShowingKeeps
<1>6. ASSUME NEW l \in Lookups, CatalogUnread(l)
      PROVE  StoresSound'
  BY <1>1, <1>6 DEF CatalogUnread, EndLookup, NoAsk, PageShaped, PageFields, SameOrNone
<1>7. ASSUME NEW c, CommandEnds(c)
      PROVE  StoresSound'
  <2>1. /\ SameOrNone /\ page'.catalog = page.catalog
        /\ UNCHANGED catalogVars /\ UNCHANGED overtaken
    BY <1>7 DEF CommandEnds, PageShaped, PageFields, SameOrNone
  <2>2. \A r \in Refreshes : refresh'[r] = refresh[r] \/ refresh'[r].at = "status"
    BY <1>7 DEF CommandEnds, Refresh, NewRefresh, NoRefresh, PageShaped
  <2>3. \A l \in Lookups : ask'[l].at = ask[l].at /\ ask'[l].stores = ask[l].stores
    BY <1>7, UnplacedStaysAsked DEF CommandEnds
  <2>4. QED
    BY <1>1, <2>1, <2>2, <2>3
<1>8. CASE TelegramDone \/ TelegramRefused
  BY <1>1, <1>8 DEF TelegramDone, TelegramRefused, SameOrNone
<1>9. ASSUME NEW state, state = refresh \/ state = Revised,
             refresh' = state \/ Refresh(state)
      PROVE  \A r \in Refreshes : \/ refresh'[r].at # "loaded"
                                  \/ /\ refresh[r].at = "loaded"
                                     /\ refresh'[r].old = refresh[r].old
                                     /\ refresh'[r].catalog = refresh[r].catalog
  <2>1. /\ DOMAIN state = Refreshes
        /\ \A r \in Refreshes : /\ state[r].at = refresh[r].at
                                /\ state[r].old = refresh[r].old
                                /\ state[r].catalog = refresh[r].catalog
    BY <1>9 DEF Revised, PageShaped, RefreshFields
  <2>2. QED
    BY <1>9, <2>1 DEF Refresh, NewRefresh, NoRefresh
<1>10. CASE TelegramAnswered \/ TelegramReread
  <2>1. PICK v : TelegramEnds(v)
    BY <1>10 DEF TelegramAnswered, TelegramReread
  <2>2. /\ SameOrNone /\ page'.catalog = page.catalog
        /\ UNCHANGED catalogVars /\ UNCHANGED <<overtaken, ask>>
    BY <2>1 DEF TelegramEnds, PageShaped, PageFields, SameOrNone
  <2>3. QED
    BY <1>1, <1>9, <2>1, <2>2 DEF TelegramEnds, AfterAnswer
<1>11. ASSUME NEW r \in Refreshes, RefreshStatus(r) \/ RefreshFails(r)
       PROVE  StoresSound'
  BY <1>1, <1>11 DEF RefreshStatus, RefreshFails, NoRefresh, PageShaped, RefreshFields,
     SameOrNone
<1>12. ASSUME NEW r \in Refreshes, RefreshRead(r) \/ RefreshShown(r)
       PROVE  StoresSound'
  BY <1>12, ReadingKeeps, RefreshingKeeps
<1>13. ASSUME ask' = Redrafted(ask) \/ ask' = Outdated(ask)
       PROVE  \A l \in Lookups : ask'[l].at = ask[l].at /\ ask'[l].stores = ask[l].stores
  BY <1>13 DEF Redrafted, Outdated, PageShaped, AskFields
<1>14. CASE EnterLocation \/ ChooseRegion \/ EditWatch \/ CancelEdit
  BY <1>1, <1>13, <1>14 DEF EnterLocation, ChooseRegion, EditWatch, CancelEdit, PageShaped,
     PageFields, SameOrNone
<1>15. CASE Submit \/ Command
  BY <1>1, <1>15 DEF Submit, Command, PageShaped, PageFields, SameOrNone
<1>16. CASE Reset
  BY <1>1, <1>13, <1>16 DEF Reset, PageShaped, PageFields, SameOrNone
<1>17. ASSUME NEW l \in Lookups, AskLookup(l)
       PROVE  StoresSound'
  <2>1. \A m \in Lookups : ask'[m].at = "catalog" =>
           ask[m].at = "catalog" /\ ask'[m].stores = ask[m].stores
    BY <1>17 DEF AskLookup, Outdated, PageShaped, AskFields
  <2>2. QED
    BY <1>1, <1>17, <2>1 DEF AskLookup, PageShaped, PageFields, SameOrNone
<1>18. CASE TelegramCommand
  BY <1>1, <1>9, <1>18 DEF TelegramCommand, PageShaped, PageFields, SameOrNone
<1>19. CASE Reload
  <2>1. NewPage /\ \A l \in Lookups : ask'[l].at # "catalog"
    BY <1>19 DEF Reload, NoAsk
  <2>2. \A l \in Lookups : answer'[l].kind = "matches" => Known(answer[l].stores)'
    BY <1>19 DEF Reload, catalogVars, StoresSound, ShownStayKnown, Known
  <2>3. QED
    BY <2>1, <2>2, NewPageKeeps
<1>20. CASE Update
  BY <1>20, NewPageKeeps DEF Update, NoAsk, NoAnswer
<1>21. CASE WorkerDies
  <2>1. KeepsKnown /\ UNCHANGED <<page, refresh, overtaken>>
    BY <1>21 DEF WorkerDies, CatalogDie, KeepsKnown
  <2>2. \A l \in Lookups : answer'[l].kind # "matches"
    BY <1>21 DEF WorkerDies, NoAnswer
  <2>3. \A l \in Lookups : ask'[l].at = "catalog" =>
           ask[l].at = "catalog" /\ ask'[l].stores = ask[l].stores
    BY <1>21 DEF WorkerDies, NoAsk, PageShaped, AskFields
  <2>4. QED
    BY <2>1, <2>2, <2>3, SameStores DEF SameOrNone
<1>22. CASE UNCHANGED vars
  BY <1>1, <1>22 DEF vars, pageVars, SameOrNone
<1>23. QED
  BY <1>2, <1>3, <1>4, <1>5, <1>6, <1>7, <1>8, <1>10, <1>11, <1>12, <1>14, <1>15, <1>16,
     <1>17, <1>18, <1>19, <1>20, <1>21, <1>22
     DEF Next, SystemStep, UserStep

-------------------------------------------------------------------------------
(* The theorems.                                                           *)

PInv ==
    /\ CatalogSound /\ PageShaped
    /\ OneThingAtATime
    /\ StatusesTyped /\ StatusesAreNew
    /\ StoresSound

LEMMA InitSound == Init => PInv
<1> SUFFICES ASSUME Init PROVE PInv
  OBVIOUS
<1>1. CatalogSound
  BY DEF Init, CatalogInit, CatalogSound, LookupsSound, Lookup, LookupFields, NoLookup,
     OnlyTheHeadWrites, LoadedFirst, PromisedIsCached, PublishedIsStored, Agree, Nothing
<1>2. PageShaped
  BY DEF Init, CatalogInit, PageShaped, PageFields, AskFields, RefreshFields, RunFields, Blank,
     NoAsk, NewRefresh, NoRefresh, NoRun
<1>3. OneThingAtATime
  BY DEF Init, OneThingAtATime, Blank, NoAsk
<1>4. StatusesTyped /\ StatusesAreNew
  BY DEF Init, StatusesTyped, StatusesAreNew, Blank, NewRefresh, NoRefresh, NoRun
<1>5. StoresSound
  BY DEF Init, CatalogInit, StoresSound, ShownStayKnown, ShownStoresAreInCatalog,
     StaleLookupNotShown, Known, Blank, NoAsk, NoAnswer, NewRefresh, NoRefresh
<1>6. QED
  BY <1>1, <1>2, <1>3, <1>4, <1>5 DEF PInv

LEMMA NextKeepsSound == PInv /\ [Next]_vars => PInv'
BY NextKeepsCatalog, PageKeepsShape, OneThingStays, StatusesStayNew, StoresStaySound DEF PInv

\* The catalog and the page keep their invariant.
THEOREM PInvAlways == Spec => []PInv
BY InitSound, NextKeepsSound, PTL DEF Spec

\* What a lookup has answered is packaged or stored, whatever deadlines, failed writes
\* and restarts of the worker come between.
THEOREM DiscoveriesAreSafe == Spec => []DiscoveriesSurvive
<1>1. PInv => DiscoveriesSurvive
  BY DEF PInv, CatalogSound, PromisedIsCached, DiscoveriesSurvive
<1>2. QED
  BY <1>1, PInvAlways, PTL

\* What catalog.ts publishes, and routes checks by, is stored: a write that loses its
\* race against the deadline is not published, a failed one neither.
THEOREM PublishedStoresAreStored == Spec => []PublishedIsStored
<1>1. PInv => PublishedIsStored
  BY DEF PInv, CatalogSound
<1>2. QED
  BY <1>1, PInvAlways, PTL

\* No lookup moves a store of a living worker's catalog to another record.
THEOREM RoutesStay == Spec => RoutesAreStable
<1>1. ASSUME [Next]_vars, PInv
      PROVE  [loaded = "catalog" /\ loaded' = "catalog"
                => DOMAIN catalog \subseteq DOMAIN catalog' /\ Agree(catalog, catalog')]_vars
  <2> SUFFICES ASSUME loaded = "catalog", loaded' = "catalog"
               PROVE  DOMAIN catalog \subseteq DOMAIN catalog' /\ Agree(catalog, catalog')
    OBVIOUS
  <2>1. CASE catalog' = catalog
    BY <2>1 DEF Agree
  <2>2. ASSUME NEW l \in Lookups, WriteInTime(l)
        PROVE  DOMAIN catalog \subseteq DOMAIN catalog' /\ Agree(catalog, catalog')
    <3>1. catalog' = Over(catalog, lookup[l].next)
      BY <2>2 DEF WriteInTime, Published
    <3>2. QED
      BY <3>1, OverIsBoth
  <2>3. CASE CatalogMoves
    BY <2>1, <2>2, <2>3
       DEF CatalogMoves, CatalogStep, Load, LoadWithoutCache, LoadFails, Found, NotFound, Deadline,
           StartWrite, WriteLate, WriteFails
  <2>4. CASE \E l \in Lookups :
               ReceiveLookup(l) \/ HearLookup(l) \/ ShowStores(l) \/ CatalogUnread(l)
    BY <2>1, <2>4 DEF ReceiveLookup, Begin, HearLookup, ShowStores, CatalogUnread, catalogVars
  <2>5. CASE \E c \in {"save", "command"} : CommandEnds(c)
    BY <2>1, <2>5 DEF CommandEnds, catalogVars
  <2>6. CASE TelegramDone \/ TelegramRefused \/ TelegramAnswered \/ TelegramReread
    BY <2>1, <2>6 DEF TelegramDone, TelegramRefused, TelegramAnswered, TelegramReread,
         TelegramEnds, catalogVars
  <2>7. CASE \E r \in Refreshes :
               RefreshStatus(r) \/ RefreshRead(r) \/ RefreshFails(r) \/ RefreshShown(r)
    BY <2>1, <2>7 DEF RefreshStatus, RefreshRead, RefreshFails, RefreshShown, catalogVars
  <2>8. CASE UserStep
    BY <2>1, <2>8
       DEF UserStep, EnterLocation, ChooseRegion, EditWatch, CancelEdit, Submit, Command, Reset,
           TelegramCommand, Reload, AskLookup, catalogVars
  <2>9. CASE WorkerDies \/ Update
    BY <2>9 DEF WorkerDies, Update, CatalogDie
  <2>10. CASE UNCHANGED vars
    BY <2>1, <2>10 DEF vars, catalogVars
  <2>11. QED
    BY <1>1, <2>3, <2>4, <2>5, <2>6, <2>7, <2>8, <2>9, <2>10 DEF Next, SystemStep
<1>2. QED
  BY <1>1, PInvAlways, PTL DEF Spec, RoutesAreStable

\* The page is busy while a command runs, however lookups, edits, resets and reloads
\* interleave with it.
THEOREM CommandsKeepThePageBusy == Spec => []CommandKeepsPageBusy
<1>1. PInv => CommandKeepsPageBusy
  BY DEF PInv, OneThingAtATime, CommandKeepsPageBusy
<1>2. QED
  BY <1>1, PInvAlways, PTL

\* The stores that can be chosen are in the catalog the watch is built from, but for
\* those of an overtaken refresh.
THEOREM ShownStoresAreSound == Spec => []ShownStoresAreInCatalog
<1>1. PInv => ShownStoresAreInCatalog
  BY DEF PInv, StoresSound
<1>2. QED
  BY <1>1, PInvAlways, PTL

\* The stores that are shown under a region were found for it and for the location
\* shown: no answer that comes after its draft was changed is shown under the new one,
\* and no region is put over the stores that another one, or a refresh without a
\* catalog, has left on the page.
THEOREM StaleLookupsAreNeverShown == Spec => []StaleLookupNotShown
<1>1. PInv => StaleLookupNotShown
  BY DEF PInv, StoresSound
<1>2. QED
  BY <1>1, PInvAlways, PTL

\* No refresh, however late, puts back an older Telegram status than a command has
\* shown.
THEOREM TelegramStatusIsNeverStale == Spec => []TelegramStatusIsNotStale
<1>1. PInv => TelegramStatusIsNotStale
  BY DEF PInv, StatusesTyped, StatusesAreNew, TelegramStatusIsNotStale
<1>2. QED
  BY <1>1, PInvAlways, PTL
================================================================================
