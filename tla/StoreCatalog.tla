----------------------------- MODULE StoreCatalog -----------------------------
(***************************************************************************)
(* LocalRuntimeCatalog (apps/extension/src/runtime/catalog.ts) with the    *)
(* lookup provider of runtime/apple-store-lookup.ts, for one market.       *)
(* Stores are numbers, their records (name, address, poll location) are    *)
(* model values.  Lookups run concurrently.  What one has discovered is    *)
(* written to the store cache; the physical writes pass a gate one after   *)
(* the other, and a lookup whose deadline has passed answers at once while *)
(* its write may still be under way.                                       *)
(***************************************************************************)
EXTENDS Naturals, Sequences, FiniteSets, Functions

CONSTANTS
    Lookups,    \* the lookups that may be under way at the same time
    Bundles,    \* the stores of the packaged catalogs, one per release
    Finds,      \* what the provider may find
    MaxStores   \* MAX_DISCOVERED_STORES_PER_MARKET

ASSUME CatalogConstants == MaxStores \in Nat

VARIABLES
    release,    \* the packaged catalog of the installed release
    stored,     \* the store cache in chrome.storage.local: number |-> record
    loaded,     \* loadBundled has run: "no", "catalog" or "none" (unusable)
    cache,      \* publicStoreCache
    catalog,    \* the stores of the current catalog
    lookup,     \* the lookups
    answer,     \* what their callers have been told, and have not heard yet
    gate,       \* the commits that wait for the physical write, the running one first
    promised,   \* ghost: the stores that lookups have answered
    forgotten   \* ghost: loadBundled could not use the stored cache

catalogVars == <<release, stored, loaded, cache, catalog, lookup, answer, gate,
                 promised, forgotten>>

Nothing == <<>>

\* f, and g where f says nothing.
Over(f, g) == [n \in DOMAIN f \cup DOMAIN g |-> IF n \in DOMAIN f THEN f[n] ELSE g[n]]

Agree(f, g) == \A n \in DOMAIN f \cap DOMAIN g : f[n] = g[n]

NoLookup == [at |-> "idle", late |-> FALSE, base |-> Nothing, found |-> Nothing, next |-> Nothing]

NoAnswer == [kind |-> "none", stores |-> {}]

Become(l, h) == lookup' = [lookup EXCEPT ![l] = h]

Answer(l, kind, stores) == answer' = [answer EXCEPT ![l] = [kind |-> kind, stores |-> stores]]

\* The lookup is over, without a match; a late one has been answered before.
GivesUp(l) ==
    /\ Become(l, NoLookup)
    /\ IF lookup[l].late THEN UNCHANGED answer ELSE Answer(l, "failed", {})

-------------------------------------------------------------------------------
(* loadBundled.                                                            *)

\* mergeCachedStores: a bundled record is never replaced, and one that differs
\* makes the whole cache unusable.
Mergeable(bundle, c) == Agree(bundle, c) /\ Cardinality(DOMAIN Over(bundle, c)) <= MaxStores

\* The packaged catalog is usable, and the cache is read.
Load ==
    /\ loaded = "no"
    /\ loaded' = "catalog"
    /\ IF Mergeable(release, stored)
       THEN cache' = stored /\ catalog' = Over(release, stored) /\ UNCHANGED forgotten
       ELSE cache' = Nothing /\ catalog' = release /\ forgotten' = TRUE
    /\ UNCHANGED <<release, stored, lookup, answer, gate, promised>>

\* The packaged catalog is usable, but the cache is not: its read failed or timed out.
LoadWithoutCache ==
    /\ loaded = "no"
    /\ loaded' = "catalog" /\ forgotten' = (forgotten \/ stored # Nothing)
    /\ cache' = Nothing /\ catalog' = release
    /\ UNCHANGED <<release, stored, lookup, answer, gate, promised>>

\* The packaged catalog cannot be fetched, read or validated in time.
LoadFails ==
    /\ loaded = "no"
    /\ loaded' = "none"
    /\ catalog' = Nothing
    /\ UNCHANGED <<release, stored, cache, lookup, answer, gate, promised, forgotten>>

-------------------------------------------------------------------------------
(* lookupStores.                                                           *)

Begin(l) ==
    /\ loaded # "no" /\ lookup[l] = NoLookup /\ answer[l] = NoAnswer
    /\ IF loaded = "none"
       THEN GivesUp(l)
       ELSE Become(l, [NoLookup EXCEPT !.at = "asking", !.base = catalog]) /\ UNCHANGED answer
    /\ UNCHANGED <<release, stored, loaded, cache, catalog, gate, promised, forgotten>>

\* The provider answers in time with stores.  Known stores keep the record they had
\* when the lookup began.  The commit joins the gate.
Found(l) ==
    /\ lookup[l].at = "asking"
    /\ \E f \in Finds :
          Become(l, [lookup[l] EXCEPT !.at = "queued",
                                      !.found = Restrict(Over(lookup[l].base, f), DOMAIN f)])
    /\ gate' = Append(gate, l)
    /\ UNCHANGED <<release, stored, loaded, cache, catalog, answer, promised, forgotten>>

\* It is throttled or blocked, cannot be reached, or says something that is no
\* answer.
NotFound(l) ==
    /\ lookup[l].at = "asking"
    /\ GivesUp(l)
    /\ UNCHANGED <<release, stored, loaded, cache, catalog, gate, promised, forgotten>>

\* Mutant: the deadline opens the gate although the write is under way.
HastyDeadline(l) ==
    /\ lookup[l].at \in {"asking", "queued", "writing"} /\ ~lookup[l].late
    /\ Become(l, IF lookup[l].at = "asking" THEN NoLookup ELSE [lookup[l] EXCEPT !.late = TRUE])
    /\ Answer(l, "failed", {})
    /\ gate' = SelectSeq(gate, LAMBDA x : x # l)
    /\ UNCHANGED <<release, stored, loaded, cache, catalog, promised, forgotten>>

\* The deadline passes: the caller hears "unknown"; what waits at the gate or is
\* being written goes on by itself.
Deadline(l) ==
    /\ lookup[l].at \in {"asking", "queued", "writing"} /\ ~lookup[l].late
    /\ Become(l, IF lookup[l].at = "asking" THEN NoLookup ELSE [lookup[l] EXCEPT !.late = TRUE])
    /\ Answer(l, "failed", {})
    /\ UNCHANGED <<release, stored, loaded, cache, catalog, gate, promised, forgotten>>

-------------------------------------------------------------------------------
(* commitDiscoveredStores.                                                 *)

HasGate(l) == gate # <<>> /\ Head(gate) = l

Release == gate' = Tail(gate)

\* What the cache becomes: the stores it has keep their records.
Discovered(l) == Over(cache, Restrict(lookup[l].found, DOMAIN lookup[l].found \ DOMAIN catalog))

\* Mutant: the catalog is built from the packaged stores and what l has found.
OnlyFound(l) == Over(release, lookup[l].found)

\* What the catalog becomes.
Published(l) == Over(catalog, lookup[l].next)

\* Mutant: a commit that writes nothing does not open the gate.
KeepsGate(l) == GivesUp(l) /\ UNCHANGED gate

\* The commit is over without a write.
NothingToWrite(l) == GivesUp(l) /\ Release

\* The turn of l.  A late commit, and one that would exceed the bound, write
\* nothing.
StartWrite(l) ==
    /\ HasGate(l) /\ lookup[l].at = "queued"
    /\ LET next == Discovered(l)
       IN IF lookup[l].late \/ ~Mergeable(catalog, next)
          THEN NothingToWrite(l)
          ELSE /\ Become(l, [lookup[l] EXCEPT !.at = "writing", !.next = next])
               /\ UNCHANGED <<answer, gate>>
    /\ UNCHANGED <<release, stored, loaded, cache, catalog, promised, forgotten>>

\* The write has taken effect in time: the cache and the catalog are replaced
\* together, before the gate opens.
WriteInTime(l) ==
    /\ HasGate(l) /\ lookup[l].at = "writing" /\ ~lookup[l].late
    /\ stored' = lookup[l].next
    /\ cache' = lookup[l].next
    /\ catalog' = Published(l)
    /\ promised' = promised \cup (DOMAIN lookup[l].found \ DOMAIN release)
    /\ Become(l, NoLookup) /\ Answer(l, "matches", DOMAIN lookup[l].found)
    /\ Release
    /\ UNCHANGED <<release, loaded, forgotten>>

\* It takes effect after the caller has given up: only the gate opens.
WriteLate(l) ==
    /\ lookup[l].at = "writing" /\ lookup[l].late
    /\ stored' = lookup[l].next
    /\ GivesUp(l)
    /\ IF HasGate(l) THEN Release ELSE UNCHANGED gate
    /\ UNCHANGED <<release, loaded, cache, catalog, promised, forgotten>>

\* It fails.
WriteFails(l) ==
    /\ lookup[l].at = "writing"
    /\ GivesUp(l)
    /\ IF HasGate(l) THEN Release ELSE UNCHANGED gate
    /\ UNCHANGED <<release, stored, loaded, cache, catalog, promised, forgotten>>

-------------------------------------------------------------------------------
CatalogInit ==
    /\ release \in Bundles
    /\ stored = Nothing /\ loaded = "no"
    /\ cache = Nothing /\ catalog = Nothing
    /\ lookup = [l \in Lookups |-> NoLookup]
    /\ answer = [l \in Lookups |-> NoAnswer]
    /\ gate = <<>>
    /\ promised = {} /\ forgotten = FALSE

CatalogStep(l) ==
    \/ Found(l) \/ NotFound(l) \/ Deadline(l)
    \/ StartWrite(l) \/ WriteInTime(l) \/ WriteLate(l)

\* The worker dies; the next one may be of a new release.  A write that is under way
\* takes effect or does not.
CatalogDie(next) ==
    /\ release' = next
    /\ \/ UNCHANGED stored
       \/ \E l \in Lookups : lookup[l].at = "writing" /\ stored' = lookup[l].next
    /\ loaded' = "no"
    /\ cache' = Nothing /\ catalog' = Nothing
    /\ lookup' = [l \in Lookups |-> NoLookup]
    /\ gate' = <<>>
    /\ UNCHANGED <<promised, forgotten>>
===============================================================================
