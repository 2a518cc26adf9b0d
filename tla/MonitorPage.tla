------------------------------ MODULE MonitorPage ------------------------------
(***************************************************************************)
(* The settings page (apps/extension/src/ui/view.ts with the controllers   *)
(* of ui/runtime-controller.ts and ui/telegram-runtime-controller.ts), on  *)
(* top of the store catalog of the background it asks.  The page keeps one *)
(* busy flag for lookups and monitor commands, another one for Personal    *)
(* Telegram, and a generation per lookup: an answer is dropped when the    *)
(* draft or the generation it was asked for is gone.  The generations, and *)
(* the revision of the Telegram status, are only compared with the current *)
(* one: here they are flags of the requests.  A catalog is the set of its  *)
(* stores, and the empty set is what stands for the null that getCatalog   *)
(* answers without one: packaged catalogs have stores.                     *)
(***************************************************************************)
EXTENDS StoreCatalog

CONSTANTS
    Refreshes,   \* the refreshes that may be under way at the same time
    MaxClicks,   \* bound: what the user does
    MaxDeaths    \* bound: how often the worker dies

ASSUME PageConstants == MaxClicks \in Nat /\ MaxDeaths \in Nat

VARIABLES
    page,        \* UiState
    ask,         \* the lookups the page waits for
    running,     \* the monitor commands under way
    teleRun,     \* the Telegram command under way
    refresh,     \* the runs of refresh()
    tele,        \* the version of the Telegram status in the background
    lastTele,    \* ghost: the version a Telegram command has shown last
    stranded,    \* ghost: what gave up a lookup that keeps the page busy: "no", "cancel",
                 \* "reset" or "refresh"
    overtaken,   \* ghost: a refresh has shown a catalog older than a lookup's
    clicks,      \* what the user has done so far
    deaths       \* how often the worker has died

pageVars == <<page, ask, running, teleRun, refresh, tele, lastTele, stranded,
              overtaken, clicks, deaths>>

vars == <<catalogVars, pageVars>>

\* region: one is selected.  fits: the stores were found for it and the location.
Blank == [busy |-> FALSE, pending |-> FALSE, region |-> FALSE, fits |-> FALSE,
          stores |-> {}, catalog |-> {}, editing |-> FALSE, teleBusy |-> FALSE, tele |-> 0]

NoAsk == [at |-> "idle", current |-> FALSE, fits |-> FALSE, stores |-> {}]

NoRun == [at |-> "idle", disconnect |-> FALSE, tele |-> 0]

NoRefresh == [at |-> "idle", fresh |-> FALSE, tele |-> 0, catalog |-> {}, old |-> FALSE]

NewRefresh == [NoRefresh EXCEPT !.at = "status", !.fresh = TRUE]

Click == clicks < MaxClicks /\ clicks' = clicks + 1

Interactive == ~page.busy /\ ~page.teleBusy

\* The generation moves on: no lookup that was asked before is current.
Outdated(asks) == [l \in Lookups |-> [asks[l] EXCEPT !.current = FALSE]]

\* The market or the location changes too.
Redrafted(asks) == [l \in Lookups |-> [asks[l] EXCEPT !.current = FALSE, !.fits = FALSE]]

\* telegramRevision moves on: no refresh that has begun may show its Telegram status.
Revised == [r \in Refreshes |-> [refresh[r] EXCEPT !.fresh = FALSE]]

\* refresh() is called.
Refresh(state) == \E r \in Refreshes : state[r] = NoRefresh /\ refresh' = [state EXCEPT ![r] = NewRefresh]

-------------------------------------------------------------------------------
(* The draft.                                                              *)

\* The lookups whose region is no longer selected.
Unplaced(asks) == [l \in Lookups |-> [asks[l] EXCEPT !.fits = FALSE]]

\* The location is typed: this gives up a pending lookup.  A reset during a lookup
\* does not redraw the page, so it can still be typed then (until something else
\* redraws it: that is not told apart).
EnterLocation ==
    /\ Click
    /\ ~page.teleBusy
    /\ page.busy => page.pending \/ stranded = "reset"
    /\ page' = [page EXCEPT !.pending = FALSE, !.busy = FALSE, !.stores = {}, !.fits = FALSE]
    /\ ask' = Redrafted(ask)
    /\ stranded' = "no"
    /\ UNCHANGED <<running, teleRun, refresh, tele, lastTele, overtaken, deaths, catalogVars>>

\* A region, another one or none is chosen: not while a lookup is pending.  This is
\* not counted as a click, for nothing can be looked up before.
ChooseRegion ==
    /\ Interactive /\ page.catalog # {}
    /\ \E chosen \in {TRUE, ~page.region} :
          page' = [page EXCEPT !.region = chosen, !.stores = {}, !.fits = FALSE]
    /\ ask' = Redrafted(ask)
    /\ UNCHANGED <<running, teleRun, refresh, tele, lastTele, stranded, overtaken, clicks,
                   deaths, catalogVars>>

\* Edit on the card of a watch.
EditWatch ==
    /\ Click
    /\ ~page.busy /\ page.catalog # {}
    /\ page' = [page EXCEPT !.pending = FALSE, !.region = TRUE, !.stores = {}, !.fits = FALSE,
                            !.editing = TRUE]
    /\ ask' = Redrafted(ask)
    /\ UNCHANGED <<running, teleRun, refresh, tele, lastTele, stranded, overtaken, deaths, catalogVars>>

\* Cancel edit, which is never disabled: it gives up a pending lookup, but busy stays.
CancelEdit ==
    /\ Click
    /\ page.editing
    /\ page' = [page EXCEPT !.pending = FALSE, !.region = FALSE, !.stores = {}, !.fits = FALSE,
                            !.editing = FALSE]
    /\ ask' = Redrafted(ask)
    /\ stranded' = IF page.pending \/ stranded # "no" THEN "cancel" ELSE "no"
    /\ UNCHANGED <<running, teleRun, refresh, tele, lastTele, overtaken, deaths, catalogVars>>

-------------------------------------------------------------------------------
(* The lookup of stores.                                                   *)

Idle(l) == ask[l] = NoAsk /\ lookup[l] = NoLookup /\ answer[l] = NoAnswer

\* Find stores in the region.  Any idle lookup serves.
AskLookup(l) ==
    /\ Click
    /\ Interactive /\ page.region
    /\ Idle(l) /\ l = CHOOSE m \in Lookups : Idle(m)
    /\ page' = [page EXCEPT !.pending = TRUE, !.busy = TRUE]
    /\ ask' = [Outdated(ask) EXCEPT ![l] =
                  [at |-> "sent", current |-> TRUE, fits |-> TRUE, stores |-> {}]]
    /\ UNCHANGED <<running, teleRun, refresh, tele, lastTele, stranded, overtaken, deaths, catalogVars>>

\* The message reaches the background.
ReceiveLookup(l) ==
    /\ ask[l].at \in {"sent", "gone"}
    /\ Begin(l)
    /\ ask' = [ask EXCEPT ![l].at = IF @ = "sent" THEN "asked" ELSE "lost"]
    /\ UNCHANGED <<page, running, teleRun, refresh, tele, lastTele, stranded, overtaken, clicks, deaths>>

\* Mutant: an answer is taken whatever the user has done since.
CurrentEver(l) == ask[l].at # "lost"

\* isCurrentLookup
IsCurrentLookup(l) == ask[l].current /\ ask[l].fits

\* Mutant: the second time the generation is not looked at.
CurrentOnce(l) == TRUE

\* isCurrentLookup again, after the catalog has been awaited.
StillCurrentLookup(l) == IsCurrentLookup(l)

Hear(l) == answer' = [answer EXCEPT ![l] = NoAnswer]

\* Mutant: the busy flag is only reset when stores are shown.
StayBusy == page' = [page EXCEPT !.pending = FALSE]

EndLookup == page' = [page EXCEPT !.pending = FALSE, !.busy = FALSE]

\* The lookup's answer.  Stores are shown only after the catalog has been read again.
HearLookup(l) ==
    /\ answer[l] # NoAnswer /\ ask[l].at \in {"asked", "lost"}
    /\ Hear(l)
    /\ \/ /\ ask[l].at = "lost" \/ ~IsCurrentLookup(l)
          /\ ask' = [ask EXCEPT ![l] = NoAsk]
          /\ UNCHANGED page
       \/ /\ ask[l].at = "asked" /\ IsCurrentLookup(l)
          /\ IF answer[l].kind = "matches"
             THEN /\ ask' = [ask EXCEPT ![l].at = "catalog", ![l].stores = answer[l].stores]
                  /\ UNCHANGED page
             ELSE ask' = [ask EXCEPT ![l] = NoAsk] /\ EndLookup
    /\ UNCHANGED <<running, teleRun, refresh, tele, lastTele, stranded, overtaken, clicks, deaths>>
    /\ UNCHANGED <<release, stored, loaded, cache, catalog, lookup, gate, promised, forgotten>>

\* Mutant: the catalog that was read is not kept.
ShowOnTop(l) == page' = [page EXCEPT !.pending = FALSE, !.busy = FALSE, !.fits = ask[l].fits,
                                     !.stores = ask[l].stores]

\* What the page shows, with the catalog that has just been read: without all the
\* stores, or without any, it keeps those it shows.
Show(l) ==
    LET usable == ask[l].stores \subseteq DOMAIN catalog /\ ask[l].stores # {}
    IN page' = [page EXCEPT !.pending = FALSE, !.busy = FALSE, !.catalog = DOMAIN catalog,
                            !.fits = IF usable THEN ask[l].fits ELSE @,
                            !.stores = IF usable THEN ask[l].stores ELSE @]

\* The catalog has been read.  The stores are shown if it has all of them; a
\* background without a catalog is a failure.
ShowStores(l) ==
    /\ ask[l].at = "catalog" /\ loaded # "no"
    /\ \/ /\ ~StillCurrentLookup(l)
          /\ UNCHANGED <<page, refresh>>
       \/ /\ StillCurrentLookup(l) /\ loaded = "none"
          /\ EndLookup /\ UNCHANGED refresh
       \/ /\ StillCurrentLookup(l) /\ loaded = "catalog"
          /\ Show(l)
          /\ refresh' = [r \in Refreshes |-> [refresh[r] EXCEPT !.old = refresh[r].at = "loaded"]]
    /\ ask' = [ask EXCEPT ![l] = NoAsk]
    /\ UNCHANGED <<running, teleRun, tele, lastTele, stranded, overtaken, clicks, deaths, catalogVars>>

\* The catalog cannot be read.
CatalogUnread(l) ==
    /\ ask[l].at = "catalog"
    /\ ask' = [ask EXCEPT ![l] = NoAsk]
    /\ IF StillCurrentLookup(l) THEN EndLookup ELSE UNCHANGED page
    /\ UNCHANGED <<running, teleRun, refresh, tele, lastTele, stranded, overtaken, clicks, deaths, catalogVars>>

-------------------------------------------------------------------------------
(* Monitor commands.                                                       *)

\* Save changes or Create watch.  An edited watch keeps its stores.
Submit ==
    /\ Click
    /\ Interactive /\ page.catalog # {} /\ page.region
    /\ page.editing \/ (page.stores # {} /\ page.stores \subseteq page.catalog)
    /\ page' = [page EXCEPT !.busy = TRUE]
    /\ running' = running \cup {"save"}
    /\ UNCHANGED <<ask, teleRun, refresh, tele, lastTele, stranded, overtaken, deaths, catalogVars>>

\* Start, Check now, Open at Apple, Pause, Delete.
Command ==
    /\ Click
    /\ ~page.busy
    /\ page' = [page EXCEPT !.busy = TRUE]
    /\ running' = running \cup {"command"}
    /\ UNCHANGED <<ask, teleRun, refresh, tele, lastTele, stranded, overtaken, deaths, catalogVars>>

\* Clear local monitor data, which is never disabled: it gives up a pending lookup,
\* but a busy page runs no command.
Reset ==
    /\ Click
    /\ page' = [page EXCEPT !.pending = FALSE, !.busy = TRUE]
    /\ ask' = Outdated(ask)
    /\ stranded' = IF page.pending THEN "reset" ELSE stranded
    /\ running' = IF page.busy THEN running ELSE running \cup {"command"}
    /\ UNCHANGED <<teleRun, refresh, tele, lastTele, overtaken, deaths, catalogVars>>

\* The command succeeds or fails; the page is free before the refresh that follows.
\* A watch that was saved leaves an empty draft behind.
CommandEnds(c) ==
    /\ c \in running
    /\ running' = running \ {c}
    /\ \/ page' = [page EXCEPT !.busy = FALSE] /\ UNCHANGED ask
       \/ /\ c = "save"
          /\ page' = [page EXCEPT !.busy = FALSE, !.region = FALSE, !.stores = {}, !.fits = FALSE,
                                  !.editing = FALSE]
          /\ ask' = Unplaced(ask)
    /\ Refresh(refresh)
    /\ UNCHANGED <<teleRun, tele, lastTele, stranded, overtaken, clicks, deaths, catalogVars>>

-------------------------------------------------------------------------------
(* runTelegram.                                                            *)

\* Pair, Test, Disconnect, or the check when the user comes back to the page.
TelegramCommand ==
    /\ Click
    /\ ~page.teleBusy
    /\ page' = [page EXCEPT !.teleBusy = TRUE]
    /\ \E d \in BOOLEAN : teleRun' = [NoRun EXCEPT !.at = "sent", !.disconnect = d]
    /\ refresh' = Revised
    /\ UNCHANGED <<ask, running, tele, lastTele, stranded, overtaken, deaths, catalogVars>>

\* It takes effect in the background, which answers the status.
TelegramDone ==
    /\ teleRun.at = "sent"
    /\ tele' \in {tele, tele + 1}
    /\ teleRun' = [teleRun EXCEPT !.at = "done", !.tele = tele']
    /\ UNCHANGED <<page, ask, running, refresh, lastTele, stranded, overtaken, clicks, deaths, catalogVars>>

\* It is refused, or its answer is lost: the status is read instead.
TelegramRefused ==
    /\ teleRun.at \in {"sent", "done"}
    /\ teleRun' = [teleRun EXCEPT !.at = "reading"]
    /\ UNCHANGED <<page, ask, running, refresh, tele, lastTele, stranded, overtaken, clicks, deaths, catalogVars>>

\* Mutant: only the beginning of a command moves the revision on.
Unrevised == refresh

\* The refreshes after a Telegram command has been answered.
AfterAnswer == Revised

TelegramEnds(version) ==
    /\ page' = [page EXCEPT !.teleBusy = FALSE, !.tele = version]
    /\ lastTele' = version
    /\ teleRun' = NoRun
    /\ IF teleRun.disconnect THEN Refresh(AfterAnswer) ELSE refresh' = AfterAnswer
    /\ UNCHANGED <<ask, running, tele, stranded, overtaken, clicks, deaths, catalogVars>>

TelegramAnswered == teleRun.at = "done" /\ TelegramEnds(teleRun.tele)

\* The status is read after a failure, or cannot be read: then the old one stays.
TelegramReread ==
    /\ teleRun.at = "reading"
    /\ TelegramEnds(tele) \/ TelegramEnds(page.tele)

-------------------------------------------------------------------------------
(* refresh().                                                              *)

\* First the Telegram status; when it cannot be read the one shown stands in for it.
RefreshStatus(r) ==
    /\ refresh[r].at = "status"
    /\ \E v \in {tele, page.tele} :
          refresh' = [refresh EXCEPT ![r].at = "loading", ![r].tele = v]
    /\ UNCHANGED <<page, ask, running, teleRun, tele, lastTele, stranded, overtaken, clicks, deaths, catalogVars>>

\* Then the snapshot and the catalog, which the page keeps whatever has happened since.
RefreshRead(r) ==
    /\ refresh[r].at = "loading" /\ loaded # "no"
    /\ refresh' = [refresh EXCEPT ![r].at = "loaded", ![r].catalog = DOMAIN catalog]
    /\ UNCHANGED <<page, ask, running, teleRun, tele, lastTele, stranded, overtaken, clicks, deaths, catalogVars>>

\* One of them cannot be read.
RefreshFails(r) ==
    /\ refresh[r].at = "loading"
    /\ refresh' = [refresh EXCEPT ![r] = NoRefresh]
    /\ UNCHANGED <<page, ask, running, teleRun, tele, lastTele, stranded, overtaken, clicks, deaths, catalogVars>>

\* What was read is shown.  Without a catalog no region is selected any more: the
\* stores stay, but a lookup that is pending is given up, and busy stays.
RefreshShown(r) ==
    /\ refresh[r].at = "loaded"
    /\ LET known == refresh[r].catalog # {} IN
          /\ page' = [page EXCEPT !.catalog = refresh[r].catalog,
                                  !.region = @ /\ known, !.fits = @ /\ known,
                                  !.tele = IF refresh[r].fresh THEN refresh[r].tele ELSE @]
          /\ ask' = IF known THEN ask ELSE Unplaced(ask)
          /\ stranded' = IF page.pending /\ ~known THEN "refresh" ELSE stranded
    /\ overtaken' = (overtaken \/ refresh[r].old)
    /\ refresh' = [refresh EXCEPT ![r] = NoRefresh]
    /\ UNCHANGED <<running, teleRun, tele, lastTele, clicks, deaths, catalogVars>>

-------------------------------------------------------------------------------
(* The page is loaded again, and the worker dies.                          *)

\* A new page knows nothing of what the old one was waiting for.
NewPage ==
    /\ page' = Blank
    /\ running' = {} /\ teleRun' = NoRun
    /\ tele' \in IF teleRun.at = "sent" THEN {tele, tele + 1} ELSE {tele}
    /\ refresh' = [r \in Refreshes |-> IF r = CHOOSE s \in Refreshes : TRUE
                                       THEN NewRefresh ELSE NoRefresh]
    /\ lastTele' = 0 /\ stranded' = "no" /\ overtaken' = FALSE

Reload ==
    /\ Click
    /\ NewPage
    /\ ask' = [l \in Lookups |->
                  CASE ask[l].at \in {"idle", "catalog"} -> NoAsk
                    [] ask[l].at \in {"sent", "gone"} -> [NoAsk EXCEPT !.at = "gone"]
                    [] OTHER -> [NoAsk EXCEPT !.at = "lost"]]
    /\ UNCHANGED <<deaths, catalogVars>>

\* What the page waits for fails; it asks the worker of the same release.
WorkerDies ==
    /\ deaths < MaxDeaths /\ deaths' = deaths + 1
    /\ CatalogDie(release)
    /\ answer' = [l \in Lookups |-> IF ask[l].at \in {"sent", "asked"}
                                    THEN [NoAnswer EXCEPT !.kind = "failed"] ELSE NoAnswer]
    /\ ask' = [l \in Lookups |-> CASE ask[l].at = "sent" -> [ask[l] EXCEPT !.at = "asked"]
                                   [] ask[l].at \in {"gone", "lost"} -> NoAsk
                                   [] OTHER -> ask[l]]
    /\ UNCHANGED <<page, running, teleRun, refresh, tele, lastTele, stranded, overtaken, clicks>>

\* The extension is updated: its pages are closed, and one is opened again.
Update ==
    /\ deaths < MaxDeaths /\ deaths' = deaths + 1
    /\ \E b \in Bundles : CatalogDie(b)
    /\ answer' = [l \in Lookups |-> NoAnswer]
    /\ ask' = [l \in Lookups |-> NoAsk]
    /\ NewPage
    /\ UNCHANGED clicks

-------------------------------------------------------------------------------
Init ==
    /\ CatalogInit
    /\ page = Blank
    /\ ask = [l \in Lookups |-> NoAsk]
    /\ running = {} /\ teleRun = NoRun
    /\ refresh = [r \in Refreshes |-> IF r = CHOOSE s \in Refreshes : TRUE
                                      THEN NewRefresh ELSE NoRefresh]
    /\ tele = 0 /\ lastTele = 0
    /\ stranded = "no" /\ overtaken = FALSE
    /\ clicks = 0 /\ deaths = 0

CatalogMoves ==
    /\ \/ Load \/ LoadWithoutCache \/ LoadFails
       \/ \E l \in Lookups : CatalogStep(l) \/ WriteFails(l)
    /\ UNCHANGED pageVars

\* What happens by itself: the background works, requests are answered.
SystemStep ==
    \/ CatalogMoves
    \/ \E l \in Lookups : ReceiveLookup(l) \/ HearLookup(l) \/ ShowStores(l) \/ CatalogUnread(l)
    \/ \E c \in {"save", "command"} : CommandEnds(c)
    \/ TelegramDone \/ TelegramRefused \/ TelegramAnswered \/ TelegramReread
    \/ \E r \in Refreshes : RefreshStatus(r) \/ RefreshRead(r) \/ RefreshFails(r) \/ RefreshShown(r)

UserStep ==
    \/ EnterLocation \/ ChooseRegion \/ EditWatch \/ CancelEdit
    \/ Submit \/ Command \/ Reset \/ TelegramCommand \/ Reload
    \/ \E l \in Lookups : AskLookup(l)

Next == SystemStep \/ UserStep \/ WorkerDies \/ Update

Spec == Init /\ [][Next]_vars

\* Requests are answered, storage calls and timers come to an end.  Nothing is
\* assumed of the user.
FairSpec == Spec /\ WF_vars(SystemStep)

-------------------------------------------------------------------------------
(* Properties of the catalog.                                              *)

\* A store that a lookup has answered is packaged, or in the stored cache: a watch
\* on it finds it again after a restart (unless the stored cache was unusable once:
\* then catalog.ts starts an empty one over it).
DiscoveriesSurvive == ~forgotten => promised \subseteq DOMAIN stored \cup DOMAIN release

\* What the running worker routes checks by is what a restarted one will load: the
\* cache never holds a record that is not stored, or stored differently.
PublishedIsStored ==
    /\ DOMAIN cache \subseteq DOMAIN stored
    /\ Agree(cache, stored)

\* While a worker lives, no lookup changes or removes the record, and with it the
\* poll location, of a store in its catalog.
RoutesAreStable ==
    [][loaded = "catalog" /\ loaded' = "catalog"
          => DOMAIN catalog \subseteq DOMAIN catalog' /\ Agree(catalog, catalog')]_vars

(* Properties of the page.                                                 *)

\* While a monitor command is under way the page is busy, whatever lookups are
\* answered meanwhile: a second command, or a second watch, cannot be submitted.
CommandKeepsPageBusy == running # {} => page.busy

\* The stores that are shown while a region is selected were found for that region
\* and the location shown.  (A refresh without a catalog takes the region from under
\* them: then no watch is built from them, and the choice of a region clears them.)
StaleLookupNotShown == page.stores # {} /\ page.region => page.fits

\* The stores that can be chosen are in the catalog the watch will be built from,
\* unless a refresh that had read its catalog earlier was shown after the lookup.
ShownStoresAreInCatalog ==
    page.stores \subseteq page.catalog \/ page.catalog = {} \/ overtaken \/ forgotten

\* A refresh never puts back the Telegram status from before a command the page has
\* shown the answer of.
TelegramStatusIsNotStale == page.tele >= lastTele

\* The page is always free again, unless a lookup was given up by Cancel edit, by
\* Clear local monitor data, or by a refresh that found no catalog.
BusyIsReleased == []<>(~page.busy \/ stranded # "no")

\* A commit that waits at the gate gets its turn, even when its lookup or the one
\* before it was answered at the deadline.
CommitsLeaveTheGate == \A l \in Lookups : lookup[l].at = "queued" ~> lookup[l].at # "queued"
================================================================================
