------------------------------- MODULE SyncTab -------------------------------
(* One browser tab and the backend it pushes to: the sync key in the tab's   *)
(* sessionStorage (syncKey.ts), the background loop (useSync.ts), the Review *)
(* page with its prompt (Review.tsx), the polled count of pending captures   *)
(* (useProgress.ts), and the gate before the sync run (requireSyncKey.ts).   *)
(* The rows and what a run may do to them are those of DimLifecycle, which   *)
(* DimSync implements; other tabs are captures made elsewhere.               *)
EXTENDS Naturals, FiniteSets

CONSTANTS Skus,
          UnusableSkus, \* CartonCloud has removed the product, or its default unit
          RejectedSkus, \* the backend answers 404 for them: it does not know them
          FirstPending, \* rows that were pending when the tab was opened
          FirstQueue,  \* what earlier sessions had left in its queue
          Keys,        \* what an operator may enter, or SYNC_SECRET be
          NoKey,       \* no key stored, or no secret configured
          FirstSecret, \* SYNC_SECRET of the backend when the tab is opened
          Tickets,     \* BOUND: calls the Review page has about at once
          Polls,       \* BOUND: counts fetched at once, beside the loop's
          MaxCaptures, \* BOUND: captures made
          MaxFaults    \* BOUND: how often something goes wrong

ASSUME KeysAssumption == NoKey \notin Keys /\ FirstSecret \in Keys \cup {NoKey}
ASSUME SkusAssumption == UnusableSkus \cup RejectedSkus \cup FirstPending \cup FirstQueue \subseteq Skus
ASSUME CallersAssumption == {"loop", "nobody", "none"} \cap (Tickets \cup Polls) = {}
ASSUME BoundsAssumption == /\ IsFiniteSet(Skus)
                           /\ MaxCaptures \in Nat /\ MaxFaults \in Nat

Callers == Tickets \cup {"loop"}   \* of POST /api/sync/cc
Fetchers == Polls \cup {"loop"}    \* of GET /api/progress

VARIABLES
    status, measured, \* of DimLifecycle; which measurements makes no difference here
    secret,  \* SYNC_SECRET of the backend, or NoKey
    run,     \* who waits for the sync run: a caller, "nobody", or "none" runs
    todo,    \* the rows the run read as pending
    cpc,     \* [Callers -> where its call of /api/sync/cc is]
    sentKey, \* [Callers -> the X-Sync-Key of the request on its way]
    key,     \* the sync key in sessionStorage, or NoKey
    lpc,     \* where the background loop is
    batch,   \* queued captures the loop listed and has not come to
    queue,   \* SKUs with a capture in the tab's offline queue
    idb,     \* the connection to IndexedDB that this tab has cached works
    prompt,  \* the Review page's prompt for the key: "open", "closed", or fading
    syncing, \* it shows a sync under way
    mine,    \* the tickets of this visit to the page
    shown,   \* pendingSync on display, 0 before the first answer
    fpc,     \* [Fetchers -> where its GET /api/progress is]
    count,   \* [Fetchers -> the pendingSync on its way back]
    approved, \* history: the operator authorised in this session, and no 401 since
    made,    \* captures made
    faults

dimVars   == <<status, measured>>
backVars  == <<dimVars, secret, run, todo>>
callVars  == <<cpc, sentKey>>
loopVars  == <<lpc, batch, idb>>
pageVars  == <<prompt, syncing, mine>>
fetchVars == <<fpc, count>>
keyVars   == <<key, approved>>
vars == <<backVars, callVars, loopVars, pageVars, fetchVars, keyVars, queue, shown,
          made, faults>>

Backend == INSTANCE DimLifecycle WITH KnownSkus <- Skus, Values <- {"dims"}, NoVal <- "nothing"

Pending == {s \in Skus : status[s] = "pending"}

Fault == faults < MaxFaults /\ faults' = faults + 1

-----------------------------------------------------------------------------
(* Captures.                                                                 *)

(* Made in another tab, on another device, or in this one with the backend   *)
(* at hand.                                                                  *)
CaptureElsewhere(s) ==
    /\ s \notin RejectedSkus
    /\ made < MaxCaptures
    /\ made' = made + 1
    /\ Backend!Capture(s, "dims")
    /\ UNCHANGED <<secret, run, todo, callVars, loopVars, pageVars, fetchVars, keyVars,
                   queue, shown, faults>>

CaptureOffline(s) ==
    /\ idb
    /\ made < MaxCaptures
    /\ made' = made + 1
    /\ queue' = queue \cup {s}
    /\ UNCHANGED <<backVars, callVars, loopVars, pageVars, fetchVars, keyVars, shown, faults>>

-----------------------------------------------------------------------------
(* api.syncToCC.                                                             *)

(* The request leaves with the key the session holds at that moment.         *)
Send(c, k) ==
    /\ cpc' = [cpc EXCEPT ![c] = "sent"]
    /\ sentKey' = [sentKey EXCEPT ![c] = k]

Answer(c, how) ==
    /\ cpc' = [cpc EXCEPT ![c] = how]
    /\ sentKey' = [sentKey EXCEPT ![c] = NoKey]

(* A 401 is told from any other answer, "Wrong key - clear it": whichever key*)
(* is stored when it comes in.                                               *)
TakeAnswer(c) ==
    /\ cpc' = [cpc EXCEPT ![c] = "idle"]
    /\ IF cpc[c] = "denied" THEN key' = NoKey /\ approved' = FALSE
                            ELSE UNCHANGED keyVars
    /\ UNCHANGED sentKey

Answered(c) == cpc[c] \in {"told", "denied"}

-----------------------------------------------------------------------------
(* The backend.                                                              *)

(* requireSyncKey, then the sync lock: 503 without a secret, 401 for another *)
(* key; the holder of the lock reads the pending rows; the loser is answered *)
(* at once.                                                                  *)
Gate(c) ==
    /\ cpc[c] = "sent"
    /\ \/ secret = NoKey /\ Answer(c, "told") /\ UNCHANGED <<run, todo>>
       \/ secret \notin {NoKey, sentKey[c]} /\ Answer(c, "denied") /\ UNCHANGED <<run, todo>>
       \/ /\ secret = sentKey[c]
          /\ IF run = "none"
               THEN run' = c /\ todo' = Pending /\ Answer(c, "running")
               ELSE Answer(c, "told") /\ UNCHANGED <<run, todo>>
    /\ UNCHANGED <<dimVars, secret, loopVars, pageVars, fetchVars, keyVars, queue, shown,
                   made, faults>>

RunEnds ==
    /\ run' = "none"
    /\ todo' = {}
    /\ IF run \in Callers THEN Answer(run, "told") ELSE UNCHANGED callVars

(* Every row read is marked as delivered or as blocked, save those whose     *)
(* write to CartonCloud failed: in every run that of an unusable product, any*)
(* other when something goes wrong.                                          *)
RunCommit ==
    /\ run # "none"
    /\ \E failed \in SUBSET (todo \ UnusableSkus) :
         \E blocked \in SUBSET (todo \ (UnusableSkus \cup failed)) :
            /\ IF failed = {} THEN UNCHANGED faults ELSE Fault
            /\ Backend!Settle(todo \ (UnusableSkus \cup failed \cup blocked), blocked)
    /\ RunEnds
    /\ UNCHANGED <<secret, loopVars, pageVars, fetchVars, keyVars, queue, shown, made>>

(* The transaction outlives its 120 s, or the database goes: nothing is      *)
(* marked.  (What the callback of an expired run still sends is DimSync's.)  *)
RunAbort ==
    /\ run # "none"
    /\ Fault
    /\ RunEnds
    /\ UNCHANGED <<dimVars, secret, loopVars, pageVars, fetchVars, keyVars, queue, shown, made>>

(* The backend is started again, perhaps with another SYNC_SECRET.           *)
Restart(k) ==
    /\ Fault
    /\ secret' = k
    /\ run' = "none"
    /\ todo' = {}
    /\ cpc' = [c \in Callers |-> IF cpc[c] \in {"sent", "running"} THEN "told" ELSE cpc[c]]
    /\ sentKey' = [c \in Callers |-> NoKey]
    /\ UNCHANGED <<dimVars, loopVars, pageVars, fetchVars, keyVars, queue, shown, made>>

MutantCallLost(c) ==
    /\ cpc[c] \in {"sent", "running"}
    /\ Fault
    /\ Answer(c, "told")
    /\ UNCHANGED <<dimVars, secret, run, todo, loopVars, pageVars, fetchVars, keyVars, queue,
                   shown, made>>

(* The connection breaks, or nginx gives up after 30 s: the caller is told   *)
(* of a failure, and a run under way goes on without it.                     *)
CallLost(c) ==
    /\ cpc[c] \in {"sent", "running"}
    /\ Fault
    /\ Answer(c, "told")
    /\ run' = IF run = c THEN "nobody" ELSE run
    /\ UNCHANGED <<dimVars, secret, todo, loopVars, pageVars, fetchVars, keyVars, queue,
                   shown, made>>

-----------------------------------------------------------------------------
(* useProgress.                                                              *)

(* A request, and getProgress reading the rows, blocked ones left out.       *)
(* Nothing hangs on it before the backend reads, so that is one step; the    *)
(* answer comes later.                                                       *)
Ask(p) ==
    /\ fpc' = [fpc EXCEPT ![p] = "counted"]
    /\ count' = [count EXCEPT ![p] = Cardinality(Pending)]

(* On mount, on a reload of the page's data and every 30 s, whether or not   *)
(* the last poll was answered.                                               *)
Poll(p) ==
    /\ fpc[p] = "idle"
    /\ Ask(p)
    /\ UNCHANGED <<backVars, callVars, loopVars, pageVars, keyVars, queue, shown, made, faults>>

FetchDone(p) ==
    /\ fpc' = [fpc EXCEPT ![p] = "idle"]
    /\ count' = [count EXCEPT ![p] = 0]
    /\ lpc' = IF p = "loop" THEN "idle" ELSE lpc
    /\ UNCHANGED <<backVars, callVars, batch, idb, pageVars, keyVars, queue, made>>

MutantArrive(p) ==
    /\ fpc[p] = "counted"
    /\ shown' = IF shown < count[p] THEN count[p] ELSE shown
    /\ FetchDone(p)
    /\ UNCHANGED faults

(* Answers are taken in the order they come in; after its own the loop is    *)
(* no longer busy.                                                           *)
Arrive(p) ==
    /\ fpc[p] = "counted"
    /\ shown' = count[p]
    /\ FetchDone(p)
    /\ UNCHANGED faults

(* The last count stays on display.                                          *)
FetchFails(p) ==
    /\ fpc[p] # "idle"
    /\ Fault
    /\ FetchDone(p)
    /\ UNCHANGED shown

-----------------------------------------------------------------------------
(* useSync: on mount, on 'online' and every 30 s, unless still busy.         *)

(* Whatever happened, the loop waits for a refresh of the count.             *)
LoopFinish == lpc' = "refresh" /\ batch' = {} /\ Ask("loop")

(* list() may reject, this once or for as long as the tab lives, getDb       *)
(* handing out the one promise it has cached: then neither the drain nor the *)
(* push is tried.                                                            *)
LoopStart ==
    /\ lpc = "idle"
    /\ \/ /\ idb
          /\ lpc' = "drain"
          /\ batch' = queue
          /\ UNCHANGED <<idb, fetchVars, faults>>
       \/ idb /\ Fault /\ LoopFinish /\ idb' \in BOOLEAN
       \/ ~idb /\ LoopFinish /\ UNCHANGED <<idb, faults>>
    /\ UNCHANGED <<backVars, callVars, pageVars, keyVars, queue, shown, made>>

MutantLoopPost(s) ==
    /\ lpc = "drain"
    /\ s \in batch
    /\ \/ /\ s \notin RejectedSkus
          /\ Backend!Capture(s, "dims")
          /\ batch' = batch \ {s}
          /\ queue' = queue \ {s}
          /\ UNCHANGED faults
       \/ /\ s \in RejectedSkus
          /\ batch' = {}
          /\ UNCHANGED <<dimVars, queue, faults>>
    /\ UNCHANGED <<secret, run, todo, callVars, lpc, idb, pageVars, fetchVars, keyVars, shown,
                   made>>

(* A stored entry is removed; one the backend rejects stays.  Should the     *)
(* post, its answer or the removal fail, the entry stays, too: the loop goes *)
(* on to the next one, or stops when the backend was out of reach.           *)
LoopPost(s) ==
    /\ lpc = "drain"
    /\ s \in batch
    /\ \/ /\ s \notin RejectedSkus
          /\ Backend!Capture(s, "dims")
          /\ batch' = batch \ {s}
          /\ queue' = queue \ {s}
          /\ UNCHANGED faults
       \/ /\ s \in RejectedSkus
          /\ batch' = batch \ {s}
          /\ UNCHANGED <<dimVars, queue, faults>>
       \/ /\ Fault
          /\ (s \notin RejectedSkus /\ Backend!Capture(s, "dims")) \/ UNCHANGED dimVars
          /\ batch' \in {batch \ {s}, {}}
          /\ UNCHANGED queue
    /\ UNCHANGED <<secret, run, todo, callVars, lpc, idb, pageVars, fetchVars, keyVars, shown,
                   made>>

(* With a key stored the backend is asked what is pending, once again in one *)
(* step, and the push is tried if there is anything.                         *)
LoopDrained ==
    /\ lpc = "drain"
    /\ batch = {}
    /\ \/ /\ key = NoKey \/ Pending = {}
          /\ LoopFinish
          /\ UNCHANGED faults
       \/ key # NoKey /\ Fault /\ LoopFinish
       \/ /\ key # NoKey /\ Pending # {}
          /\ lpc' = "push"
          /\ UNCHANGED <<batch, fetchVars, faults>>
    /\ UNCHANGED <<idb, backVars, callVars, pageVars, keyVars, queue, shown, made>>

MutantLoopPush ==
    /\ lpc = "push"
    /\ \E k \in Keys : Send("loop", IF key = NoKey THEN k ELSE key)
    /\ lpc' = "wait"
    /\ UNCHANGED <<batch, fetchVars>>
    /\ UNCHANGED <<idb, backVars, pageVars, keyVars, queue, shown, made, faults>>

(* The answer has come, and syncToCC reads the key again: it may have gone   *)
(* since.                                                                    *)
LoopPush ==
    /\ lpc = "push"
    /\ IF key = NoKey THEN LoopFinish /\ UNCHANGED callVars
                      ELSE /\ Send("loop", key)
                           /\ lpc' = "wait"
                           /\ UNCHANGED <<batch, fetchVars>>
    /\ UNCHANGED <<idb, backVars, pageVars, keyVars, queue, shown, made, faults>>

(* Errors are swallowed; the next tick tries again.                          *)
LoopAnswered ==
    /\ lpc = "wait"
    /\ Answered("loop")
    /\ TakeAnswer("loop")
    /\ LoopFinish
    /\ UNCHANGED <<idb, backVars, pageVars, queue, shown, made, faults>>

-----------------------------------------------------------------------------
(* The Review page.                                                          *)

(* The page is left, by the browser's Back under the dialog too, and opened  *)
(* anew; a call under way outlives the visit it was made from.               *)
Revisit ==
    /\ prompt' = "closed"
    /\ syncing' = FALSE
    /\ mine' = {}
    /\ UNCHANGED <<backVars, callVars, loopVars, fetchVars, keyVars, queue, shown, made,
                   faults>>

RunSync(t, k) ==
    /\ cpc[t] = "idle"
    /\ Send(t, k)
    /\ syncing' = TRUE
    /\ mine' = mine \cup {t}

(* Sync Now: enabled while the count on display is not zero.                 *)
Press ==
    /\ prompt # "open" /\ ~syncing
    /\ shown # 0
    /\ \/ /\ key = NoKey
          /\ prompt' = "open"
          /\ UNCHANGED <<callVars, syncing, mine>>
       \/ /\ key # NoKey
          /\ \E t \in Tickets : RunSync(t, key)
          /\ UNCHANGED prompt
    /\ UNCHANGED <<backVars, loopVars, fetchVars, keyVars, queue, shown, made, faults>>

(* A closed prompt fades out for 150 ms with its input and buttons in place. *)
Cancel ==
    /\ prompt = "open"
    /\ prompt' = "fading"
    /\ UNCHANGED <<backVars, callVars, loopVars, syncing, mine, fetchVars, keyVars,
                   queue, shown, made, faults>>

Faded ==
    /\ prompt = "fading"
    /\ prompt' = "closed"
    /\ UNCHANGED <<backVars, callVars, loopVars, syncing, mine, fetchVars, keyVars,
                   queue, shown, made, faults>>

(* Nothing keeps the operator from authorising again while the prompt fades: *)
(* a second call of the same visit.                                          *)
Authorise(k) ==
    /\ prompt \in {"open", "fading"}
    /\ prompt' = "fading"
    /\ key' = k
    /\ approved' = TRUE
    /\ \E t \in Tickets : RunSync(t, k)
    /\ UNCHANGED <<backVars, loopVars, fetchVars, queue, shown, made, faults>>

MutantReviewAnswered(t) ==
    /\ Answered(t)
    /\ TakeAnswer(t)
    /\ mine' = mine \ {t}
    /\ syncing' = (syncing /\ ~(t \in mine /\ cpc[t] = "told"))
    /\ prompt' = IF cpc[t] = "denied" /\ t \in mine THEN "open" ELSE prompt
    /\ UNCHANGED <<backVars, loopVars, fetchVars, queue, shown, made, faults>>

(* A 401 opens the prompt; success reloads the count, which Poll may do at   *)
(* any time; any other error says nothing.  Whichever call of the visit is   *)
(* answered ends the display.  The state of a page left behind takes no      *)
(* update.                                                                   *)
ReviewAnswered(t) ==
    /\ Answered(t)
    /\ TakeAnswer(t)
    /\ mine' = mine \ {t}
    /\ syncing' = (syncing /\ t \notin mine)
    /\ prompt' = IF cpc[t] = "denied" /\ t \in mine THEN "open" ELSE prompt
    /\ UNCHANGED <<backVars, loopVars, fetchVars, queue, shown, made, faults>>

(* The tab is reloaded, or closed and another opened, which has no key.  A   *)
(* run it started goes on.                                                   *)
Reload(k) ==
    /\ Fault
    /\ k \in {key, NoKey}
    /\ key' = k
    /\ approved' = (approved /\ k = key)
    /\ run' = IF run \in Callers THEN "nobody" ELSE run
    /\ cpc' = [c \in Callers |-> "idle"]
    /\ sentKey' = [c \in Callers |-> NoKey]
    /\ lpc' = "idle" /\ batch' = {} /\ idb' = TRUE
    /\ prompt' = "closed" /\ syncing' = FALSE /\ mine' = {}
    /\ fpc' = [p \in Fetchers |-> "idle"]
    /\ count' = [p \in Fetchers |-> 0]
    /\ shown' = 0
    /\ UNCHANGED <<dimVars, secret, todo, queue, made>>

-----------------------------------------------------------------------------
Init ==
    /\ status = [s \in Skus |-> IF s \in FirstPending THEN "pending" ELSE "none"]
    /\ measured = [s \in Skus |-> IF s \in FirstPending THEN "dims" ELSE "nothing"]
    /\ secret = FirstSecret
    /\ run = "none" /\ todo = {}
    /\ cpc = [c \in Callers |-> "idle"]
    /\ sentKey = [c \in Callers |-> NoKey]
    /\ key = NoKey
    /\ lpc = "idle" /\ batch = {} /\ queue = FirstQueue /\ idb = TRUE
    /\ prompt = "closed" /\ syncing = FALSE /\ mine = {}
    /\ shown = 0
    /\ fpc = [p \in Fetchers |-> "idle"]
    /\ count = [p \in Fetchers |-> 0]
    /\ approved = FALSE
    /\ made = 0
    /\ faults = 0

LoopStep ==
    \/ LoopStart \/ LoopDrained \/ LoopPush \/ LoopAnswered
    \/ \E s \in Skus : LoopPost(s)

Operator ==
    \/ \E s \in Skus : CaptureElsewhere(s) \/ CaptureOffline(s)
    \/ Revisit \/ Press \/ Cancel \/ Faded
    \/ \E k \in Keys : Authorise(k)

Next ==
    \/ Operator
    \/ LoopStep
    \/ \E t \in Tickets : ReviewAnswered(t)
    \/ \E p \in Polls : Poll(p)
    \/ \E p \in Fetchers : Arrive(p) \/ FetchFails(p)
    \/ \E c \in Callers : Gate(c) \/ CallLost(c)
    \/ RunCommit \/ RunAbort
    \/ \E k \in Keys \cup {NoKey} : Restart(k) \/ Reload(k)

Spec == Init /\ [][Next]_vars

(* The loop's timer fires and what it awaits is answered, and a run comes to *)
(* its end.  Nothing is asked of the operator, nor of the calls of the page  *)
(* and the polls, which may stay unanswered for ever.                        *)
LoopChain == LoopStep \/ Gate("loop") \/ Arrive("loop")

Fairness == WF_vars(LoopChain) /\ WF_vars(RunCommit)

FairSpec == Spec /\ Fairness

-----------------------------------------------------------------------------
(* The variables have their types, and who waits is who is waited for: a     *)
(* run answers a caller whose call is running, the loop waits for its own    *)
(* call or its own refresh, a ticket of the page shown is in flight.         *)
TypeOK ==
    /\ status \in [Skus -> Backend!Statuses]
    /\ \A s \in Skus : measured[s] = IF status[s] = "none" THEN "nothing" ELSE "dims"
    /\ secret \in Keys \cup {NoKey} /\ key \in Keys \cup {NoKey}
    /\ run \in Callers \cup {"nobody", "none"}
    /\ todo \subseteq Pending
    /\ cpc \in [Callers -> {"idle", "sent", "running", "told", "denied"}]
    /\ sentKey \in [Callers -> Keys \cup {NoKey}]
    /\ lpc \in {"idle", "drain", "push", "wait", "refresh"}
    /\ batch \subseteq Skus /\ queue \subseteq Skus
    /\ idb \in BOOLEAN
    /\ prompt \in {"open", "fading", "closed"} /\ syncing \in BOOLEAN
    /\ mine \subseteq {t \in Tickets : cpc[t] # "idle"}
    /\ shown \in 0..Cardinality(Skus)
    /\ fpc \in [Fetchers -> {"idle", "counted"}]
    /\ count \in [Fetchers -> 0..Cardinality(Skus)]
    /\ approved \in BOOLEAN
    /\ made \in 0..MaxCaptures /\ faults \in 0..MaxFaults
    /\ run = "none" => todo = {}
    /\ \A c \in Callers : cpc[c] = "running" <=> run = c
    /\ cpc["loop"] # "idle" <=> lpc = "wait"
    /\ fpc["loop"] # "idle" <=> lpc = "refresh"

(* The page never shows a sync, its button disabled, when none of this       *)
(* visit's calls is under way to end the display; and it never asks for a    *)
(* key over such a display, nor while the session holds one.  Of two calls   *)
(* of one visit the first answer ends the display: the converse fails.       *)
NoStuckPage ==
    /\ syncing => mine # {}
    /\ prompt = "open" => ~syncing /\ key = NoKey

(* A call leaves the tab, the loop's or the page's, only when the operator   *)
(* has authorised it in this session and no 401 has come in since: "no 401   *)
(* spam", "re-authorisation per session".                                    *)
NoSpam ==
    [][\A c \in Callers : cpc[c] # "sent" /\ cpc'[c] = "sent" => approved']_vars

(* Once the rows stay as they are, the tab comes to show how many are        *)
(* pending and goes on showing it, in whatever order the answers come in.    *)
CountSettles ==
    <>[][UNCHANGED status]_status => <>[](shown = Cardinality(Pending))

(* With the right key stored for good and IndexedDB at hand, no capture the  *)
(* backend accepts stays queued in the tab, also behind one it rejects for   *)
(* ever, and none that CartonCloud can take stays pending, also beside one   *)
(* that fails in every run: it is delivered, or set aside as blocked, in the *)
(* end, whatever was lost, aborted, answered too late or told to a loser of  *)
(* the sync lock.                                                            *)
KeyedWorkIsDone ==
    <>[](idb /\ key = secret /\ key # NoKey) =>
        \A s \in Skus \ RejectedSkus :
            []<>(s \notin queue /\ (s \in UnusableSkus \/ status[s] # "pending"))
=============================================================================
