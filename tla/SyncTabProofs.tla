---------------------------- MODULE SyncTabProofs ----------------------------
(* Proofs about SyncTab, for any number of SKUs, keys, calls and fetches.    *)
EXTENDS SyncTab, FiniteSetTheorems, TLAPS

(* The rows, and those the run has read: no capture but a run's own commit   *)
(* takes a row out of the pending ones, so they stay there till it commits.  *)
Rows ==
    /\ status \in [Skus -> Backend!Statuses]
    /\ measured \in [Skus -> {"dims", "nothing"}]
    /\ \A s \in Skus : measured[s] = IF status[s] = "none" THEN "nothing" ELSE "dims"
    /\ secret \in Keys \cup {NoKey}
    /\ todo \subseteq Pending
    /\ run = "none" => todo = {}

(* A run answers the one caller whose call is running.                       *)
Calls ==
    /\ run \in Callers \cup {"nobody", "none"}
    /\ cpc \in [Callers -> {"idle", "sent", "running", "told", "denied"}]
    /\ sentKey \in [Callers -> Keys \cup {NoKey}]
    /\ \A c \in Callers : cpc[c] = "running" <=> run = c

(* The loop waits for its own call, or for its own refresh.                  *)
Loop ==
    /\ lpc \in {"idle", "drain", "push", "wait", "refresh"}
    /\ batch \subseteq Skus /\ queue \subseteq Skus
    /\ idb \in BOOLEAN
    /\ cpc["loop"] # "idle" <=> lpc = "wait"
    /\ fpc["loop"] # "idle" <=> lpc = "refresh"

(* NoStuckPage, and the tickets of this visit are calls under way.           *)
Page ==
    /\ prompt \in {"open", "fading", "closed"} /\ syncing \in BOOLEAN
    /\ mine \subseteq Tickets
    /\ \A t \in mine : cpc[t] # "idle"
    /\ syncing => mine # {}
    /\ prompt = "open" => ~syncing /\ key = NoKey

Fetch ==
    /\ shown \in 0..Cardinality(Skus)
    /\ fpc \in [Fetchers -> {"idle", "counted"}]
    /\ count \in [Fetchers -> 0..Cardinality(Skus)]

(* A key in the session is one the operator entered in it, and no 401 has    *)
(* come in since.                                                            *)
Keyed ==
    /\ key \in Keys \cup {NoKey}
    /\ approved \in BOOLEAN
    /\ key # NoKey => approved

Bounds == made \in 0..MaxCaptures /\ faults \in 0..MaxFaults

IInv == Rows /\ Calls /\ Loop /\ Page /\ Fetch /\ Keyed /\ Bounds

-----------------------------------------------------------------------------
(* Facts about the constants.                                                *)

LEMMA CallersApart ==
    /\ "loop" \in Callers /\ "loop" \in Fetchers
    /\ Tickets \subseteq Callers /\ Polls \subseteq Fetchers
    /\ "loop" \notin Tickets /\ "loop" \notin Polls
    /\ "nobody" \notin Callers /\ "none" \notin Callers
  BY CallersAssumption DEF Callers, Fetchers

(* What is counted is at most all there is.                                  *)
LEMMA Counted ==
    /\ Cardinality(Skus) \in Nat
    /\ Cardinality(Pending) \in 0..Cardinality(Skus)
<1>1. IsFiniteSet(Skus)
  BY BoundsAssumption
<1>2. Pending \in SUBSET Skus
  BY DEF Pending
<1>3. IsFiniteSet(Pending) /\ Cardinality(Pending) <= Cardinality(Skus)
  BY <1>1, <1>2, FS_Subset
<1>4. Cardinality(Skus) \in Nat /\ Cardinality(Pending) \in Nat
  BY <1>1, <1>3, FS_CardinalityType
<1> QED  BY <1>3, <1>4

-----------------------------------------------------------------------------
(* The invariant, one lemma per action.                                      *)

LEMMA InitInv == Init => IInv
<1> SUFFICES ASSUME Init PROVE IInv
  OBVIOUS
<1>1. Rows
  <2>1. /\ status = [s \in Skus |-> IF s \in FirstPending THEN "pending" ELSE "none"]
        /\ measured = [s \in Skus |-> IF s \in FirstPending THEN "dims" ELSE "nothing"]
    BY DEF Init
  <2>2. /\ status \in [Skus -> Backend!Statuses]
        /\ measured \in [Skus -> {"dims", "nothing"}]
        /\ \A s \in Skus : measured[s] = IF status[s] = "none" THEN "nothing" ELSE "dims"
    BY <2>1 DEF Backend!Statuses
  <2>3. /\ secret \in Keys \cup {NoKey}
        /\ todo \subseteq Pending
        /\ run = "none" => todo = {}
    BY KeysAssumption DEF Init
  <2> QED  BY <2>2, <2>3 DEF Rows
<1>2. Calls
  BY CallersApart DEF Init, Calls
<1>3. Loop
  BY CallersApart, SkusAssumption DEF Init, Loop
<1>4. Page
  BY CallersApart DEF Init, Page
<1>5. Fetch
  BY Counted DEF Init, Fetch
<1>6. Keyed
  BY DEF Init, Keyed
<1>7. Bounds
  BY BoundsAssumption DEF Init, Bounds
<1> QED  BY <1>1, <1>2, <1>3, <1>4, <1>5, <1>6, <1>7 DEF IInv

LEMMA CaptureElsewhereInv ==
    ASSUME IInv, NEW s \in Skus, CaptureElsewhere(s)
    PROVE  IInv'
<1>1. Rows'
  BY CallersApart DEF IInv, Rows, Calls, CaptureElsewhere, Backend!Capture,
        Pending, Backend!Statuses
<1>2. Bounds'
  BY BoundsAssumption DEF IInv, Bounds, CaptureElsewhere
<1>3. Calls' /\ Loop' /\ Page' /\ Fetch' /\ Keyed'
  BY DEF IInv, Calls, Loop, Page, Fetch, Keyed, CaptureElsewhere, callVars,
        loopVars, pageVars, fetchVars, keyVars
<1> QED  BY <1>1, <1>2, <1>3 DEF IInv

LEMMA CaptureOfflineInv ==
    ASSUME IInv, NEW s \in Skus, CaptureOffline(s)
    PROVE  IInv'
<1>1. Loop'
  BY CallersApart DEF IInv, Loop, Calls, Fetch, CaptureOffline, callVars,
        loopVars, fetchVars, Fetchers
<1>2. Bounds'
  BY BoundsAssumption DEF IInv, Bounds, CaptureOffline
<1>3. Rows' /\ Calls' /\ Page' /\ Fetch' /\ Keyed'
  BY DEF IInv, Rows, Calls, Page, Fetch, Keyed, CaptureOffline, dimVars,
        backVars, callVars, pageVars, fetchVars, keyVars, Pending
<1> QED  BY <1>1, <1>2, <1>3 DEF IInv

LEMMA GateInv ==
    ASSUME IInv, NEW c \in Callers, Gate(c)
    PROVE  IInv'
<1>1. Rows'
  BY CallersApart DEF IInv, Rows, Calls, Gate, dimVars, Pending,
        Backend!Statuses
<1>2. Calls'
  BY CallersApart DEF IInv, Calls, Gate, Answer
<1>3. Loop'
  BY CallersApart DEF IInv, Loop, Calls, Fetch, Gate, Answer, loopVars,
        fetchVars, Fetchers
<1>4. Page'
  BY CallersApart DEF IInv, Page, Calls, Gate, Answer, pageVars, keyVars
<1>5. Fetch' /\ Keyed' /\ Bounds'
  BY DEF IInv, Fetch, Keyed, Bounds, Gate, fetchVars, keyVars
<1> QED  BY <1>1, <1>2, <1>3, <1>4, <1>5 DEF IInv

LEMMA RunCommitInv ==
    ASSUME IInv, RunCommit
    PROVE  IInv'
<1>1. Rows'
  BY CallersApart DEF IInv, Rows, Calls, RunCommit, RunEnds, Backend!Settle,
        Pending, Backend!Statuses
<1>2. Calls'
  BY CallersApart DEF IInv, Calls, RunCommit, RunEnds, Answer, callVars
<1>3. Loop'
  BY CallersApart DEF IInv, Loop, Calls, Fetch, RunCommit, RunEnds, Answer,
        callVars, loopVars, fetchVars, Fetchers
<1>4. Page'
  BY CallersApart DEF IInv, Page, Calls, RunCommit, RunEnds, Answer, callVars,
        pageVars, keyVars
<1>5. Bounds'
  BY BoundsAssumption DEF IInv, Bounds, RunCommit, Fault
<1>6. Fetch' /\ Keyed'
  BY DEF IInv, Fetch, Keyed, RunCommit, fetchVars, keyVars
<1> QED  BY <1>1, <1>2, <1>3, <1>4, <1>5, <1>6 DEF IInv

LEMMA RunAbortInv ==
    ASSUME IInv, RunAbort
    PROVE  IInv'
<1>1. Rows'
  BY CallersApart DEF IInv, Rows, Calls, RunAbort, RunEnds, dimVars, Pending,
        Backend!Statuses
<1>2. Calls'
  BY CallersApart DEF IInv, Calls, RunAbort, RunEnds, Answer, callVars
<1>3. Loop'
  BY CallersApart DEF IInv, Loop, Calls, Fetch, RunAbort, RunEnds, Answer,
        callVars, loopVars, fetchVars, Fetchers
<1>4. Page'
  BY CallersApart DEF IInv, Page, Calls, RunAbort, RunEnds, Answer, callVars,
        pageVars, keyVars
<1>5. Bounds'
  BY BoundsAssumption DEF IInv, Bounds, RunAbort, Fault
<1>6. Fetch' /\ Keyed'
  BY DEF IInv, Fetch, Keyed, RunAbort, fetchVars, keyVars
<1> QED  BY <1>1, <1>2, <1>3, <1>4, <1>5, <1>6 DEF IInv

LEMMA RestartInv ==
    ASSUME IInv, NEW k \in Keys \cup {NoKey}, Restart(k)
    PROVE  IInv'
<1>1. Rows'
  BY CallersApart DEF IInv, Rows, Calls, Restart, dimVars, Pending,
        Backend!Statuses
<1>2. Calls'
  BY CallersApart DEF IInv, Calls, Restart
<1>3. Loop'
  BY CallersApart DEF IInv, Loop, Calls, Fetch, Restart, loopVars, fetchVars,
        Fetchers
<1>4. Page'
  BY CallersApart DEF IInv, Page, Calls, Restart, pageVars, keyVars
<1>5. Bounds'
  BY BoundsAssumption DEF IInv, Bounds, Restart, Fault
<1>6. Fetch' /\ Keyed'
  BY DEF IInv, Fetch, Keyed, Restart, fetchVars, keyVars
<1> QED  BY <1>1, <1>2, <1>3, <1>4, <1>5, <1>6 DEF IInv

LEMMA CallLostInv ==
    ASSUME IInv, NEW c \in Callers, CallLost(c)
    PROVE  IInv'
<1>1. Rows'
  BY CallersApart DEF IInv, Rows, Calls, CallLost, dimVars, Pending,
        Backend!Statuses
<1>2. Calls'
  BY CallersApart DEF IInv, Calls, CallLost, Answer
<1>3. Loop'
  BY CallersApart DEF IInv, Loop, Calls, Fetch, CallLost, Answer, loopVars,
        fetchVars, Fetchers
<1>4. Page'
  BY CallersApart DEF IInv, Page, Calls, CallLost, Answer, pageVars, keyVars
<1>5. Bounds'
  BY BoundsAssumption DEF IInv, Bounds, CallLost, Fault
<1>6. Fetch' /\ Keyed'
  BY DEF IInv, Fetch, Keyed, CallLost, fetchVars, keyVars
<1> QED  BY <1>1, <1>2, <1>3, <1>4, <1>5, <1>6 DEF IInv

LEMMA PollInv ==
    ASSUME IInv, NEW p \in Polls, Poll(p)
    PROVE  IInv'
<1>1. Loop'
  BY CallersApart DEF IInv, Loop, Calls, Fetch, Poll, Ask, callVars, loopVars,
        Fetchers
<1>2. Fetch'
  BY CallersApart, Counted DEF IInv, Fetch, Poll, Ask, Fetchers
<1>3. Rows' /\ Calls' /\ Page' /\ Keyed' /\ Bounds'
  BY DEF IInv, Rows, Calls, Page, Keyed, Bounds, Poll, dimVars, backVars,
        callVars, pageVars, keyVars, Pending
<1> QED  BY <1>1, <1>2, <1>3 DEF IInv

LEMMA ArriveInv ==
    ASSUME IInv, NEW p \in Fetchers, Arrive(p)
    PROVE  IInv'
<1>1. Loop'
  BY CallersApart DEF IInv, Loop, Calls, Fetch, Arrive, FetchDone, callVars,
        Fetchers
<1>2. Fetch'
  BY CallersApart, Counted DEF IInv, Fetch, Arrive, FetchDone, Fetchers
<1>3. Rows' /\ Calls' /\ Page' /\ Keyed' /\ Bounds'
  BY DEF IInv, Rows, Calls, Page, Keyed, Bounds, Arrive, FetchDone, dimVars,
        backVars, callVars, pageVars, keyVars, Pending
<1> QED  BY <1>1, <1>2, <1>3 DEF IInv

LEMMA FetchFailsInv ==
    ASSUME IInv, NEW p \in Fetchers, FetchFails(p)
    PROVE  IInv'
<1>1. Loop'
  BY CallersApart DEF IInv, Loop, Calls, Fetch, FetchFails, FetchDone,
        callVars, Fetchers
<1>2. Fetch'
  BY CallersApart, Counted DEF IInv, Fetch, FetchFails, FetchDone, Fetchers
<1>3. Bounds'
  BY BoundsAssumption DEF IInv, Bounds, FetchFails, FetchDone, Fault
<1>4. Rows' /\ Calls' /\ Page' /\ Keyed'
  BY DEF IInv, Rows, Calls, Page, Keyed, FetchFails, FetchDone, dimVars,
        backVars, callVars, pageVars, keyVars, Pending
<1> QED  BY <1>1, <1>2, <1>3, <1>4 DEF IInv

LEMMA LoopStartInv ==
    ASSUME IInv, LoopStart
    PROVE  IInv'
<1>1. Loop'
  BY CallersApart DEF IInv, Loop, Calls, Fetch, LoopStart, LoopFinish, Ask,
        callVars, fetchVars, Fetchers
<1>2. Fetch'
  BY CallersApart, Counted DEF IInv, Fetch, LoopStart, LoopFinish, Ask,
        fetchVars, Fetchers
<1>3. Bounds'
  BY BoundsAssumption DEF IInv, Bounds, LoopStart, Fault
<1>4. Rows' /\ Calls' /\ Page' /\ Keyed'
  BY DEF IInv, Rows, Calls, Page, Keyed, LoopStart, dimVars, backVars,
        callVars, pageVars, keyVars, Pending
<1> QED  BY <1>1, <1>2, <1>3, <1>4 DEF IInv

LEMMA LoopPostInv ==
    ASSUME IInv, NEW s \in Skus, LoopPost(s)
    PROVE  IInv'
<1>1. Rows'
  BY CallersApart DEF IInv, Rows, Calls, LoopPost, Backend!Capture, dimVars,
        Pending, Backend!Statuses
<1>2. Loop'
  BY CallersApart DEF IInv, Loop, Calls, Fetch, LoopPost, callVars, fetchVars,
        Fetchers
<1>3. Bounds'
  BY BoundsAssumption DEF IInv, Bounds, LoopPost, Fault
<1>4. Calls' /\ Page' /\ Fetch' /\ Keyed'
  BY DEF IInv, Calls, Page, Fetch, Keyed, LoopPost, callVars, pageVars,
        fetchVars, keyVars
<1> QED  BY <1>1, <1>2, <1>3, <1>4 DEF IInv

LEMMA LoopDrainedInv ==
    ASSUME IInv, LoopDrained
    PROVE  IInv'
<1>1. Loop'
  BY CallersApart DEF IInv, Loop, Calls, Fetch, LoopDrained, LoopFinish, Ask,
        callVars, fetchVars, Fetchers
<1>2. Fetch'
  BY CallersApart, Counted DEF IInv, Fetch, LoopDrained, LoopFinish, Ask,
        fetchVars, Fetchers
<1>3. Bounds'
  BY BoundsAssumption DEF IInv, Bounds, LoopDrained, Fault
<1>4. Rows' /\ Calls' /\ Page' /\ Keyed'
  BY DEF IInv, Rows, Calls, Page, Keyed, LoopDrained, dimVars, backVars,
        callVars, pageVars, keyVars, Pending
<1> QED  BY <1>1, <1>2, <1>3, <1>4 DEF IInv

LEMMA LoopPushInv ==
    ASSUME IInv, LoopPush
    PROVE  IInv'
<1>1. Calls'
  BY CallersApart DEF IInv, Calls, Keyed, Loop, LoopPush, Send, backVars,
        callVars
<1>2. Loop'
  BY CallersApart DEF IInv, Loop, Calls, Fetch, LoopPush, LoopFinish, Ask,
        Send, callVars, fetchVars, Fetchers
<1>3. Page'
  BY CallersApart DEF IInv, Page, Calls, LoopPush, Send, callVars, pageVars, keyVars
<1>4. Fetch'
  BY CallersApart, Counted DEF IInv, Fetch, LoopPush, LoopFinish, Ask,
        fetchVars, Fetchers
<1>5. Rows' /\ Keyed' /\ Bounds'
  BY DEF IInv, Rows, Keyed, Bounds, LoopPush, dimVars, backVars, keyVars,
        Pending
<1> QED  BY <1>1, <1>2, <1>3, <1>4, <1>5 DEF IInv

LEMMA LoopAnsweredInv ==
    ASSUME IInv, LoopAnswered
    PROVE  IInv'
<1>1. Calls'
  BY CallersApart DEF IInv, Calls, LoopAnswered, Answered, TakeAnswer, backVars
<1>2. Loop'
  BY CallersApart DEF IInv, Loop, Calls, Fetch, LoopAnswered, Answered,
        TakeAnswer, LoopFinish, Ask, Fetchers
<1>3. Page'
  BY CallersApart DEF IInv, Page, Calls, LoopAnswered, Answered, TakeAnswer,
        pageVars, keyVars
<1>4. Fetch'
  BY CallersApart, Counted DEF IInv, Fetch, LoopAnswered, LoopFinish, Ask,
        Fetchers
<1>5. Keyed'
  BY DEF IInv, Keyed, LoopAnswered, TakeAnswer, keyVars
<1>6. Rows' /\ Bounds'
  BY DEF IInv, Rows, Bounds, LoopAnswered, dimVars, backVars, Pending
<1> QED  BY <1>1, <1>2, <1>3, <1>4, <1>5, <1>6 DEF IInv

LEMMA RevisitInv ==
    ASSUME IInv, Revisit
    PROVE  IInv'
<1>1. Page'
  BY CallersApart DEF IInv, Page, Calls, Revisit, callVars
<1>2. Rows' /\ Calls' /\ Loop' /\ Fetch' /\ Keyed' /\ Bounds'
  BY DEF IInv, Rows, Calls, Loop, Fetch, Keyed, Bounds, Revisit, dimVars,
        backVars, callVars, loopVars, fetchVars, keyVars, Pending
<1> QED  BY <1>1, <1>2 DEF IInv

(* A call of this visit starts.                                              *)
LEMMA RunSyncPage ==
    ASSUME IInv, NEW t \in Tickets, NEW k, RunSync(t, k)
    PROVE  /\ mine' \subseteq Tickets /\ mine' # {}
           /\ \A u \in mine' : cpc'[u] # "idle"
           /\ syncing' = TRUE
<1>1. mine' = mine \cup {t} /\ syncing' = TRUE
  BY DEF RunSync
<1>2. \A u \in Tickets : cpc'[u] = IF u = t THEN "sent" ELSE cpc[u]
  BY CallersApart DEF IInv, Calls, RunSync, Send
<1> QED  BY <1>1, <1>2 DEF IInv, Page

LEMMA PressInv ==
    ASSUME IInv, Press
    PROVE  IInv'
<1>1. Calls'
  BY CallersApart DEF IInv, Calls, Keyed, Press, RunSync, Send, backVars,
        callVars
<1>2. Loop'
  BY CallersApart DEF IInv, Loop, Calls, Fetch, Press, RunSync, Send, callVars,
        loopVars, fetchVars, Fetchers
<1>3. Page'
  <2>1. prompt # "open" /\ ~syncing /\ UNCHANGED key
    BY DEF Press, keyVars
  <2>2. CASE key = NoKey
    BY <2>1, <2>2 DEF IInv, Page, Press, callVars
  <2>3. CASE key # NoKey
    <3>1. prompt' = prompt
      BY <2>3 DEF Press
    <3>2. PICK t \in Tickets : RunSync(t, key)
      BY <2>3 DEF Press
    <3> QED  BY <2>1, <3>1, <3>2, RunSyncPage DEF IInv, Page
  <2> QED  BY <2>2, <2>3
<1>4. Rows' /\ Fetch' /\ Keyed' /\ Bounds'
  BY DEF IInv, Rows, Fetch, Keyed, Bounds, Press, dimVars, backVars, fetchVars,
        keyVars, Pending
<1> QED  BY <1>1, <1>2, <1>3, <1>4 DEF IInv

LEMMA CloseInv ==
    ASSUME IInv, Cancel \/ Faded
    PROVE  IInv'
<1>1. Page'
  BY CallersApart DEF IInv, Page, Calls, Cancel, Faded, callVars, keyVars
<1>2. Rows' /\ Calls' /\ Loop' /\ Fetch' /\ Keyed' /\ Bounds'
  BY DEF IInv, Rows, Calls, Loop, Fetch, Keyed, Bounds, Cancel, Faded, dimVars,
        backVars, callVars, loopVars, fetchVars, keyVars, Pending
<1> QED  BY <1>1, <1>2 DEF IInv

LEMMA AuthoriseInv ==
    ASSUME IInv, NEW k \in Keys, Authorise(k)
    PROVE  IInv'
<1>1. Calls'
  BY CallersApart DEF IInv, Calls, Keyed, Authorise, RunSync, Send, backVars
<1>2. Loop'
  BY CallersApart DEF IInv, Loop, Calls, Fetch, Authorise, RunSync, Send,
        loopVars, fetchVars, Fetchers
<1>3. Page'
  <2>1. prompt' = "fading"
    BY DEF Authorise
  <2>2. PICK t \in Tickets : RunSync(t, k)
    BY DEF Authorise
  <2> QED  BY <2>1, <2>2, RunSyncPage DEF Page
<1>4. Keyed'
  BY DEF IInv, Keyed, Authorise
<1>5. Rows' /\ Fetch' /\ Bounds'
  BY DEF IInv, Rows, Fetch, Bounds, Authorise, dimVars, backVars, fetchVars,
        Pending
<1> QED  BY <1>1, <1>2, <1>3, <1>4, <1>5 DEF IInv

LEMMA ReviewAnsweredInv ==
    ASSUME IInv, NEW t \in Tickets, ReviewAnswered(t)
    PROVE  IInv'
<1>1. Calls'
  BY CallersApart DEF IInv, Calls, ReviewAnswered, Answered, TakeAnswer,
        backVars
<1>2. Loop'
  BY CallersApart DEF IInv, Loop, Calls, Fetch, ReviewAnswered, Answered,
        TakeAnswer, loopVars, fetchVars, Fetchers
<1>3. Page'
  <2>1. /\ mine' = mine \ {t}
        /\ syncing' = (syncing /\ t \notin mine)
        /\ prompt' = IF cpc[t] = "denied" /\ t \in mine THEN "open" ELSE prompt
    BY DEF ReviewAnswered
  <2>2. \A u \in Tickets : u # t => cpc'[u] = cpc[u]
    BY CallersApart DEF IInv, Calls, ReviewAnswered, TakeAnswer
  <2>3. (cpc[t] = "denied" \/ key = NoKey) => key' = NoKey
    BY DEF ReviewAnswered, TakeAnswer, keyVars
  <2>4. /\ mine' \subseteq Tickets
        /\ \A u \in mine' : cpc'[u] # "idle"
    BY <2>1, <2>2 DEF IInv, Page
  <2>5. syncing' => mine' # {}
    BY <2>1 DEF IInv, Page
  <2>6. prompt' = "open" => ~syncing' /\ key' = NoKey
    BY <2>1, <2>3 DEF IInv, Page
  <2>7. prompt' \in {"open", "fading", "closed"} /\ syncing' \in BOOLEAN
    BY <2>1 DEF IInv, Page
  <2> QED  BY <2>4, <2>5, <2>6, <2>7 DEF Page
<1>4. Fetch'
  BY DEF IInv, Fetch, ReviewAnswered, fetchVars
<1>5. Keyed'
  BY DEF IInv, Keyed, ReviewAnswered, TakeAnswer, keyVars
<1>6. Rows' /\ Bounds'
  BY DEF IInv, Rows, Bounds, ReviewAnswered, dimVars, backVars, Pending
<1> QED  BY <1>1, <1>2, <1>3, <1>4, <1>5, <1>6 DEF IInv

LEMMA ReloadInv ==
    ASSUME IInv, NEW k \in Keys \cup {NoKey}, Reload(k)
    PROVE  IInv'
<1>1. Rows'
  BY CallersApart DEF IInv, Rows, Calls, Reload, dimVars, Pending,
        Backend!Statuses
<1>2. Calls'
  BY CallersApart DEF IInv, Calls, Reload
<1>3. Loop'
  BY CallersApart DEF IInv, Loop, Calls, Fetch, Reload, Fetchers
<1>4. Page'
  BY CallersApart DEF IInv, Page, Calls, Reload
<1>5. Fetch'
  BY CallersApart, Counted DEF IInv, Fetch, Reload, Fetchers
<1>6. Keyed'
  BY DEF IInv, Keyed, Reload
<1>7. Bounds'
  BY BoundsAssumption DEF IInv, Bounds, Reload, Fault
<1> QED  BY <1>1, <1>2, <1>3, <1>4, <1>5, <1>6, <1>7 DEF IInv

LEMMA StepInv ==
    ASSUME IInv, [Next]_vars
    PROVE  IInv'
<1>1. CASE UNCHANGED vars
  BY <1>1 DEF IInv, Rows, Calls, Loop, Page, Fetch, Keyed, Bounds, Pending, vars,
              backVars, dimVars, callVars, loopVars, pageVars, fetchVars, keyVars
<1>2. CASE Operator
  BY <1>2, CaptureElsewhereInv, CaptureOfflineInv, RevisitInv, PressInv, CloseInv,
     AuthoriseInv DEF Operator
<1>3. CASE LoopStep
  BY <1>3, LoopStartInv, LoopDrainedInv, LoopPushInv, LoopAnsweredInv,
     LoopPostInv DEF LoopStep
<1>4. CASE \E t \in Tickets : ReviewAnswered(t)
  BY <1>4, ReviewAnsweredInv
<1>5. CASE \E p \in Polls : Poll(p)
  BY <1>5, PollInv
<1>6. CASE \E p \in Fetchers : Arrive(p) \/ FetchFails(p)
  BY <1>6, ArriveInv, FetchFailsInv
<1>7. CASE \E c \in Callers : Gate(c) \/ CallLost(c)
  BY <1>7, GateInv, CallLostInv
<1>8. CASE RunCommit \/ RunAbort
  BY <1>8, RunCommitInv, RunAbortInv
<1>9. CASE \E k \in Keys \cup {NoKey} : Restart(k) \/ Reload(k)
  BY <1>9, RestartInv, ReloadInv
<1> QED  BY <1>1, <1>2, <1>3, <1>4, <1>5, <1>6, <1>7, <1>8, <1>9 DEF Next

THEOREM Invariance == Spec => []IInv
<1>1. Init => IInv
  BY InitInv
<1>2. IInv /\ [Next]_vars => IInv'
  BY StepInv
<1> QED  BY <1>1, <1>2, PTL DEF Spec

-----------------------------------------------------------------------------
(* The theorems.                                                             *)

LEMMA InvTypeOK == IInv => TypeOK
  BY CallersApart DEF IInv, TypeOK, Rows, Calls, Loop, Page, Fetch, Keyed, Bounds

LEMMA InvNoStuckPage == IInv => NoStuckPage
  BY DEF IInv, Page, NoStuckPage

(* Who waits is who is waited for: a run answers the one caller whose call   *)
(* is running, the loop waits for its own call or refresh, the rows a run    *)
(* has read stay pending until it commits (syncService.ts, useSync.ts).      *)
THEOREM TypeCorrect == Spec => []TypeOK
  BY Invariance, InvTypeOK, PTL

(* However often the operator authorises, presses, leaves and comes back,    *)
(* and in whatever order the calls of this and of former visits are answered,*)
(* the Review page never shows a sync no call of this visit is left to end,  *)
(* and asks for a key only when it shows none and the session has none       *)
(* (Review.tsx, runSync and onAuthorise).                                    *)
THEOREM PageNeverStuck == Spec => []NoStuckPage
  BY Invariance, InvNoStuckPage, PTL

(* Only these steps let a call leave; each finds, or stores, an approved key.*)
LEMMA StepNoSpam ==
    ASSUME IInv, [Next]_vars
    PROVE  [\A c \in Callers : cpc[c] # "sent" /\ cpc'[c] = "sent" => approved']_vars
<1> SUFFICES ASSUME Next, NEW c \in Callers, cpc[c] # "sent", cpc'[c] = "sent"
             PROVE  approved'
  OBVIOUS
<1>1. CASE Operator
  <2>1. CASE Press
    <3>1. key # NoKey /\ UNCHANGED keyVars
      BY <2>1 DEF Press, callVars
    <3> QED  BY <3>1 DEF IInv, Keyed, keyVars
  <2>2. CASE \E k \in Keys : Authorise(k)
    BY <2>2 DEF Authorise
  <2>3. CASE (\E s \in Skus : CaptureElsewhere(s) \/ CaptureOffline(s)) \/ Revisit
                 \/ Cancel \/ Faded
    BY <2>3 DEF CaptureElsewhere, CaptureOffline, Revisit, Cancel, Faded, callVars
  <2> QED  BY <1>1, <2>1, <2>2, <2>3 DEF Operator
<1>2. CASE LoopStep
  <2>1. CASE LoopPush
    <3>1. key # NoKey /\ UNCHANGED keyVars
      BY <2>1 DEF LoopPush, callVars
    <3> QED  BY <3>1 DEF IInv, Keyed, keyVars
  <2>2. CASE LoopAnswered
    BY <2>2 DEF LoopAnswered, TakeAnswer, IInv, Calls
  <2>3. CASE LoopStart \/ LoopDrained \/ \E s \in Skus : LoopPost(s)
    BY <2>3 DEF LoopStart, LoopDrained, LoopPost, callVars
  <2> QED  BY <1>2, <2>1, <2>2, <2>3 DEF LoopStep
<1>3. CASE \E t \in Tickets : ReviewAnswered(t)
  BY <1>3 DEF ReviewAnswered, TakeAnswer, IInv, Calls
<1>4. CASE \E p \in Polls : Poll(p)
  BY <1>4 DEF Poll, callVars
<1>5. CASE \E p \in Fetchers : Arrive(p) \/ FetchFails(p)
  BY <1>5 DEF Arrive, FetchFails, FetchDone, callVars
<1>6. CASE \E d \in Callers : Gate(d) \/ CallLost(d)
  BY <1>6 DEF Gate, CallLost, Answer, callVars, IInv, Calls
<1>7. CASE RunCommit \/ RunAbort
  BY <1>7 DEF RunCommit, RunAbort, RunEnds, Answer, callVars, IInv, Calls
<1>8. CASE \E k \in Keys \cup {NoKey} : Restart(k) \/ Reload(k)
  BY <1>8 DEF Restart, Reload
<1> QED  BY <1>1, <1>2, <1>3, <1>4, <1>5, <1>6, <1>7, <1>8 DEF Next

(* No call of POST /api/sync/cc leaves the tab, the loop's or the page's,    *)
(* unless the operator has authorised it in this session and no 401 has come *)
(* in since (api.ts, syncToCC; useSync.ts).                                  *)
THEOREM NothingUnauthorisedLeaves == Spec => NoSpam
  BY Invariance, StepNoSpam, PTL DEF Spec, NoSpam

=============================================================================
