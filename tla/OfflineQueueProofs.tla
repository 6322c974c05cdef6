-------------------------- MODULE OfflineQueueProofs --------------------------
(* Proofs about OfflineQueue, for any devices, tabs, forms and captures.     *)
EXTENDS OfflineQueue, NatLemmas

Told == made \in 0..MaxCaptures /\ skuOf \in [Captures -> Skus] /\ fate \in [Captures -> Fates]

Screens ==
    /\ fpc \in [Forms -> {"idle", "posting", "queueing"}]
    /\ fcap \in [Forms -> Captures \cup {0}]
    /\ \A f \in Forms : fpc[f] = "idle" <=> fcap[f] = 0

Entries ==
    /\ queue \in [Devices -> SUBSET Captures] /\ queuedAt \in [Captures -> Nat]
    /\ noDb \subseteq Tabs

Backend ==
    /\ wire \subseteq Captures /\ accepted \subseteq Captures
    /\ server \in [Skus -> Captures \cup {0}]
    /\ faults \in 0..MaxFaults

(* A loop that is about to remove an entry has been answered that the        *)
(* backend stored it.                                                        *)
Loops ==
    /\ tpc \in [Tabs -> {"idle", "next", "post", "remove"}]
    /\ batch \in [Tabs -> SUBSET Captures]
    /\ tcap \in [Tabs -> Captures \cup {0}]
    /\ \A t \in Tabs : tcap[t] # 0 <=> tpc[t] \in {"post", "remove"}
    /\ \A t \in Tabs : tpc[t] = "idle" => batch[t] = {}
    /\ \A t \in Tabs : tpc[t] = "remove" => tcap[t] \in accepted

IInv == Told /\ Screens /\ Entries /\ Backend /\ Loops /\ NothingPromisedIsLost

-----------------------------------------------------------------------------
(* Constants, choices and calls.                                             *)

LEMMA Constants ==
    /\ \A x \in Tabs \cup Forms : DeviceOf[x] \in Devices
    /\ MaxFaults \in Nat /\ MaxCaptures \in Nat
    /\ 0 \notin Captures /\ IsFiniteSet(Captures)
<1>1. IsFiniteSet(1..MaxCaptures)
  BY BoundsAssumption, FS_Interval
<1> QED  BY <1>1, DevicesAssumption, BoundsAssumption DEF Captures

LEMMA Max0Type ==
    ASSUME NEW S \in SUBSET Nat, IsFiniteSet(S)
    PROVE  Max0(S) \in Nat
<1>1. CASE S = {}
  BY <1>1 DEF Max0
<1>2. CASE S # {}
  <2>1. \E x \in S : \A y \in S : y <= x
    BY <1>2, Greatest
  <2> QED  BY <1>2, <2>1 DEF Max0
<1> QED  BY <1>1, <1>2

(* queuedAt can be stamped later than every stamp there is.                  *)
LEMMA StampType ==
    ASSUME Entries
    PROVE  Max0({queuedAt[x] : x \in Captures}) \in Nat
<1> DEFINE T == {queuedAt[x] : x \in Captures}
<1>1. IsFiniteSet(T)
  <2>1. IsFiniteSet(Captures) /\ queuedAt \in [Captures -> Nat]
    BY Constants DEF Entries
  <2> QED  BY <2>1, FiniteImage, Zenon
<1>2. T \in SUBSET Nat
  BY DEF Entries
<1> HIDE DEF T
<1>3. Max0(T) \in Nat
  BY <1>1, <1>2, Max0Type
<1> QED  BY <1>3 DEF T

(* The sort by queuedAt has a first element, and it is one of the batch.     *)
LEMMA OldestMember ==
    ASSUME Entries, NEW S \in SUBSET Captures, S # {}
    PROVE  Oldest(S) \in S
<1>1. {queuedAt[c] : c \in S} \in SUBSET Nat /\ {queuedAt[c] : c \in S} # {}
  BY DEF Entries
<1>2. PICK n \in {queuedAt[c] : c \in S} : \A k \in {queuedAt[c] : c \in S} : n <= k
  BY <1>1, Least
<1>3. \E c \in S : \A x \in S : queuedAt[c] <= queuedAt[x]
  BY <1>2
<1> QED  BY <1>3 DEF Oldest

(* Whatever becomes of a post, rows and requests keep their types and the    *)
(* backend forgets nothing; an answer of success means it is stored.         *)
LEMMA Posted ==
    ASSUME Told, Backend, NEW c \in Captures,
           PostOk(c) \/ PostUnreachable(c) \/ PostRefused(c)
    PROVE  /\ Backend' /\ accepted \subseteq accepted'
           /\ PostOk(c) => c \in accepted'
<1>1. skuOf[c] \in Skus
  BY DEF Told
<1>2. ASSUME Store(c)
      PROVE  /\ server' \in [Skus -> Captures \cup {0}]
             /\ accepted' = accepted \cup {c}
  BY <1>1, <1>2 DEF Store, Backend
<1>3. faults' \in 0..MaxFaults
  BY Constants DEF Backend, PostOk, PostUnreachable, PostRefused, Fault
<1>4. wire' \subseteq Captures
  BY DEF Backend, PostOk, PostUnreachable, PostRefused, netVars
<1>5. Store(c) \/ UNCHANGED <<server, accepted>>
  BY DEF PostOk, PostUnreachable, PostRefused, netVars
<1>6. Backend' /\ accepted \subseteq accepted'
  BY <1>2, <1>3, <1>4, <1>5 DEF Backend
<1>7. PostOk(c) => c \in accepted'
  BY <1>2 DEF PostOk
<1> QED  BY <1>6, <1>7

(* A form that is done holds no capture, and its operator has been told.     *)
LEMMA Done ==
    ASSUME Told, Screens, NEW f \in Forms, fpc[f] # "idle", NEW told \in Fates,
           FormDone(f, told), UNCHANGED <<made, skuOf>>
    PROVE  /\ Told' /\ Screens'
           /\ fcap[f] \in Captures
           /\ fate' = [fate EXCEPT ![fcap[f]] = told]
<1>1. fcap[f] \in Captures
  BY DEF Screens
<1>2. Told' /\ Screens'
  BY <1>1, Constants DEF Told, Screens, FormDone
<1> QED  BY <1>1, <1>2 DEF FormDone

(* The promise survives where the backend forgets nothing, no queue loses    *)
(* what it has not stored, and what is newly told is true.                   *)
LEMMA PromiseKept ==
    ASSUME NothingPromisedIsLost, accepted \subseteq accepted',
           \A c \in Captures : Queued(c) => Queued(c)' \/ c \in accepted,
           \A c \in Captures : \/ fate'[c] \in {fate[c], "none", "failed"}
                               \/ fate'[c] = "saved" /\ c \in accepted'
                               \/ fate'[c] = "queued" /\ Queued(c)'
    PROVE  NothingPromisedIsLost'
<1> SUFFICES ASSUME NEW c \in Captures
             PROVE  /\ fate'[c] = "saved" => c \in accepted'
                    /\ fate'[c] = "queued" => Queued(c)' \/ c \in accepted'
  BY DEF NothingPromisedIsLost
<1>1. CASE fate'[c] = fate[c]
  BY <1>1 DEF NothingPromisedIsLost
<1>2. CASE fate'[c] # fate[c]
  BY <1>2
<1> QED  BY <1>1, <1>2

(* A connection is lost to a tab.                                            *)
LEMMA StorageType ==
    ASSUME noDb \subseteq Tabs, NEW t \in Tabs, StorageFails(t)
    PROVE  noDb' \subseteq Tabs /\ Fault("storage")
  BY DEF StorageFails

LEMMA LoopsUntouched ==
    ASSUME Loops, UNCHANGED tabVars, accepted \subseteq accepted'
    PROVE  Loops'
  BY DEF Loops, tabVars

-----------------------------------------------------------------------------
(* The invariant, one lemma per action.                                      *)

LEMMA InitInv == Init => IInv
<1> SUFFICES ASSUME Init PROVE IInv
  OBVIOUS
<1>1. Told
  <2>1. (CHOOSE s \in Skus : TRUE) \in Skus
    BY SkusAssumption
  <2> QED  BY <2>1, Constants DEF Init, Told, Fates
<1>2. Screens /\ Entries
  BY DEF Init, Screens, Entries
<1>3. Backend /\ Loops
  BY Constants DEF Init, Backend, Loops
<1>4. NothingPromisedIsLost
  BY DEF Init, NothingPromisedIsLost
<1> QED  BY <1>1, <1>2, <1>3, <1>4 DEF IInv

LEMMA SubmitInv ==
    ASSUME IInv, NEW f \in Forms, NEW s \in Skus, Submit(f, s)
    PROVE  IInv'
<1>1. Told' /\ made + 1 \in Captures
  BY Constants DEF IInv, Told, Submit, Captures
<1>2. Screens'
  BY <1>1, Constants DEF IInv, Screens, Submit
<1>3. Entries' /\ Backend'
  BY DEF IInv, Entries, Backend, Submit, queueVars, netVars
<1>4. Loops'
  BY LoopsUntouched DEF IInv, Submit, netVars
<1>5. NothingPromisedIsLost'
  BY PromiseKept DEF IInv, Submit, queueVars, netVars, Queued
<1> QED  BY <1>1, <1>2, <1>3, <1>4, <1>5 DEF IInv

LEMMA FormPostInv ==
    ASSUME IInv, NEW f \in Forms, FormPost(f)
    PROVE  IInv'
<1>1. fpc[f] = "posting" /\ fcap[f] \in Captures
  BY DEF IInv, Screens, FormPost
<1>2. /\ Backend' /\ accepted \subseteq accepted'
      /\ PostOk(fcap[f]) => fcap[f] \in accepted'
  BY <1>1, Posted DEF IInv, FormPost
<1>3. Entries' /\ Loops'
  BY <1>2, LoopsUntouched DEF IInv, Entries, FormPost, queueVars
<1>4. CASE \E told \in {"saved", "failed"} :
               FormDone(f, told) /\ (told = "saved" => PostOk(fcap[f]))
  <2>1. PICK told \in {"saved", "failed"} :
            FormDone(f, told) /\ (told = "saved" => PostOk(fcap[f]))
    BY <1>4
  <2>2. Told' /\ Screens' /\ fate' = [fate EXCEPT ![fcap[f]] = told]
    BY <1>1, <2>1, Done DEF IInv, FormPost, Fates
  <2>3. NothingPromisedIsLost'
    BY <1>1, <1>2, <2>1, <2>2, PromiseKept DEF IInv, Told, FormPost, queueVars, Queued
  <2> QED  BY <1>2, <1>3, <2>2, <2>3 DEF IInv
<1>5. CASE fpc' = [fpc EXCEPT ![f] = "queueing"] /\ UNCHANGED <<fcap, fate>>
  <2>1. Told' /\ Screens'
    BY <1>1, <1>5 DEF IInv, Told, Screens, FormPost
  <2>2. NothingPromisedIsLost'
    BY <1>2, <1>5, PromiseKept DEF IInv, FormPost, queueVars, Queued
  <2> QED  BY <1>2, <1>3, <2>1, <2>2 DEF IInv
<1> QED  BY <1>4, <1>5 DEF FormPost

LEMMA FormEnqueueInv ==
    ASSUME IInv, NEW f \in Forms, FormEnqueue(f)
    PROVE  IInv'
<1> DEFINE d == DeviceOf[f]
<1>1. fpc[f] = "queueing" /\ fcap[f] \in Captures
  BY DEF IInv, Screens, FormEnqueue
<1>2. PICK c \in Captures : c = fcap[f]
  BY <1>1
<1>3. d \in Devices
  BY Constants
<1>4. Loops'
  BY LoopsUntouched DEF IInv, FormEnqueue, netVars
<1>5. CASE FormDone(f, "queued") /\ queue' = [queue EXCEPT ![d] = @ \cup {c}]
           /\ UNCHANGED <<noDb, faults>>
           /\ queuedAt' = [queuedAt EXCEPT ![c] = 1 + Max0({queuedAt[x] : x \in Captures})]
  <2>1. Told' /\ Screens' /\ fate' = [fate EXCEPT ![c] = "queued"]
    BY <1>1, <1>2, <1>5, Done DEF IInv, FormEnqueue, Fates
  <2>2. Entries'
    BY <1>3, <1>5, StampType DEF IInv, Entries
  <2>3. Backend'
    BY <1>5 DEF IInv, Backend, FormEnqueue, netVars
  <2>4. NothingPromisedIsLost'
    <3>1. Queued(c)' /\ \A x \in Captures : Queued(x) => Queued(x)'
      BY <1>3, <1>5 DEF IInv, Entries, Queued
    <3>2. accepted' = accepted /\ \A x \in Captures : x # c => fate'[x] = fate[x]
      BY <2>1 DEF IInv, Told, FormEnqueue, netVars
    <3>3. fate'[c] = "queued"
      BY <1>2, <2>1 DEF IInv, Told
    <3> QED  BY <3>1, <3>2, <3>3, PromiseKept DEF IInv
  <2> QED  BY <1>4, <2>1, <2>2, <2>3, <2>4 DEF IInv
<1>6. CASE FormDone(f, "none") /\ UNCHANGED queueVars
           /\ noDb' \subseteq Tabs /\ (UNCHANGED faults \/ Fault("storage"))
  <2>1. Told' /\ Screens' /\ fate' = [fate EXCEPT ![c] = "none"]
    BY <1>1, <1>2, <1>6, Done DEF IInv, FormEnqueue, Fates
  <2>2. Entries'
    BY <1>6 DEF IInv, Entries, queueVars
  <2>3. Backend'
    BY <1>6, Constants DEF IInv, Backend, FormEnqueue, netVars, Fault
  <2>4. NothingPromisedIsLost'
    BY <1>2, <1>6, <2>1, PromiseKept DEF IInv, Told, FormEnqueue, queueVars, netVars, Queued
  <2> QED  BY <1>4, <2>1, <2>2, <2>3, <2>4 DEF IInv
<1>7. \/ FormDone(f, "queued") /\ queue' = [queue EXCEPT ![d] = @ \cup {c}]
         /\ UNCHANGED <<noDb, faults>>
         /\ queuedAt' = [queuedAt EXCEPT ![c] = 1 + Max0({queuedAt[x] : x \in Captures})]
      \/ FormDone(f, "none") /\ UNCHANGED queueVars
         /\ \/ UNCHANGED <<noDb, faults>>
            \/ \E t \in Tabs : StorageFails(t)
            \/ Fault("storage") /\ UNCHANGED noDb
  BY <1>2, Zenon DEF FormEnqueue
<1>8. noDb \subseteq Tabs
  BY DEF IInv, Entries
<1>9. ASSUME NEW t \in Tabs, StorageFails(t)
      PROVE  noDb' \subseteq Tabs /\ Fault("storage")
  BY <1>8, <1>9, StorageType
<1> QED  BY <1>5, <1>6, <1>7, <1>8, <1>9

LEMMA FormCloseInv ==
    ASSUME IInv, NEW f \in Forms, FormClose(f)
    PROVE  IInv'
<1>1. fpc[f] # "idle" /\ FormDone(f, "none")
  BY DEF FormClose
<1>2. Told' /\ Screens' /\ fcap[f] \in Captures /\ fate' = [fate EXCEPT ![fcap[f]] = "none"]
  BY <1>1, Done DEF IInv, FormClose, Fates
<1>3. Entries'
  BY DEF IInv, Entries, FormClose, queueVars
<1>4. Backend'
  BY <1>2, Constants DEF IInv, Backend, FormClose, Fault
<1>5. Loops'
  BY LoopsUntouched DEF IInv, FormClose
<1>6. NothingPromisedIsLost'
  BY <1>2, PromiseKept DEF IInv, Told, FormClose, queueVars, Queued
<1> QED  BY <1>2, <1>3, <1>4, <1>5, <1>6 DEF IInv

LEMMA DrainStartInv ==
    ASSUME IInv, NEW t \in Tabs, DrainStart(t)
    PROVE  IInv'
<1>1. noDb' \subseteq Tabs /\ (UNCHANGED faults \/ Fault("storage"))
  BY StorageType DEF IInv, Entries, DrainStart
<1>2. Loops'
  BY Constants DEF IInv, Entries, Loops, DrainStart, netVars
<1>3. Backend'
  BY <1>1, Constants DEF IInv, Backend, DrainStart, netVars, Fault
<1>4. Told' /\ Screens' /\ Entries' /\ NothingPromisedIsLost'
  BY <1>1 DEF IInv, Told, Screens, Entries, NothingPromisedIsLost, Queued, DrainStart,
        formVars, queueVars, netVars
<1> QED  BY <1>2, <1>3, <1>4 DEF IInv

LEMMA DrainNextInv ==
    ASSUME IInv, NEW t \in Tabs, DrainNext(t)
    PROVE  IInv'
<1>1. Loops'
  <2>1. CASE batch[t] = {}
    BY <2>1 DEF IInv, Loops, DrainNext, netVars
  <2>2. CASE batch[t] # {}
    <3>1. Oldest(batch[t]) \in Captures
      BY <2>2, OldestMember DEF IInv, Loops
    <3> QED  BY <2>2, <3>1, Constants DEF IInv, Loops, DrainNext, netVars
  <2> QED  BY <2>1, <2>2
<1>2. Told' /\ Screens' /\ Entries' /\ Backend' /\ NothingPromisedIsLost'
  BY DEF IInv, Told, Screens, Entries, Backend, NothingPromisedIsLost, Queued, DrainNext,
        formVars, queueVars, netVars
<1> QED  BY <1>1, <1>2 DEF IInv

LEMMA DrainPostInv ==
    ASSUME IInv, NEW t \in Tabs, DrainPost(t)
    PROVE  IInv'
<1>1. tpc[t] = "post" /\ tcap[t] \in Captures
  BY DEF IInv, Loops, DrainPost
<1>2. /\ Backend' /\ accepted \subseteq accepted'
      /\ PostOk(tcap[t]) => tcap[t] \in accepted'
  BY <1>1, Posted DEF IInv, DrainPost
<1>3. Loops'
  <2>1. CASE PostOk(tcap[t]) /\ tpc' = [tpc EXCEPT ![t] = "remove"] /\ UNCHANGED <<batch, tcap>>
    BY <1>1, <1>2, <2>1 DEF IInv, Loops
  <2>2. CASE DrainStop(t) \/ Skip(t)
    BY <1>2, <2>2, Constants DEF IInv, Loops, DrainStop, Skip
  <2> QED  BY <2>1, <2>2 DEF DrainPost
<1>4. Told' /\ Screens' /\ Entries'
  BY DEF IInv, Told, Screens, Entries, DrainPost, formVars, queueVars
<1>5. NothingPromisedIsLost'
  BY <1>2, PromiseKept DEF IInv, DrainPost, queueVars, Queued
<1> QED  BY <1>2, <1>3, <1>4, <1>5 DEF IInv

LEMMA DrainRemoveInv ==
    ASSUME IInv, NEW t \in Tabs, DrainRemove(t)
    PROVE  /\ IInv'
           /\ \A c \in Captures : Queued(c) => Queued(c)' \/ c \in accepted
<1>0. noDb' \subseteq Tabs /\ (UNCHANGED faults \/ Fault("storage"))
  BY StorageType DEF IInv, Entries, DrainRemove
<1>1. tpc[t] = "remove" /\ tcap[t] \in accepted /\ DeviceOf[t] \in Devices
  BY Constants DEF IInv, Loops, DrainRemove
<1>2. Entries'
  BY <1>0, <1>1 DEF IInv, Entries, DrainRemove
<1>3. \A c \in Captures : Queued(c) => Queued(c)' \/ c \in accepted
  BY <1>1 DEF IInv, Entries, DrainRemove, Queued
<1>4. Loops'
  BY <1>1, Constants DEF IInv, Loops, DrainRemove, netVars
<1>5. Told' /\ Screens'
  BY DEF IInv, Told, Screens, DrainRemove, formVars
<1>6. Backend'
  BY <1>0, Constants DEF IInv, Backend, DrainRemove, netVars, Fault
<1>7. NothingPromisedIsLost'
  BY <1>3, PromiseKept DEF IInv, DrainRemove, netVars
<1> QED  BY <1>2, <1>3, <1>4, <1>5, <1>6, <1>7 DEF IInv

LEMMA TabCloseInv ==
    ASSUME IInv, NEW t \in Tabs, TabClose(t)
    PROVE  IInv'
<1>1. Loops'
  BY Constants DEF IInv, Loops, TabClose, DrainStop
<1>2. tpc[t] = "post" => tcap[t] \in Captures
  BY DEF IInv, Loops
<1>3. Backend'
  BY <1>2, Constants DEF IInv, Backend, TabClose, Fault
<1>4. Told' /\ Screens' /\ Entries' /\ NothingPromisedIsLost'
  BY DEF IInv, Told, Screens, Entries, NothingPromisedIsLost, Queued, TabClose, formVars, queueVars
<1> QED  BY <1>1, <1>3, <1>4 DEF IInv

LEMMA LateArrivalInv == ASSUME IInv, LateArrival PROVE IInv'
<1>1. PICK c \in wire : Store(c) /\ wire' = wire \ {c}
  BY DEF LateArrival
<1>2. c \in Captures /\ skuOf[c] \in Skus
  BY DEF IInv, Told, Backend
<1>3. accepted \subseteq accepted' /\ Backend'
  BY <1>1, <1>2 DEF IInv, Backend, Store, LateArrival
<1>4. Loops'
  BY <1>3, LoopsUntouched DEF IInv, LateArrival
<1>5. Told' /\ Screens' /\ Entries'
  BY DEF IInv, Told, Screens, Entries, LateArrival, formVars, queueVars
<1>6. NothingPromisedIsLost'
  BY <1>3, PromiseKept DEF IInv, LateArrival, queueVars, Queued
<1> QED  BY <1>3, <1>4, <1>5, <1>6 DEF IInv

LEMMA Untouched == ASSUME IInv, UNCHANGED vars PROVE IInv'
  BY DEF IInv, Told, Screens, Entries, Backend, Loops, NothingPromisedIsLost, Queued, vars,
        formVars, queueVars, tabVars, netVars

LEMMA StepInv == IInv /\ [Next]_vars => IInv'
<1> SUFFICES ASSUME IInv, [Next]_vars PROVE IInv'
  OBVIOUS
<1>1. CASE \E f \in Forms : FormStep(f)
  BY <1>1, FormPostInv, FormEnqueueInv DEF FormStep
<1>2. CASE \E f \in Forms : FormClose(f) \/ \E s \in Skus : Submit(f, s)
  BY <1>2, FormCloseInv, SubmitInv
<1>3. CASE \E t \in Tabs : TabStep(t)
  BY <1>3, DrainStartInv, DrainNextInv, DrainPostInv, DrainRemoveInv DEF TabStep
<1>4. CASE \E t \in Tabs : TabClose(t)
  BY <1>4, TabCloseInv
<1>5. CASE LateArrival
  BY <1>5, LateArrivalInv
<1>6. CASE UNCHANGED vars
  BY <1>6, Untouched
<1> QED  BY <1>1, <1>2, <1>3, <1>4, <1>5, <1>6 DEF Next

(* The captures, queues, loops and rows as described by the parts above, in  *)
(* every reachable state.                                                    *)
THEOREM Invariance == Spec => []IInv
  BY InitInv, StepInv, PTL DEF Spec

(* The forms, queues, loops and rows keep their types; a loop or form holds  *)
(* a capture exactly while it is at work on one.                             *)
THEOREM TypeCorrect == Spec => []TypeOK
<1>1. IInv => TypeOK
  BY DEF IInv, Told, Screens, Entries, Backend, Loops, TypeOK
<1> QED  BY <1>1, Invariance, PTL

(* "Saved" and "queued" are kept: through lost answers, closed tabs, two     *)
(* loops on one queue and requests that arrive late, the capture is stored,  *)
(* or still in an IndexedDB.                                                 *)
THEOREM PromisesAreKept == Spec => []NothingPromisedIsLost
<1>1. IInv => NothingPromisedIsLost
  BY DEF IInv
<1> QED  BY <1>1, Invariance, PTL

(* useSync's remove: no entry leaves the last queue that holds it before the *)
(* backend has stored it.                                                    *)
THEOREM RemovesOnlyStored == Spec => RemovedOnlyIfStored
<1> DEFINE Keeps == \A c \in Captures : Queued(c) /\ ~Queued(c)' => c \in accepted
<1>1. IInv /\ [Next]_vars => [Keeps]_vars
  <2> SUFFICES ASSUME IInv, Next PROVE Keeps
    OBVIOUS
  <2>1. CASE \E t \in Tabs : DrainRemove(t)
    BY <2>1, DrainRemoveInv
  <2>2. CASE \E f \in Forms : FormEnqueue(f)
    BY <2>2, Constants DEF IInv, Entries, FormEnqueue, queueVars, Queued
  <2>3. CASE UNCHANGED queue
    BY <2>3 DEF Queued
  <2> QED
    BY <2>1, <2>2, <2>3 DEF Next, FormStep, TabStep, FormPost, FormClose, Submit, DrainStart,
          DrainNext, DrainPost, TabClose, LateArrival, queueVars
<1> QED  BY <1>1, Invariance, PTL DEF Spec, RemovedOnlyIfStored
=============================================================================
