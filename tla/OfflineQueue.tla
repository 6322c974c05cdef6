---------------------------- MODULE OfflineQueue ----------------------------
(* Captures on their way from the operators' devices to the backend: the     *)
(* forms that post them (DimForm.tsx, FloorCapture.tsx), the IndexedDB queue *)
(* they fall back to (offlineQueue.ts, OfflineQueueContext.tsx) and the      *)
(* drain loop of every open tab (useSync.ts).  The backend is reduced to     *)
(* what POST /api/dims does: it overwrites the SKU's one row.                *)
EXTENDS Naturals, FiniteSets

CONSTANTS Devices,      \* browsers, one IndexedDB each
          Tabs,         \* open tabs, each with its drain loop
          Forms,        \* capture screens with a save in flight
          DeviceOf,     \* [Tabs \cup Forms -> Devices]
          Skus,         \* SKUs the operators measure
          RejectedSkus, \* those the backend answers 404 or 422 for
          FaultKinds,   \* what may go wrong in this instance
          MaxFaults,    \* BOUND: how often something goes wrong
          MaxCaptures   \* BOUND: captures made

ASSUME DevicesAssumption == DeviceOf \in [Tabs \cup Forms -> Devices]
ASSUME SkusAssumption == Skus # {} /\ RejectedSkus \subseteq Skus
ASSUME BoundsAssumption == MaxFaults \in Nat /\ MaxCaptures \in Nat
ASSUME FaultsAssumption ==
    FaultKinds \subseteq {"offline", "lost", "late", "gateway", "storage", "close"}

VARIABLES
    made,     \* captures made so far: capture c is the c-th Save pressed
    skuOf,    \* [Captures -> the SKU measured]
    fpc,      \* [Forms -> where its save is]
    fcap,     \* [Forms -> the capture being saved, or 0]
    queue,    \* [Devices -> the captures in its IndexedDB]
    queuedAt, \* [Captures -> position in time of its enqueueing]
    tpc,      \* [Tabs -> where its drain loop is]
    batch,    \* [Tabs -> captures it listed and has not come to]
    tcap,     \* [Tabs -> the capture being posted, or 0]
    noDb,     \* tabs whose cached connection to IndexedDB is of no use any more
    wire,     \* captures the backend will still receive, unawaited
    server,   \* [Skus -> the capture its row holds, or 0]
    fate,     \* [Captures -> what the operator was told]
    accepted, \* history: captures the backend has stored at some time
    faults

formVars  == <<fpc, fcap>>
queueVars == <<queue, queuedAt>>
tabVars   == <<tpc, batch, tcap>>
netVars   == <<wire, server, accepted>>
vars == <<made, skuOf, formVars, queueVars, tabVars, noDb, netVars, fate, faults>>

Captures == 1..MaxCaptures

Fault(kind) ==
    /\ kind \in FaultKinds
    /\ faults < MaxFaults
    /\ faults' = faults + 1

(* IndexedDB fails once, or for as long as the tab lives: getDb hands out    *)
(* the one promise it has cached, a rejected one too.                        *)
StorageFails(t) == Fault("storage") /\ noDb' \in {noDb, noDb \cup {t}}

Max0(S) == IF S = {} THEN 0 ELSE CHOOSE x \in S : \A y \in S : y <= x

-----------------------------------------------------------------------------
(* POST /api/dims as the client sees it.                                     *)

(* The upsert: whatever arrives last is what the row holds.                  *)
Store(c) ==
    /\ server' = [server EXCEPT ![skuOf[c]] = c]
    /\ accepted' = accepted \cup {c}

(* 2xx: stored and answered.                                                 *)
PostOk(c) ==
    /\ skuOf[c] \notin RejectedSkus
    /\ Store(c)
    /\ UNCHANGED <<wire, faults>>

(* fetch throws, which request() turns into an ApiError of status 0: the     *)
(* request was not sent, or it was stored and the answer lost, or it is      *)
(* still on its way.                                                         *)
PostUnreachable(c) ==
    \/ Fault("offline") /\ UNCHANGED netVars
    \/ /\ skuOf[c] \notin RejectedSkus
       /\ \/ Fault("lost") /\ Store(c) /\ UNCHANGED wire
          \/ Fault("late") /\ wire' = wire \cup {c} /\ UNCHANGED <<server, accepted>>

(* Any other error: a rejection by the backend; nginx answering 502 because  *)
(* the backend behind it is down; a 2xx whose body is cut, on which res.text *)
(* rejects with something that is no ApiError.                               *)
PostRefused(c) ==
    \/ skuOf[c] \in RejectedSkus /\ UNCHANGED <<netVars, faults>>
    \/ Fault("gateway") /\ UNCHANGED netVars
    \/ skuOf[c] \notin RejectedSkus /\ Fault("lost") /\ Store(c) /\ UNCHANGED wire

(* The request nobody waits for any more reaches the backend.                *)
LateArrival ==
    /\ \E c \in wire : Store(c) /\ wire' = wire \ {c}
    /\ UNCHANGED <<made, skuOf, formVars, queueVars, tabVars, noDb, fate, faults>>

-----------------------------------------------------------------------------
(* The capture screens.                                                      *)

(* Save is pressed on valid measurements.                                    *)
Submit(f, s) ==
    /\ fpc[f] = "idle"
    /\ made < MaxCaptures
    /\ made' = made + 1
    /\ skuOf' = [skuOf EXCEPT ![made + 1] = s]
    /\ fpc' = [fpc EXCEPT ![f] = "posting"]
    /\ fcap' = [fcap EXCEPT ![f] = made + 1]
    /\ UNCHANGED <<queueVars, tabVars, noDb, netVars, fate, faults>>

FormDone(f, told) ==
    /\ fpc' = [fpc EXCEPT ![f] = "idle"]
    /\ fcap' = [fcap EXCEPT ![f] = 0]
    /\ fate' = [fate EXCEPT ![fcap[f]] = told]

(* Only a status of 0 leads to the queue; any other error is shown.          *)
FormPost(f) ==
    /\ fpc[f] = "posting"
    /\ \/ PostOk(fcap[f]) /\ FormDone(f, "saved")
       \/ PostRefused(fcap[f]) /\ FormDone(f, "failed")
       \/ /\ PostUnreachable(fcap[f])
          /\ fpc' = [fpc EXCEPT ![f] = "queueing"]
          /\ UNCHANGED <<fcap, fate>>
    /\ UNCHANGED <<made, skuOf, queueVars, tabVars, noDb>>

MutantFormEnqueue(f) ==
    LET c == fcap[f]
        d == DeviceOf[f]
    IN
    /\ fpc[f] = "queueing"
    /\ \/ /\ queue' = [queue EXCEPT ![d] = @ \cup {c}]
          /\ queuedAt' = [queuedAt EXCEPT ![c] = 1 + Max0({queuedAt[x] : x \in Captures})]
          /\ UNCHANGED faults
       \/ Fault("storage") /\ UNCHANGED queueVars
    /\ FormDone(f, "queued")
    /\ UNCHANGED <<made, skuOf, tabVars, noDb, netVars>>

(* enqueueDim stamps queuedAt and puts the entry; it throws when the browser *)
(* has no IndexedDB to offer, or the tab the form is in has lost its own, and*)
(* nothing is said to the operator.                                          *)
FormEnqueue(f) ==
    LET c == fcap[f]
        d == DeviceOf[f]
    IN
    /\ fpc[f] = "queueing"
    /\ \/ /\ queue' = [queue EXCEPT ![d] = @ \cup {c}]
          /\ queuedAt' = [queuedAt EXCEPT ![c] = 1 + Max0({queuedAt[x] : x \in Captures})]
          /\ FormDone(f, "queued")
          /\ UNCHANGED <<noDb, faults>>
       \/ /\ \/ \E t \in noDb : DeviceOf[t] = d /\ UNCHANGED <<noDb, faults>>
             \/ \E t \in Tabs : DeviceOf[t] = d /\ StorageFails(t)
             \/ Fault("storage") /\ UNCHANGED noDb
          /\ FormDone(f, "none")
          /\ UNCHANGED queueVars
    /\ UNCHANGED <<made, skuOf, tabVars, netVars>>

(* The page goes away under a save; its request may be on its way.           *)
FormClose(f) ==
    /\ fpc[f] # "idle"
    /\ Fault("close")
    /\ FormDone(f, "none")
    /\ \/ fpc[f] = "posting" /\ skuOf[fcap[f]] \notin RejectedSkus /\ wire' = wire \cup {fcap[f]}
       \/ UNCHANGED wire
    /\ UNCHANGED <<made, skuOf, queueVars, tabVars, noDb, server, accepted>>

-----------------------------------------------------------------------------
(* useSync: the loop every tab runs on mount, on 'online' and every 30 s.    *)

(* busy is per tab: a loop under way is not entered again, and does not keep *)
(* another tab of the device out.  A list() that rejects ends it at once.    *)
DrainStart(t) ==
    /\ tpc[t] = "idle"
    /\ queue[DeviceOf[t]] # {}
    /\ t \notin noDb
    /\ \/ /\ tpc' = [tpc EXCEPT ![t] = "next"]
          /\ batch' = [batch EXCEPT ![t] = queue[DeviceOf[t]]]
          /\ UNCHANGED <<noDb, faults>>
       \/ StorageFails(t) /\ UNCHANGED <<tpc, batch>>
    /\ UNCHANGED <<made, skuOf, formVars, queueVars, tcap, netVars, fate>>

(* getPendingDims sorts by queuedAt, oldest first.                           *)
Oldest(S) == CHOOSE c \in S : \A x \in S : queuedAt[c] <= queuedAt[x]

DrainNext(t) ==
    /\ tpc[t] = "next"
    /\ IF batch[t] = {}
         THEN /\ tpc' = [tpc EXCEPT ![t] = "idle"]
              /\ UNCHANGED <<batch, tcap>>
         ELSE /\ tpc' = [tpc EXCEPT ![t] = "post"]
              /\ tcap' = [tcap EXCEPT ![t] = Oldest(batch[t])]
              /\ batch' = [batch EXCEPT ![t] = @ \ {Oldest(@)}]
    /\ UNCHANGED <<made, skuOf, formVars, queueVars, noDb, netVars, fate, faults>>

MutantDrainStop(t) ==
    /\ tpc' = [tpc EXCEPT ![t] = "idle"]
    /\ tcap' = [tcap EXCEPT ![t] = 0]
    /\ UNCHANGED batch

DrainStop(t) ==
    /\ tpc' = [tpc EXCEPT ![t] = "idle"]
    /\ batch' = [batch EXCEPT ![t] = {}]
    /\ tcap' = [tcap EXCEPT ![t] = 0]

MutantSkip(t) == DrainStop(t)

(* "Permanent error (e.g. 422/404): leave it queued and move on."            *)
Skip(t) ==
    /\ tpc' = [tpc EXCEPT ![t] = "next"]
    /\ tcap' = [tcap EXCEPT ![t] = 0]
    /\ UNCHANGED batch

MutantDrainPost(t) ==
    /\ tpc[t] = "post"
    /\ \/ PostOk(tcap[t]) \/ PostRefused(tcap[t]) \/ PostUnreachable(tcap[t])
    /\ tpc' = [tpc EXCEPT ![t] = "remove"]
    /\ UNCHANGED <<batch, tcap>>
    /\ UNCHANGED <<made, skuOf, formVars, queueVars, noDb, fate>>

DrainPost(t) ==
    /\ tpc[t] = "post"
    /\ \/ /\ PostOk(tcap[t])
          /\ tpc' = [tpc EXCEPT ![t] = "remove"]
          /\ UNCHANGED <<batch, tcap>>
       \/ PostUnreachable(tcap[t]) /\ DrainStop(t)
       \/ PostRefused(tcap[t]) /\ Skip(t)
    /\ UNCHANGED <<made, skuOf, formVars, queueVars, noDb, fate>>

(* remove(queueId); should it throw, the entry stays and the loop goes on.   *)
DrainRemove(t) ==
    /\ tpc[t] = "remove"
    /\ \/ /\ t \notin noDb
          /\ queue' = [queue EXCEPT ![DeviceOf[t]] = @ \ {tcap[t]}]
          /\ UNCHANGED <<noDb, faults>>
       \/ t \in noDb /\ UNCHANGED <<queue, noDb, faults>>
       \/ StorageFails(t) /\ UNCHANGED queue
    /\ tpc' = [tpc EXCEPT ![t] = "next"]
    /\ tcap' = [tcap EXCEPT ![t] = 0]
    /\ UNCHANGED <<made, skuOf, formVars, queuedAt, batch, netVars, fate>>

(* The tab is closed, or reloaded, under its loop or with its connection to  *)
(* IndexedDB lost; the next page opens another.                              *)
TabClose(t) ==
    /\ tpc[t] # "idle" \/ t \in noDb
    /\ Fault("close")
    /\ DrainStop(t)
    /\ noDb' = noDb \ {t}
    /\ \/ tpc[t] = "post" /\ skuOf[tcap[t]] \notin RejectedSkus /\ wire' = wire \cup {tcap[t]}
       \/ UNCHANGED wire
    /\ UNCHANGED <<made, skuOf, formVars, queueVars, server, accepted, fate>>

-----------------------------------------------------------------------------
Init ==
    /\ made = 0
    /\ skuOf \in [Captures -> {CHOOSE s \in Skus : TRUE}]
    /\ fpc = [f \in Forms |-> "idle"]
    /\ fcap = [f \in Forms |-> 0]
    /\ queue = [d \in Devices |-> {}]
    /\ queuedAt = [c \in Captures |-> 0]
    /\ tpc = [t \in Tabs |-> "idle"]
    /\ batch = [t \in Tabs |-> {}]
    /\ tcap = [t \in Tabs |-> 0]
    /\ noDb = {}
    /\ wire = {}
    /\ server = [s \in Skus |-> 0]
    /\ fate = [c \in Captures |-> "none"]
    /\ accepted = {}
    /\ faults = 0

FormStep(f) == FormPost(f) \/ FormEnqueue(f)
TabStep(t) == DrainStart(t) \/ DrainNext(t) \/ DrainPost(t) \/ DrainRemove(t)

Next ==
    \/ \E f \in Forms : FormStep(f) \/ FormClose(f) \/ \E s \in Skus : Submit(f, s)
    \/ \E t \in Tabs : TabStep(t) \/ TabClose(t)
    \/ LateArrival

Spec == Init /\ [][Next]_vars

(* Every tab left open polls and goes on with its loop; a save under way     *)
(* goes on.  Nobody is obliged to press Save.                                *)
Fairness ==
    /\ \A f \in Forms : WF_vars(FormStep(f))
    /\ \A t \in Tabs : WF_vars(TabStep(t))

FairSpec == Spec /\ Fairness

-----------------------------------------------------------------------------
Fates == {"none", "saved", "queued", "failed"}

(* The forms, queues, loops and the backend's rows have their types; a form  *)
(* or loop at rest holds nothing, and one at work holds its capture.         *)
TypeOK ==
    /\ made \in 0..MaxCaptures
    /\ skuOf \in [Captures -> Skus]
    /\ fpc \in [Forms -> {"idle", "posting", "queueing"}]
    /\ fcap \in [Forms -> Captures \cup {0}]
    /\ queue \in [Devices -> SUBSET Captures]
    /\ queuedAt \in [Captures -> Nat]
    /\ tpc \in [Tabs -> {"idle", "next", "post", "remove"}]
    /\ batch \in [Tabs -> SUBSET Captures]
    /\ tcap \in [Tabs -> Captures \cup {0}]
    /\ noDb \subseteq Tabs
    /\ wire \subseteq Captures
    /\ server \in [Skus -> Captures \cup {0}]
    /\ fate \in [Captures -> Fates]
    /\ accepted \subseteq Captures
    /\ faults \in 0..MaxFaults
    /\ \A f \in Forms : fpc[f] = "idle" <=> fcap[f] = 0
    /\ \A t \in Tabs : tcap[t] # 0 <=> tpc[t] \in {"post", "remove"}
    /\ \A t \in Tabs : tpc[t] = "idle" => batch[t] = {}

Queued(c) == \E d \in Devices : c \in queue[d]

(* What an operator was told is saved has been stored by the backend, and    *)
(* what he was told is queued is in an IndexedDB until it has been.          *)
NothingPromisedIsLost ==
    \A c \in Captures : /\ fate[c] = "saved" => c \in accepted
                        /\ fate[c] = "queued" => Queued(c) \/ c \in accepted

(* A capture taken off a queue is one the backend has stored: the loop       *)
(* removes nothing on an error, a retry or another tab's removal.            *)
RemovedOnlyIfStored ==
    [][\A c \in Captures : Queued(c) /\ ~Queued(c)' => c \in accepted]_vars

(* A capture of a SKU the backend accepts, queued on a device that has a tab *)
(* open, is delivered in the end and leaves the queue, also when an entry    *)
(* before it is rejected for ever; unless that tab loses its IndexedDB, and  *)
(* then from its reload on.                                                  *)
EventuallyDelivered ==
    \A c \in Captures, t \in Tabs :
        c \in queue[DeviceOf[t]] /\ skuOf[c] \notin RejectedSkus
            ~> (~Queued(c) /\ c \in accepted) \/ t \in noDb
=============================================================================
