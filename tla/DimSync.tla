------------------------------ MODULE DimSync ------------------------------
(* The backend's core: captures and corrections of carton measurements       *)
(* (dimService.ts), the transactions and advisory locks they run under       *)
(* (db.ts), the sync run that pushes pending measurements to CartonCloud     *)
(* (syncService.ts) and the write recipe it follows (patchProductDims in     *)
(* ccClient.ts).  A step ends where the code awaits something another        *)
(* request, the database or CartonCloud can interleave with.                 *)
EXTENDS Naturals, FiniteSets

CONSTANTS Skus,       \* ids of warehouse products a client may name
          KnownSkus,  \* those present in the Sku table
          NoSku,      \* no SKU
          Fields,     \* length, width, height, weight, or some of them
          Numbers,    \* readings distinct at CartonCloud's precision
          NoNum,      \* no reading stored
          Writers,    \* capture and correction requests in flight at once
          Runs,       \* POST /api/sync/cc requests in flight at once
          FaultKinds, \* what may go wrong in this instance
          MaxFaults,  \* BOUND: how often something goes wrong, all kinds together
          MaxWrites   \* BOUND: captures and corrections given a timestamp

ASSUME SkusAssumption ==
    /\ IsFiniteSet(Skus)
    /\ KnownSkus \subseteq Skus
    /\ NoSku \notin Skus
ASSUME NoNumAssumption == NoNum \notin Numbers
ASSUME BoundsAssumption == MaxFaults \in Nat /\ MaxWrites \in Nat
ASSUME FaultsAssumption ==
    FaultKinds \subseteq {"throttle", "error", "mismatch", "lost", "late",
                          "edit", "expiry", "slow", "crash"}

VARIABLES
    dim,       \* [Skus -> Row]: the committed Dim table
    clock,     \* the last measuredAt handed out
    wpc,       \* [Writers -> where the request is]
    wsku,      \* [Writers -> the SKU it names]
    wval,      \* [Writers -> the measurements in its body]
    wat,       \* [Writers -> the measuredAt it computed]
    rpc,       \* [Runs -> where the run is]
    tx,        \* [Runs -> state of the run's interactive transaction]
    snap,      \* [Runs -> [Skus -> Row]]: the rows its findMany returned
    todo,      \* [Runs -> rows still to process]
    cur,       \* [Runs -> the row being processed]
    ops,       \* [Runs -> the fields its PATCH is to write]
    out,       \* [Runs -> outcome of patchProductDims for cur]
    mark,      \* [Runs -> [Skus -> its uncommitted updates]]
    tally,     \* [Runs -> the counters of the report]
    cc,        \* [Skus -> the dims CartonCloud holds]
    ccState,   \* [Skus -> what a GET of the product would show]
    late,      \* PATCHes CartonCloud has received and not yet applied
    overtaken, \* history: SKUs whose row was marked synced over measurements
               \* not pushed, or whose product an abandoned PATCH has written
    faults     \* things that went wrong so far

reqVars == <<wpc, wsku, wval, wat>>
runVars == <<rpc, tx, snap, todo, cur, ops, out, mark, tally>>
ccVars  == <<cc, ccState, late>>
vars    == <<dim, clock, reqVars, runVars, ccVars, overtaken, faults>>

Values == [Fields -> Numbers]
NoVal  == [f \in Fields |-> NoNum]
Stored == [Fields -> Numbers \cup {NoNum}]

Row == [val: Values \cup {NoVal}, at: Nat, synced: BOOLEAN, blocked: BOOLEAN]

(* at = 0 stands for "no row".                                               *)
NoRow == [val |-> NoVal, at |-> 0, synced |-> FALSE, blocked |-> FALSE]

(* What saveDim and updateDim write: both reset the sync state.              *)
Fresh(v, t) == [val |-> v, at |-> t, synced |-> FALSE, blocked |-> FALSE]

MutantPendingSynced(row)  == row.at > 0 /\ ~row.blocked
MutantPendingBlocked(row) == row.at > 0 /\ ~row.synced

(* The where clause of the run's findMany and of both pending counts.        *)
Pending(row) == row.at > 0 /\ ~row.synced /\ ~row.blocked

Marks    == {"none", "synced", "blocked"}
CcStates == {"ok", "foreign", "poisoned", "unusable"}
NoMarks  == [s \in Skus |-> "none"]
NoRows   == [s \in Skus |-> NoRow]
NoTally  == [synced |-> 0, failed |-> 0, blocked |-> 0, pending |-> 0]

WriterPcs == {"idle", "lock", "upsert", "commit", "check", "write"}
RunPcs    == {"idle", "loop", "patch", "verify", "mark", "commit"}

Fault(kind) ==
    /\ kind \in FaultKinds
    /\ faults < MaxFaults
    /\ faults' = faults + 1

-----------------------------------------------------------------------------
(* Locks.  A saver that has upserted and not committed, and a run that has   *)
(* updated a row and not committed, hold the row; a saver holds its SKU's    *)
(* advisory lock from pg_advisory_xact_lock until its transaction ends.      *)

SkuLockHeld(s) == \E w \in Writers : wsku[w] = s /\ wpc[w] \in {"upsert", "commit"}
HeldBySaver(s) == \E w \in Writers : wsku[w] = s /\ wpc[w] = "commit"
HeldByRun(s)   == \E r \in Runs : mark[r][s] # "none"

MutantSyncLockFree == TRUE

(* pg_try_advisory_xact_lock on SYNC_LOCK_KEY succeeds.                      *)
SyncLockFree == \A r \in Runs : tx[r] # "open"

(* The request is answered; its variables go back to what they were.         *)
Answer(w) ==
    /\ wpc' = [wpc EXCEPT ![w] = "idle"]
    /\ wsku' = [wsku EXCEPT ![w] = NoSku]
    /\ wval' = [wval EXCEPT ![w] = NoVal]
    /\ wat' = [wat EXCEPT ![w] = 0]

-----------------------------------------------------------------------------
(* POST /api/dims (saveDim) and PUT /api/dims/:id (updateDim).  A body that  *)
(* fails validation is answered 422 before anything is read: no step.        *)

Active == {w \in Writers : wpc[w] # "idle"}

Request(w, s, v, pc) ==
    /\ wpc[w] = "idle"
    /\ clock + Cardinality(Active) < MaxWrites
    /\ wpc' = [wpc EXCEPT ![w] = pc]
    /\ wsku' = [wsku EXCEPT ![w] = s]
    /\ wval' = [wval EXCEPT ![w] = v]
    /\ UNCHANGED <<dim, clock, wat, runVars, ccVars, overtaken, faults>>

(* measuredAt: new Date(), computed when the statement is issued.            *)
Stamp(w, pc) ==
    /\ clock' = clock + 1
    /\ wat' = [wat EXCEPT ![w] = clock + 1]
    /\ wpc' = [wpc EXCEPT ![w] = pc]
    /\ UNCHANGED <<wsku, wval>>

(* The advisory lock is granted and the SKU looked up under it.              *)
SaveLock(w) ==
    /\ wpc[w] = "lock"
    /\ ~SkuLockHeld(wsku[w])
    /\ \/ /\ wsku[w] \in KnownSkus
          /\ Stamp(w, "upsert")
       \/ /\ wsku[w] \notin KnownSkus            \* 404, the transaction rolls back
          /\ Answer(w)
          /\ UNCHANGED clock
    /\ UNCHANGED <<dim, runVars, ccVars, overtaken, faults>>

(* The upsert waits for a run that has updated the row.                      *)
SaveUpsert(w) ==
    /\ wpc[w] = "upsert"
    /\ ~HeldByRun(wsku[w])
    /\ wpc' = [wpc EXCEPT ![w] = "commit"]
    /\ UNCHANGED <<dim, clock, wsku, wval, wat, runVars, ccVars, overtaken, faults>>

MutantOverwrite(w) ==
    /\ dim' = [dim EXCEPT ![wsku[w]].val = wval[w], ![wsku[w]].at = wat[w]]
    /\ Answer(w)
    /\ UNCHANGED <<clock, runVars, ccVars, overtaken, faults>>

(* The row as either capture leaves it, committed and answered.              *)
Overwrite(w) ==
    /\ dim' = [dim EXCEPT ![wsku[w]] = Fresh(wval[w], wat[w])]
    /\ Answer(w)
    /\ UNCHANGED <<clock, runVars, ccVars, overtaken, faults>>

SaveCommit(w) ==
    /\ wpc[w] = "commit"
    /\ Overwrite(w)

(* The 5 s interactive-transaction limit: rolled back, answered 500.         *)
SaveExpire(w) ==
    /\ wpc[w] \in {"lock", "upsert", "commit"}
    /\ Fault("slow")
    /\ Answer(w)
    /\ UNCHANGED <<dim, clock, runVars, ccVars, overtaken>>

(* updateDim: no lock and no transaction, two statements.                    *)
PutCheck(w) ==
    /\ wpc[w] = "check"
    /\ \/ /\ dim[wsku[w]].at > 0
          /\ Stamp(w, "write")
       \/ /\ dim[wsku[w]].at = 0                 \* 404
          /\ Answer(w)
          /\ UNCHANGED clock
    /\ UNCHANGED <<dim, runVars, ccVars, overtaken, faults>>

PutWrite(w) ==
    /\ wpc[w] = "write"
    /\ ~HeldByRun(wsku[w])
    /\ ~HeldBySaver(wsku[w])
    /\ Overwrite(w)

-----------------------------------------------------------------------------
(* POST /api/sync/cc (syncUnsyncedDims).                                     *)

(* Try-lock, then findMany.  A run that finds the lock held only counts the  *)
(* pending rows and answers zeros: it changes nothing, so it is no step.     *)
RunStart(r) ==
    /\ rpc[r] = "idle"
    /\ SyncLockFree
    /\ rpc' = [rpc EXCEPT ![r] = "loop"]
    /\ tx' = [tx EXCEPT ![r] = "open"]
    /\ snap' = [snap EXCEPT ![r] =
                  [s \in Skus |-> IF Pending(dim[s]) THEN dim[s] ELSE NoRow]]
    /\ todo' = [todo EXCEPT ![r] = {s \in Skus : Pending(dim[s])}]
    /\ UNCHANGED <<dim, clock, reqVars, cur, ops, out, mark, tally, ccVars,
                   overtaken, faults>>

(* orderBy measuredAt asc.                                                   *)
IsNext(r, s) ==
    /\ s \in todo[r]
    /\ \A u \in todo[r] : snap[r][s].at <= snap[r][u].at

Goto(r, pc) == rpc' = [rpc EXCEPT ![r] = pc]

MutantCount(r, field) ==
    tally' = [tally EXCEPT ![r][field] = IF field = "blocked" THEN @ ELSE @ + 1]

(* The counters of the report.                                               *)
Count(r, field) == tally' = [tally EXCEPT ![r][field] = @ + 1]

(* Leave the product and go on with the next.                                *)
Leave(r) ==
    /\ Goto(r, "loop")
    /\ cur' = [cur EXCEPT ![r] = NoSku]
    /\ ops' = [ops EXCEPT ![r] = {}]
    /\ out' = [out EXCEPT ![r] = "none"]

(* The catch around one product.                                             *)
Fail(r) ==
    /\ Leave(r)
    /\ Count(r, "failed")

MutantDecide(r, outcome) ==
    /\ Goto(r, "mark")
    /\ out' = [out EXCEPT ![r] = IF rpc[r] = "loop" /\ outcome = "synced" THEN "noop" ELSE outcome]
    /\ ops' = [ops EXCEPT ![r] = {}]
    /\ UNCHANGED tally

(* patchProductDims returns: written and noop are both settled as synced.    *)
Decide(r, outcome) ==
    /\ Goto(r, "mark")
    /\ out' = [out EXCEPT ![r] = outcome]
    /\ ops' = [ops EXCEPT ![r] = {}]
    /\ UNCHANGED tally

MutantRefused(s) == ccState[s] = "poisoned"

(* The customer guard and the name guard: terminal, nothing is written.      *)
Refused(s) == ccState[s] \in {"foreign", "poisoned"}

MutantDiffering(want, have) == {f \in Fields : have[f] # NoNum /\ have[f] # want[f]}

(* buildPatchOps: the fields whose stored value is missing or differs.       *)
Differing(want, have) == {f \in Fields : have[f] # want[f]}

(* patchProductDims up to its diff: the token bucket, the GET, the customer  *)
(* and name guards, the default UoM, and the comparison with what is there.  *)
RunGet(r) ==
    /\ rpc[r] = "loop"
    /\ \E s \in Skus :
        LET diff == Differing(snap[r][s].val, cc[s]) IN
        /\ IsNext(r, s)
        /\ todo' = [todo EXCEPT ![r] = @ \ {s}]
        /\ overtaken' = IF tx[r] = "open" THEN overtaken \ {s} ELSE overtaken
        /\ \/ /\ Fail(r)
              /\ \/ Fault("throttle")
                 \/ Fault("error")
                 \/ ccState[s] = "unusable" /\ UNCHANGED faults
           \/ /\ cur' = [cur EXCEPT ![r] = s]
              /\ ccState[s] # "unusable"
              /\ UNCHANGED faults
              /\ \/ Refused(s) /\ Decide(r, "blocked")
                 \/ ~Refused(s) /\ diff = {} /\ Decide(r, "synced")
                 \/ /\ ~Refused(s) /\ diff # {}
                    /\ ops' = [ops EXCEPT ![r] = diff]
                    /\ Goto(r, "patch")
                    /\ UNCHANGED <<out, tally>>
    /\ UNCHANGED <<dim, clock, reqVars, tx, snap, mark, ccVars>>

(* JSON-Patch op:add on the named fields; the others keep what they hold.    *)
Patched(have, want, fields) == [f \in Fields |-> IF f \in fields THEN want[f] ELSE have[f]]

(* The PATCH: applied; accepted without effect; applied with the answer      *)
(* lost; timed out, to be applied later or never; or refused, as the one of a*)
(* poisoned product or of one that is gone.  It names the unit: one that is  *)
(* no longer the default takes it.                                           *)
RunPatch(r) ==
    LET s == cur[r]
        Apply == /\ cc' = [cc EXCEPT ![s] = Patched(@, snap[r][s].val, ops[r])]
                 /\ overtaken' = IF tx[r] = "open" THEN overtaken ELSE overtaken \cup {s}
        Verify == Goto(r, "verify") /\ UNCHANGED <<cur, ops, out, tally>>
    IN
    /\ rpc[r] = "patch"
    /\ \/ /\ ccState[s] # "poisoned"
          /\ \/ Verify /\ Apply /\ UNCHANGED <<late, faults>>
             \/ Verify /\ Fault("mismatch") /\ UNCHANGED <<cc, late, overtaken>>
             \/ Fail(r) /\ Fault("lost") /\ Apply /\ UNCHANGED late
             \/ /\ Fail(r) /\ Fault("late")
                /\ late' = late \cup {[sku |-> s, val |-> snap[r][s].val, fields |-> ops[r]]}
                /\ UNCHANGED <<cc, overtaken>>
       \/ /\ Fail(r)
          /\ \/ Fault("error")
             \/ ccState[s] \in {"poisoned", "unusable"} /\ UNCHANGED faults
          /\ UNCHANGED <<cc, late, overtaken>>
    /\ UNCHANGED <<dim, clock, reqVars, tx, snap, todo, mark, ccState>>

(* The read-back GET and its comparison of all the fields, in the unit fixed *)
(* by the first GET: a product removed since fails it, a missing default unit*)
(* does not.                                                                 *)
RunVerify(r) ==
    LET s == cur[r]
        same == Differing(snap[r][s].val, cc[s]) = {}
    IN
    /\ rpc[r] = "verify"
    /\ \/ same /\ Decide(r, "synced") /\ UNCHANGED <<cur, faults>>
       \/ (~same \/ ccState[s] = "unusable") /\ Fail(r) /\ UNCHANGED faults
       \/ Fail(r) /\ Fault("error")
    /\ UNCHANGED <<dim, clock, reqVars, tx, snap, todo, mark, ccVars, overtaken>>

(* tx.dim.update: waits for a saver that holds the row; on an expired        *)
(* transaction it throws, and the row counts as failed.                      *)
RunMark(r) ==
    /\ rpc[r] = "mark"
    /\ \/ /\ tx[r] = "open"
          /\ ~HeldBySaver(cur[r])
          /\ mark' = [mark EXCEPT ![r][cur[r]] = out[r]]
          /\ Count(r, out[r])
          /\ Leave(r)
       \/ /\ tx[r] = "expired"
          /\ Fail(r)
          /\ UNCHANGED mark
    /\ UNCHANGED <<dim, clock, reqVars, tx, snap, todo, ccVars, overtaken, faults>>

(* tx.dim.count sees the run's own updates over the committed rows.          *)
RunCount(r) ==
    /\ rpc[r] = "loop" /\ todo[r] = {}
    /\ tx[r] = "open"
    /\ Goto(r, "commit")
    /\ tally' = [tally EXCEPT ![r].pending =
         Cardinality({s \in Skus : Pending(dim[s]) /\ mark[r][s] = "none"})]
    /\ UNCHANGED <<dim, clock, reqVars, tx, snap, todo, cur, ops, out, mark, ccVars,
                   overtaken, faults>>

MutantFinishLockLeak(r) ==
    /\ Goto(r, "idle")
    /\ snap' = [snap EXCEPT ![r] = NoRows]
    /\ todo' = [todo EXCEPT ![r] = {}]
    /\ mark' = [mark EXCEPT ![r] = NoMarks]
    /\ tally' = [tally EXCEPT ![r] = NoTally]
    /\ UNCHANGED <<cur, ops, out, tx>>

MutantFinishRowLeak(r) ==
    /\ Goto(r, "idle")
    /\ tx' = [tx EXCEPT ![r] = "none"]
    /\ snap' = [snap EXCEPT ![r] = NoRows]
    /\ todo' = [todo EXCEPT ![r] = {}]
    /\ tally' = [tally EXCEPT ![r] = NoTally]
    /\ UNCHANGED <<cur, ops, out, mark>>

(* A run's variables go back to what a run not begun has.                    *)
Finish(r) ==
    /\ Goto(r, "idle")
    /\ tx' = [tx EXCEPT ![r] = "none"]
    /\ snap' = [snap EXCEPT ![r] = NoRows]
    /\ todo' = [todo EXCEPT ![r] = {}]
    /\ mark' = [mark EXCEPT ![r] = NoMarks]
    /\ tally' = [tally EXCEPT ![r] = NoTally]
    /\ UNCHANGED <<cur, ops, out>>

(* What a run's update does to the row it finds: where: {id}, no other test. *)
Marked(row, m) ==
    CASE m = "synced"  -> [row EXCEPT !.synced = TRUE, !.blocked = FALSE]
      [] m = "blocked" -> [row EXCEPT !.blocked = TRUE]
      [] OTHER         -> row

RunCommit(r) ==
    /\ rpc[r] = "commit"
    /\ tx[r] = "open"
    /\ dim' = [s \in Skus |-> Marked(dim[s], mark[r][s])]
    /\ overtaken' = overtaken \cup {s \in Skus : /\ mark[r][s] = "synced"
                                                 /\ dim[s].val # snap[r][s].val}
    /\ Finish(r)
    /\ UNCHANGED <<clock, reqVars, ccVars, faults>>

(* The count or the commit throws on an expired transaction: answered 500.   *)
RunAbort(r) ==
    /\ tx[r] = "expired"
    /\ \/ rpc[r] = "loop" /\ todo[r] = {}
       \/ rpc[r] = "commit"
    /\ Finish(r)
    /\ UNCHANGED <<dim, clock, reqVars, ccVars, overtaken, faults>>

-----------------------------------------------------------------------------
(* What may go wrong around them.                                            *)

(* 120 s are over: the engine rolls the transaction back, which releases the *)
(* sync lock, while the callback of the run carries on.                      *)
TxExpire(r) ==
    /\ tx[r] = "open"
    /\ Fault("expiry")
    /\ tx' = [tx EXCEPT ![r] = "expired"]
    /\ mark' = [mark EXCEPT ![r] = NoMarks]
    /\ UNCHANGED <<dim, clock, reqVars, rpc, snap, todo, cur, ops, out, tally, ccVars,
                   overtaken>>

(* A PATCH whose caller gave up is applied after all.                        *)
LatePatch ==
    /\ \E p \in late :
         /\ cc' = [cc EXCEPT ![p.sku] = Patched(@, p.val, p.fields)]
         /\ late' = late \ {p}
         /\ overtaken' = overtaken \cup {p.sku}
    /\ UNCHANGED <<dim, clock, reqVars, runVars, ccState, faults>>

(* Somebody renames a unit of measure, removes or restores a product.  A     *)
(* product never changes customer.                                           *)
CcEdit(s) ==
    /\ s \in KnownSkus /\ ccState[s] # "foreign"
    /\ Fault("edit")
    /\ \E c \in CcStates \ {"foreign", ccState[s]} : ccState' = [ccState EXCEPT ![s] = c]
    /\ UNCHANGED <<dim, clock, reqVars, runVars, cc, late, overtaken>>

(* The process dies: every request with it, every transaction rolled back.   *)
Crash ==
    /\ \/ \E w \in Writers : wpc[w] # "idle"
       \/ \E r \in Runs : rpc[r] # "idle"
    /\ Fault("crash")
    /\ wpc' = [w \in Writers |-> "idle"]
    /\ wsku' = [w \in Writers |-> NoSku]
    /\ wval' = [w \in Writers |-> NoVal]
    /\ wat' = [w \in Writers |-> 0]
    /\ rpc' = [r \in Runs |-> "idle"]
    /\ tx' = [r \in Runs |-> "none"]
    /\ snap' = [r \in Runs |-> NoRows]
    /\ todo' = [r \in Runs |-> {}]
    /\ cur' = [r \in Runs |-> NoSku]
    /\ ops' = [r \in Runs |-> {}]
    /\ out' = [r \in Runs |-> "none"]
    /\ mark' = [r \in Runs |-> NoMarks]
    /\ tally' = [r \in Runs |-> NoTally]
    /\ UNCHANGED <<dim, clock, ccVars, overtaken>>

-----------------------------------------------------------------------------
Init ==
    /\ dim = NoRows
    /\ clock = 0
    /\ wpc = [w \in Writers |-> "idle"]
    /\ wsku = [w \in Writers |-> NoSku]
    /\ wval = [w \in Writers |-> NoVal]
    /\ wat = [w \in Writers |-> 0]
    /\ rpc = [r \in Runs |-> "idle"]
    /\ tx = [r \in Runs |-> "none"]
    /\ snap = [r \in Runs |-> NoRows]
    /\ todo = [r \in Runs |-> {}]
    /\ cur = [r \in Runs |-> NoSku]
    /\ ops = [r \in Runs |-> {}]
    /\ out = [r \in Runs |-> "none"]
    /\ mark = [r \in Runs |-> NoMarks]
    /\ tally = [r \in Runs |-> NoTally]
    /\ cc = [s \in Skus |-> NoVal]
    /\ ccState \in [Skus -> CcStates]
    /\ \A s \in Skus \ KnownSkus : ccState[s] = "unusable"  \* never looked at
    /\ late = {}
    /\ overtaken = {}
    /\ faults = 0

Post(w) == \E s \in Skus, v \in Values : Request(w, s, v, "lock")
Put(w)  == \E s \in Skus, v \in Values : Request(w, s, v, "check")

WriterStep(w) == SaveLock(w) \/ SaveUpsert(w) \/ SaveCommit(w) \/ PutCheck(w) \/ PutWrite(w)

RunStep(r) ==
    \/ RunGet(r) \/ RunPatch(r) \/ RunVerify(r) \/ RunMark(r)
    \/ RunCount(r) \/ RunCommit(r) \/ RunAbort(r)

Next ==
    \/ \E w \in Writers : Post(w) \/ Put(w) \/ WriterStep(w) \/ SaveExpire(w)
    \/ \E r \in Runs : RunStart(r) \/ RunStep(r) \/ TxExpire(r)
    \/ \E s \in Skus : CcEdit(s)
    \/ LatePatch
    \/ Crash

Spec == Init /\ [][Next]_vars

(* Requests and runs go on while they can: the event loop, the database and  *)
(* CartonCloud answer.  A run starts again and again: a device that holds    *)
(* the sync key polls every 30 s.  Nothing makes a client capture, and       *)
(* nothing makes a late PATCH arrive.                                        *)
Fairness ==
    /\ \A w \in Writers : WF_vars(WriterStep(w))
    /\ \A r \in Runs : WF_vars(RunStep(r))
    /\ WF_vars(\E r \in Runs : RunStart(r))

FairSpec == Spec /\ Fairness

-----------------------------------------------------------------------------
(* The program counters, transactions, rows and counters have their types.   *)
TypeOK ==
    /\ dim \in [Skus -> Row]
    /\ clock \in Nat
    /\ wpc \in [Writers -> WriterPcs]
    /\ wsku \in [Writers -> Skus \cup {NoSku}]
    /\ wval \in [Writers -> Values \cup {NoVal}]
    /\ wat \in [Writers -> Nat]
    /\ rpc \in [Runs -> RunPcs]
    /\ tx \in [Runs -> {"none", "open", "expired"}]
    /\ snap \in [Runs -> [Skus -> Row]]
    /\ todo \in [Runs -> SUBSET Skus]
    /\ cur \in [Runs -> Skus \cup {NoSku}]
    /\ ops \in [Runs -> SUBSET Fields]
    /\ out \in [Runs -> Marks]
    /\ mark \in [Runs -> [Skus -> Marks]]
    /\ tally \in [Runs -> [synced: Nat, failed: Nat, blocked: Nat, pending: Nat]]
    /\ cc \in [Skus -> Stored]
    /\ ccState \in [Skus -> CcStates]
    /\ late \subseteq [sku: Skus, val: Values \cup {NoVal}, fields: SUBSET Fields]
    /\ overtaken \subseteq Skus
    /\ faults \in 0..MaxFaults

(* No row is at once delivered and refused: the pending count, the retry set *)
(* and the operator's blocked list would disagree about it.  The run's       *)
(* blocked update does not clear syncedToCC, so this rests on the sync lock  *)
(* and on both captures resetting both columns.                              *)
NeverSyncedAndBlocked == \A s \in Skus : ~(dim[s].synced /\ dim[s].blocked)

(* While a run's transaction is open, every row it still has to process, is  *)
(* processing or has updated is pending in the table: no other run settled   *)
(* it behind its back, so none is pushed or counted twice.                   *)
WorkIsPending ==
    \A r \in Runs : tx[r] = "open" =>
        \A s \in Skus :
            (s \in todo[r] \/ s = cur[r] \/ mark[r][s] # "none") => Pending(dim[s])

(* A row marked synced inside an open transaction is one whose snapshot      *)
(* values CartonCloud holds, and still holds when the run commits, unless    *)
(* the PATCH of an expired run or of a caller that gave up came in between.  *)
MarkedMeansDelivered ==
    \A r \in Runs, s \in Skus :
        mark[r][s] = "synced" /\ s \notin overtaken => cc[s] = snap[r][s].val

(* A synced row's measurements are the ones CartonCloud holds, unless a      *)
(* capture committed while the run that marked it was under way, or such a   *)
(* PATCH has come since.                                                     *)
SyncedUnlessOvertaken ==
    \A s \in Skus : dim[s].synced /\ s \notin overtaken => cc[s] = dim[s].val

(* "An overwrite (re-capture) resets syncedToCC/syncedAt ... so the new dims *)
(* re-sync": a row that says synced has nothing left to deliver.             *)
SyncedMeansDelivered == \A s \in Skus : dim[s].synced => cc[s] = dim[s].val

(* The run about to answer reports what its transaction is about to commit,  *)
(* and every row of its snapshot exactly once; what it failed is among what  *)
(* it reports as still pending.                                              *)
ReportMatchesCommit ==
    \A r \in Runs : rpc[r] = "commit" /\ tx[r] = "open" =>
        LET Of(m) == {s \in Skus : mark[r][s] = m} IN
        /\ tally[r].synced = Cardinality(Of("synced"))
        /\ tally[r].blocked = Cardinality(Of("blocked"))
        /\ tally[r].synced + tally[r].blocked + tally[r].failed
             = Cardinality({s \in Skus : Pending(snap[r][s])})
        /\ tally[r].pending >= tally[r].failed

(* A product of another customer is never written, whatever the races.       *)
ForeignUntouched == \A s \in Skus : ccState[s] = "foreign" => cc[s] = NoVal

(* "two overlapping ... can no longer both read the same unsynced set and    *)
(* double-PATCH": at most one run is between its GET and its read-back.      *)
OnePatcher ==
    \A r, q \in Runs : rpc[r] \in {"patch", "verify"} /\ rpc[q] \in {"patch", "verify"} => r = q

(* Every request and every run that began is answered.                       *)
AllAnswered ==
    /\ \A w \in Writers : wpc[w] # "idle" ~> wpc[w] = "idle"
    /\ \A r \in Runs : rpc[r] # "idle" ~> rpc[r] = "idle"

(* Every capture is settled in the end, as delivered or as blocked, unless   *)
(* CartonCloud has no usable product for it.                                 *)
EventuallySettled ==
    \A s \in Skus : Pending(dim[s]) ~> (~Pending(dim[s]) \/ ccState[s] = "unusable")

(* The backend keeps the promise of DimLifecycle.                            *)
Lifecycle == INSTANCE DimLifecycle WITH
    status <- [s \in Skus |-> IF dim[s].at = 0 THEN "none"
                              ELSE IF dim[s].synced THEN "synced"
                              ELSE IF dim[s].blocked THEN "blocked"
                              ELSE "pending"],
    measured <- [s \in Skus |-> dim[s].val]

KeepsLifecycle == Lifecycle!Spec
=============================================================================
