--------------------------- MODULE DimSyncProofs ---------------------------
(* Proofs about DimSync, for any number of SKUs, requests, runs and faults.  *)
EXTENDS DimSync, FiniteSetTheorems, TLAPS

(* A request in flight names a SKU and carries measurements; once past its   *)
(* 404 check the SKU is a known one and the request has its measuredAt.      *)
RequestsPlaced ==
    \A w \in Writers :
        /\ wpc[w] # "idle" => wsku[w] \in Skus /\ wval[w] \in Values
        /\ wpc[w] \in {"upsert", "commit", "write"} => wsku[w] \in KnownSkus /\ wat[w] > 0

(* A run has a transaction, open or expired, until it answers; a current     *)
(* product inside patchProductDims and its update; updates while open.       *)
RunsPlaced ==
    \A r \in Runs :
        /\ (rpc[r] = "idle") = (tx[r] = "none")
        /\ rpc[r] \in {"patch", "verify", "mark"} => cur[r] \in Skus
        /\ rpc[r] \in {"idle", "loop", "commit"} => cur[r] = NoSku
        /\ rpc[r] = "mark" => out[r] \in {"synced", "blocked"}
        /\ tx[r] # "open" => mark[r] = NoMarks

OneOpenTx == \A r, q \in Runs : tx[r] = "open" /\ tx[q] = "open" => r = q

RowsKnown == \A s \in Skus : IF dim[s].at = 0 THEN dim[s] = NoRow ELSE s \in KnownSkus

IInv ==
    /\ TypeOK
    /\ RequestsPlaced
    /\ RunsPlaced
    /\ OneOpenTx
    /\ RowsKnown
    /\ WorkIsPending
    /\ NeverSyncedAndBlocked

-----------------------------------------------------------------------------
(* Facts about the values the actions build.                                 *)

LEMMA Constants ==
    /\ NoVal \in Stored
    /\ Values \subseteq Stored
    /\ NoRow \in Row
    /\ ~Pending(NoRow)
    /\ NoRow.at = 0
    /\ NoRows \in [Skus -> Row]
    /\ NoMarks \in [Skus -> Marks]
    /\ NoTally \in [synced: Nat, failed: Nat, blocked: Nat, pending: Nat]
    /\ NoSku \notin Skus
    /\ \A s \in Skus : NoMarks[s] = "none" /\ NoRows[s] = NoRow
  BY SkusAssumption
     DEF Stored, Values, NoVal, NoRow, Row, Pending, NoRows, NoMarks, Marks, NoTally

LEMMA FreshRow ==
    ASSUME NEW v \in Values, NEW t \in Nat, t > 0
    PROVE  /\ Fresh(v, t) \in Row
           /\ Pending(Fresh(v, t))
           /\ Fresh(v, t).at = t
           /\ Fresh(v, t).val = v
           /\ ~Fresh(v, t).synced
           /\ ~Fresh(v, t).blocked
  BY DEF Fresh, Row, Pending

(* A run's update keeps the measurements; on a pending row it leaves at most *)
(* one of the two flags set.                                                 *)
LEMMA MarkedRow ==
    ASSUME NEW row \in Row, NEW m \in Marks
    PROVE  /\ Marked(row, m) \in Row
           /\ Marked(row, m).at = row.at
           /\ Marked(row, m).val = row.val
           /\ m = "none" => Marked(row, m) = row
           /\ m = "synced" => Marked(row, m).synced /\ ~Marked(row, m).blocked
           /\ m = "blocked" => Marked(row, m).blocked /\ (Marked(row, m).synced <=> row.synced)
  BY DEF Marked, Row, Marks

LEMMA PatchedStored ==
    ASSUME NEW have \in Stored, NEW want \in Values \cup {NoVal}, NEW fields
    PROVE  Patched(have, want, fields) \in Stored
  BY DEF Patched, Stored, Values, NoVal

-----------------------------------------------------------------------------
(* The initial states.                                                       *)
LEMMA InitInv == Init => IInv
  <1> SUFFICES ASSUME Init PROVE IInv
    OBVIOUS
  <1>1. TypeOK
    BY Constants, BoundsAssumption, SMT
       DEF Init, TypeOK, WriterPcs, RunPcs, Marks
  <1>2. RequestsPlaced /\ RunsPlaced /\ OneOpenTx
    BY Constants DEF Init, RequestsPlaced, RunsPlaced, OneOpenTx
  <1>3. RowsKnown /\ WorkIsPending /\ NeverSyncedAndBlocked
    BY Constants DEF Init, RowsKnown, WorkIsPending, NeverSyncedAndBlocked, NoRow
  <1> QED
    BY <1>1, <1>2, <1>3 DEF IInv

-----------------------------------------------------------------------------
(* Captures and corrections.                                                 *)

LEMMA RequestInv ==
    ASSUME IInv,
           NEW w \in Writers, NEW s \in Skus, NEW v \in Values, NEW pc \in {"lock", "check"},
           Request(w, s, v, pc)
    PROVE  IInv'
  <1>1. TypeOK'
    BY DEF IInv, TypeOK, Request, runVars, ccVars, WriterPcs
  <1>2. RequestsPlaced'
    BY DEF IInv, TypeOK, RequestsPlaced, Request, WriterPcs
  <1>3. RunsPlaced' /\ OneOpenTx' /\ RowsKnown' /\ WorkIsPending' /\ NeverSyncedAndBlocked'
    BY DEF IInv, Request, runVars, RunsPlaced, OneOpenTx, RowsKnown, WorkIsPending,
           NeverSyncedAndBlocked
  <1> QED
    BY <1>1, <1>2, <1>3 DEF IInv

(* An answered request leaves nothing behind.                                *)
LEMMA AnswerTypes ==
    ASSUME TypeOK, RequestsPlaced, NEW w \in Writers, Answer(w)
    PROVE  /\ wpc' \in [Writers -> WriterPcs]
           /\ wsku' \in [Writers -> Skus \cup {NoSku}]
           /\ wval' \in [Writers -> Values \cup {NoVal}]
           /\ wat' \in [Writers -> Nat]
           /\ RequestsPlaced'
  BY DEF TypeOK, RequestsPlaced, Answer, WriterPcs

LEMMA StampTypes ==
    ASSUME TypeOK, RequestsPlaced, NEW w \in Writers, NEW pc \in {"upsert", "write"},
           wpc[w] # "idle", wsku[w] \in KnownSkus, Stamp(w, pc)
    PROVE  /\ clock' \in Nat
           /\ wpc' \in [Writers -> WriterPcs]
           /\ wsku' \in [Writers -> Skus \cup {NoSku}]
           /\ wval' \in [Writers -> Values \cup {NoVal}]
           /\ wat' \in [Writers -> Nat]
           /\ RequestsPlaced'
  BY DEF TypeOK, RequestsPlaced, Stamp, WriterPcs

(* What speaks of the table and the runs only survives a step of a request   *)
(* that changes neither.                                                     *)
LEMMA RunsUntouched ==
    ASSUME IInv, UNCHANGED <<dim, runVars>>
    PROVE  RunsPlaced' /\ OneOpenTx' /\ RowsKnown' /\ WorkIsPending' /\ NeverSyncedAndBlocked'
  BY DEF IInv, runVars, RunsPlaced, OneOpenTx, RowsKnown, WorkIsPending, NeverSyncedAndBlocked

LEMMA SaveLockInv ==
    ASSUME IInv, NEW w \in Writers, SaveLock(w)
    PROVE  IInv'
  <1>1. UNCHANGED <<dim, runVars, ccVars, overtaken, faults>> /\ wpc[w] = "lock"
    BY DEF SaveLock
  <1>2. /\ clock' \in Nat
        /\ wpc' \in [Writers -> WriterPcs]
        /\ wsku' \in [Writers -> Skus \cup {NoSku}]
        /\ wval' \in [Writers -> Values \cup {NoVal}]
        /\ wat' \in [Writers -> Nat]
        /\ RequestsPlaced'
    <2>1. CASE wsku[w] \in KnownSkus /\ Stamp(w, "upsert")
      BY <1>1, <2>1, StampTypes DEF IInv
    <2>2. CASE Answer(w) /\ UNCHANGED clock
      BY <2>2, AnswerTypes DEF IInv, TypeOK
    <2> QED
      BY <2>1, <2>2 DEF SaveLock
  <1>3. TypeOK'
    BY <1>1, <1>2 DEF IInv, TypeOK, runVars, ccVars
  <1> QED
    BY <1>1, <1>2, <1>3, RunsUntouched DEF IInv

LEMMA SaveUpsertInv ==
    ASSUME IInv, NEW w \in Writers, SaveUpsert(w)
    PROVE  IInv'
  <1>1. TypeOK'
    BY DEF IInv, TypeOK, SaveUpsert, runVars, ccVars, WriterPcs
  <1>2. RequestsPlaced'
    BY DEF IInv, TypeOK, RequestsPlaced, SaveUpsert
  <1>3. UNCHANGED <<dim, runVars>>
    BY DEF SaveUpsert
  <1> QED
    BY <1>1, <1>2, <1>3, RunsUntouched DEF IInv

(* Either capture leaves its row pending, which nothing below minds: the     *)
(* flags are both cleared, and a run's rows stay pending.                    *)
LEMMA OverwriteInv ==
    ASSUME IInv, NEW w \in Writers, wpc[w] \in {"commit", "write"}, Overwrite(w)
    PROVE  IInv'
  <1> DEFINE s == wsku[w]
             row == Fresh(wval[w], wat[w])
  <1>1. s \in KnownSkus /\ s \in Skus /\ wval[w] \in Values /\ wat[w] \in Nat /\ wat[w] > 0
    BY DEF IInv, TypeOK, RequestsPlaced
  <1>2. row \in Row /\ Pending(row) /\ row.at > 0 /\ ~row.synced
    BY <1>1, FreshRow
  <1>3. dim' = [dim EXCEPT ![s] = row] /\ UNCHANGED <<clock, runVars, ccVars, faults>>
    BY DEF Overwrite
  <1>4. dim' \in [Skus -> Row]
    BY <1>2, <1>3 DEF IInv, TypeOK
  <1>5. \A u \in Skus : dim'[u] = IF u = s THEN row ELSE dim[u]
    BY <1>1, <1>3 DEF IInv, TypeOK
  <1>6. Answer(w)
    BY DEF Overwrite
  <1>7. TypeOK'
    <2>1. overtaken' \subseteq Skus
      BY DEF Overwrite, IInv, TypeOK
    <2> QED
      BY <1>3, <1>4, <1>6, <2>1, AnswerTypes DEF IInv, TypeOK, runVars, ccVars
  <1>8. RequestsPlaced'
    BY <1>6, AnswerTypes DEF IInv
  <1>9. RunsPlaced' /\ OneOpenTx'
    BY <1>3 DEF IInv, RunsPlaced, OneOpenTx, runVars
  <1>10. RowsKnown' /\ NeverSyncedAndBlocked'
    BY <1>1, <1>2, <1>5 DEF IInv, RowsKnown, NeverSyncedAndBlocked
  <1>11. WorkIsPending'
    <2>1. \A u \in Skus : Pending(dim[u]) => Pending(dim'[u])
      BY <1>2, <1>5
    <2> QED
      BY <1>3, <2>1 DEF IInv, WorkIsPending, runVars
  <1> QED
    BY <1>7, <1>8, <1>9, <1>10, <1>11 DEF IInv

LEMMA SaveExpireInv ==
    ASSUME IInv, NEW w \in Writers, SaveExpire(w)
    PROVE  IInv'
  <1>1. UNCHANGED <<dim, clock, runVars, ccVars, overtaken>> /\ Answer(w) /\ Fault("slow")
    BY DEF SaveExpire
  <1>2. faults' \in 0..MaxFaults
    BY <1>1, BoundsAssumption DEF Fault, IInv, TypeOK
  <1>3. TypeOK'
    BY <1>1, <1>2, AnswerTypes DEF IInv, TypeOK, runVars, ccVars
  <1> QED
    BY <1>1, <1>3, AnswerTypes, RunsUntouched DEF IInv

LEMMA PutCheckInv ==
    ASSUME IInv, NEW w \in Writers, PutCheck(w)
    PROVE  IInv'
  <1>1. UNCHANGED <<dim, runVars, ccVars, overtaken, faults>> /\ wpc[w] = "check"
    BY DEF PutCheck
  <1>2. /\ clock' \in Nat
        /\ wpc' \in [Writers -> WriterPcs]
        /\ wsku' \in [Writers -> Skus \cup {NoSku}]
        /\ wval' \in [Writers -> Values \cup {NoVal}]
        /\ wat' \in [Writers -> Nat]
        /\ RequestsPlaced'
    <2>1. CASE dim[wsku[w]].at > 0 /\ Stamp(w, "write")
      <3>1. wsku[w] \in KnownSkus
        BY <1>1, <2>1 DEF IInv, TypeOK, RequestsPlaced, RowsKnown
      <3> QED
        BY <1>1, <2>1, <3>1, StampTypes DEF IInv
    <2>2. CASE Answer(w) /\ UNCHANGED clock
      BY <2>2, AnswerTypes DEF IInv, TypeOK
    <2> QED
      BY <2>1, <2>2 DEF PutCheck
  <1>3. TypeOK'
    BY <1>1, <1>2 DEF IInv, TypeOK, runVars, ccVars
  <1> QED
    BY <1>1, <1>2, <1>3, RunsUntouched DEF IInv

-----------------------------------------------------------------------------
(* Runs.                                                                     *)

LEMMA RequestsUntouched ==
    ASSUME IInv, UNCHANGED <<dim, reqVars>>
    PROVE  RequestsPlaced' /\ RowsKnown' /\ NeverSyncedAndBlocked'
  BY DEF IInv, reqVars, RequestsPlaced, RowsKnown, NeverSyncedAndBlocked

LEMMA CountTypes ==
    ASSUME TypeOK, NEW r \in Runs, NEW field \in {"synced", "failed", "blocked"},
           Count(r, field)
    PROVE  tally' \in [Runs -> [synced: Nat, failed: Nat, blocked: Nat, pending: Nat]]
  <1> DEFINE Tally == [synced: Nat, failed: Nat, blocked: Nat, pending: Nat]
             new == [tally[r] EXCEPT ![field] = tally[r][field] + 1]
  <1>1. tally \in [Runs -> Tally]
    BY DEF TypeOK
  <1>2. tally[r] \in Tally
    BY <1>1
  <1>3. new \in Tally
    <2>1. CASE field = "synced"
      BY <1>2, <2>1
    <2>2. CASE field = "failed"
      BY <1>2, <2>2
    <2>3. CASE field = "blocked"
      BY <1>2, <2>3
    <2> QED
      BY <2>1, <2>2, <2>3
  <1>4. tally' = [tally EXCEPT ![r] = new]
    BY <1>1 DEF Count
  <1> HIDE DEF Tally, new
  <1>5. tally' \in [Runs -> Tally]
    BY <1>1, <1>3, <1>4
  <1> QED
    BY <1>5 DEF Tally

LEMMA FaultTypes ==
    ASSUME TypeOK, NEW kind, Fault(kind)
    PROVE  faults' \in 0..MaxFaults
  BY BoundsAssumption DEF TypeOK, Fault

(* One step of run r inside its loop.                                        *)
Moves(r) ==
    /\ rpc[r] # "idle" /\ rpc'[r] # "idle"
    /\ \A q \in Runs \ {r} : /\ rpc'[q] = rpc[q] /\ cur'[q] = cur[q]
                             /\ out'[q] = out[q] /\ todo'[q] = todo[q]
    /\ rpc'[r] \in {"patch", "verify", "mark"} => cur'[r] \in Skus
    /\ rpc'[r] \in {"loop", "commit"} => cur'[r] = NoSku
    /\ rpc'[r] = "mark" => out'[r] \in {"synced", "blocked"}
    /\ todo'[r] \subseteq todo[r]
    /\ cur'[r] \in todo[r] \cup {cur[r], NoSku}

(* A step that only narrows what the run still works on keeps the invariant. *)
LEMMA MovesInv ==
    ASSUME IInv, TypeOK', NEW r \in Runs, Moves(r), UNCHANGED <<dim, reqVars, tx, mark>>
    PROVE  IInv'
  <1>1. RunsPlaced'
    BY DEF Moves, IInv, RunsPlaced
  <1>2. OneOpenTx'
    BY DEF IInv, OneOpenTx
  <1>3. WorkIsPending'
    BY Constants DEF Moves, IInv, WorkIsPending
  <1> QED
    BY <1>1, <1>2, <1>3, RequestsUntouched DEF IInv

LEMMA RunStartInv ==
    ASSUME IInv, NEW r \in Runs, RunStart(r)
    PROVE  IInv'
  <1> USE DEF IInv
  <1>1. TypeOK'
    <2>1. snap' \in [Runs -> [Skus -> Row]]
      BY Constants DEF TypeOK, RunStart
    <2>2. todo' \in [Runs -> SUBSET Skus]
      BY DEF TypeOK, RunStart
    <2>3. /\ rpc' \in [Runs -> RunPcs]
          /\ tx' \in [Runs -> {"none", "open", "expired"}]
      BY DEF TypeOK, RunStart, RunPcs
    <2> QED
      BY <2>1, <2>2, <2>3 DEF TypeOK, RunStart, reqVars, ccVars
  <1>2. RunsPlaced'
    BY DEF RunStart, TypeOK, RunsPlaced
  <1>3. OneOpenTx'
    BY DEF RunStart, TypeOK, OneOpenTx, SyncLockFree
  <1>4. WorkIsPending'
    <2> SUFFICES ASSUME NEW q \in Runs, tx'[q] = "open", NEW s \in Skus,
                        s \in todo'[q] \/ s = cur'[q] \/ mark'[q][s] # "none"
                 PROVE  Pending(dim'[s])
      BY DEF WorkIsPending
    <2>1. q = r
      BY DEF RunStart, TypeOK, SyncLockFree
    <2>2. cur'[r] = NoSku /\ mark'[r] = NoMarks
      BY DEF RunStart, RunsPlaced
    <2>3. s \in todo'[r]
      BY <2>1, <2>2, Constants
    <2> QED
      BY <2>3 DEF RunStart, TypeOK
  <1> QED
    BY <1>1, <1>2, <1>3, <1>4, RequestsUntouched DEF RunStart

LEMMA FailTypes ==
    ASSUME TypeOK, NEW r \in Runs, Fail(r)
    PROVE  /\ rpc' \in [Runs -> RunPcs]
           /\ cur' \in [Runs -> Skus \cup {NoSku}]
           /\ ops' \in [Runs -> SUBSET Fields]
           /\ out' \in [Runs -> Marks]
           /\ tally' \in [Runs -> [synced: Nat, failed: Nat, blocked: Nat, pending: Nat]]
           /\ rpc'[r] = "loop" /\ cur'[r] = NoSku
           /\ \A q \in Runs \ {r} : rpc'[q] = rpc[q] /\ cur'[q] = cur[q] /\ out'[q] = out[q]
  <1>1. tally' \in [Runs -> [synced: Nat, failed: Nat, blocked: Nat, pending: Nat]]
    BY CountTypes DEF Fail
  <1> QED
    BY <1>1 DEF TypeOK, Fail, Leave, Goto, RunPcs, Marks

LEMMA DecideTypes ==
    ASSUME TypeOK, NEW r \in Runs, NEW outcome \in {"synced", "blocked"}, Decide(r, outcome)
    PROVE  /\ rpc' \in [Runs -> RunPcs]
           /\ ops' \in [Runs -> SUBSET Fields]
           /\ out' \in [Runs -> Marks]
           /\ tally' = tally
           /\ rpc'[r] = "mark" /\ out'[r] = outcome
           /\ \A q \in Runs \ {r} : rpc'[q] = rpc[q] /\ out'[q] = out[q]
  BY DEF TypeOK, Decide, Goto, RunPcs, Marks

LEMMA RunGetInv ==
    ASSUME IInv, NEW r \in Runs, RunGet(r)
    PROVE  IInv'
  <1> USE DEF IInv
  <1>1. PICK s \in Skus :
          /\ IsNext(r, s)
          /\ todo' = [todo EXCEPT ![r] = @ \ {s}]
          /\ overtaken' = IF tx[r] = "open" THEN overtaken \ {s} ELSE overtaken
          /\ \/ /\ Fail(r)
                /\ \/ Fault("throttle")
                   \/ Fault("error")
                   \/ UNCHANGED faults
             \/ /\ cur' = [cur EXCEPT ![r] = s]
                /\ UNCHANGED faults
                /\ \/ Decide(r, "blocked")
                   \/ Decide(r, "synced")
                   \/ /\ ops' = [ops EXCEPT ![r] = Differing(snap[r][s].val, cc[s])]
                      /\ Goto(r, "patch")
                      /\ UNCHANGED <<out, tally>>
    BY Zenon DEF RunGet
  <1>2. /\ UNCHANGED <<dim, clock, reqVars, tx, snap, mark, ccVars>>
        /\ rpc[r] = "loop"
    BY DEF RunGet
  <1>3. overtaken' \subseteq Skus
    BY <1>1 DEF TypeOK
  <1>4. s \in todo[r] /\ todo'[r] \subseteq todo[r] /\ todo' \in [Runs -> SUBSET Skus]
        /\ \A q \in Runs \ {r} : todo'[q] = todo[q]
    BY <1>1 DEF IsNext, TypeOK
  <1>5. faults' \in 0..MaxFaults
    BY <1>1, FaultTypes DEF TypeOK
  <1>6. /\ rpc' \in [Runs -> RunPcs]
        /\ cur' \in [Runs -> Skus \cup {NoSku}]
        /\ ops' \in [Runs -> SUBSET Fields]
        /\ out' \in [Runs -> Marks]
        /\ tally' \in [Runs -> [synced: Nat, failed: Nat, blocked: Nat, pending: Nat]]
        /\ \A q \in Runs \ {r} : rpc'[q] = rpc[q] /\ cur'[q] = cur[q] /\ out'[q] = out[q]
        /\ \/ rpc'[r] = "loop" /\ cur'[r] = NoSku
           \/ rpc'[r] = "patch" /\ cur'[r] = s
           \/ rpc'[r] = "mark" /\ cur'[r] = s /\ out'[r] \in {"synced", "blocked"}
    <2>1. CASE Fail(r)
      BY <2>1, FailTypes
    <2>2. ASSUME cur' = [cur EXCEPT ![r] = s], NEW o \in {"synced", "blocked"}, Decide(r, o)
          PROVE  <1>6
      BY <2>2, DecideTypes DEF TypeOK
    <2>3. ASSUME cur' = [cur EXCEPT ![r] = s],
                 ops' = [ops EXCEPT ![r] = Differing(snap[r][s].val, cc[s])],
                 Goto(r, "patch"), UNCHANGED <<out, tally>>
          PROVE  <1>6
      BY <2>3 DEF TypeOK, Goto, RunPcs, Differing
    <2> QED
      BY <1>1, <2>1, <2>2, <2>3
  <1>7. TypeOK'
    BY <1>2, <1>3, <1>4, <1>5, <1>6 DEF TypeOK, reqVars, ccVars
  <1>8. Moves(r)
    BY <1>2, <1>4, <1>6 DEF Moves
  <1> QED
    BY <1>2, <1>7, <1>8, MovesInv

LEMMA RunPatchInv ==
    ASSUME IInv, NEW r \in Runs, RunPatch(r)
    PROVE  IInv'
  <1> USE DEF IInv
  <1> DEFINE s == cur[r]
             v == snap[r][s].val
             p == [sku |-> s, val |-> v, fields |-> ops[r]]
  <1>1. /\ UNCHANGED <<dim, clock, reqVars, tx, snap, todo, mark, ccState>>
        /\ rpc[r] = "patch"
    BY DEF RunPatch
  <1>2. s \in Skus /\ v \in Values \cup {NoVal} /\ ops[r] \in SUBSET Fields
    BY <1>1 DEF TypeOK, RunsPlaced, Row
  <1>3. /\ UNCHANGED cc \/ cc' = [cc EXCEPT ![s] = Patched(@, v, ops[r])]
        /\ UNCHANGED late \/ late' = late \cup {p}
        /\ UNCHANGED faults \/ \E kind \in {"mismatch", "lost", "late", "error"} : Fault(kind)
        /\ overtaken' \in {overtaken, overtaken \cup {s}}
        /\ Fail(r) \/ (Goto(r, "verify") /\ UNCHANGED <<cur, ops, out, tally>>)
    BY DEF RunPatch
  <1>4. overtaken' \subseteq Skus
    BY <1>2, <1>3 DEF TypeOK
  <1>5. cc' \in [Skus -> Stored]
    <2>1. cc[s] \in Stored /\ cc \in [Skus -> Stored]
      BY <1>2 DEF TypeOK
    <2>2. Patched(cc[s], v, ops[r]) \in Stored
      BY <1>2, <2>1, PatchedStored
    <2> QED
      BY <1>2, <1>3, <2>1, <2>2
  <1>6. late' \subseteq [sku: Skus, val: Values \cup {NoVal}, fields: SUBSET Fields]
    BY <1>2, <1>3 DEF TypeOK
  <1>7. faults' \in 0..MaxFaults
    BY <1>3, FaultTypes DEF TypeOK
  <1>8. /\ rpc' \in [Runs -> RunPcs]
        /\ cur' \in [Runs -> Skus \cup {NoSku}]
        /\ ops' \in [Runs -> SUBSET Fields]
        /\ out' \in [Runs -> Marks]
        /\ tally' \in [Runs -> [synced: Nat, failed: Nat, blocked: Nat, pending: Nat]]
        /\ \A q \in Runs \ {r} : rpc'[q] = rpc[q] /\ cur'[q] = cur[q] /\ out'[q] = out[q]
        /\ \/ rpc'[r] = "loop" /\ cur'[r] = NoSku
           \/ rpc'[r] = "verify" /\ cur'[r] = cur[r]
    <2>1. CASE Fail(r)
      BY <2>1, FailTypes
    <2>2. CASE Goto(r, "verify") /\ UNCHANGED <<cur, ops, out, tally>>
      BY <2>2 DEF TypeOK, Goto, RunPcs
    <2> QED
      BY <1>3, <2>1, <2>2
  <1>9. TypeOK'
    BY <1>1, <1>4, <1>5, <1>6, <1>7, <1>8 DEF TypeOK, reqVars
  <1>10. Moves(r)
    BY <1>1, <1>2, <1>8 DEF Moves
  <1> QED
    BY <1>1, <1>9, <1>10, MovesInv

LEMMA RunVerifyInv ==
    ASSUME IInv, NEW r \in Runs, RunVerify(r)
    PROVE  IInv'
  <1> USE DEF IInv
  <1>1. /\ UNCHANGED <<dim, clock, reqVars, tx, snap, todo, mark, ccVars, overtaken>>
        /\ rpc[r] = "verify"
    BY DEF RunVerify
  <1>2. cur[r] \in Skus
    BY <1>1 DEF RunsPlaced
  <1>3. /\ UNCHANGED faults \/ Fault("error")
        /\ Fail(r) \/ (Decide(r, "synced") /\ UNCHANGED cur)
    BY Zenon DEF RunVerify
  <1>4. faults' \in 0..MaxFaults
    BY <1>3, FaultTypes DEF TypeOK
  <1>5. /\ rpc' \in [Runs -> RunPcs]
        /\ cur' \in [Runs -> Skus \cup {NoSku}]
        /\ ops' \in [Runs -> SUBSET Fields]
        /\ out' \in [Runs -> Marks]
        /\ tally' \in [Runs -> [synced: Nat, failed: Nat, blocked: Nat, pending: Nat]]
        /\ \A q \in Runs \ {r} : rpc'[q] = rpc[q] /\ cur'[q] = cur[q] /\ out'[q] = out[q]
        /\ \/ rpc'[r] = "loop" /\ cur'[r] = NoSku
           \/ rpc'[r] = "mark" /\ cur'[r] = cur[r] /\ out'[r] = "synced"
    <2>1. CASE Fail(r)
      BY <2>1, FailTypes
    <2>2. CASE Decide(r, "synced") /\ UNCHANGED cur
      BY <2>2, DecideTypes DEF TypeOK
    <2> QED
      BY <1>3, <2>1, <2>2
  <1>6. TypeOK'
    BY <1>1, <1>4, <1>5 DEF TypeOK, reqVars, ccVars
  <1>7. Moves(r)
    BY <1>1, <1>2, <1>5 DEF Moves
  <1> QED
    BY <1>1, <1>6, <1>7, MovesInv

LEMMA RunMarkInv ==
    ASSUME IInv, NEW r \in Runs, RunMark(r)
    PROVE  IInv'
  <1> USE DEF IInv
  <1>1. /\ UNCHANGED <<dim, clock, reqVars, tx, snap, todo, ccVars, overtaken, faults>>
        /\ rpc[r] = "mark"
    BY DEF RunMark
  <1>2. cur[r] \in Skus /\ out[r] \in {"synced", "blocked"}
    BY <1>1 DEF RunsPlaced
  <1>3. CASE tx[r] = "open" /\ mark' = [mark EXCEPT ![r][cur[r]] = out[r]]
             /\ Count(r, out[r]) /\ Leave(r)
    <2>1. /\ rpc' \in [Runs -> RunPcs]
          /\ cur' \in [Runs -> Skus \cup {NoSku}]
          /\ ops' \in [Runs -> SUBSET Fields]
          /\ out' \in [Runs -> Marks]
          /\ rpc' = [rpc EXCEPT ![r] = "loop"]
          /\ cur' = [cur EXCEPT ![r] = NoSku]
          /\ \A q \in Runs \ {r} : out'[q] = out[q]
      BY <1>3 DEF TypeOK, Leave, Goto, RunPcs, Marks
    <2>2. tally' \in [Runs -> [synced: Nat, failed: Nat, blocked: Nat, pending: Nat]]
      BY <1>2, <1>3, CountTypes
    <2>3. mark' \in [Runs -> [Skus -> Marks]]
      BY <1>2, <1>3 DEF TypeOK, Marks
    <2>4. TypeOK'
      BY <1>1, <2>1, <2>2, <2>3 DEF TypeOK, reqVars, ccVars
    <2>5. RunsPlaced'
      BY <1>1, <1>3, <2>1 DEF TypeOK, RunsPlaced
    <2>6. OneOpenTx'
      BY <1>1 DEF OneOpenTx
    <2>7. WorkIsPending'
      <3>1. \A q \in Runs, s \in Skus :
              mark'[q][s] # "none" => mark[q][s] # "none" \/ (q = r /\ s = cur[r])
        BY <1>3 DEF TypeOK
      <3> QED
        BY <1>1, <1>3, <2>1, <3>1, Constants DEF WorkIsPending, TypeOK
    <2> QED
      BY <1>1, <2>4, <2>5, <2>6, <2>7, RequestsUntouched
  <1>4. CASE tx[r] = "expired" /\ Fail(r) /\ UNCHANGED mark
    <2>1. TypeOK'
      BY <1>1, <1>4, FailTypes DEF TypeOK, reqVars, ccVars
    <2>2. Moves(r)
      BY <1>1, <1>4, FailTypes DEF Moves
    <2> QED
      BY <1>1, <1>4, <2>1, <2>2, MovesInv
  <1> QED
    BY <1>3, <1>4 DEF RunMark

LEMMA RunCountInv ==
    ASSUME IInv, NEW r \in Runs, RunCount(r)
    PROVE  IInv'
  <1> USE DEF IInv
  <1> DEFINE left == {s \in Skus : Pending(dim[s]) /\ mark[r][s] = "none"}
             Tally == [synced: Nat, failed: Nat, blocked: Nat, pending: Nat]
  <1>1. Cardinality(left) \in Nat
    BY SkusAssumption, FS_Subset, FS_CardinalityType
  <1>2. tally' \in [Runs -> Tally]
    <2>1. tally \in [Runs -> Tally]
      BY DEF TypeOK
    <2>2. [tally[r] EXCEPT !.pending = Cardinality(left)] \in Tally
      BY <1>1, <2>1
    <2>3. tally' = [tally EXCEPT ![r] = [tally[r] EXCEPT !.pending = Cardinality(left)]]
      BY <2>1 DEF RunCount
    <2> HIDE DEF Tally, left
    <2> QED
      BY <2>1, <2>2, <2>3
  <1>3. rpc' \in [Runs -> RunPcs] /\ rpc' = [rpc EXCEPT ![r] = "commit"]
    BY DEF RunCount, Goto, TypeOK, RunPcs
  <1>4. TypeOK'
    BY <1>2, <1>3 DEF RunCount, TypeOK, reqVars, ccVars
  <1>5. Moves(r)
    BY <1>3 DEF RunCount, Moves, TypeOK, RunsPlaced
  <1> QED
    BY <1>4, <1>5, MovesInv DEF RunCount

LEMMA FinishInv ==
    ASSUME IInv, NEW r \in Runs, rpc[r] \in {"loop", "commit"}, Finish(r)
    PROVE  /\ rpc' \in [Runs -> RunPcs]
           /\ tx' \in [Runs -> {"none", "open", "expired"}]
           /\ snap' \in [Runs -> [Skus -> Row]]
           /\ todo' \in [Runs -> SUBSET Skus]
           /\ mark' \in [Runs -> [Skus -> Marks]]
           /\ tally' \in [Runs -> [synced: Nat, failed: Nat, blocked: Nat, pending: Nat]]
           /\ UNCHANGED <<cur, ops, out>>
           /\ RunsPlaced'
           /\ OneOpenTx'
           /\ tx'[r] = "none"
           /\ \A q \in Runs \ {r} : /\ tx'[q] = tx[q] /\ todo'[q] = todo[q]
                                    /\ mark'[q] = mark[q]
  <1> USE DEF IInv
  <1>1. tally' \in [Runs -> [synced: Nat, failed: Nat, blocked: Nat, pending: Nat]]
    BY Constants DEF Finish, TypeOK
  <1>2. snap' \in [Runs -> [Skus -> Row]] /\ mark' \in [Runs -> [Skus -> Marks]]
    BY Constants DEF Finish, TypeOK
  <1>3. RunsPlaced'
    BY DEF Finish, Goto, TypeOK, RunsPlaced
  <1>4. OneOpenTx'
    BY DEF Finish, TypeOK, OneOpenTx
  <1> QED
    BY <1>1, <1>2, <1>3, <1>4 DEF Finish, Goto, TypeOK, RunPcs

(* The commit changes pending rows only, and nobody else is at work on one:  *)
(* no other transaction is open.                                             *)
LEMMA RunCommitInv ==
    ASSUME IInv, NEW r \in Runs, RunCommit(r)
    PROVE  IInv'
  <1> USE DEF IInv
  <1>1. /\ UNCHANGED <<clock, reqVars, ccVars, faults>>
        /\ rpc[r] = "commit" /\ tx[r] = "open" /\ Finish(r)
    BY DEF RunCommit
  <1>2. \A s \in Skus : dim'[s] = Marked(dim[s], mark[r][s])
    BY DEF RunCommit
  <1>3. \A s \in Skus : /\ dim[s] \in Row /\ mark[r][s] \in Marks
                        /\ mark[r][s] # "none" => Pending(dim[s])
    BY <1>1 DEF TypeOK, WorkIsPending
  <1>4. \A s \in Skus : /\ dim'[s] \in Row
                        /\ dim'[s].at = dim[s].at
                        /\ mark[r][s] = "none" => dim'[s] = dim[s]
    BY <1>2, <1>3, MarkedRow
  <1>5. TypeOK'
    <2>1. dim' \in [Skus -> Row]
      BY <1>4 DEF RunCommit
    <2>2. overtaken' \subseteq Skus
      BY DEF RunCommit, TypeOK
    <2> QED
      BY <1>1, <2>1, <2>2, FinishInv DEF TypeOK, reqVars, ccVars
  <1>6. RequestsPlaced'
    BY <1>1 DEF RequestsPlaced, reqVars
  <1>7. RunsPlaced' /\ OneOpenTx'
    BY <1>1, FinishInv
  <1>8. RowsKnown'
    BY <1>3, <1>4 DEF RowsKnown, Pending
  <1>9. WorkIsPending'
    <2>1. \A q \in Runs \ {r} : tx[q] # "open"
      BY <1>1 DEF OneOpenTx
    <2>2. tx'[r] = "none" /\ \A q \in Runs \ {r} : tx'[q] = tx[q]
      BY <1>1, FinishInv
    <2> QED
      BY <2>1, <2>2 DEF WorkIsPending
  <1>10. NeverSyncedAndBlocked'
    <2> SUFFICES ASSUME NEW s \in Skus PROVE ~(dim'[s].synced /\ dim'[s].blocked)
      BY DEF NeverSyncedAndBlocked
    <2>1. CASE mark[r][s] = "none"
      BY <1>4, <2>1 DEF NeverSyncedAndBlocked
    <2>2. CASE mark[r][s] = "synced"
      BY <1>2, <1>3, <2>2, MarkedRow
    <2>3. CASE mark[r][s] = "blocked"
      <3>1. ~dim[s].synced
        BY <1>3, <2>3 DEF Pending
      <3> QED
        BY <1>2, <1>3, <2>3, <3>1, MarkedRow
    <2> QED
      BY <1>3, <2>1, <2>2, <2>3 DEF Marks
  <1> QED
    BY <1>5, <1>6, <1>7, <1>8, <1>9, <1>10

LEMMA RunAbortInv ==
    ASSUME IInv, NEW r \in Runs, RunAbort(r)
    PROVE  IInv'
  <1> USE DEF IInv
  <1>1. /\ UNCHANGED <<dim, clock, reqVars, ccVars, overtaken, faults>>
        /\ rpc[r] \in {"loop", "commit"} /\ Finish(r)
    BY DEF RunAbort
  <1>2. TypeOK'
    BY <1>1, FinishInv DEF TypeOK, reqVars, ccVars
  <1>3. /\ tx'[r] = "none" /\ cur' = cur /\ RunsPlaced' /\ OneOpenTx'
        /\ \A q \in Runs \ {r} : tx'[q] = tx[q] /\ todo'[q] = todo[q] /\ mark'[q] = mark[q]
    BY <1>1, FinishInv
  <1>4. WorkIsPending'
    BY <1>1, <1>3 DEF WorkIsPending
  <1> QED
    BY <1>1, <1>2, <1>3, <1>4, RequestsUntouched

-----------------------------------------------------------------------------
(* What goes wrong around them.                                              *)

LEMMA TxExpireInv ==
    ASSUME IInv, NEW r \in Runs, TxExpire(r)
    PROVE  IInv'
  <1> USE DEF IInv
  <1>1. /\ UNCHANGED <<dim, clock, reqVars, rpc, snap, todo, cur, ops, out, tally, ccVars,
                       overtaken>>
        /\ tx[r] = "open"
        /\ Fault("expiry")
        /\ tx' = [tx EXCEPT ![r] = "expired"]
        /\ mark' = [mark EXCEPT ![r] = NoMarks]
    BY DEF TxExpire
  <1>2. TypeOK'
    <2>1. mark' \in [Runs -> [Skus -> Marks]]
      BY <1>1, Constants DEF TypeOK
    <2> QED
      BY <1>1, <2>1, FaultTypes DEF TypeOK, reqVars, ccVars
  <1>3. RunsPlaced' /\ OneOpenTx' /\ WorkIsPending'
    BY <1>1 DEF TypeOK, RunsPlaced, OneOpenTx, WorkIsPending
  <1> QED
    BY <1>1, <1>2, <1>3, RequestsUntouched

LEMMA LatePatchInv ==
    ASSUME IInv, LatePatch
    PROVE  IInv'
  <1> USE DEF IInv
  <1>1. PICK p \in late : /\ cc' = [cc EXCEPT ![p.sku] = Patched(@, p.val, p.fields)]
                          /\ late' = late \ {p}
    BY DEF LatePatch
  <1>2. p.sku \in Skus /\ p.val \in Values \cup {NoVal} /\ cc[p.sku] \in Stored
    BY DEF TypeOK
  <1>3. Patched(cc[p.sku], p.val, p.fields) \in Stored
    BY <1>2, PatchedStored
  <1>4. TypeOK'
    BY <1>1, <1>2, <1>3 DEF TypeOK, LatePatch, reqVars, runVars
  <1> QED
    BY <1>4, RequestsUntouched, RunsUntouched DEF LatePatch

LEMMA CcEditInv ==
    ASSUME IInv, NEW s \in Skus, CcEdit(s)
    PROVE  IInv'
  <1> USE DEF IInv
  <1>1. ccState' \in [Skus -> CcStates]
    BY DEF CcEdit, TypeOK
  <1>2. faults' \in 0..MaxFaults
    BY FaultTypes DEF CcEdit
  <1>3. TypeOK'
    BY <1>1, <1>2 DEF CcEdit, TypeOK, reqVars, runVars
  <1> QED
    BY <1>3, RequestsUntouched, RunsUntouched DEF CcEdit

LEMMA CrashInv ==
    ASSUME IInv, Crash
    PROVE  IInv'
  <1> USE DEF IInv
  <1>1. TypeOK'
    <2>1. /\ snap' \in [Runs -> [Skus -> Row]]
          /\ mark' \in [Runs -> [Skus -> Marks]]
          /\ tally' \in [Runs -> [synced: Nat, failed: Nat, blocked: Nat, pending: Nat]]
      BY Constants DEF Crash
    <2>2. /\ wpc' \in [Writers -> WriterPcs]
          /\ wsku' \in [Writers -> Skus \cup {NoSku}]
          /\ wval' \in [Writers -> Values \cup {NoVal}]
          /\ wat' \in [Writers -> Nat]
          /\ rpc' \in [Runs -> RunPcs]
          /\ tx' \in [Runs -> {"none", "open", "expired"}]
          /\ todo' \in [Runs -> SUBSET Skus]
          /\ cur' \in [Runs -> Skus \cup {NoSku}]
          /\ ops' \in [Runs -> SUBSET Fields]
          /\ out' \in [Runs -> Marks]
      BY DEF Crash, WriterPcs, RunPcs, Marks
    <2> QED
      BY <2>1, <2>2, FaultTypes DEF Crash, TypeOK, ccVars
  <1>2. RequestsPlaced' /\ RunsPlaced' /\ OneOpenTx' /\ WorkIsPending'
    BY DEF Crash, RequestsPlaced, RunsPlaced, OneOpenTx, WorkIsPending
  <1>3. RowsKnown' /\ NeverSyncedAndBlocked'
    BY DEF Crash, RowsKnown, NeverSyncedAndBlocked
  <1> QED
    BY <1>1, <1>2, <1>3

-----------------------------------------------------------------------------
LEMMA StepInv == IInv /\ [Next]_vars => IInv'
  <1> SUFFICES ASSUME IInv, [Next]_vars PROVE IInv'
    OBVIOUS
  <1>1. ASSUME NEW w \in Writers, Post(w) \/ Put(w) PROVE IInv'
    BY <1>1, RequestInv DEF Post, Put
  <1>2. ASSUME NEW w \in Writers, WriterStep(w) PROVE IInv'
    <2>1. CASE SaveCommit(w) \/ PutWrite(w)
      BY <2>1, OverwriteInv DEF SaveCommit, PutWrite
    <2> QED
      BY <1>2, <2>1, SaveLockInv, SaveUpsertInv, PutCheckInv DEF WriterStep
  <1>3. ASSUME NEW w \in Writers, SaveExpire(w) PROVE IInv'
    BY <1>3, SaveExpireInv
  <1>4. ASSUME NEW r \in Runs, RunStart(r) PROVE IInv'
    BY <1>4, RunStartInv
  <1>5. ASSUME NEW r \in Runs, RunStep(r) PROVE IInv'
    BY <1>5, RunGetInv, RunPatchInv, RunVerifyInv, RunMarkInv, RunCountInv, RunCommitInv,
       RunAbortInv DEF RunStep
  <1>6. ASSUME NEW r \in Runs, TxExpire(r) PROVE IInv'
    BY <1>6, TxExpireInv
  <1>7. ASSUME NEW s \in Skus, CcEdit(s) PROVE IInv'
    BY <1>7, CcEditInv
  <1>8. CASE UNCHANGED vars
    <2>1. UNCHANGED <<dim, clock, reqVars, runVars, ccVars, overtaken, faults>>
      BY <1>8 DEF vars
    <2>2. TypeOK'
      BY <2>1 DEF IInv, TypeOK, reqVars, runVars, ccVars
    <2> QED
      BY <2>1, <2>2, RequestsUntouched, RunsUntouched DEF IInv
  <1> QED
    BY <1>1, <1>2, <1>3, <1>4, <1>5, <1>6, <1>7, <1>8, LatePatchInv, CrashInv DEF Next

THEOREM Inductive == Spec => []IInv
  BY InitInv, StepInv, PTL DEF Spec

(* Program counters, locks' transactions, rows, work lists and counters of   *)
(* the capture and sync handlers always have their types.                    *)
THEOREM TypeCorrect == Spec => []TypeOK
  <1>1. IInv => TypeOK
    BY DEF IInv
  <1> QED
    BY <1>1, Inductive, PTL

(* However captures, corrections, overlapping and expired runs, lost PATCHes *)
(* and crashes interleave, no row is both delivered and refused.             *)
THEOREM NeverBoth == Spec => []NeverSyncedAndBlocked
  <1>1. IInv => NeverSyncedAndBlocked
    BY DEF IInv
  <1> QED
    BY <1>1, Inductive, PTL

(* The rows an open run works on are pending until it commits: no other run  *)
(* settles, pushes or counts them.                                           *)
THEOREM WorkStaysPending == Spec => []WorkIsPending
  <1>1. IInv => WorkIsPending
    BY DEF IInv
  <1> QED
    BY <1>1, Inductive, PTL

-----------------------------------------------------------------------------
(* The backend implements DimLifecycle.                                      *)

LEMMA LifecycleInit == Init => Lifecycle!Init
  BY Constants DEF Init, Lifecycle!Init, NoRows, NoRow

LEMMA OverwriteCaptures ==
    ASSUME IInv, NEW w \in Writers, wpc[w] \in {"commit", "write"}, Overwrite(w)
    PROVE  Lifecycle!Next
  <1> DEFINE s == wsku[w]
             v == wval[w]
             row == Fresh(v, wat[w])
  <1>1. s \in KnownSkus /\ s \in Skus /\ v \in Values /\ wat[w] \in Nat /\ wat[w] > 0
    BY DEF IInv, TypeOK, RequestsPlaced
  <1>2. row.val = v /\ row.at # 0 /\ ~row.synced /\ ~row.blocked
    BY <1>1, FreshRow
  <1>3. \A u \in Skus : dim'[u] = IF u = s THEN row ELSE dim[u]
    BY <1>1 DEF Overwrite, IInv, TypeOK
  <1> HIDE DEF row
  <1>4. Lifecycle!Capture(s, v)
    BY <1>1, <1>2, <1>3 DEF Lifecycle!Capture
  <1> QED
    BY <1>1, <1>4 DEF Lifecycle!Next, Lifecycle!Capture

LEMMA CommitSettles ==
    ASSUME IInv, NEW r \in Runs, RunCommit(r)
    PROVE  Lifecycle!Next
  <1>1. \A s \in Skus : /\ dim[s] \in Row /\ mark[r][s] \in Marks
                        /\ mark[r][s] # "none" => Pending(dim[s])
                        /\ dim'[s] = Marked(dim[s], mark[r][s])
    BY DEF IInv, TypeOK, WorkIsPending, RunCommit
  <1>2. \A s \in Skus : /\ dim'[s].at = dim[s].at
                        /\ dim'[s].val = dim[s].val
                        /\ mark[r][s] = "none" => dim'[s] = dim[s]
                        /\ mark[r][s] = "synced" => dim'[s].synced
                        /\ mark[r][s] = "blocked" => dim'[s].blocked /\ ~dim'[s].synced
    BY <1>1, MarkedRow DEF Pending
  <1>3. PICK done \in SUBSET Skus, refused \in SUBSET Skus :
          \A s \in Skus : /\ s \in done <=> mark[r][s] = "synced"
                          /\ s \in refused <=> mark[r][s] = "blocked"
    <2>1. /\ {s \in Skus : mark[r][s] = "synced"} \in SUBSET Skus
          /\ {s \in Skus : mark[r][s] = "blocked"} \in SUBSET Skus
      OBVIOUS
    <2> QED
      BY <2>1
  <1>4. Lifecycle!Settle(done, refused)
    BY <1>1, <1>2, <1>3 DEF Lifecycle!Settle, Pending, Marks, Row
  <1> QED
    BY <1>4 DEF Lifecycle!Next

LEMMA LifecycleStep == IInv /\ [Next]_vars => [Lifecycle!Next]_(Lifecycle!vars)
  <1> SUFFICES ASSUME IInv, [Next]_vars, dim' # dim PROVE Lifecycle!Next
    BY DEF Lifecycle!vars
  <1>1. ASSUME NEW w \in Writers, SaveCommit(w) \/ PutWrite(w) PROVE Lifecycle!Next
    BY <1>1, OverwriteCaptures DEF SaveCommit, PutWrite
  <1>2. ASSUME NEW r \in Runs, RunCommit(r) PROVE Lifecycle!Next
    BY <1>2, CommitSettles
  <1>3. \/ \E w \in Writers : SaveCommit(w) \/ PutWrite(w)
        \/ \E r \in Runs : RunCommit(r)
    BY DEF Next, vars, Post, Put, Request, WriterStep, SaveLock, SaveUpsert, SaveExpire, PutCheck,
           RunStart, RunStep, RunGet, RunPatch, RunVerify, RunMark, RunCount, RunAbort, TxExpire,
           LatePatch, CcEdit, Crash
  <1> QED
    BY <1>1, <1>2, <1>3

(* Captures and runs, however they overlap and fail, move each carton        *)
(* through its lifecycle only as promised.                                   *)
THEOREM ImplementsLifecycle == Spec => KeepsLifecycle
  BY LifecycleInit, LifecycleStep, Inductive, PTL DEF Spec, KeepsLifecycle, Lifecycle!Spec

-----------------------------------------------------------------------------
(* What a run marks, writes and reports: a second invariant, on top of the   *)
(* first.                                                                    *)

(* What is about to be written, by a run or by a PATCH nobody waits for, is  *)
(* a product of the customer's own.                                          *)
Shielded ==
    /\ \A r \in Runs : rpc[r] = "patch" => ccState[cur[r]] # "foreign"
    /\ \A p \in late : ccState[p.sku] # "foreign"
    /\ ForeignUntouched

(* The rows a run read: those it has not come to, the one it is at, those it *)
(* has marked, and those it gave up, each in one place.                      *)
Read(r)     == {s \in Skus : Pending(snap[r][s])}
MarkedAs(r, m) == {s \in Skus : mark[r][s] = m}
GivenUp(r)  == {s \in Read(r) : s \notin todo[r] /\ s # cur[r] /\ mark[r][s] = "none"}

Work(r) ==
    tx[r] = "open" =>
        /\ todo[r] \subseteq Read(r)
        /\ cur[r] \in Read(r) \cup {NoSku}
        /\ cur[r] \notin todo[r]
        /\ \A s \in Skus : mark[r][s] # "none" => s \in Read(r) /\ s \notin todo[r] /\ s # cur[r]

(* Nobody else settles a row that an open run has read, be it given up.      *)
StillPending(r) == tx[r] = "open" => \A s \in Read(r) : Pending(dim[s])

(* What the run is about to mark synced is what CartonCloud holds.           *)
Delivering(r) ==
    tx[r] = "open" /\ rpc[r] = "mark" /\ out[r] = "synced" /\ cur[r] \notin overtaken
        => cc[cur[r]] = snap[r][cur[r]].val

Tallied(r) ==
    /\ tx[r] = "none" => tally[r] = NoTally
    /\ tx[r] = "open" =>
         /\ tally[r].synced = Cardinality(MarkedAs(r, "synced"))
         /\ tally[r].blocked = Cardinality(MarkedAs(r, "blocked"))
         /\ tally[r].failed = Cardinality(GivenUp(r))
    /\ tx[r] = "open" /\ rpc[r] = "commit" =>
         todo[r] = {} /\ tally[r].pending >= tally[r].failed

RunInv(r) == Work(r) /\ StillPending(r) /\ Delivering(r) /\ Tallied(r)

DInv ==
    /\ Shielded
    /\ MarkedMeansDelivered
    /\ SyncedUnlessOvertaken
    /\ \A r \in Runs : RunInv(r)

-----------------------------------------------------------------------------
(* Sets of rows, values and other runs.                                      *)

LEMMA RowSets ==
    ASSUME NEW r
    PROVE  /\ Read(r) \in SUBSET Skus /\ IsFiniteSet(Read(r))
           /\ GivenUp(r) \in SUBSET Skus /\ IsFiniteSet(GivenUp(r))
           /\ \A m : MarkedAs(r, m) \in SUBSET Skus /\ IsFiniteSet(MarkedAs(r, m))
<1>1. IsFiniteSet(Skus)
  BY SkusAssumption
<1>2. /\ Read(r) \in SUBSET Skus /\ GivenUp(r) \in SUBSET Skus
      /\ \A m : MarkedAs(r, m) \in SUBSET Skus
  BY DEF Read, GivenUp, MarkedAs
<1> QED  BY <1>1, <1>2, FS_Subset

(* patchProductDims finds nothing to write exactly when all is as measured.  *)
LEMMA NothingDiffers ==
    ASSUME NEW want \in Values \cup {NoVal}, NEW have \in Stored, Differing(want, have) = {}
    PROVE  have = want
<1>1. \A f \in Fields : have[f] = want[f]
  BY DEF Differing
<1>2. want \in Stored
  BY Constants
<1> QED  BY <1>1, <1>2 DEF Stored

Same(q) ==
    /\ rpc'[q] = rpc[q] /\ tx'[q] = tx[q] /\ snap'[q] = snap[q] /\ todo'[q] = todo[q]
    /\ cur'[q] = cur[q] /\ out'[q] = out[q] /\ mark'[q] = mark[q] /\ tally'[q] = tally[q]

(* The sets are of the run's own variables.                                  *)
LEMMA SameSets ==
    ASSUME NEW q \in Runs, snap'[q] = snap[q], mark'[q] = mark[q]
    PROVE  /\ Read(q)' = Read(q) /\ \A m : MarkedAs(q, m)' = MarkedAs(q, m)
           /\ todo'[q] = todo[q] /\ cur'[q] = cur[q] => GivenUp(q)' = GivenUp(q)
<1>1. Read(q)' = Read(q) /\ \A m : MarkedAs(q, m)' = MarkedAs(q, m)
  BY DEF Read, MarkedAs
<1>2. todo'[q] = todo[q] /\ cur'[q] = cur[q] => GivenUp(q)' = GivenUp(q)
  BY <1>1 DEF GivenUp
<1> QED  BY <1>1, <1>2

(* A run is none the worse for steps around it that unsettle rows, and that  *)
(* write products only with a mark in the history.                           *)
LEMMA OtherRun ==
    ASSUME NEW q \in Runs, RunInv(q), Same(q), cur[q] \in Skus \/ rpc[q] # "mark",
           tx[q] = "open" => \A s \in Skus :
               /\ Pending(dim[s]) => Pending(dim'[s])
               /\ s \notin overtaken' => s \notin overtaken /\ cc'[s] = cc[s]
    PROVE  RunInv(q)'
<1>1. /\ Read(q)' = Read(q) /\ \A m : MarkedAs(q, m)' = MarkedAs(q, m)
      /\ GivenUp(q)' = GivenUp(q) /\ Read(q) \subseteq Skus
  BY SameSets, RowSets DEF Same
<1>2. Work(q)'
  BY <1>1 DEF Same, RunInv, Work
<1>3. StillPending(q)'
  BY <1>1 DEF Same, RunInv, StillPending
<1>4. Delivering(q)'
  BY DEF Same, RunInv, Delivering
<1>5. Tallied(q)'
  BY <1>1 DEF Same, RunInv, Tallied
<1> QED  BY <1>2, <1>3, <1>4, <1>5 DEF RunInv

(* So are the promises about what is marked and what is synced.              *)
LEMMA PromisesKept ==
    ASSUME DInv, UNCHANGED <<snap, mark>>,
           \A s \in Skus : s \notin overtaken' => s \notin overtaken /\ cc'[s] = cc[s]
    PROVE  /\ MarkedMeansDelivered'
           /\ UNCHANGED dim => SyncedUnlessOvertaken'
  BY DEF DInv, MarkedMeansDelivered, SyncedUnlessOvertaken

LEMMA AtWork ==
    ASSUME IInv, NEW q \in Runs
    PROVE  /\ cur[q] \in Skus \/ rpc[q] # "mark"
           /\ cur[q] \in Skus \cup {NoSku} /\ todo[q] \subseteq Skus
           /\ \A s \in Skus : snap[q][s] \in Row /\ dim[s] \in Row
           /\ tally[q] \in [synced: Nat, failed: Nat, blocked: Nat, pending: Nat]
  BY DEF IInv, TypeOK, RunsPlaced

-----------------------------------------------------------------------------
(* Steps that concern no run: requests, and CartonCloud on its own.          *)

LEMMA InitDelivery == Init => DInv
<1> SUFFICES ASSUME Init PROVE DInv
  OBVIOUS
<1>1. Shielded
  BY DEF Init, Shielded, ForeignUntouched
<1>2. MarkedMeansDelivered /\ SyncedUnlessOvertaken
  BY Constants DEF Init, MarkedMeansDelivered, SyncedUnlessOvertaken, NoRow
<1>3. \A r \in Runs : RunInv(r)
  BY DEF Init, RunInv, Work, StillPending, Delivering, Tallied
<1> QED  BY <1>1, <1>2, <1>3 DEF DInv

LEMMA RequestDelivery ==
    ASSUME IInv, DInv, UNCHANGED <<dim, runVars, ccVars, overtaken>>
    PROVE  DInv'
<1>1. \A q \in Runs : RunInv(q)'
  BY OtherRun, AtWork DEF DInv, Same, runVars, ccVars
<1>2. Shielded'
  BY DEF DInv, Shielded, ForeignUntouched, runVars, ccVars
<1> QED  BY <1>1, <1>2, PromisesKept DEF DInv, runVars, ccVars

LEMMA OverwriteDelivery ==
    ASSUME IInv, DInv, NEW w \in Writers, wpc[w] \in {"commit", "write"}, Overwrite(w)
    PROVE  DInv'
<1>1. /\ wsku[w] \in Skus /\ wval[w] \in Values /\ wat[w] \in Nat /\ wat[w] > 0
      /\ UNCHANGED <<runVars, ccVars, overtaken>>
  BY SkusAssumption DEF IInv, TypeOK, RequestsPlaced, Overwrite
<1>2. \A s \in Skus : dim'[s] = IF s = wsku[w] THEN Fresh(wval[w], wat[w]) ELSE dim[s]
  BY <1>1 DEF Overwrite, IInv, TypeOK
<1>3. \A s \in Skus : /\ Pending(dim[s]) => Pending(dim'[s])
                      /\ dim'[s].synced => dim'[s] = dim[s]
  BY <1>1, <1>2, FreshRow
<1>4. \A q \in Runs : RunInv(q)'
  BY <1>1, <1>3, OtherRun, AtWork DEF DInv, Same, runVars, ccVars
<1>5. Shielded'
  BY <1>1 DEF DInv, Shielded, ForeignUntouched, runVars, ccVars
<1>6. MarkedMeansDelivered'
  BY <1>1, PromisesKept DEF runVars, ccVars
<1>7. SyncedUnlessOvertaken'
  BY <1>1, <1>3 DEF DInv, SyncedUnlessOvertaken, ccVars
<1> QED  BY <1>4, <1>5, <1>6, <1>7 DEF DInv

LEMMA LatePatchDelivery == ASSUME IInv, DInv, LatePatch PROVE DInv'
<1>1. PICK p \in late : /\ cc' = [cc EXCEPT ![p.sku] = Patched(@, p.val, p.fields)]
                        /\ late' = late \ {p}
                        /\ overtaken' = overtaken \cup {p.sku}
  BY DEF LatePatch
<1>2. UNCHANGED <<dim, runVars, ccState>>
  BY DEF LatePatch
<1>3. \A s \in Skus : s # p.sku => cc'[s] = cc[s]
  BY <1>1 DEF IInv, TypeOK
<1>4. \A q \in Runs : RunInv(q)'
  BY <1>1, <1>2, <1>3, OtherRun, AtWork DEF DInv, Same, runVars
<1>5. Shielded'
  BY <1>1, <1>2, <1>3 DEF DInv, Shielded, ForeignUntouched, runVars
<1>6. MarkedMeansDelivered' /\ SyncedUnlessOvertaken'
  BY <1>1, <1>2, <1>3, PromisesKept DEF runVars
<1> QED  BY <1>4, <1>5, <1>6 DEF DInv

LEMMA CcEditDelivery ==
    ASSUME IInv, DInv, NEW s \in Skus, CcEdit(s)
    PROVE  DInv'
<1>1. UNCHANGED <<dim, runVars, cc, late, overtaken>>
  BY DEF CcEdit
<1>2. \A u \in Skus : ccState'[u] = "foreign" <=> ccState[u] = "foreign"
  BY DEF CcEdit, IInv, TypeOK
<1>3. \A q \in Runs : RunInv(q)'
  BY <1>1, OtherRun, AtWork DEF DInv, Same, runVars
<1>4. Shielded'
  BY <1>1, <1>2 DEF DInv, Shielded, ForeignUntouched, runVars, IInv, RunsPlaced, TypeOK
<1> QED  BY <1>1, <1>3, <1>4, PromisesKept DEF DInv, runVars

LEMMA CrashDelivery == ASSUME IInv, DInv, Crash PROVE DInv'
<1>1. Shielded'
  BY DEF DInv, Shielded, ForeignUntouched, Crash, ccVars
<1>2. MarkedMeansDelivered' /\ SyncedUnlessOvertaken'
  BY Constants DEF DInv, MarkedMeansDelivered, SyncedUnlessOvertaken, Crash, ccVars
<1>3. \A q \in Runs : RunInv(q)'
  BY DEF RunInv, Work, StillPending, Delivering, Tallied, Crash
<1> QED  BY <1>1, <1>2, <1>3 DEF DInv

-----------------------------------------------------------------------------
(* Steps of a run r: the other runs are as they were.                        *)

LEMMA FailCounts ==
    ASSUME TypeOK, NEW r \in Runs, NEW field \in {"synced", "failed", "blocked"}, Count(r, field)
    PROVE  /\ \A q \in Runs \ {r} : tally'[q] = tally[q]
           /\ tally'[r].synced = IF field = "synced" THEN tally[r].synced + 1 ELSE tally[r].synced
           /\ tally'[r].failed = IF field = "failed" THEN tally[r].failed + 1 ELSE tally[r].failed
           /\ tally'[r].blocked =
                IF field = "blocked" THEN tally[r].blocked + 1 ELSE tally[r].blocked
<1> DEFINE Tally == [synced: Nat, failed: Nat, blocked: Nat, pending: Nat]
           new == [tally[r] EXCEPT ![field] = tally[r][field] + 1]
<1>1. tally \in [Runs -> Tally] /\ tally[r] \in Tally
  BY DEF TypeOK
<1>2. tally' = [tally EXCEPT ![r] = new]
  BY <1>1 DEF Count
<1>3. /\ new.synced = IF field = "synced" THEN tally[r].synced + 1 ELSE tally[r].synced
      /\ new.failed = IF field = "failed" THEN tally[r].failed + 1 ELSE tally[r].failed
      /\ new.blocked = IF field = "blocked" THEN tally[r].blocked + 1 ELSE tally[r].blocked
  <2>1. CASE field = "synced"
    BY <1>1, <2>1
  <2>2. CASE field = "failed"
    BY <1>1, <2>2
  <2>3. CASE field = "blocked"
    BY <1>1, <2>3
  <2> QED  BY <2>1, <2>2, <2>3
<1> HIDE DEF Tally, new
<1> QED  BY <1>1, <1>2, <1>3

(* A row that is given up, from the work list or from the hand, is counted.  *)
LEMMA GivesUp ==
    ASSUME IInv, NEW r \in Runs, RunInv(r), rpc[r] # "idle", NEW s \in Skus, Fail(r),
           UNCHANGED <<dim, tx, snap, mark>>,
           \/ s \in todo[r] /\ cur[r] = NoSku /\ todo' = [todo EXCEPT ![r] = @ \ {s}]
           \/ s = cur[r] /\ UNCHANGED todo
    PROVE  RunInv(r)'
<1>1. /\ rpc'[r] = "loop" /\ cur'[r] = NoSku /\ snap'[r] = snap[r] /\ mark'[r] = mark[r]
      /\ tx'[r] = tx[r] /\ tx[r] # "none"
  BY FailTypes DEF IInv, RunsPlaced
<1>2. CASE tx[r] # "open"
  BY <1>1, <1>2 DEF RunInv, Work, StillPending, Delivering, Tallied
<1>3. CASE tx[r] = "open"
  <2>1. /\ todo[r] \subseteq Skus /\ todo \in [Runs -> SUBSET Skus] /\ s # NoSku
        /\ s \in Read(r) /\ mark[r][s] = "none" /\ s \notin GivenUp(r)
        /\ cur[r] \in {NoSku, s} /\ s \in todo[r] \cup {cur[r]}
    BY <1>3, Constants DEF RunInv, Work, GivenUp, IInv, TypeOK
  <2>2. todo'[r] = todo[r] \ {s}
    <3>1. CASE s \in todo[r] /\ todo' = [todo EXCEPT ![r] = @ \ {s}]
      BY <2>1, <3>1
    <3>2. CASE s = cur[r] /\ UNCHANGED todo
      BY <1>3, <3>2 DEF RunInv, Work
    <3> QED  BY <3>1, <3>2
  <2>3. Read(r)' = Read(r) /\ \A m : MarkedAs(r, m)' = MarkedAs(r, m)
    BY SameSets
  <2>4. GivenUp(r)' = GivenUp(r) \cup {s}
    <3>1. Read(r) \subseteq Skus /\ NoSku \notin Skus
      BY RowSets, Constants
    <3> QED  BY <1>1, <2>1, <2>2, <2>3, <3>1 DEF GivenUp
  <2>5. Cardinality(GivenUp(r)') = Cardinality(GivenUp(r)) + 1
    BY <2>1, <2>4, RowSets, FS_AddElement
  <2>6. /\ tally'[r].synced = tally[r].synced /\ tally'[r].blocked = tally[r].blocked
        /\ tally'[r].failed = tally[r].failed + 1
    BY FailCounts DEF Fail, IInv
  <2>7. Tallied(r)'
    BY <1>1, <1>3, <2>3, <2>5, <2>6 DEF RunInv, Tallied
  <2>8. Work(r)'
    BY <1>1, <1>3, <2>1, <2>2, <2>3, Constants DEF RunInv, Work
  <2>9. StillPending(r)' /\ Delivering(r)'
    BY <1>1, <1>3, <2>3 DEF RunInv, StillPending, Delivering
  <2> QED  BY <2>7, <2>8, <2>9 DEF RunInv
<1> QED  BY <1>2, <1>3

LEMMA RunStartDelivery == ASSUME IInv, DInv, NEW r \in Runs, RunStart(r) PROVE DInv'
<1>1. /\ rpc[r] = "idle" /\ UNCHANGED <<dim, cur, out, mark, tally, ccVars, overtaken>>
      /\ \A q \in Runs : tx[q] # "open"
      /\ rpc'[r] = "loop" /\ tx'[r] = "open" /\ todo'[r] = {s \in Skus : Pending(dim[s])}
      /\ \A s \in Skus : snap'[r][s] = IF Pending(dim[s]) THEN dim[s] ELSE NoRow
      /\ \A q \in Runs \ {r} : Same(q)
  BY DEF RunStart, SyncLockFree, Goto, Same, IInv, TypeOK
<1>2. /\ cur[r] = NoSku /\ mark[r] = NoMarks /\ tally[r] = NoTally
      /\ \A q \in Runs, s \in Skus : mark[q][s] = "none"
  BY <1>1, Constants DEF DInv, RunInv, Tallied, IInv, RunsPlaced
<1>3. \A q \in Runs \ {r} : RunInv(q)'
  BY <1>1, OtherRun, AtWork DEF DInv
<1>4. RunInv(r)'
  <2>1. Read(r)' = todo'[r] /\ Read(r)' \subseteq Skus
    BY <1>1, Constants DEF Read
  <2>2. MarkedAs(r, "synced")' = {} /\ MarkedAs(r, "blocked")' = {}
    BY <1>1, <1>2 DEF MarkedAs
  <2>3. GivenUp(r)' = {}
    BY <2>1 DEF GivenUp
  <2>4. Tallied(r)'
    <3>1. tally'[r].synced = 0 /\ tally'[r].blocked = 0 /\ tally'[r].failed = 0
      BY <1>1, <1>2 DEF NoTally
    <3>2. tx'[r] = "open" /\ rpc'[r] = "loop"
      BY <1>1
    <3> QED  BY <2>2, <2>3, <3>1, <3>2, FS_EmptySet DEF Tallied
  <2>5. Work(r)'
    BY <1>1, <1>2, <2>1, Constants DEF Work
  <2>6. StillPending(r)' /\ Delivering(r)'
    BY <1>1, <2>1 DEF StillPending, Delivering
  <2> QED  BY <2>4, <2>5, <2>6 DEF RunInv
<1>5. Shielded'
  BY <1>1 DEF DInv, Shielded, ForeignUntouched, ccVars, Same
<1>6. MarkedMeansDelivered' /\ SyncedUnlessOvertaken'
  BY <1>1, <1>2 DEF DInv, MarkedMeansDelivered, SyncedUnlessOvertaken, ccVars
<1> QED  BY <1>3, <1>4, <1>5, <1>6 DEF DInv

(* Up to the diff: what the GET shows unchanged is as good as delivered, and *)
(* only a product of the customer's own goes on to be written.               *)
LEMMA RunGetDelivery == ASSUME IInv, DInv, NEW r \in Runs, RunGet(r) PROVE DInv'
<1>1. PICK s \in Skus :
        /\ IsNext(r, s)
        /\ todo' = [todo EXCEPT ![r] = @ \ {s}]
        /\ overtaken' = IF tx[r] = "open" THEN overtaken \ {s} ELSE overtaken
        /\ \/ Fail(r)
           \/ /\ cur' = [cur EXCEPT ![r] = s]
              /\ \/ Decide(r, "blocked")
                 \/ Differing(snap[r][s].val, cc[s]) = {} /\ Decide(r, "synced")
                 \/ /\ ~Refused(s)
                    /\ Goto(r, "patch")
                    /\ UNCHANGED <<out, tally>>
  BY Zenon DEF RunGet
<1>2. /\ UNCHANGED <<dim, tx, snap, mark, ccVars>> /\ rpc[r] = "loop" /\ cur[r] = NoSku
      /\ s \in todo[r] /\ cc' = cc
  BY <1>1 DEF RunGet, IsNext, IInv, RunsPlaced, ccVars
<1>3. tx[r] = "open" => /\ Pending(dim[s]) /\ \A q \in Runs \ {r} : tx[q] # "open"
                        /\ \A q \in Runs : mark[q][s] = "none"
  BY <1>2, Constants DEF IInv, WorkIsPending, OneOpenTx, DInv, RunInv, Work, RunsPlaced
<1>4. /\ \A q \in Runs \ {r} : Same(q)
      /\ todo'[r] = todo[r] \ {s}
      /\ \/ Fail(r)
         \/ /\ rpc'[r] \in {"patch", "mark"} /\ cur'[r] = s /\ tally' = tally
            /\ rpc'[r] = "mark" => out'[r] = "blocked" \/ Differing(snap[r][s].val, cc[s]) = {}
            /\ rpc'[r] = "patch" => ~Refused(s)
  <2>1. /\ todo'[r] = todo[r] \ {s} /\ \A q \in Runs \ {r} : todo'[q] = todo[q]
    BY <1>1 DEF IInv, TypeOK
  <2>2. CASE Fail(r)
    BY <1>2, <2>1, <2>2, FailTypes, FailCounts DEF IInv, Same, Fail
  <2>3. ASSUME cur' = [cur EXCEPT ![r] = s], NEW o \in {"blocked", "synced"}, Decide(r, o),
               o = "synced" => Differing(snap[r][s].val, cc[s]) = {}
        PROVE  <1>4
    BY <1>2, <2>1, <2>3, DecideTypes DEF IInv, TypeOK, Same
  <2>4. CASE /\ cur' = [cur EXCEPT ![r] = s] /\ ~Refused(s)
             /\ Goto(r, "patch") /\ UNCHANGED <<out, tally>>
    BY <1>2, <2>1, <2>4 DEF IInv, TypeOK, Same, Goto
  <2> QED  BY <1>1, <2>2, <2>3, <2>4
<1>5. \A q \in Runs \ {r} : RunInv(q)'
  BY <1>1, <1>2, <1>3, <1>4, OtherRun, AtWork DEF DInv
<1>6. RunInv(r)'
  <2>1. CASE Fail(r)
    BY <1>1, <1>2, <2>1, GivesUp DEF DInv
  <2>2. CASE ~Fail(r)
    <3>1. /\ rpc'[r] \in {"patch", "mark"} /\ cur'[r] = s /\ tally' = tally
          /\ tx'[r] = tx[r] /\ snap'[r] = snap[r] /\ mark'[r] = mark[r]
      BY <1>2, <1>4, <2>2
    <3>2. Read(r)' = Read(r) /\ \A m : MarkedAs(r, m)' = MarkedAs(r, m)
      BY <1>2, SameSets
    <3>3. GivenUp(r)' = GivenUp(r)
      <4>1. Read(r) \subseteq Skus /\ NoSku \notin Skus
        BY RowSets, Constants
      <4> QED  BY <1>2, <1>4, <3>1, <3>2, <4>1 DEF GivenUp
    <3>4. Tallied(r)'
      BY <3>1, <3>2, <3>3 DEF DInv, RunInv, Tallied
    <3>5. Work(r)' /\ StillPending(r)'
      BY <1>2, <1>3, <1>4, <3>1, <3>2 DEF DInv, RunInv, Work, StillPending
    <3>6. Delivering(r)'
      <4> SUFFICES ASSUME rpc'[r] = "mark", out'[r] = "synced"
                   PROVE  cc[s] = snap[r][s].val
        BY <1>2, <3>1 DEF Delivering
      <4>1. Differing(snap[r][s].val, cc[s]) = {}
        BY <1>4, <2>2
      <4>2. snap[r][s].val \in Values \cup {NoVal} /\ cc[s] \in Stored
        BY DEF IInv, TypeOK, Row
      <4> QED  BY <4>1, <4>2, NothingDiffers
    <3> QED  BY <3>4, <3>5, <3>6 DEF RunInv
  <2> QED  BY <2>1, <2>2
<1>7. Shielded'
  <2>1. /\ ForeignUntouched' /\ \A p \in late' : ccState'[p.sku] # "foreign"
    BY <1>2 DEF DInv, Shielded, ForeignUntouched, ccVars
  <2>2. ASSUME NEW q \in Runs, rpc'[q] = "patch" PROVE ccState'[cur'[q]] # "foreign"
    <3>1. CASE q = r
      <4>1. ~Fail(r)
        BY <2>2, <3>1, FailTypes DEF IInv
      <4> QED  BY <1>2, <1>4, <2>2, <3>1, <4>1 DEF Refused, ccVars
    <3>2. CASE q # r
      BY <1>2, <1>4, <2>2, <3>2 DEF Same, DInv, Shielded, ccVars
    <3> QED  BY <3>1, <3>2
  <2> QED  BY <2>1, <2>2 DEF Shielded
<1>8. MarkedMeansDelivered' /\ SyncedUnlessOvertaken'
  BY <1>1, <1>2, <1>3 DEF DInv, MarkedMeansDelivered, SyncedUnlessOvertaken, Pending
<1> QED  BY <1>5, <1>6, <1>7, <1>8 DEF DInv
(* The PATCH, in all its outcomes: an open run's leaves its other rows as    *)
(* they are, an expired run's and a late one leave a mark in the history.    *)
LEMMA RunPatchDelivery == ASSUME IInv, DInv, NEW r \in Runs, RunPatch(r) PROVE DInv'
<1>1. PICK s \in Skus : s = cur[r]
  BY DEF RunPatch, IInv, RunsPlaced
<1>2. /\ UNCHANGED <<dim, tx, snap, todo, mark, ccState>> /\ rpc[r] = "patch"
  BY DEF RunPatch
<1>3. /\ \/ cc' = cc /\ overtaken' = overtaken
         \/ /\ cc' = [cc EXCEPT ![s] = Patched(@, snap[r][s].val, ops[r])]
            /\ overtaken' = IF tx[r] = "open" THEN overtaken ELSE overtaken \cup {s}
      /\ \/ late' = late
         \/ late' = late \cup {[sku |-> s, val |-> snap[r][s].val, fields |-> ops[r]]}
      /\ Fail(r) \/ (Goto(r, "verify") /\ UNCHANGED <<cur, ops, out, tally>>)
  BY <1>1 DEF RunPatch
<1>4. \A u \in Skus : /\ u # s => cc'[u] = cc[u]
                      /\ u \notin overtaken' => /\ u \notin overtaken
                                                /\ tx[r] # "open" => cc'[u] = cc[u]
  BY <1>3 DEF IInv, TypeOK
<1>5. ccState[s] # "foreign" /\ \A u \in Skus : ccState[u] = "foreign" => u # s
  BY <1>1, <1>2 DEF DInv, Shielded
<1>6. tx[r] = "open" => /\ Pending(dim[s]) /\ \A q \in Runs \ {r} : tx[q] # "open"
                        /\ \A q \in Runs : mark[q][s] = "none"
  BY <1>1, <1>2, Constants DEF IInv, WorkIsPending, OneOpenTx, DInv, RunInv, Work, RunsPlaced
<1>7. /\ \A q \in Runs \ {r} : Same(q)
      /\ Fail(r) \/ (rpc'[r] = "verify" /\ cur'[r] = s /\ tally' = tally)
      /\ rpc'[r] # "patch"
  <2>1. CASE Fail(r)
    BY <1>2, <2>1, FailTypes, FailCounts DEF IInv, Same, Fail
  <2>2. CASE Goto(r, "verify") /\ UNCHANGED <<cur, ops, out, tally>>
    BY <1>1, <1>2, <2>2 DEF IInv, TypeOK, Same, Goto
  <2> QED  BY <1>3, <2>1, <2>2
<1>8. \A q \in Runs \ {r} : RunInv(q)'
  BY <1>2, <1>4, <1>6, <1>7, OtherRun, AtWork DEF DInv
<1>9. RunInv(r)'
  <2>1. CASE Fail(r)
    BY <1>1, <1>2, <2>1, GivesUp DEF DInv
  <2>2. CASE rpc'[r] = "verify" /\ cur'[r] = s /\ tally' = tally
    <3>1. /\ Read(r)' = Read(r) /\ \A m : MarkedAs(r, m)' = MarkedAs(r, m)
          /\ GivenUp(r)' = GivenUp(r)
      BY <1>1, <1>2, <2>2, SameSets
    <3> QED
      BY <1>1, <1>2, <2>2, <3>1
         DEF DInv, RunInv, Work, StillPending, Delivering, Tallied
  <2> QED  BY <1>7, <2>1, <2>2
<1>10. Shielded'
  <2>1. ForeignUntouched'
    BY <1>2, <1>4, <1>5 DEF DInv, Shielded, ForeignUntouched
  <2>2. \A p \in late' : ccState'[p.sku] # "foreign"
    BY <1>2, <1>3, <1>5 DEF DInv, Shielded
  <2>3. \A q \in Runs : rpc'[q] = "patch" => ccState'[cur'[q]] # "foreign"
    BY <1>2, <1>7 DEF DInv, Shielded, Same
  <2> QED  BY <2>1, <2>2, <2>3 DEF Shielded
<1>11. MarkedMeansDelivered'
  BY <1>2, <1>4, <1>6 DEF DInv, MarkedMeansDelivered
<1>12. SyncedUnlessOvertaken'
  BY <1>2, <1>4, <1>6 DEF DInv, SyncedUnlessOvertaken, Pending
<1> QED  BY <1>8, <1>9, <1>10, <1>11, <1>12 DEF DInv

LEMMA RunVerifyDelivery == ASSUME IInv, DInv, NEW r \in Runs, RunVerify(r) PROVE DInv'
<1>1. PICK s \in Skus : s = cur[r]
  BY DEF RunVerify, IInv, RunsPlaced
<1>2. /\ UNCHANGED <<dim, tx, snap, todo, mark, ccVars, overtaken>> /\ rpc[r] = "verify"
      /\ \/ Fail(r)
         \/ Differing(snap[r][s].val, cc[s]) = {} /\ Decide(r, "synced") /\ UNCHANGED cur
  BY <1>1, Zenon DEF RunVerify
<1>3. /\ \A q \in Runs \ {r} : Same(q)
      /\ rpc'[r] # "patch"
      /\ \/ Fail(r)
         \/ /\ rpc'[r] = "mark" /\ cur'[r] = s /\ tally' = tally
            /\ Differing(snap[r][s].val, cc[s]) = {}
  <2>1. CASE Fail(r)
    BY <1>2, <2>1, FailTypes, FailCounts DEF IInv, Same, Fail
  <2>2. CASE Differing(snap[r][s].val, cc[s]) = {} /\ Decide(r, "synced") /\ UNCHANGED cur
    BY <1>1, <1>2, <2>2, DecideTypes DEF IInv, Same
  <2> QED  BY <1>2, <2>1, <2>2
<1>4. \A q \in Runs \ {r} : RunInv(q)'
  BY <1>2, <1>3, OtherRun, AtWork DEF DInv, ccVars
<1>5. RunInv(r)'
  <2>1. CASE Fail(r)
    BY <1>1, <1>2, <2>1, GivesUp DEF DInv
  <2>2. CASE /\ rpc'[r] = "mark" /\ cur'[r] = s /\ tally' = tally
             /\ Differing(snap[r][s].val, cc[s]) = {}
    <3>1. /\ Read(r)' = Read(r) /\ \A m : MarkedAs(r, m)' = MarkedAs(r, m)
          /\ GivenUp(r)' = GivenUp(r)
      BY <1>1, <1>2, <2>2, SameSets
    <3>2. Work(r)' /\ StillPending(r)' /\ Tallied(r)'
      BY <1>1, <1>2, <2>2, <3>1 DEF DInv, RunInv, Work, StillPending, Tallied
    <3>3. snap[r][s].val \in Values \cup {NoVal} /\ cc[s] \in Stored
      BY DEF IInv, TypeOK, Row
    <3>4. Delivering(r)'
      BY <1>2, <2>2, <3>3, NothingDiffers DEF Delivering, ccVars
    <3> QED  BY <3>2, <3>4 DEF RunInv
  <2> QED  BY <1>3, <2>1, <2>2
<1>6. Shielded'
  BY <1>2, <1>3 DEF DInv, Shielded, ForeignUntouched, ccVars, Same
<1> QED  BY <1>2, <1>4, <1>5, <1>6, PromisesKept DEF DInv, ccVars

(* The update puts the row at hand among those marked, and counts it so.     *)
LEMMA RunMarkDelivery == ASSUME IInv, DInv, NEW r \in Runs, RunMark(r) PROVE DInv'
<1>1. PICK s \in Skus : s = cur[r]
  BY DEF RunMark, IInv, RunsPlaced
<1>2. PICK o \in {"synced", "blocked"} : o = out[r]
  BY DEF RunMark, IInv, RunsPlaced
<1>3. /\ UNCHANGED <<dim, tx, snap, todo, ccVars, overtaken>> /\ rpc[r] = "mark"
  BY DEF RunMark
<1>4. CASE tx[r] = "expired" /\ Fail(r) /\ UNCHANGED mark
  <2>1. rpc'[r] # "patch" /\ \A q \in Runs \ {r} : Same(q)
    BY <1>3, <1>4, FailTypes, FailCounts DEF IInv, Same, Fail
  <2>2. \A q \in Runs \ {r} : RunInv(q)'
    BY <1>3, <2>1, OtherRun, AtWork DEF DInv, ccVars
  <2>3. RunInv(r)'
    BY <1>1, <1>3, <1>4, GivesUp DEF DInv
  <2>4. Shielded'
    BY <1>3, <2>1 DEF DInv, Shielded, ForeignUntouched, ccVars, Same
  <2> QED  BY <1>3, <1>4, <2>2, <2>3, <2>4, PromisesKept DEF DInv, ccVars
<1>5. CASE /\ tx[r] = "open" /\ mark' = [mark EXCEPT ![r][s] = o]
           /\ Count(r, o) /\ Leave(r)
  <2>1. /\ \A q \in Runs \ {r} : Same(q)
        /\ rpc'[r] = "loop" /\ cur'[r] = NoSku
        /\ \A u \in Skus : mark'[r][u] = IF u = s THEN o ELSE mark[r][u]
    <3>1. \A q \in Runs \ {r} : tally'[q] = tally[q]
      BY <1>5, FailCounts DEF IInv
    <3> QED  BY <1>1, <1>3, <1>5, <3>1 DEF IInv, TypeOK, Same, Leave, Goto
  <2>2. \A q \in Runs \ {r} : RunInv(q)'
    BY <1>3, <2>1, OtherRun, AtWork DEF DInv, ccVars
  <2>3. s \in Read(r) /\ s \notin todo[r] /\ mark[r][s] = "none" /\ s # NoSku
    BY <1>1, <1>5, Constants DEF DInv, RunInv, Work
  <2>4. Read(r)' = Read(r) /\ Read(r) \subseteq Skus /\ NoSku \notin Skus
    BY <1>3, RowSets, Constants DEF Read
  <2>5. /\ GivenUp(r)' = GivenUp(r)
        /\ MarkedAs(r, o)' = MarkedAs(r, o) \cup {s} /\ s \notin MarkedAs(r, o)
        /\ \A m \in {"synced", "blocked"} \ {o} : MarkedAs(r, m)' = MarkedAs(r, m)
    BY <1>1, <1>3, <2>1, <2>3, <2>4 DEF GivenUp, MarkedAs
  <2>6. Cardinality(MarkedAs(r, o)') = Cardinality(MarkedAs(r, o)) + 1
    <3>1. IsFiniteSet(MarkedAs(r, o))
      BY RowSets
    <3>2. Cardinality(MarkedAs(r, o) \cup {s}) = Cardinality(MarkedAs(r, o)) + 1
      BY <2>5, <3>1, FS_AddElement
    <3> QED  BY <2>5, <3>2
  <2>7. Tallied(r)'
    <3>1. /\ tally'[r].synced = IF o = "synced" THEN tally[r].synced + 1 ELSE tally[r].synced
          /\ tally'[r].failed = tally[r].failed
          /\ tally'[r].blocked = IF o = "blocked" THEN tally[r].blocked + 1 ELSE tally[r].blocked
      BY <1>5, FailCounts DEF IInv
    <3>2. /\ tally[r].synced = Cardinality(MarkedAs(r, "synced"))
          /\ tally[r].blocked = Cardinality(MarkedAs(r, "blocked"))
          /\ tally[r].failed = Cardinality(GivenUp(r))
      BY <1>5 DEF DInv, RunInv, Tallied
    <3>3. tx'[r] = "open" /\ rpc'[r] = "loop"
      BY <1>3, <1>5, <2>1
    <3> HIDE DEF MarkedAs, GivenUp
    <3>4. CASE o = "synced"
      BY <2>5, <2>6, <3>1, <3>2, <3>3, <3>4 DEF Tallied
    <3>5. CASE o = "blocked"
      BY <2>5, <2>6, <3>1, <3>2, <3>3, <3>5 DEF Tallied
    <3> QED  BY <3>4, <3>5
  <2>8. Work(r)' /\ StillPending(r)' /\ Delivering(r)'
    BY <1>3, <1>5, <2>1, <2>3, <2>4, Constants DEF DInv, RunInv, Work, StillPending, Delivering
  <2>9. Shielded'
    BY <1>3, <2>1 DEF DInv, Shielded, ForeignUntouched, ccVars, Same
  <2>10. MarkedMeansDelivered'
    BY <1>1, <1>2, <1>3, <1>5, <2>1
       DEF DInv, RunInv, Delivering, MarkedMeansDelivered, ccVars, Same
  <2>11. SyncedUnlessOvertaken'
    BY <1>3 DEF DInv, SyncedUnlessOvertaken, ccVars
  <2> QED  BY <2>2, <2>7, <2>8, <2>9, <2>10, <2>11 DEF DInv, RunInv
<1> QED  BY <1>1, <1>2, <1>4, <1>5 DEF RunMark
(* The rows the run gave up are among those that its count finds pending.    *)
LEMMA RunCountDelivery == ASSUME IInv, DInv, NEW r \in Runs, RunCount(r) PROVE DInv'
<1>1. PICK left : left = {s \in Skus : Pending(dim[s]) /\ mark[r][s] = "none"}
  OBVIOUS
<1>2. /\ UNCHANGED <<dim, tx, snap, todo, cur, out, mark, ccVars, overtaken>>
      /\ todo[r] = {} /\ tx[r] = "open" /\ rpc' = [rpc EXCEPT ![r] = "commit"]
      /\ tally' = [tally EXCEPT ![r].pending = Cardinality(left)]
  BY <1>1 DEF RunCount, Goto
<1>3. /\ rpc'[r] = "commit"
      /\ \A q \in Runs \ {r} : Same(q)
      /\ tally'[r].synced = tally[r].synced /\ tally'[r].blocked = tally[r].blocked
      /\ tally'[r].failed = tally[r].failed /\ tally'[r].pending = Cardinality(left)
  BY <1>2 DEF IInv, TypeOK, Same
<1>4. \A q \in Runs \ {r} : RunInv(q)'
  BY <1>2, <1>3, OtherRun, AtWork DEF DInv, ccVars
<1>5. Cardinality(left) >= Cardinality(GivenUp(r))
  <2>1. GivenUp(r) \subseteq left
    BY <1>1, <1>2, RowSets DEF GivenUp, DInv, RunInv, StillPending
  <2>2. IsFiniteSet(left)
    BY <1>1, SkusAssumption, FS_Subset
  <2> QED  BY <2>1, <2>2, FS_Subset, FS_CardinalityType
<1>6. RunInv(r)'
  <2>1. /\ Read(r)' = Read(r) /\ \A m : MarkedAs(r, m)' = MarkedAs(r, m)
        /\ GivenUp(r)' = GivenUp(r)
    BY <1>2, SameSets
  <2>2. Tallied(r)'
    BY <1>2, <1>3, <1>5, <2>1 DEF DInv, RunInv, Tallied
  <2> QED  BY <1>2, <1>3, <2>1, <2>2 DEF DInv, RunInv, Work, StillPending, Delivering
<1>7. Shielded'
  BY <1>2, <1>3 DEF DInv, Shielded, ForeignUntouched, ccVars, Same
<1> QED  BY <1>2, <1>4, <1>6, <1>7, PromisesKept DEF DInv, ccVars

(* A run that ends leaves nothing of its own behind.                         *)
LEMMA Ends ==
    ASSUME IInv, NEW r \in Runs, Finish(r)
    PROVE  /\ RunInv(r)' /\ rpc'[r] = "idle"
           /\ \A q \in Runs \ {r} : Same(q)
           /\ \A q \in Runs, s \in Skus : mark'[q][s] # "none" =>
                mark'[q][s] = mark[q][s] /\ snap'[q] = snap[q]
<1>1. /\ rpc'[r] = "idle" /\ tx'[r] = "none" /\ tally'[r] = NoTally /\ mark'[r] = NoMarks
      /\ \A q \in Runs \ {r} : Same(q)
  BY DEF Finish, Goto, IInv, TypeOK, Same
<1>2. RunInv(r)'
  BY <1>1 DEF RunInv, Work, StillPending, Delivering, Tallied
<1>3. \A q \in Runs, s \in Skus : mark'[q][s] # "none" =>
                mark'[q][s] = mark[q][s] /\ snap'[q] = snap[q]
  BY <1>1, Constants DEF Same
<1> QED  BY <1>1, <1>2, <1>3

LEMMA RunCommitDelivery == ASSUME IInv, DInv, NEW r \in Runs, RunCommit(r) PROVE DInv'
<1>1. /\ UNCHANGED ccVars /\ tx[r] = "open" /\ Finish(r)
      /\ overtaken' = overtaken \cup {s \in Skus : /\ mark[r][s] = "synced"
                                                   /\ dim[s].val # snap[r][s].val}
  BY DEF RunCommit
<1>2. \A s \in Skus : /\ dim'[s] = Marked(dim[s], mark[r][s])
                      /\ mark[r][s] \in Marks /\ dim[s] \in Row
                      /\ mark[r][s] = "blocked" => Pending(dim[s])
                      /\ cc'[s] = cc[s]
  BY <1>1 DEF RunCommit, IInv, TypeOK, WorkIsPending, ccVars
<1>3. \A q \in Runs \ {r} : RunInv(q)'
  <2>1. \A q \in Runs \ {r} : tx[q] # "open"
    BY <1>1 DEF IInv, OneOpenTx
  <2> QED  BY <1>1, <2>1, Ends, OtherRun, AtWork DEF DInv
<1>4. Shielded'
  BY <1>1, Ends DEF DInv, Shielded, ForeignUntouched, ccVars, Same
<1>5. MarkedMeansDelivered'
  BY <1>1, <1>2, Ends DEF DInv, MarkedMeansDelivered
<1>6. SyncedUnlessOvertaken'
  <2> SUFFICES ASSUME NEW s \in Skus, dim'[s].synced, s \notin overtaken'
               PROVE  cc[s] = dim'[s].val
    BY <1>2 DEF SyncedUnlessOvertaken
  <2>1. dim'[s].val = dim[s].val /\ s \notin overtaken
    BY <1>1, <1>2, MarkedRow
  <2>2. CASE mark[r][s] = "synced"
    BY <1>1, <2>1, <2>2 DEF DInv, MarkedMeansDelivered
  <2>3. CASE mark[r][s] # "synced"
    <3>1. dim[s].synced
      BY <1>2, <2>3, MarkedRow DEF Marks
    <3> QED  BY <2>1, <3>1 DEF DInv, SyncedUnlessOvertaken
  <2> QED  BY <2>2, <2>3
<1> QED  BY <1>1, <1>3, <1>4, <1>5, <1>6, Ends DEF DInv

LEMMA RunAbortDelivery == ASSUME IInv, DInv, NEW r \in Runs, RunAbort(r) PROVE DInv'
<1>1. UNCHANGED <<dim, ccVars, overtaken>> /\ Finish(r)
  BY DEF RunAbort
<1>2. \A q \in Runs \ {r} : RunInv(q)'
  BY <1>1, Ends, OtherRun, AtWork DEF DInv, ccVars
<1>3. Shielded'
  BY <1>1, Ends DEF DInv, Shielded, ForeignUntouched, ccVars, Same
<1>4. MarkedMeansDelivered' /\ SyncedUnlessOvertaken'
  BY <1>1, Ends DEF DInv, MarkedMeansDelivered, SyncedUnlessOvertaken, ccVars
<1> QED  BY <1>1, <1>2, <1>3, <1>4, Ends DEF DInv

LEMMA TxExpireDelivery == ASSUME IInv, DInv, NEW r \in Runs, TxExpire(r) PROVE DInv'
<1>1. /\ UNCHANGED <<dim, rpc, snap, todo, cur, out, tally, ccVars, overtaken>>
      /\ tx'[r] = "expired" /\ mark'[r] = NoMarks
      /\ \A q \in Runs \ {r} : Same(q)
  BY DEF TxExpire, IInv, TypeOK, Same
<1>2. \A q \in Runs \ {r} : RunInv(q)'
  BY <1>1, OtherRun, AtWork DEF DInv, ccVars
<1>3. RunInv(r)'
  BY <1>1 DEF RunInv, Work, StillPending, Delivering, Tallied
<1>4. Shielded'
  BY <1>1 DEF DInv, Shielded, ForeignUntouched, ccVars
<1>5. MarkedMeansDelivered' /\ SyncedUnlessOvertaken'
  BY <1>1, Constants DEF DInv, MarkedMeansDelivered, SyncedUnlessOvertaken, ccVars, Same
<1> QED  BY <1>2, <1>3, <1>4, <1>5 DEF DInv

-----------------------------------------------------------------------------
LEMMA StepDelivery == IInv /\ DInv /\ [Next]_vars => DInv'
<1> SUFFICES ASSUME IInv, DInv, [Next]_vars PROVE DInv'
  OBVIOUS
<1>1. ASSUME NEW w \in Writers, Post(w) \/ Put(w) \/ WriterStep(w) \/ SaveExpire(w)
      PROVE  DInv'
  <2>1. CASE SaveCommit(w) \/ PutWrite(w)
    BY <2>1, OverwriteDelivery DEF SaveCommit, PutWrite
  <2>2. CASE Post(w) \/ Put(w) \/ SaveLock(w) \/ SaveUpsert(w) \/ PutCheck(w) \/ SaveExpire(w)
    <3>1. UNCHANGED <<dim, runVars, ccVars, overtaken>>
      BY <2>2 DEF Post, Put, Request, SaveLock, SaveUpsert, PutCheck, SaveExpire
    <3> QED  BY <3>1, RequestDelivery
  <2> QED  BY <1>1, <2>1, <2>2 DEF WriterStep
<1>2. ASSUME NEW r \in Runs, RunStart(r) \/ RunStep(r) \/ TxExpire(r) PROVE DInv'
  BY <1>2, RunStartDelivery, RunGetDelivery, RunPatchDelivery, RunVerifyDelivery,
     RunMarkDelivery, RunCountDelivery, RunCommitDelivery, RunAbortDelivery, TxExpireDelivery
     DEF RunStep
<1>3. CASE UNCHANGED vars
  BY <1>3, RequestDelivery DEF vars
<1> QED  BY <1>1, <1>2, <1>3, CcEditDelivery, LatePatchDelivery, CrashDelivery DEF Next

THEOREM Delivery == Spec => []DInv
  BY InitDelivery, StepDelivery, Inductive, PTL DEF Spec

(* The customer guard holds against every race: no run, no expired run and   *)
(* no PATCH that arrives late writes a product of another customer.          *)
THEOREM ForeignStaysUntouched == Spec => []ForeignUntouched
<1>1. DInv => ForeignUntouched
  BY DEF DInv, Shielded
<1> QED  BY <1>1, Delivery, PTL

(* What an open run has marked synced, CartonCloud holds as the run read it, *)
(* unless a PATCH nobody waits for has come in between.                      *)
THEOREM MarkedAreDelivered == Spec => []MarkedMeansDelivered
<1>1. DInv => MarkedMeansDelivered
  BY DEF DInv
<1> QED  BY <1>1, Delivery, PTL

(* A committed row that says synced is as CartonCloud holds it, but for the  *)
(* two ways of being overtaken.                                              *)
THEOREM SyncedAreDelivered == Spec => []SyncedUnlessOvertaken
<1>1. DInv => SyncedUnlessOvertaken
  BY DEF DInv
<1> QED  BY <1>1, Delivery, PTL

LEMMA DisjointSum ==
    ASSUME NEW S, IsFiniteSet(S), NEW T, IsFiniteSet(T), S \cap T = {}
    PROVE  IsFiniteSet(S \cup T) /\ Cardinality(S \cup T) = Cardinality(S) + Cardinality(T)
<1>1. Cardinality(S \cap T) = 0
  BY FS_EmptySet
<1>2. Cardinality(S) \in Nat /\ Cardinality(T) \in Nat
  BY FS_CardinalityType
<1>3. /\ IsFiniteSet(S \cup T)
      /\ Cardinality(S \cup T) = Cardinality(S) + Cardinality(T) - Cardinality(S \cap T)
  BY FS_Union
<1> QED  BY <1>1, <1>2, <1>3

(* The report of a run accounts for every row it read exactly once, as       *)
(* synced, blocked or failed, and for what it failed among the pending.      *)
THEOREM ReportAddsUp == Spec => []ReportMatchesCommit
<1>1. IInv /\ DInv => ReportMatchesCommit
  <2> SUFFICES ASSUME IInv, DInv, NEW r \in Runs, rpc[r] = "commit", tx[r] = "open"
               PROVE  /\ tally[r].synced = Cardinality(MarkedAs(r, "synced"))
                      /\ tally[r].blocked = Cardinality(MarkedAs(r, "blocked"))
                      /\ tally[r].synced + tally[r].blocked + tally[r].failed
                           = Cardinality(Read(r))
                      /\ tally[r].pending >= tally[r].failed
    BY DEF ReportMatchesCommit, MarkedAs, Read
  <2>1. PICK S, B, F, A \in SUBSET Skus :
          /\ S = MarkedAs(r, "synced") /\ B = MarkedAs(r, "blocked")
          /\ F = GivenUp(r) /\ A = Read(r)
    BY RowSets
  <2>2. IsFiniteSet(S) /\ IsFiniteSet(B) /\ IsFiniteSet(F)
    BY SkusAssumption, FS_Subset
  <2>3. /\ tally[r].synced = Cardinality(S) /\ tally[r].blocked = Cardinality(B)
        /\ tally[r].failed = Cardinality(F) /\ tally[r].pending >= tally[r].failed
    BY <2>1 DEF DInv, RunInv, Tallied
  <2>4. /\ A = (S \cup B) \cup F
        /\ S \cap B = {} /\ (S \cup B) \cap F = {}
    <3>1. /\ todo[r] = {} /\ cur[r] = NoSku /\ NoSku \notin Skus
          /\ \A s \in Skus : mark[r][s] \in Marks
      BY Constants DEF DInv, RunInv, Tallied, IInv, RunsPlaced, TypeOK
    <3>2. \A s \in Skus : mark[r][s] # "none" => s \in A
      BY <2>1 DEF DInv, RunInv, Work
    <3> QED  BY <2>1, <3>1, <3>2 DEF MarkedAs, GivenUp, Marks
  <2>5. /\ IsFiniteSet(S \cup B)
        /\ Cardinality(S \cup B) = Cardinality(S) + Cardinality(B)
    BY <2>2, <2>4, DisjointSum
  <2>6. Cardinality((S \cup B) \cup F) = Cardinality(S \cup B) + Cardinality(F)
    BY <2>2, <2>4, <2>5, DisjointSum
  <2> QED  BY <2>1, <2>3, <2>4, <2>5, <2>6
<1> QED  BY <1>1, Inductive, Delivery, PTL

-----------------------------------------------------------------------------
(* What the expiry of a transaction takes away.                              *)

NoneExpired == \A r \in Runs : tx[r] # "expired"

(* Nothing but TxExpire leaves a run without the transaction it began.       *)
LEMMA ExpiresOnlyByFault ==
    ASSUME "expiry" \notin FaultKinds, TypeOK, NoneExpired, [Next]_vars
    PROVE  NoneExpired'
<1>1. ASSUME NEW r \in Runs, RunStart(r) PROVE NoneExpired'
  BY <1>1 DEF RunStart, NoneExpired
<1>2. ASSUME NEW r \in Runs, RunCommit(r) \/ RunAbort(r) PROVE NoneExpired'
  <2>1. tx' = [tx EXCEPT ![r] = "none"] /\ tx \in [Runs -> {"none", "open", "expired"}]
    BY <1>2 DEF RunCommit, RunAbort, Finish, TypeOK
  <2> QED  BY <2>1 DEF NoneExpired
<1>3. ASSUME NEW r \in Runs PROVE ~TxExpire(r)
  BY DEF TxExpire, Fault
<1>4. CASE Crash
  BY <1>4 DEF Crash, NoneExpired
<1>5. \/ \E r \in Runs : RunStart(r) \/ RunCommit(r) \/ RunAbort(r) \/ TxExpire(r)
      \/ Crash
      \/ tx' = tx
  BY DEF Next, vars, runVars, Post, Put, Request, WriterStep, SaveLock, SaveUpsert, SaveCommit,
         SaveExpire, PutCheck, PutWrite, Overwrite, RunStep, RunGet, RunPatch, RunVerify,
         RunMark, RunCount, LatePatch, CcEdit
<1> QED  BY <1>1, <1>2, <1>3, <1>4, <1>5 DEF NoneExpired

(* withAdvisoryLock around syncUnsyncedDims keeps what its comment promises, *)
(* that no two runs PATCH at once, as long as no run outlives the 120 s of   *)
(* its transaction: the expiry alone lets a second run in.                   *)
THEOREM OnePatcherUntilExpiry == ASSUME "expiry" \notin FaultKinds PROVE Spec => []OnePatcher
<1>1. Init => NoneExpired
  BY DEF Init, NoneExpired
<1>2. IInv /\ NoneExpired /\ [Next]_vars => NoneExpired'
  BY ExpiresOnlyByFault DEF IInv
<1>3. IInv /\ NoneExpired => OnePatcher
  <2> SUFFICES ASSUME IInv, NoneExpired, NEW r \in Runs, NEW q \in Runs,
                      rpc[r] \in {"patch", "verify"}, rpc[q] \in {"patch", "verify"}
               PROVE  r = q
    BY DEF OnePatcher
  <2>1. tx[r] # "none" /\ tx[q] # "none"
    BY DEF IInv, RunsPlaced
  <2>2. tx[r] = "open" /\ tx[q] = "open"
    BY <2>1 DEF NoneExpired, IInv, TypeOK
  <2> QED  BY <2>2 DEF IInv, OneOpenTx
<1> QED  BY <1>1, <1>2, <1>3, Inductive, PTL DEF Spec
=============================================================================
