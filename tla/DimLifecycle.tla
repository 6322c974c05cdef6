---------------------------- MODULE DimLifecycle ----------------------------
(* What the backend promises about one carton's measurements, whoever is     *)
(* capturing and however many sync runs are about:                           *)
(*   none -> pending       a first capture                                   *)
(*   any  -> pending       a re-capture or a correction                      *)
(*   pending -> synced     a run settled it as delivered                     *)
(*   pending -> blocked    a run settled it as refused by CartonCloud        *)
(* and nothing else.  Runs settle rows together, when they commit; they      *)
(* never touch the measurements.  DimSync is shown to implement this.        *)

CONSTANTS Skus,      \* ids of warehouse products a client may name
          KnownSkus, \* those the catalogue holds
          Values,    \* distinguishable sets of measurements
          NoVal      \* no measurements

VARIABLES status,    \* [Skus -> Statuses]
          measured   \* [Skus -> Values \cup {NoVal}]

vars == <<status, measured>>

Statuses == {"none", "pending", "synced", "blocked"}

Init ==
    /\ status = [s \in Skus |-> "none"]
    /\ measured = [s \in Skus |-> NoVal]

(* POST /api/dims or PUT /api/dims/:id: whatever the row said, the new       *)
(* measurements are to be delivered.                                         *)
Capture(s, v) ==
    /\ status' = [status EXCEPT ![s] = "pending"]
    /\ measured' = [measured EXCEPT ![s] = v]

(* A sync run commits its outcomes, for pending rows only.                   *)
Settle(done, refused) ==
    /\ \A s \in done \cup refused : status[s] = "pending"
    /\ status' = [s \in Skus |-> IF s \in done THEN "synced"
                                 ELSE IF s \in refused THEN "blocked"
                                 ELSE status[s]]
    /\ UNCHANGED measured

Next ==
    \/ \E s \in KnownSkus, v \in Values : Capture(s, v)
    \/ \E done, refused \in SUBSET Skus : Settle(done, refused)

Spec == Init /\ [][Next]_vars
=============================================================================
