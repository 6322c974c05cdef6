---------------------------- MODULE CaptureScreen ----------------------------
(* The capture page of the browser: the search field (Capture.tsx), the      *)
(* debounced lookup behind it (useSku.ts) and the form that measures the     *)
(* carton shown (DimForm.tsx).  The operator may scan or type again at any   *)
(* time: while a lookup is debounced or under way, while the form is filled  *)
(* and while a save is under way.  Answers come in any order.  React runs    *)
(* the lookup's effect some time after the query has changed.                *)
EXTENDS Naturals

CONSTANTS Barcodes, Empty, \* what the search field may hold
          Skus, NoSku,
          SkuOf,           \* [Barcodes -> what the backend answers: SKU or 404]
          MaxQueries,      \* BOUND: scans and edits by the operator
          MaxFills,        \* BOUND: times the operator fills the form
          MaxFaults        \* BOUND: requests that fail

ASSUME SkuOfAssumption ==
    /\ Empty \notin Barcodes /\ NoSku \notin Skus
    /\ SkuOf \in [Barcodes -> Skus \cup {NoSku}]
ASSUME BoundsAssumption == {MaxQueries, MaxFills, MaxFaults} \subseteq Nat

VARIABLES
    query,     \* Capture's query, trimmed
    seen,      \* the query the lookup's effect has last run for
    requestId, \* useSku's requestId.current
    timer,     \* whether the debounce timer runs, for seen and requestId
    flight,    \* lookups under way: [id, barcode]
    sku, loading, problem, \* what useSku returns; problem: notFound or error
    fields,    \* DimForm: the SKU whose carton was measured, or NoSku: blank
    saving,    \* DimForm's saving
    saves,     \* saves under way: [id, sku, carton, mine], mine: of this form
    queries, fills, faults

lookupVars == <<requestId, timer, flight, sku, loading, problem>>
formVars   == <<fields, saving, saves>>
vars       == <<query, seen, lookupVars, formVars, queries, fills, faults>>

Fault == faults < MaxFaults /\ faults' = faults + 1

(* The form is there while a SKU is and no lookup is.                        *)
Shown == sku # NoSku /\ ~loading

(* What the form holds goes with it; a save under way outlives it.           *)
Unmount ==
    /\ fields' = NoSku
    /\ saving' = FALSE
    /\ saves' = {[s EXCEPT !.mine = FALSE] : s \in saves}

(* The lookup's state, and the form with it, are rendered anew.              *)
Render(s, l, p) ==
    /\ sku' = s /\ loading' = l /\ problem' = p
    /\ IF Shown /\ (s = NoSku \/ l) THEN Unmount ELSE UNCHANGED formVars

-----------------------------------------------------------------------------
(* The operator scans or edits the search field.                             *)
Ask(q) ==
    /\ queries < MaxQueries
    /\ q # query
    /\ query' = q
    /\ queries' = queries + 1
    /\ UNCHANGED <<seen, lookupVars, formVars, fills, faults>>

(* Nothing is asked for any more; requestId stays.                           *)
Clear == Render(NoSku, FALSE, "none")

MutantSearch == Render(sku, FALSE, "none")

(* The SKU stays, behind the message that it is being looked up.             *)
Search == Render(sku, TRUE, "none")

(* useSku's effect: the cleanup of the last one, then its body.              *)
Effect ==
    /\ query # seen
    /\ seen' = query
    /\ \/ /\ query = Empty
          /\ Clear
          /\ timer' = FALSE
          /\ UNCHANGED requestId
       \/ /\ query # Empty
          /\ Search
          /\ timer' = TRUE
          /\ requestId' = requestId + 1
    /\ UNCHANGED <<query, flight, queries, fills, faults>>

MutantFire ==
    /\ timer
    /\ flight' = flight \cup {[id |-> requestId, barcode |-> seen]}
    /\ UNCHANGED <<query, seen, requestId, timer, sku, loading, problem, formVars, queries, fills, faults>>

(* The debounce is over: the lookup is sent.                                 *)
Fire ==
    /\ timer
    /\ timer' = FALSE
    /\ flight' = flight \cup {[id |-> requestId, barcode |-> seen]}
    /\ UNCHANGED <<query, seen, requestId, sku, loading, problem, formVars, queries, fills, faults>>

MutantStale(l) == FALSE

Stale(l) == l.id # requestId

(* A lookup is answered: ignored if stale, else a SKU, a 404 or a failure.   *)
Resolve(l) ==
    /\ l \in flight
    /\ flight' = flight \ {l}
    /\ \/ /\ Stale(l)
          /\ UNCHANGED <<sku, loading, problem, formVars, faults>>
       \/ /\ ~Stale(l)
          /\ \/ /\ SkuOf[l.barcode] # NoSku
                /\ Render(SkuOf[l.barcode], FALSE, problem)
                /\ UNCHANGED faults
             \/ /\ SkuOf[l.barcode] = NoSku
                /\ Render(NoSku, FALSE, "notFound")
                /\ UNCHANGED faults
             \/ Render(NoSku, FALSE, "error") /\ Fault
    /\ UNCHANGED <<query, seen, requestId, timer, queries, fills>>

-----------------------------------------------------------------------------
(* The operator measures the carton whose card is shown.                     *)
Fill ==
    /\ Shown
    /\ fills < MaxFills
    /\ fields' = sku
    /\ fills' = fills + 1
    /\ UNCHANGED <<query, seen, lookupVars, saving, saves, queries, faults>>

MutantSubmit ==
    /\ Shown /\ fields # NoSku
    /\ saving' = TRUE
    /\ saves' = saves \cup {[id |-> fills, sku |-> sku, carton |-> fields, mine |-> TRUE]}
    /\ UNCHANGED <<query, seen, lookupVars, fields, queries, fills, faults>>

(* Save, of fields that parse; the button is disabled while it goes on.      *)
Submit ==
    /\ Shown /\ fields # NoSku /\ ~saving
    /\ saving' = TRUE
    /\ saves' = saves \cup {[id |-> fills, sku |-> sku, carton |-> fields, mine |-> TRUE]}
    /\ UNCHANGED <<query, seen, lookupVars, fields, queries, fills, faults>>

MutantSaveOver(s) == saves' = saves \ {s} /\ UNCHANGED saving

(* The finally of handleSubmit, which reaches the form if it is still there. *)
SaveOver(s) ==
    /\ saves' = saves \ {s}
    /\ saving' = IF s.mine THEN FALSE ELSE saving

(* Saved, or queued while offline: the fields are reset, and handleSaved     *)
(* empties the search field of the page, whatever it holds by now.           *)
Saved(s) ==
    /\ SaveOver(s)
    /\ fields' = IF s.mine THEN NoSku ELSE fields
    /\ query' = Empty
    /\ UNCHANGED <<seen, lookupVars, queries, fills, faults>>

(* An error is shown and the fields stay.                                    *)
SaveFails(s) ==
    /\ SaveOver(s)
    /\ Fault
    /\ UNCHANGED <<query, seen, lookupVars, fields, queries, fills>>

-----------------------------------------------------------------------------
Init ==
    /\ query = Empty /\ seen = Empty
    /\ requestId = 0 /\ timer = FALSE /\ flight = {}
    /\ sku = NoSku /\ loading = FALSE /\ problem = "none"
    /\ fields = NoSku /\ saving = FALSE /\ saves = {}
    /\ queries = 0 /\ fills = 0 /\ faults = 0

Resolved == \E l \in flight : Resolve(l)
Settled  == \E s \in saves : Saved(s) \/ SaveFails(s)

Next ==
    \/ \E q \in Barcodes \cup {Empty} : Ask(q)
    \/ Effect \/ Fire \/ Resolved
    \/ Fill \/ Submit \/ Settled

Spec == Init /\ [][Next]_vars

(* React runs its effects, timers fire, and the browser settles every fetch. *)
(* Nothing makes the operator do anything.                                   *)
FairSpec ==
    /\ Spec
    /\ WF_vars(Effect) /\ WF_vars(Fire)
    /\ \A i \in 1..MaxQueries : WF_vars(\E l \in flight : l.id = i /\ Resolve(l))
    /\ \A i \in 0..MaxFills : WF_vars(\E s \in saves : s.id = i /\ (Saved(s) \/ SaveFails(s)))

-----------------------------------------------------------------------------
Queries == Barcodes \cup {Empty}

(* The page's, the hook's and the form's state have their types; a timer and *)
(* the lookups under way are of ids handed out, no two of one id.            *)
TypeOK ==
    /\ query \in Queries /\ seen \in Queries
    /\ requestId \in Nat /\ timer \in BOOLEAN /\ loading \in BOOLEAN
    /\ flight \subseteq [id : 1..requestId, barcode : Barcodes]
    /\ \A l, m \in flight : l.id = m.id => l = m
    /\ timer => seen \in Barcodes /\ \A l \in flight : l.id < requestId
    /\ sku \in Skus \cup {NoSku} /\ problem \in {"none", "notFound", "error"}
    /\ fields \in Skus \cup {NoSku} /\ saving \in BOOLEAN
    /\ saves \subseteq [id : 0..MaxFills, sku : Skus, carton : Skus, mine : BOOLEAN]
    /\ queries \in 0..MaxQueries /\ fills \in 0..MaxFills /\ faults \in 0..MaxFaults

(* "A stale response is discarded if the barcode changed before it           *)
(* resolved": once the effect has run, a card or a "not found" on the page   *)
(* is the backend's answer for the barcode in the search field, in whatever  *)
(* order the answers came.                                                   *)
ShownIsAsked ==
    query = seen /\ query # Empty /\ ~loading =>
        /\ sku # NoSku => sku = SkuOf[query]
        /\ problem = "notFound" => SkuOf[query] = NoSku

(* Measurements are saved for the SKU whose card was on the page when they   *)
(* were made: no form lives on from one card to the next.                    *)
SavedForItsCarton == \A s \in saves : s.sku = s.carton

(* A form has at most one save under way, however often it is submitted, and *)
(* a form that is saving knows it.                                           *)
OneSavePerForm ==
    /\ saving <=> \E s \in saves : s.mine
    /\ \A s, t \in saves : s.mine /\ t.mine => s = t

(* Nothing hangs: an operator who leaves the search field alone gets to see  *)
(* a card or a message, an empty field does not go on saying that it looks   *)
(* up, and the Save button comes back.                                       *)
Answered(q) == ~loading /\ (q # Empty => sku # NoSku \/ problem # "none")
NothingHangs ==
    /\ \A q \in Queries : query = q ~> (query # q \/ Answered(q))
    /\ saving ~> ~saving

(* "Empty/whitespace input clears the result."                               *)
EmptyShowsNothing == query = Empty /\ seen = Empty => sku = NoSku
=============================================================================
