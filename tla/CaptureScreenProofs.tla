------------------------- MODULE CaptureScreenProofs -------------------------
(* Proofs about CaptureScreen, for any catalogue and any number of scans.    *)
EXTENDS CaptureScreen, TLAPS

Bounds ==
    /\ queries \in 0..MaxQueries /\ fills \in 0..MaxFills /\ faults \in 0..MaxFaults

Page == query \in Queries /\ seen \in Queries

(* Lookups have ids handed out, each its own; while the debounce runs, none  *)
(* has the current id.                                                       *)
Lookups ==
    /\ requestId \in Nat /\ timer \in BOOLEAN
    /\ flight \subseteq [id : 1..requestId, barcode : Barcodes]
    /\ \A l, m \in flight : l.id = m.id => l = m
    /\ timer => /\ seen \in Barcodes /\ requestId > 0
                /\ \A l \in flight : l.id < requestId

(* The one lookup that will not be ignored is for the query last seen, and   *)
(* no card is on the page before it is answered; what is on the page after   *)
(* it is its answer.  An emptied field is the exception: the lookup before   *)
(* it is not ignored.                                                        *)
Result ==
    /\ loading \in BOOLEAN
    /\ sku \in Skus \cup {NoSku} /\ problem \in {"none", "notFound", "error"}
    /\ timer => loading
    /\ loading => problem = "none"
    /\ \A l \in flight : l.id = requestId =>
           /\ seen # Empty => loading /\ l.barcode = seen
           /\ seen = Empty => sku = NoSku
    /\ seen # Empty /\ ~loading =>
           /\ sku # NoSku => sku = SkuOf[seen]
           /\ problem = "notFound" => SkuOf[seen] = NoSku

(* What the form holds was measured on the card it is shown with.            *)
Form ==
    /\ fields \in Skus \cup {NoSku} /\ saving \in BOOLEAN
    /\ saves \subseteq [id : 0..MaxFills, sku : Skus, carton : Skus, mine : BOOLEAN]
    /\ fields # NoSku => Shown /\ fields = sku

IInv == Bounds /\ Page /\ Lookups /\ Result /\ Form /\ SavedForItsCarton /\ OneSavePerForm

LEMMA Constants ==
    /\ Empty \notin Barcodes /\ NoSku \notin Skus
    /\ \A b \in Barcodes : SkuOf[b] \in Skus \cup {NoSku}
    /\ MaxQueries \in Nat /\ MaxFills \in Nat /\ MaxFaults \in Nat
  BY SkuOfAssumption, BoundsAssumption

LEMMA InitInv == Init => IInv
<1> SUFFICES ASSUME Init PROVE IInv
  OBVIOUS
<1>1. Bounds /\ Page
  BY Constants DEF Init, Bounds, Page, Queries
<1>2. Lookups /\ Result
  BY DEF Init, Lookups, Result
<1>3. Form /\ SavedForItsCarton /\ OneSavePerForm
  BY DEF Init, Form, SavedForItsCarton, OneSavePerForm
<1> QED  BY <1>1, <1>2, <1>3 DEF IInv

-----------------------------------------------------------------------------
(* The forms.                                                                *)

(* A form that goes away takes what it holds with it; the saves stay what    *)
(* they are, of no form on the page.                                         *)
LEMMA UnmountForms ==
    ASSUME Form, SavedForItsCarton, Unmount
    PROVE  /\ fields' = NoSku /\ saving' = FALSE
           /\ saves' \subseteq [id : 0..MaxFills, sku : Skus, carton : Skus, mine : BOOLEAN]
           /\ SavedForItsCarton' /\ OneSavePerForm'
<1>1. \A s \in saves : LET r == [s EXCEPT !.mine = FALSE] IN
          /\ r \in [id : 0..MaxFills, sku : Skus, carton : Skus, mine : BOOLEAN]
          /\ r.sku = s.sku /\ r.carton = s.carton /\ r.mine = FALSE
  BY DEF Form
<1>2. \A r \in saves' : /\ r \in [id : 0..MaxFills, sku : Skus, carton : Skus, mine : BOOLEAN]
                        /\ r.sku = r.carton /\ r.mine = FALSE
  BY <1>1 DEF Unmount, SavedForItsCarton
<1>3. fields' = NoSku /\ saving' = FALSE
  BY DEF Unmount
<1>4. saves' \subseteq [id : 0..MaxFills, sku : Skus, carton : Skus, mine : BOOLEAN]
  BY <1>2
<1>5. SavedForItsCarton'
  BY <1>2 DEF SavedForItsCarton
<1>6. OneSavePerForm'
  BY <1>2, <1>3 DEF OneSavePerForm
<1> QED  BY <1>3, <1>4, <1>5, <1>6

(* A card is rendered anew only where none was shown, or is taken away.      *)
LEMMA RenderForms ==
    ASSUME Form, SavedForItsCarton, OneSavePerForm,
           NEW s, NEW l \in BOOLEAN, NEW p, Render(s, l, p),
           ~Shown \/ s = NoSku \/ l
    PROVE  Form' /\ SavedForItsCarton' /\ OneSavePerForm'
<1>1. CASE Shown
  BY <1>1, UnmountForms DEF Render, Form
<1>2. CASE ~Shown
  <2>1. UNCHANGED formVars /\ fields = NoSku
    BY <1>2 DEF Render, Form
  <2> QED  BY <2>1 DEF formVars, Form, SavedForItsCarton, OneSavePerForm
<1> QED  BY <1>1, <1>2

LEMMA FormsUntouched ==
    ASSUME Form, SavedForItsCarton, OneSavePerForm, UNCHANGED <<formVars, sku, loading>>
    PROVE  Form' /\ SavedForItsCarton' /\ OneSavePerForm'
  BY DEF formVars, Form, Shown, SavedForItsCarton, OneSavePerForm

-----------------------------------------------------------------------------
(* One lemma per action.                                                     *)

LEMMA AskInv ==
    ASSUME IInv, NEW q \in Queries, Ask(q)
    PROVE  IInv'
<1>1. Bounds' /\ Page'
  BY Constants DEF IInv, Bounds, Page, Ask
<1>2. Lookups' /\ Result'
  BY DEF IInv, Lookups, Result, Ask, lookupVars
<1>3. Form' /\ SavedForItsCarton' /\ OneSavePerForm'
  BY FormsUntouched DEF IInv, Ask, lookupVars
<1> QED  BY <1>1, <1>2, <1>3 DEF IInv

LEMMA EffectInv == ASSUME IInv, Effect PROVE IInv'
<1>1. Bounds' /\ Page'
  BY DEF IInv, Bounds, Page, Effect
<1>2. CASE query = Empty
  <2>1. Clear /\ seen' = Empty /\ timer' = FALSE /\ UNCHANGED <<requestId, flight>>
    BY <1>2 DEF Effect
  <2>2. sku' = NoSku /\ loading' = FALSE /\ problem' = "none"
    BY <2>1 DEF Clear, Render
  <2>3. Lookups' /\ Result'
    BY <2>1, <2>2 DEF IInv, Lookups, Result
  <2>4. Form' /\ SavedForItsCarton' /\ OneSavePerForm'
    BY <2>1, RenderForms DEF IInv, Clear
  <2> QED  BY <1>1, <2>3, <2>4 DEF IInv
<1>3. CASE query # Empty
  <2>1. /\ Search /\ seen' = query /\ timer' = TRUE
        /\ requestId' = requestId + 1 /\ flight' = flight
    BY <1>3 DEF Effect
  <2>2. sku' = sku /\ loading' = TRUE /\ problem' = "none"
    BY <2>1 DEF Search, Render
  <2>3. query \in Barcodes
    BY <1>3 DEF IInv, Page, Queries
  <2>4. Lookups' /\ \A l \in flight : l.id # requestId'
    BY <2>1, <2>3 DEF IInv, Lookups
  <2>5. Result'
    BY <1>3, <2>1, <2>2, <2>4 DEF IInv, Result
  <2>6. Form' /\ SavedForItsCarton' /\ OneSavePerForm'
    BY <2>1, RenderForms DEF IInv, Search
  <2> QED  BY <1>1, <2>4, <2>5, <2>6 DEF IInv
<1> QED  BY <1>2, <1>3

LEMMA FireInv == ASSUME IInv, Fire PROVE IInv'
<1> DEFINE new == [id |-> requestId, barcode |-> seen]
<1>1. Bounds' /\ Page'
  BY DEF IInv, Bounds, Page, Fire
<1>2. seen \in Barcodes /\ seen # Empty /\ \A l \in flight : l.id < requestId
  BY Constants DEF IInv, Lookups, Fire
<1>3. requestId \in 1..requestId
  BY <1>2 DEF IInv, Lookups, Result, Fire
<1>4. new \in [id : 1..requestId, barcode : Barcodes]
  BY <1>2, <1>3
<1>5. Lookups'
  <2>1. flight' = flight \cup {new} /\ requestId' = requestId /\ timer' = FALSE
    BY DEF Fire
  <2>2. flight' \subseteq [id : 1..requestId, barcode : Barcodes]
    BY <1>4, <2>1 DEF IInv, Lookups
  <2>3. new.id = requestId /\ \A l \in flight : l.id # requestId
    BY <1>2 DEF IInv, Lookups
  <2>4. \A l, m \in flight' : l.id = m.id => l = m
    BY <2>1, <2>3 DEF IInv, Lookups
  <2> QED  BY <2>1, <2>2, <2>4 DEF IInv, Lookups
<1>6. Result'
  BY <1>2 DEF IInv, Lookups, Result, Fire
<1>7. Form' /\ SavedForItsCarton' /\ OneSavePerForm'
  BY FormsUntouched DEF IInv, Fire
<1> QED  BY <1>1, <1>5, <1>6, <1>7 DEF IInv

LEMMA ResolveInv ==
    ASSUME IInv, NEW l \in flight, Resolve(l)
    PROVE  IInv'
<1>1. Page'
  BY DEF IInv, Page, Resolve
<1>2. Bounds'
  <2>1. faults' = faults \/ (faults < MaxFaults /\ faults' = faults + 1)
    BY DEF Resolve, Fault
  <2>2. UNCHANGED <<queries, fills>>
    BY DEF Resolve
  <2> QED  BY <2>1, <2>2, Constants DEF IInv, Bounds
<1>3. Lookups' /\ l \in [id : 1..requestId, barcode : Barcodes]
  BY DEF IInv, Lookups, Resolve
<1>4. CASE Stale(l)
  <2>1. UNCHANGED <<sku, loading, problem, formVars>>
    BY <1>4 DEF Resolve
  <2>2. Result'
    BY <2>1 DEF IInv, Result, Resolve
  <2>3. Form' /\ SavedForItsCarton' /\ OneSavePerForm'
    BY <2>1, FormsUntouched DEF IInv
  <2> QED  BY <1>1, <1>2, <1>3, <2>2, <2>3 DEF IInv
<1>5. CASE ~Stale(l)
  <2>1. l.id = requestId
    BY <1>5 DEF Stale
  <2>2. ~Shown /\ ~timer
    BY <1>3, <2>1 DEF IInv, Result, Lookups, Shown
  <2>3. \A m \in flight' : m.id # requestId'
    BY <1>3, <2>1 DEF IInv, Lookups, Resolve
  <2>4. \/ SkuOf[l.barcode] # NoSku /\ Render(SkuOf[l.barcode], FALSE, problem)
        \/ SkuOf[l.barcode] = NoSku /\ Render(NoSku, FALSE, "notFound")
        \/ Render(NoSku, FALSE, "error")
    BY <1>5 DEF Resolve
  <2>5. seen # Empty => l.barcode = seen /\ problem = "none"
    BY <2>1 DEF IInv, Result
  <2>6. Result'
    BY <1>3, <2>2, <2>3, <2>4, <2>5, Constants DEF IInv, Result, Resolve, Render
  <2>7. Form' /\ SavedForItsCarton' /\ OneSavePerForm'
    BY <2>2, <2>4, RenderForms DEF IInv
  <2> QED  BY <1>1, <1>2, <1>3, <2>6, <2>7 DEF IInv
<1> QED  BY <1>4, <1>5

LEMMA FillInv == ASSUME IInv, Fill PROVE IInv'
<1>1. Bounds' /\ Page'
  BY Constants DEF IInv, Bounds, Page, Fill
<1>2. Lookups' /\ Result'
  BY DEF IInv, Lookups, Result, Fill, lookupVars
<1>3. Form' /\ SavedForItsCarton' /\ OneSavePerForm'
  BY DEF IInv, Result, Form, SavedForItsCarton, OneSavePerForm, Fill, Shown, lookupVars
<1> QED  BY <1>1, <1>2, <1>3 DEF IInv

LEMMA SubmitInv == ASSUME IInv, Submit PROVE IInv'
<1> DEFINE new == [id |-> fills, sku |-> sku, carton |-> fields, mine |-> TRUE]
<1>1. Bounds' /\ Page'
  BY DEF IInv, Bounds, Page, Submit
<1>2. Lookups' /\ Result'
  BY DEF IInv, Lookups, Result, Submit, lookupVars
<1>3. sku \in Skus /\ fields = sku /\ saves' = saves \cup {new} /\ saving' = TRUE
  BY DEF IInv, Result, Form, Submit
<1>4. new \in [id : 0..MaxFills, sku : Skus, carton : Skus, mine : BOOLEAN]
  BY <1>3 DEF IInv, Bounds
<1>5. Form'
  BY <1>3, <1>4 DEF IInv, Form, Submit, Shown, lookupVars
<1>6. SavedForItsCarton'
  BY <1>3 DEF IInv, SavedForItsCarton
<1>7. OneSavePerForm'
  <2>1. \A s \in saves : ~s.mine
    BY DEF IInv, OneSavePerForm, Submit
  <2>2. new.mine /\ \A s \in saves' : s.mine => s = new
    BY <1>3, <2>1
  <2>3. new \in saves'
    BY <1>3
  <2> QED  BY <1>3, <2>2, <2>3 DEF OneSavePerForm
<1> QED  BY <1>1, <1>2, <1>5, <1>6, <1>7 DEF IInv

LEMMA SaveOverInv ==
    ASSUME Form, SavedForItsCarton, OneSavePerForm, NEW s \in saves, SaveOver(s)
    PROVE  /\ saving' \in BOOLEAN /\ saves' \subseteq saves
           /\ SavedForItsCarton' /\ OneSavePerForm'
<1>1. saving' \in BOOLEAN /\ saves' = saves \ {s}
  BY DEF Form, SaveOver
<1>2. SavedForItsCarton'
  BY <1>1 DEF SavedForItsCarton
<1>3. OneSavePerForm'
  BY <1>1 DEF OneSavePerForm, SaveOver
<1> QED  BY <1>1, <1>2, <1>3

LEMMA SavedInv ==
    ASSUME IInv, NEW s \in saves, Saved(s)
    PROVE  IInv'
<1>1. Bounds' /\ Page'
  BY DEF IInv, Bounds, Page, Saved, Queries
<1>2. Lookups' /\ Result'
  BY DEF IInv, Lookups, Result, Saved, lookupVars
<1>3. saving' \in BOOLEAN /\ saves' \subseteq saves /\ SavedForItsCarton' /\ OneSavePerForm'
  BY SaveOverInv DEF IInv, Saved
<1>4. Form'
  BY <1>3 DEF IInv, Form, Saved, Shown, lookupVars
<1> QED  BY <1>1, <1>2, <1>3, <1>4 DEF IInv

LEMMA SaveFailsInv ==
    ASSUME IInv, NEW s \in saves, SaveFails(s)
    PROVE  IInv'
<1>1. Bounds' /\ Page'
  BY Constants DEF IInv, Bounds, Page, SaveFails, Fault
<1>2. Lookups' /\ Result'
  BY DEF IInv, Lookups, Result, SaveFails, lookupVars
<1>3. saving' \in BOOLEAN /\ saves' \subseteq saves /\ SavedForItsCarton' /\ OneSavePerForm'
  BY SaveOverInv DEF IInv, SaveFails
<1>4. Form'
  BY <1>3 DEF IInv, Form, SaveFails, Shown, lookupVars
<1> QED  BY <1>1, <1>2, <1>3, <1>4 DEF IInv

LEMMA StepInv == IInv /\ [Next]_vars => IInv'
<1> SUFFICES ASSUME IInv, [Next]_vars PROVE IInv'
  OBVIOUS
<1>1. ASSUME NEW q \in Barcodes \cup {Empty}, Ask(q) PROVE IInv'
  BY <1>1, AskInv DEF Queries
<1>2. CASE Effect
  BY <1>2, EffectInv
<1>3. CASE Fire
  BY <1>3, FireInv
<1>4. CASE Resolved
  BY <1>4, ResolveInv DEF Resolved
<1>5. CASE Fill
  BY <1>5, FillInv
<1>6. CASE Submit
  BY <1>6, SubmitInv
<1>7. CASE Settled
  BY <1>7, SavedInv, SaveFailsInv DEF Settled
<1>8. CASE UNCHANGED vars
  BY <1>8 DEF vars, lookupVars, formVars, IInv, Bounds, Page, Lookups, Result, Form,
        Shown, SavedForItsCarton, OneSavePerForm
<1> QED  BY <1>1, <1>2, <1>3, <1>4, <1>5, <1>6, <1>7, <1>8 DEF Next

(* The page, the lookups in flight, the card and the form as described by    *)
(* the parts above, in every reachable state.                                *)
THEOREM Invariance == Spec => []IInv
  BY InitInv, StepInv, PTL DEF Spec

(* The page's, the hook's and the form's state keep their types, and no two  *)
(* lookups under way share a request id.                                     *)
THEOREM TypeCorrect == Spec => []TypeOK
<1>1. IInv => TypeOK
  BY DEF IInv, Bounds, Page, Lookups, Result, Form, TypeOK
<1> QED  BY <1>1, Invariance, PTL

(* useSku's requestId guard: whatever order the answers come in, a card or a *)
(* "not found" is the answer for the barcode in the search field.            *)
THEOREM ShowsWhatIsAsked == Spec => []ShownIsAsked
<1>1. IInv => ShownIsAsked
  BY DEF IInv, Result, ShownIsAsked
<1> QED  BY <1>1, Invariance, PTL

(* No measurement is posted under the id of another card than it was taken   *)
(* on: DimForm is unmounted whenever the card behind it changes.             *)
THEOREM SavesTheShownCarton == Spec => []SavedForItsCarton
<1>1. IInv => SavedForItsCarton
  BY DEF IInv
<1> QED  BY <1>1, Invariance, PTL

(* DimForm's saving flag: one save per form at a time, and the flag stays    *)
(* true as long as it is under way.                                          *)
THEOREM OneSave == Spec => []OneSavePerForm
<1>1. IInv => OneSavePerForm
  BY DEF IInv
<1> QED  BY <1>1, Invariance, PTL
=============================================================================
