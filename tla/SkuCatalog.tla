----------------------------- MODULE SkuCatalog -----------------------------
(* The local table of SKUs and the two handlers that fill it from            *)
(* CartonCloud: POST /api/admin/seed (seedSkus) and GET /api/skus/:barcode   *)
(* (getSkuByBarcode with ccClient.lookupByBarcode), running side by side     *)
(* while CartonCloud's own users edit the products.                          *)
EXTENDS Naturals, Sequences, FiniteSets

CONSTANTS Products,     \* ids of CartonCloud products
          NoId,         \* those whose id is missing in CartonCloud's answer
          Barcodes,
          NoBarcode,
          Listing,      \* the order in which the search lists the products
          Default,      \* [Products -> barcode of the default UoM, at first]
          Other,        \* [Products -> SUBSET Barcodes: of the other UoMs]
          WithDims,     \* products CartonCloud already has dims for
          Seeds,        \* seed requests
          Lookups,      \* barcode lookups
          PageSize,     \* SEED_PAGE_SIZE and lookupByBarcode's pageSize
          MaxFaults,    \* BOUND: failed calls to CartonCloud
          MaxEdits,     \* BOUND: edits made in CartonCloud
          MaxRequests   \* BOUND: seeds and lookups made

ASSUME ListingAssumption == Listing \in Seq(Products)
ASSUME ProductsAssumption ==
    /\ NoId \subseteq Products
    /\ NoBarcode \notin Barcodes
    /\ Default \in [Products -> Barcodes \cup {NoBarcode}]
    /\ Other \in [Products -> SUBSET Barcodes]
    /\ WithDims \subseteq Products
    /\ Products \cap {"idle", "none", "upstream", "error"} = {}
ASSUME BoundsAssumption ==
    /\ PageSize \in Nat \ {0}
    /\ {MaxFaults, MaxEdits, MaxRequests} \subseteq Nat

VARIABLES
    listing,   \* CartonCloud: active products of the customer, in order
    default,   \* CartonCloud: [Products -> its default UoM's barcode]
    sku,       \* the Sku table: [Products -> row or NoRow]
    seed,      \* [Seeds -> a run of seedSkus]
    lookup,    \* [Lookups -> a run of getSkuByBarcode]
    carried,   \* history: <<product, barcode>> pairs CartonCloud ever had
    faults, edits, requests

vars == <<listing, default, sku, seed, lookup, carried, faults, edits, requests>>

NoRow == [barcode |-> NoBarcode, ccDims |-> FALSE, stored |-> FALSE]
Row(b, p) == [barcode |-> b, ccDims |-> p \in WithDims, stored |-> TRUE]

UomBarcodes(p) == Other[p] \cup ({default[p]} \ {NoBarcode})

(* productBarcode: the default UoM's, else the first UoM's that has one.     *)
ProductBarcode(p) ==
    IF default[p] # NoBarcode \/ Other[p] = {}
      THEN default[p]
      ELSE CHOOSE b \in Other[p] : TRUE

(* One page of the search: bare array, empty when past the end.              *)
PageOf(list, page) ==
    SubSeq(list, (page - 1) * PageSize + 1,
           IF page * PageSize < Len(list) THEN page * PageSize ELSE Len(list))

Page(page) == PageOf(listing, page)

UpstreamFault == faults < MaxFaults /\ faults' = faults + 1

(* Sku.barcode is unique: the statement fails with P2002.                    *)
Taken(p, b) == b # NoBarcode /\ \E q \in Products \ {p} : sku[q].barcode = b

-----------------------------------------------------------------------------
(* seedSkus.                                                                 *)

NoSeed == [pc |-> "idle", page |-> 1, todo |-> <<>>, short |-> FALSE,
           fetched |-> 0, upserted |-> 0, ccDimsPresent |-> 0, skipped |-> 0]

SeedStart(r) ==
    /\ seed[r].pc \in {"idle", "done", "failed", "refused"}
    /\ requests < MaxRequests
    /\ requests' = requests + 1
    /\ seed' = [seed EXCEPT ![r] = [NoSeed EXCEPT !.pc = "page"]]
    /\ UNCHANGED <<listing, default, sku, lookup, carried, faults, edits>>

(* A page is read; an empty one ends the run.                                *)
SeedPage(r) ==
    LET products == Page(seed[r].page) IN
    /\ seed[r].pc = "page"
    /\ seed' = [seed EXCEPT
         ![r].pc = IF products = <<>> THEN "done" ELSE "upsert",
         ![r].fetched = @ + Len(products),
         ![r].todo = [i \in DOMAIN products |-> [id |-> products[i], barcode |-> ProductBarcode(products[i])]],
         ![r].short = Len(products) < PageSize]
    /\ UNCHANGED <<listing, default, sku, lookup, carried, faults, edits, requests>>

(* Rate limit, timeout or error: 429, 504 or 502, and the run is over.       *)
SeedPageFails(r) ==
    /\ seed[r].pc = "page"
    /\ UpstreamFault
    /\ seed' = [seed EXCEPT ![r].pc = "refused"]
    /\ UNCHANGED <<listing, default, sku, lookup, carried, edits, requests>>

Upcoming(r) == Head(seed[r].todo)

MutantSeedSkip(r) ==
    /\ Upcoming(r).id \in NoId
    /\ seed' = [seed EXCEPT ![r].todo = Tail(@), ![r].upserted = @ + 1, ![r].skipped = @ + 1]
    /\ UNCHANGED sku

MutantSeedSkipStuck(r) == Upcoming(r).id \in NoId /\ UNCHANGED <<seed, sku>>

(* A product without an id is skipped rather than crash the whole seed.      *)
SeedSkip(r) ==
    /\ Upcoming(r).id \in NoId
    /\ seed' = [seed EXCEPT ![r].todo = Tail(@), ![r].skipped = @ + 1]
    /\ UNCHANGED sku

(* INSERT ... ON CONFLICT (id) DO UPDATE.                                    *)
SeedStore(r) ==
    LET p == Upcoming(r).id
        b == Upcoming(r).barcode
    IN
    /\ p \notin NoId /\ ~Taken(p, b)
    /\ sku' = [sku EXCEPT ![p] = Row(b, p)]
    /\ seed' = [seed EXCEPT ![r].todo = Tail(@),
                            ![r].upserted = @ + 1,
                            ![r].ccDimsPresent = @ + IF p \in WithDims THEN 1 ELSE 0]

(* A barcode another row holds: the P2002 is caught nowhere, a 500.          *)
SeedConflict(r) ==
    /\ Upcoming(r).id \notin NoId /\ Taken(Upcoming(r).id, Upcoming(r).barcode)
    /\ seed' = [seed EXCEPT ![r].pc = "failed"]
    /\ UNCHANGED sku

SeedUpsert(r) ==
    /\ seed[r].pc = "upsert" /\ seed[r].todo # <<>>
    /\ SeedSkip(r) \/ SeedStore(r) \/ SeedConflict(r)
    /\ UNCHANGED <<listing, default, lookup, carried, faults, edits, requests>>

AfterPage(r) ==
    /\ seed' = IF seed[r].short
                 THEN [seed EXCEPT ![r].pc = "done"]
                 ELSE [seed EXCEPT ![r].pc = "page", ![r].page = @ + 1]
    /\ UNCHANGED <<listing, default, sku, lookup, carried, faults, edits, requests>>

MutantSeedNext(r) == seed[r].pc = "upsert" /\ AfterPage(r)

MutantSeedNextStops(r) ==
    /\ seed[r].pc = "upsert" /\ seed[r].todo = <<>>
    /\ seed' = [seed EXCEPT ![r].pc = "done"]
    /\ UNCHANGED <<listing, default, sku, lookup, carried, faults, edits, requests>>

(* The page is stored: a short one was the last.                             *)
SeedNext(r) == seed[r].pc = "upsert" /\ seed[r].todo = <<>> /\ AfterPage(r)

-----------------------------------------------------------------------------
(* getSkuByBarcode.  "answer" is the SKU it answered, or "none" (a 404),     *)
(* "upstream" (a 502, 503 or 504) or "error" (a 500).                        *)

NoLookup == [pc |-> "idle", barcode |-> NoBarcode, page |-> 1, hit |-> "none",
             exists |-> FALSE, answer |-> "idle"]

Answer(l, a) == lookup' = [lookup EXCEPT ![l].pc = "idle", ![l].answer = a]

LookupStart(l, b) ==
    /\ lookup[l].pc = "idle"
    /\ requests < MaxRequests
    /\ requests' = requests + 1
    /\ lookup' = [lookup EXCEPT ![l] = [NoLookup EXCEPT !.barcode = b, !.pc = "db"]]
    /\ UNCHANGED <<listing, default, sku, seed, carried, faults, edits>>

(* The database first: whatever row holds the barcode is the answer.         *)
LookupDb(l) ==
    /\ lookup[l].pc = "db"
    /\ \/ \E p \in Products : sku[p].barcode = lookup[l].barcode /\ Answer(l, p)
       \/ /\ \A p \in Products : sku[p].barcode # lookup[l].barcode
          /\ lookup' = [lookup EXCEPT ![l].pc = "page"]
    /\ UNCHANGED <<listing, default, sku, seed, carried, faults, edits, requests>>

MutantCarriers(l, products) == {i \in DOMAIN products : lookup[l].barcode = ProductBarcode(products[i])}

MutantCarriersAny(l, products) == DOMAIN products

Carriers(l, products) == {i \in DOMAIN products : lookup[l].barcode \in UomBarcodes(products[i])}

NotHere(l, products) ==
    /\ Carriers(l, products) = {}
    /\ \/ Len(products) < PageSize /\ Answer(l, "none")
       \/ Len(products) = PageSize /\ lookup' = [lookup EXCEPT ![l].page = @ + 1]

(* lookupByBarcode: page after page, the first product carrying the barcode  *)
(* on any UoM; an empty or short page without one ends the search.           *)
LookupPage(l) ==
    LET products == Page(lookup[l].page)
        hits == Carriers(l, products)
        first == products[CHOOSE i \in hits : \A j \in hits : i <= j]
    IN
    /\ lookup[l].pc = "page"
    /\ \/ /\ hits # {} /\ first \notin NoId
          /\ lookup' = [lookup EXCEPT ![l].pc = "find", ![l].hit = first]
       \/ hits # {} /\ first \in NoId /\ Answer(l, "none")
       \/ NotHere(l, products)
    /\ UNCHANGED <<listing, default, sku, seed, carried, faults, edits, requests>>

LookupPageFails(l) ==
    /\ lookup[l].pc = "page"
    /\ UpstreamFault
    /\ Answer(l, "upstream")
    /\ UNCHANGED <<listing, default, sku, seed, carried, edits, requests>>

(* The upsert selects the relation to dims, so it is not one statement:      *)
(* Prisma looks whether the row exists, then inserts or updates.             *)
LookupFind(l) ==
    /\ lookup[l].pc = "find"
    /\ lookup' = [lookup EXCEPT ![l].pc = "write", ![l].exists = sku[lookup[l].hit].stored]
    /\ UNCHANGED <<listing, default, sku, seed, carried, faults, edits, requests>>

(* The scanned barcode is stored.  An insert of a row that has come to exist *)
(* and a barcode another row has come to hold fail with P2002, a 500.        *)
LookupWrite(l) ==
    LET p == lookup[l].hit
        b == lookup[l].barcode
        fails == Taken(p, b) \/ (~lookup[l].exists /\ sku[p].stored)
    IN
    /\ lookup[l].pc = "write"
    /\ \/ fails /\ Answer(l, "error") /\ UNCHANGED sku
       \/ ~fails /\ Answer(l, p) /\ sku' = [sku EXCEPT ![p] = Row(b, p)]
    /\ UNCHANGED <<listing, default, seed, carried, faults, edits, requests>>

-----------------------------------------------------------------------------
(* CartonCloud's own users: a default UoM's barcode is changed; a product    *)
(* leaves the customer's active products.                                    *)
Rebarcode(p, b) ==
    /\ edits < MaxEdits
    /\ default[p] # b
    /\ default' = [default EXCEPT ![p] = b]
    /\ carried' = carried \cup {<<p, b>>}
    /\ edits' = edits + 1
    /\ UNCHANGED <<listing, sku, seed, lookup, faults, requests>>

Deactivate(i) ==
    /\ edits < MaxEdits
    /\ listing' = SubSeq(listing, 1, i - 1) \o SubSeq(listing, i + 1, Len(listing))
    /\ edits' = edits + 1
    /\ UNCHANGED <<default, sku, seed, lookup, carried, faults, requests>>

-----------------------------------------------------------------------------
Init ==
    /\ listing = Listing
    /\ default = Default
    /\ sku = [p \in Products |-> NoRow]
    /\ seed = [r \in Seeds |-> NoSeed]
    /\ lookup = [l \in Lookups |-> NoLookup]
    /\ carried = {pb \in Products \X Barcodes : pb[2] \in UomBarcodes(pb[1])}
    /\ faults = 0 /\ edits = 0 /\ requests = 0

SeedStep(r) == SeedPage(r) \/ SeedPageFails(r) \/ SeedUpsert(r) \/ SeedNext(r)
LookupStep(l) ==
    \/ LookupDb(l) \/ LookupPage(l) \/ LookupPageFails(l)
    \/ LookupFind(l) \/ LookupWrite(l)

Next ==
    \/ \E r \in Seeds : SeedStart(r) \/ SeedStep(r)
    \/ \E l \in Lookups : LookupStep(l) \/ \E b \in Barcodes : LookupStart(l, b)
    \/ \E p \in Products, b \in Barcodes : Rebarcode(p, b)
    \/ \E i \in DOMAIN listing : Deactivate(i)

Spec == Init /\ [][Next]_vars

(* A request under way is carried on with.                                   *)
FairSpec ==
    /\ Spec
    /\ \A r \in Seeds : WF_vars(SeedStep(r))
    /\ \A l \in Lookups : WF_vars(LookupStep(l))

-----------------------------------------------------------------------------
SeedRuns == [pc : {"idle", "page", "upsert", "done", "failed", "refused"}, page : Nat \ {0},
             todo : Seq([id : Products, barcode : Barcodes \cup {NoBarcode}]), short : BOOLEAN,
             fetched : Nat, upserted : Nat, ccDimsPresent : Nat, skipped : Nat]

LookupRuns == [pc : {"idle", "db", "page", "find", "write"}, barcode : Barcodes \cup {NoBarcode},
               page : Nat \ {0}, hit : Products \cup {"none"}, exists : BOOLEAN,
               answer : Products \cup {"idle", "none", "upstream", "error"}]

(* CartonCloud's products, the table and the handlers have their types; only *)
(* stored rows have a barcode, and a page is stored before the next is read. *)
TypeOK ==
    /\ listing \in Seq(Products)
    /\ default \in [Products -> Barcodes \cup {NoBarcode}]
    /\ sku \in [Products -> [barcode : Barcodes \cup {NoBarcode}, ccDims : BOOLEAN, stored : BOOLEAN]]
    /\ seed \in [Seeds -> SeedRuns]
    /\ lookup \in [Lookups -> LookupRuns]
    /\ carried \subseteq Products \X Barcodes
    /\ faults \in 0..MaxFaults /\ edits \in 0..MaxEdits /\ requests \in 0..MaxRequests
    /\ \A p \in Products : sku[p].barcode # NoBarcode => sku[p].stored
    /\ \A r \in Seeds : seed[r].pc \in {"page", "done"} => seed[r].todo = <<>>

(* A lookup answers a SKU only if CartonCloud's product carried the scanned  *)
(* barcode at some time, on whichever UoM and whatever the seed has stored.  *)
AnswersCarryTheBarcode ==
    \A l \in Lookups : lookup[l].answer \in Products =>
        <<lookup[l].answer, lookup[l].barcode>> \in carried

(* The seed's report adds up: what it fetched it stored, or skipped for want *)
(* of an id.                                                                 *)
ReportAddsUp ==
    \A r \in Seeds : seed[r].pc = "done" =>
        /\ seed[r].fetched = seed[r].upserted + seed[r].skipped
        /\ seed[r].ccDimsPresent <= seed[r].upserted

(* While CartonCloud does not change, a finished seed has stored every       *)
(* product that has an id, once, whatever other seeds and lookups did.       *)
SeedStoresAll ==
    edits = 0 => \A r \in Seeds : seed[r].pc = "done" =>
        /\ \A i \in DOMAIN listing : listing[i] \notin NoId => sku[listing[i]].stored
        /\ seed[r].upserted = Cardinality({i \in DOMAIN listing : listing[i] \notin NoId})

(* "a 404 when neither the DB nor CC knows the barcode": while CartonCloud    *)
(* does not change, a lookup answers that there is no such SKU only if no    *)
(* listed product carries the barcode.  (A product deactivated between two   *)
(* pages moves the rest of the list, and one is then skipped.  Nor may a     *)
(* product without an id share a barcode with one that has an id: the lookup *)
(* stops at the first it meets.  The instance has no such pair, the theorem  *)
(* about this excludes it by name.)                                          *)
NotFoundMeansUnknown ==
    [][\A l \in Lookups : lookup[l].pc # "idle" /\ lookup'[l].pc = "idle" /\ lookup'[l].answer = "none" /\ edits = 0 =>
          \A i \in DOMAIN listing :
              listing[i] \notin NoId => lookup[l].barcode \notin UomBarcodes(listing[i])]_vars

(* "Idempotent; safe to re-run": a seed fails for CartonCloud's errors only, *)
(* never over what an earlier seed or lookup left in the table.              *)
SeedFailsUpstreamOnly == \A r \in Seeds : seed[r].pc # "failed"

(* Every seed and every lookup ends.                                         *)
RequestsEnd ==
    /\ \A r \in Seeds : seed[r].pc \in {"page", "upsert"} ~> seed[r].pc \in {"done", "failed", "refused"}
    /\ \A l \in Lookups : lookup[l].pc # "idle" ~> lookup[l].pc = "idle"
=============================================================================
