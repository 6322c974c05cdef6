-------------------------- MODULE SkuCatalogProofs --------------------------
(* Proofs about SkuCatalog, for any catalogue, page size and number of       *)
(* requests, faults and edits.                                               *)
EXTENDS SkuCatalog, NatLemmas, SequenceTheorems

(* The places of the list, up to n, that hold a product with an id.          *)
Wanted(n) == {i \in 1..n : listing[i] \notin NoId}

(* How far a seed has come, while CartonCloud does not change: it has read a *)
(* prefix of the list, and stored all of it but what is still to do.         *)
Progress(m) ==
    m.pc \in {"page", "upsert", "done"} =>
        /\ m.fetched <= Len(listing)
        /\ m.pc = "page" => m.fetched = (m.page - 1) * PageSize
        /\ m.pc = "upsert" => m.fetched = IF m.short THEN Len(listing) ELSE m.page * PageSize
        /\ m.pc = "done" => m.fetched = Len(listing)
        /\ \A i \in 1..Len(m.todo) : m.todo[i].id = listing[m.fetched - Len(m.todo) + i]
        /\ m.upserted = Cardinality(Wanted(m.fetched - Len(m.todo)))
        /\ \A i \in Wanted(m.fetched - Len(m.todo)) : sku[listing[i]].stored

SeedOK(m) ==
    /\ m.fetched = m.upserted + m.skipped + Len(m.todo)
    /\ m.ccDimsPresent <= m.upserted
    /\ \A i \in 1..Len(m.todo) :
         m.todo[i].barcode # NoBarcode => <<m.todo[i].id, m.todo[i].barcode>> \in carried
    /\ edits = 0 => Progress(m)

(* A lookup has a barcode to look for, has not found it on the pages before  *)
(* the one it is at, and has it from CartonCloud or the table when it has.   *)
LookupOK(k) ==
    /\ k.pc # "idle" => k.barcode \in Barcodes /\ k.answer = "idle"
    /\ k.pc \in {"find", "write"} =>
         k.hit \in Products \ NoId /\ <<k.hit, k.barcode>> \in carried
    /\ k.answer \in Products => <<k.answer, k.barcode>> \in carried
    /\ edits = 0 /\ k.pc \in {"db", "page"} =>
         \A i \in 1..Len(listing) :
             i <= (k.page - 1) * PageSize => k.barcode \notin UomBarcodes(listing[i])

(* Barcodes are CartonCloud's, wherever they are.                            *)
Barcoded ==
    /\ \A p \in Products : \A b \in UomBarcodes(p) : <<p, b>> \in carried
    /\ \A p \in Products : sku[p].barcode # NoBarcode => <<p, sku[p].barcode>> \in carried

Unedited == edits = 0 => listing = Listing /\ default = Default

IInv ==
    /\ TypeOK
    /\ Barcoded
    /\ Unedited
    /\ \A r \in Seeds : SeedOK(seed[r])
    /\ \A l \in Lookups : LookupOK(lookup[l])

-----------------------------------------------------------------------------
(* Pages, barcodes and places.                                               *)

(* Page n starts after k products and is short only if it is the last.       *)
LEMMA PageFacts ==
    ASSUME listing \in Seq(Products), NEW n \in Nat \ {0},
           NEW k, k = (n - 1) * PageSize
    PROVE  /\ k \in Nat /\ n * PageSize = k + PageSize
           /\ Page(n) \in Seq(Products)
           /\ Len(Page(n)) \in 0..PageSize
           /\ Len(Page(n)) = PageSize => k + PageSize <= Len(listing)
           /\ Len(Page(n)) < PageSize /\ k <= Len(listing) => k + Len(Page(n)) = Len(listing)
           /\ Len(Page(n)) < PageSize => Len(listing) <= k + PageSize
           /\ \A i \in 1..Len(Page(n)) :
                k + i \in 1..Len(listing) /\ Page(n)[i] = listing[k + i]
<1>1. PageSize \in Nat \ {0} /\ Len(listing) \in Nat
  BY BoundsAssumption, LenProperties
<1>2. k \in Nat /\ n * PageSize = k + PageSize
  BY <1>1
<1>3. PICK e \in Nat : e = IF k + PageSize < Len(listing) THEN k + PageSize ELSE Len(listing)
  BY <1>1, <1>2
<1>4. Page(n) = SubSeq(listing, k + 1, e)
  BY <1>2, <1>3 DEF Page, PageOf
<1>5. \A i \in k + 1 .. e : listing[i] \in Products
  BY <1>1, <1>2, <1>3, ElementOfSeq
<1>6. /\ Page(n) \in Seq(Products)
      /\ Len(Page(n)) = IF k + 1 <= e THEN e - (k + 1) + 1 ELSE 0
      /\ \A i \in 1 .. e - (k + 1) + 1 : Page(n)[i] = listing[k + 1 + i - 1]
  BY <1>2, <1>4, <1>5, SubSeqProperties
<1>7. Len(Page(n)) = IF k < e THEN e - k ELSE 0
  BY <1>2, <1>6
<1>8. ASSUME NEW i \in 1..Len(Page(n))
      PROVE  k + i \in 1..Len(listing) /\ Page(n)[i] = listing[k + i]
  BY <1>1, <1>2, <1>3, <1>6, <1>7
<1>9. PICK m \in Nat, size \in Nat \ {0}, long \in Nat :
        m = k /\ size = PageSize /\ long = Len(listing)
  BY <1>1, <1>2
<1>10. /\ Len(Page(n)) \in 0..size
       /\ Len(Page(n)) = size => m + size <= long
       /\ Len(Page(n)) < size /\ m <= long => m + Len(Page(n)) = long
       /\ Len(Page(n)) < size => long <= m + size
  <2>1. PICK len : len = Len(Page(n))
    OBVIOUS
  <2>2. len = IF m < e THEN e - m ELSE 0
    BY <1>7, <1>9, <2>1
  <2>3. e = IF m + size < long THEN m + size ELSE long
    BY <1>3, <1>9
  <2>4. /\ len \in 0..size
        /\ len = size => m + size <= long
        /\ len < size /\ m <= long => m + len = long
        /\ len < size => long <= m + size
    BY <2>2, <2>3
  <2> QED  BY <2>1, <2>4
<1> QED  BY <1>2, <1>6, <1>8, <1>9, <1>10

LEMMA BarcodeFacts ==
    ASSUME TypeOK, NEW p \in Products
    PROVE  /\ UomBarcodes(p) \subseteq Barcodes
           /\ ProductBarcode(p) \in Barcodes \cup {NoBarcode}
           /\ ProductBarcode(p) # NoBarcode => ProductBarcode(p) \in UomBarcodes(p)
<1>1. Other[p] \subseteq Barcodes /\ default[p] \in Barcodes \cup {NoBarcode}
  BY ProductsAssumption DEF TypeOK
<1>2. CASE default[p] # NoBarcode \/ Other[p] = {}
  BY <1>1, <1>2 DEF UomBarcodes, ProductBarcode
<1>3. CASE ~(default[p] # NoBarcode \/ Other[p] = {})
  BY <1>1, <1>3 DEF UomBarcodes, ProductBarcode
<1> QED  BY <1>2, <1>3

(* One more place: counted if its product has an id.                         *)
LEMMA NextPlace ==
    ASSUME NEW n \in Nat
    PROVE  /\ Wanted(0) = {} /\ Cardinality(Wanted(0)) = 0
           /\ Wanted(n + 1) = IF listing[n + 1] \in NoId THEN Wanted(n)
                                                         ELSE Wanted(n) \cup {n + 1}
           /\ Cardinality(Wanted(n + 1)) =
                IF listing[n + 1] \in NoId THEN Cardinality(Wanted(n))
                                           ELSE Cardinality(Wanted(n)) + 1
<1>1. Wanted(0) = {}
  BY DEF Wanted
<1>2. Wanted(n + 1) = IF listing[n + 1] \in NoId THEN Wanted(n) ELSE Wanted(n) \cup {n + 1}
  <2>1. 1..(n + 1) = 1..n \cup {n + 1}
    OBVIOUS
  <2> QED  BY <2>1 DEF Wanted
<1>3. IsFiniteSet(Wanted(n)) /\ n + 1 \notin Wanted(n)
  <2>1. IsFiniteSet(1..n)
    BY FS_Interval
  <2> QED  BY <2>1, FS_Subset DEF Wanted
<1>4. Cardinality(Wanted(n) \cup {n + 1}) = Cardinality(Wanted(n)) + 1
  BY <1>3, FS_AddElement
<1>5. Cardinality(Wanted(0)) = 0
  BY <1>1, FS_EmptySet
<1> QED  BY <1>1, <1>2, <1>4, <1>5
-----------------------------------------------------------------------------
(* Steps elsewhere: a request is none the worse for rows stored, barcodes    *)
(* carried and, while it assumes CartonCloud at rest, nothing edited.        *)

AtRest == edits' = 0 => edits = 0 /\ UNCHANGED <<listing, default>>

Grows ==
    /\ carried \subseteq carried'
    /\ \A p \in Products : sku[p].stored => sku'[p].stored

LEMMA Counted ==
    ASSUME NEW m \in SeedRuns, m.fetched = m.upserted + m.skipped + Len(m.todo)
    PROVE  /\ Len(m.todo) \in Nat /\ m.fetched \in Nat /\ m.fetched - Len(m.todo) \in Nat
           /\ m.todo \in Seq([id : Products, barcode : Barcodes \cup {NoBarcode}])
<1>1. /\ m.todo \in Seq([id : Products, barcode : Barcodes \cup {NoBarcode}])
      /\ m.fetched \in Nat /\ m.upserted \in Nat /\ m.skipped \in Nat
  BY DEF SeedRuns
<1>2. Len(m.todo) \in Nat
  BY <1>1, LenProperties
<1> QED  BY <1>1, <1>2

LEMMA SeedKept ==
    ASSUME TypeOK, NEW m \in SeedRuns, SeedOK(m), Grows, AtRest
    PROVE  SeedOK(m)'
<1>1. edits' = 0 => Progress(m)'
  <2> SUFFICES ASSUME edits' = 0, m.pc \in {"page", "upsert", "done"}
               PROVE  Progress(m)'
    BY DEF Progress
  <2>1. edits = 0 /\ Progress(m) /\ listing' = listing
    BY DEF AtRest, SeedOK
  <2>2. PICK n \in Nat : n = m.fetched - Len(m.todo)
    BY Counted DEF SeedOK
  <2>3. Wanted(n)' = Wanted(n)
    BY <2>1 DEF Wanted
  <2>4. \A i \in Wanted(n) : listing[i] \in Products
    <3>1. /\ m.fetched <= Len(listing) /\ Len(listing) \in Nat
          /\ m.fetched \in Nat /\ Len(m.todo) \in Nat
      BY <2>1, Counted, LenProperties DEF Progress, SeedOK, TypeOK
    <3>2. n <= Len(listing)
      BY <2>2, <3>1
    <3> QED  BY <3>1, <3>2, ElementOfSeq DEF Wanted, TypeOK
  <2>5. \A i \in Wanted(n)' : sku'[listing'[i]].stored
    BY <2>1, <2>2, <2>3, <2>4 DEF Progress, Grows
  <2> QED  BY <2>1, <2>2, <2>3, <2>5 DEF Progress
<1> QED  BY <1>1 DEF SeedOK, Grows

LEMMA LookupKept ==
    ASSUME NEW k, LookupOK(k), Grows, AtRest
    PROVE  LookupOK(k)'
<1>1. edits' = 0 => listing' = listing /\ \A p : UomBarcodes(p)' = UomBarcodes(p)
  BY DEF AtRest, UomBarcodes
<1> QED  BY <1>1 DEF LookupOK, Grows, AtRest

Table ==
    /\ sku \in [Products -> [barcode : Barcodes \cup {NoBarcode}, ccDims : BOOLEAN, stored : BOOLEAN]]
    /\ \A p \in Products : sku[p].barcode # NoBarcode =>
         sku[p].stored /\ <<p, sku[p].barcode>> \in carried

(* Storing a row, with a barcode the product has carried.                    *)
LEMMA StoreRow ==
    ASSUME IInv, NEW p \in Products, NEW b \in Barcodes \cup {NoBarcode},
           b # NoBarcode => <<p, b>> \in carried,
           sku' = [sku EXCEPT ![p] = Row(b, p)], UNCHANGED carried
    PROVE  Table' /\ Grows /\ sku'[p].stored
<1>1. /\ Row(b, p) \in [barcode : Barcodes \cup {NoBarcode}, ccDims : BOOLEAN, stored : BOOLEAN]
      /\ Row(b, p).stored /\ Row(b, p).barcode = b
  BY DEF Row
<1> QED  BY <1>1 DEF IInv, TypeOK, Barcoded, Table, Grows

LEMMA TableKept == IInv /\ UNCHANGED <<sku, carried>> => Table' /\ Grows
  BY DEF IInv, TypeOK, Barcoded, Table, Grows

(* A step of one seed, to the state m.                                       *)
LEMMA SeedMoves ==
    ASSUME IInv, NEW r \in Seeds, NEW m \in SeedRuns, seed' = [seed EXCEPT ![r] = m],
           m.pc \in {"page", "done"} => m.todo = <<>>, SeedOK(m)',
           UNCHANGED <<listing, default, lookup, carried, edits>>, Table', Grows,
           faults' \in 0..MaxFaults, requests' \in 0..MaxRequests
    PROVE  IInv'
<1>1. AtRest
  BY DEF AtRest
<1>2. TypeOK'
  BY DEF IInv, TypeOK, Table
<1>3. Barcoded' /\ Unedited'
  BY DEF IInv, Barcoded, Unedited, Table, UomBarcodes
<1>4. \A q \in Seeds : seed[q] \in SeedRuns /\ seed'[q] = IF q = r THEN m ELSE seed[q]
  BY DEF IInv, TypeOK
<1>5. \A q \in Seeds : SeedOK(seed[q])'
  <2> SUFFICES ASSUME NEW q \in Seeds PROVE SeedOK(seed[q])'
    OBVIOUS
  <2>1. PICK old \in SeedRuns : old = seed[q]
    BY <1>4
  <2>2. SeedOK(old)'
    BY <1>1, <2>1, SeedKept DEF IInv
  <2> QED  BY <1>4, <2>1, <2>2 DEF SeedOK, Progress
<1>6. \A l \in Lookups : LookupOK(lookup[l])'
  <2> SUFFICES ASSUME NEW l \in Lookups PROVE LookupOK(lookup[l])'
    OBVIOUS
  <2>1. PICK k : k = lookup[l]
    OBVIOUS
  <2>2. LookupOK(k)'
    BY <1>1, <2>1, LookupKept DEF IInv
  <2> QED  BY <2>1, <2>2 DEF LookupOK
<1> QED  BY <1>2, <1>3, <1>5, <1>6 DEF IInv

(* A step of one lookup, to the state k.                                     *)
LEMMA LookupMoves ==
    ASSUME IInv, NEW l \in Lookups, NEW k \in LookupRuns, lookup' = [lookup EXCEPT ![l] = k],
           LookupOK(k)',
           UNCHANGED <<listing, default, seed, carried, edits>>, Table', Grows,
           faults' \in 0..MaxFaults, requests' \in 0..MaxRequests
    PROVE  IInv'
<1>1. AtRest
  BY DEF AtRest
<1>2. TypeOK'
  BY DEF IInv, TypeOK, Table
<1>3. Barcoded' /\ Unedited'
  BY DEF IInv, Barcoded, Unedited, Table, UomBarcodes
<1>4. \A q \in Seeds : SeedOK(seed[q])'
  <2> SUFFICES ASSUME NEW q \in Seeds PROVE SeedOK(seed[q])'
    OBVIOUS
  <2>1. PICK m \in SeedRuns : m = seed[q]
    BY DEF IInv, TypeOK
  <2>2. SeedOK(m)'
    BY <1>1, <2>1, SeedKept DEF IInv
  <2> QED  BY <2>1, <2>2 DEF SeedOK, Progress
<1>5. \A q \in Lookups : lookup'[q] = IF q = l THEN k ELSE lookup[q]
  BY DEF IInv, TypeOK
<1>6. \A q \in Lookups : LookupOK(lookup[q])'
  <2> SUFFICES ASSUME NEW q \in Lookups PROVE LookupOK(lookup[q])'
    OBVIOUS
  <2>1. PICK old : old = lookup[q]
    OBVIOUS
  <2>2. LookupOK(old)'
    BY <1>1, <2>1, LookupKept DEF IInv
  <2> QED  BY <1>5, <2>1, <2>2 DEF LookupOK
<1> QED  BY <1>2, <1>3, <1>4, <1>6 DEF IInv
-----------------------------------------------------------------------------
LEMMA InitInv == Init => IInv
<1> SUFFICES ASSUME Init PROVE IInv
  OBVIOUS
<1>1. NoSeed \in SeedRuns /\ NoSeed.todo = <<>> /\ NoSeed.pc = "idle"
  BY EmptySeq DEF NoSeed, SeedRuns
<1>2. NoLookup \in LookupRuns /\ NoLookup.pc = "idle" /\ NoLookup.answer = "idle"
  BY DEF NoLookup, LookupRuns
<1>3. NoRow \in [barcode : Barcodes \cup {NoBarcode}, ccDims : BOOLEAN, stored : BOOLEAN]
      /\ NoRow.barcode = NoBarcode
  BY DEF NoRow
<1>4. TypeOK
  BY <1>1, <1>2, <1>3, ListingAssumption, ProductsAssumption, BoundsAssumption DEF Init, TypeOK
<1>5. Barcoded
  <2>1. \A p \in Products : UomBarcodes(p) \subseteq Barcodes
    BY <1>4, BarcodeFacts
  <2> QED  BY <1>3, <2>1 DEF Init, Barcoded
<1>6. \A r \in Seeds : SeedOK(seed[r])
  <2>1. SeedOK(NoSeed)
    BY <1>1, EmptySeq DEF SeedOK, Progress, NoSeed
  <2> QED  BY <2>1 DEF Init
<1>7. \A l \in Lookups : LookupOK(lookup[l])
  <2>1. LookupOK(NoLookup)
    BY <1>2, ProductsAssumption DEF LookupOK
  <2> QED  BY <2>1 DEF Init
<1> QED  BY <1>4, <1>5, <1>6, <1>7 DEF IInv, Init, Unedited

LEMMA SeedStartInv == ASSUME IInv, NEW r \in Seeds, SeedStart(r) PROVE IInv'
<1>1. PICK m : m = [NoSeed EXCEPT !.pc = "page"]
  OBVIOUS
<1>2. /\ m \in SeedRuns /\ m.todo = <<>> /\ m.pc = "page" /\ m.page = 1
      /\ m.fetched = 0 /\ m.upserted = 0 /\ m.skipped = 0 /\ m.ccDimsPresent = 0
  <2>1. /\ NoSeed \in SeedRuns /\ NoSeed.todo = <<>> /\ NoSeed.page = 1
        /\ NoSeed.fetched = 0 /\ NoSeed.upserted = 0 /\ NoSeed.skipped = 0
        /\ NoSeed.ccDimsPresent = 0
    BY EmptySeq DEF NoSeed, SeedRuns
  <2> QED  BY <1>1, <2>1 DEF SeedRuns
<1>3. SeedOK(m)
  <2>1. Len(m.todo) = 0 /\ Len(listing) \in Nat /\ PageSize \in Nat
    BY <1>2, EmptySeq, LenProperties, BoundsAssumption DEF IInv, TypeOK
  <2>2. Wanted(0) = {} /\ Cardinality(Wanted(0)) = 0
    BY NextPlace
  <2>3. Progress(m)
    BY <1>2, <2>1, <2>2 DEF Progress
  <2> QED  BY <1>2, <2>1, <2>3 DEF SeedOK
<1>4. requests' \in 0..MaxRequests
  BY BoundsAssumption DEF SeedStart, IInv, TypeOK
<1>5. /\ seed' = [seed EXCEPT ![r] = m]
      /\ UNCHANGED <<listing, default, sku, lookup, carried, faults, edits>>
  BY <1>1 DEF SeedStart
<1>6. Table' /\ Grows /\ AtRest /\ faults' \in 0..MaxFaults
  BY <1>5, TableKept DEF AtRest, IInv, TypeOK
<1>7. SeedOK(m)'
  BY <1>2, <1>3, <1>6, SeedKept DEF IInv
<1> QED  BY <1>2, <1>4, <1>5, <1>6, <1>7, SeedMoves

(* Reading a page: the prefix read grows by it, what is stored stays.        *)
LEMMA SeedPageInv == ASSUME IInv, NEW r \in Seeds, SeedPage(r) PROVE IInv'
<1>1. PICK old \in SeedRuns : old = seed[r]
  BY DEF IInv, TypeOK
<1>2. PICK products : products = Page(old.page)
  OBVIOUS
<1>3. PICK k : k = (old.page - 1) * PageSize
  OBVIOUS
<1>4. /\ old.pc = "page" /\ old.todo = <<>> /\ Len(old.todo) = 0 /\ old.page \in Nat \ {0}
      /\ old.fetched \in Nat /\ old.upserted \in Nat /\ old.skipped \in Nat
      /\ old.ccDimsPresent \in Nat /\ SeedOK(old)
  <2>1. Len(<<>>) = 0
    OBVIOUS
  <2> QED  BY <1>1, <2>1 DEF SeedPage, IInv, TypeOK, SeedRuns
<1>5. /\ k \in Nat /\ old.page * PageSize = k + PageSize
      /\ products \in Seq(Products)
      /\ Len(products) \in 0..PageSize
      /\ Len(products) = PageSize => k + PageSize <= Len(listing)
      /\ Len(products) < PageSize /\ k <= Len(listing) => k + Len(products) = Len(listing)
      /\ \A i \in 1..Len(products) : products[i] = listing[k + i] /\ products[i] \in Products
  <2>1. listing \in Seq(Products)
    BY DEF IInv, TypeOK
  <2>2. \A i \in 1..Len(listing) : listing[i] \in Products
    BY <2>1, ElementOfSeq
  <2>3. PICK n \in Nat \ {0} : n = old.page
    BY <1>4
  <2>4. k = (n - 1) * PageSize /\ products = Page(n)
    BY <1>2, <1>3, <2>3
  <2>5. /\ k \in Nat /\ n * PageSize = k + PageSize
        /\ products \in Seq(Products)
        /\ Len(products) \in 0..PageSize
        /\ Len(products) = PageSize => k + PageSize <= Len(listing)
        /\ Len(products) < PageSize /\ k <= Len(listing) => k + Len(products) = Len(listing)
        /\ \A i \in 1..Len(products) :
             k + i \in 1..Len(listing) /\ products[i] = listing[k + i]
    BY <2>1, <2>4, PageFacts
  <2> QED  BY <2>2, <2>3, <2>5
<1>6. PICK todo : todo = [i \in DOMAIN products |->
                            [id |-> products[i], barcode |-> ProductBarcode(products[i])]]
  OBVIOUS
<1>7. /\ todo \in Seq([id : Products, barcode : Barcodes \cup {NoBarcode}])
      /\ Len(todo) = Len(products)
      /\ \A i \in 1..Len(todo) : /\ todo[i].id = products[i]
                                 /\ todo[i].barcode # NoBarcode =>
                                      <<todo[i].id, todo[i].barcode>> \in carried
  <2>1. DOMAIN products = 1..Len(products) /\ Len(products) \in Nat
    BY <1>5, LenProperties
  <2>2. \A i \in 1..Len(products) : todo[i] = [id |-> products[i],
                                               barcode |-> ProductBarcode(products[i])]
    BY <1>6, <2>1
  <2>3. \A i \in 1..Len(products) :
          /\ todo[i] \in [id : Products, barcode : Barcodes \cup {NoBarcode}]
          /\ todo[i].id = products[i]
          /\ todo[i].barcode # NoBarcode => <<todo[i].id, todo[i].barcode>> \in carried
    <3> SUFFICES ASSUME NEW i \in 1..Len(products)
                 PROVE  /\ todo[i] \in [id : Products, barcode : Barcodes \cup {NoBarcode}]
                        /\ todo[i].id = products[i]
                        /\ todo[i].barcode # NoBarcode =>
                             <<todo[i].id, todo[i].barcode>> \in carried
      OBVIOUS
    <3>1. PICK p \in Products : p = products[i]
      BY <1>5
    <3>2. PICK b \in Barcodes \cup {NoBarcode} :
            b = ProductBarcode(p) /\ (b # NoBarcode => b \in UomBarcodes(p))
      BY BarcodeFacts DEF IInv
    <3>3. todo[i] = [id |-> p, barcode |-> b]
      BY <2>2, <3>1, <3>2
    <3> QED  BY <3>1, <3>2, <3>3 DEF IInv, Barcoded
  <2>4. todo \in [1..Len(products) -> [id : Products, barcode : Barcodes \cup {NoBarcode}]]
    BY <1>6, <2>1, <2>3
  <2>5. todo \in Seq([id : Products, barcode : Barcodes \cup {NoBarcode}])
        /\ Len(todo) = Len(products)
    <3>1. PICK n \in Nat : n = Len(products)
      BY <2>1
    <3>2. PICK S : S = [id : Products, barcode : Barcodes \cup {NoBarcode}]
      OBVIOUS
    <3>3. todo \in [1..n -> S]
      BY <2>4, <3>1, <3>2
    <3>4. todo \in Seq(S) /\ Len(todo) = n
      BY <3>3
    <3> QED  BY <3>1, <3>2, <3>4
  <2> QED  BY <2>3, <2>5
<1>8a. PICK short : short = (Len(products) < PageSize)
  OBVIOUS
<1>8b. PICK pc : pc = IF products = <<>> THEN "done" ELSE "upsert"
  OBVIOUS
<1>8c. PICK f : f = old.fetched + Len(products)
  OBVIOUS
<1>8. PICK m : m = [old EXCEPT !.pc = pc, !.fetched = f, !.todo = todo, !.short = short]
  OBVIOUS
<1>9. /\ m \in SeedRuns /\ m.todo = todo
      /\ m.pc = IF products = <<>> THEN "done" ELSE "upsert"
      /\ m.fetched = old.fetched + Len(products) /\ m.short = (Len(products) < PageSize)
      /\ m.page = old.page /\ m.upserted = old.upserted /\ m.skipped = old.skipped
      /\ m.ccDimsPresent = old.ccDimsPresent
  <2>1. f \in Nat /\ short \in BOOLEAN /\ pc \in {"done", "upsert"}
    BY <1>4, <1>5, <1>8a, <1>8b, <1>8c
  <2>2. /\ m \in SeedRuns /\ m.todo = todo /\ m.pc = pc /\ m.fetched = f /\ m.short = short
        /\ m.page = old.page /\ m.upserted = old.upserted /\ m.skipped = old.skipped
        /\ m.ccDimsPresent = old.ccDimsPresent
    BY <1>7, <1>8, <2>1 DEF SeedRuns
  <2> QED  BY <1>8a, <1>8b, <1>8c, <2>2
<1>10. seed' = [seed EXCEPT ![r] = m]
  <2>1. [old EXCEPT !.pc = IF products = <<>> THEN "done" ELSE "upsert",
                    !.fetched = @ + Len(products), !.todo = todo,
                    !.short = Len(products) < PageSize] = m
    BY <1>8, <1>8a, <1>8b, <1>8c
  <2>2. seed' = [seed EXCEPT ![r] = [old EXCEPT
                     !.pc = IF products = <<>> THEN "done" ELSE "upsert",
                     !.fetched = @ + Len(products), !.todo = todo,
                     !.short = Len(products) < PageSize]]
    BY <1>1, <1>2, <1>6 DEF SeedPage
  <2> QED  BY <2>1, <2>2
<1>11. SeedOK(m)
  <2>1. m.fetched - Len(m.todo) = old.fetched
    BY <1>4, <1>5, <1>7, <1>9
  <2>2. products = <<>> => Len(products) = 0
    OBVIOUS
  <2>3. edits = 0 => Progress(m)
    <3> SUFFICES ASSUME edits = 0 PROVE Progress(m)
      OBVIOUS
    <3>1. /\ old.fetched = k /\ k <= Len(listing) /\ Len(listing) \in Nat
          /\ old.upserted = Cardinality(Wanted(k))
          /\ \A i \in Wanted(k) : sku[listing[i]].stored
      <4>1. Progress(old) /\ old.fetched - Len(old.todo) = old.fetched
        BY <1>4 DEF SeedOK
      <4> QED  BY <1>3, <1>4, <4>1, LenProperties DEF Progress, IInv, TypeOK
    <3>2. PageSize \in Nat \ {0}
      BY BoundsAssumption
    <3>3. m.fetched = k + Len(products) /\ m.fetched <= Len(listing)
      BY <1>5, <1>9, <3>1, <3>2
    <3>4. m.fetched = IF m.short THEN Len(listing) ELSE m.page * PageSize
      <4>1. CASE Len(products) < PageSize
        BY <1>5, <1>9, <3>1, <3>3, <4>1
      <4>2. CASE ~(Len(products) < PageSize)
        <5>1. Len(products) = PageSize
          BY <1>5, <3>2, <4>2
        <5> QED  BY <1>5, <1>9, <3>3, <4>2, <5>1
      <4> QED  BY <4>1, <4>2
    <3>5. m.pc = "done" => m.fetched = Len(listing)
      BY <1>5, <1>9, <2>2, <3>1, <3>2, <3>3
    <3>6. \A i \in 1..Len(m.todo) : m.todo[i].id = listing[m.fetched - Len(m.todo) + i]
      BY <1>5, <1>7, <1>9, <2>1, <3>1
    <3> QED  BY <1>9, <2>1, <3>1, <3>3, <3>4, <3>5, <3>6 DEF Progress
  <2> QED  BY <1>4, <1>5, <1>7, <1>9, <2>3 DEF SeedOK
<1>12. UNCHANGED <<listing, default, sku, lookup, carried, faults, edits, requests>>
  BY DEF SeedPage
<1>13. Table' /\ Grows /\ AtRest
  BY <1>12, TableKept DEF AtRest
<1>14. SeedOK(m)'
  BY <1>9, <1>11, <1>13, SeedKept DEF IInv
<1>15. m.pc \in {"page", "done"} => m.todo = <<>>
  <2>1. products = <<>> => todo = <<>>
    BY <1>7
  <2> QED  BY <1>9, <2>1
<1> QED  BY <1>9, <1>10, <1>12, <1>13, <1>14, <1>15, SeedMoves DEF IInv, TypeOK
(* A seed that ends in an error promises nothing but its sums.               *)
LEMMA SeedStops ==
    ASSUME IInv, NEW r \in Seeds, NEW pc \in {"refused", "failed"},
           seed' = [seed EXCEPT ![r].pc = pc],
           UNCHANGED <<listing, default, sku, lookup, carried, edits>>,
           faults' \in 0..MaxFaults, requests' \in 0..MaxRequests
    PROVE  IInv'
<1>1. PICK old \in SeedRuns : old = seed[r]
  BY DEF IInv, TypeOK
<1>2. PICK m : m = [old EXCEPT !.pc = pc]
  OBVIOUS
<1>3. /\ m \in SeedRuns /\ m.pc = pc /\ m.todo = old.todo /\ m.fetched = old.fetched
      /\ m.upserted = old.upserted /\ m.skipped = old.skipped
      /\ m.ccDimsPresent = old.ccDimsPresent
  BY <1>2 DEF SeedRuns
<1>4. SeedOK(m)
  <2>1. SeedOK(old)
    BY <1>1 DEF IInv
  <2> QED  BY <1>3, <2>1 DEF SeedOK, Progress
<1>5. Table' /\ Grows /\ AtRest
  BY TableKept DEF AtRest
<1>6. SeedOK(m)'
  BY <1>3, <1>4, <1>5, SeedKept DEF IInv
<1> QED  BY <1>1, <1>2, <1>3, <1>5, <1>6, SeedMoves

LEMMA FaultTypes == TypeOK /\ UpstreamFault => faults' \in 0..MaxFaults
  BY BoundsAssumption DEF TypeOK, UpstreamFault

LEMMA SeedPageFailsInv == ASSUME IInv, NEW r \in Seeds, SeedPageFails(r) PROVE IInv'
<1>1. faults' \in 0..MaxFaults /\ requests' \in 0..MaxRequests
  BY FaultTypes DEF SeedPageFails, IInv, TypeOK
<1> QED  BY <1>1, SeedStops DEF SeedPageFails

LEMMA OneFewer ==
    ASSUME NEW f \in Nat, NEW u \in Nat, NEW s \in Nat, NEW n \in Nat,
           f = u + s + n,
           NEW u1 \in Nat, NEW s1 \in Nat, NEW n1 \in Nat, n1 = n - 1,
           (u1 = u /\ s1 = s + 1) \/ (u1 = u + 1 /\ s1 = s)
    PROVE  f = u1 + s1 + n1
  OBVIOUS

(* The product a seed is at, with a barcode that CartonCloud had.            *)
LEMMA UpcomingFacts ==
    ASSUME IInv, NEW r \in Seeds, seed[r].todo # <<>>
    PROVE  /\ Upcoming(r) = seed[r].todo[1]
           /\ Upcoming(r).id \in Products
           /\ Upcoming(r).barcode \in Barcodes \cup {NoBarcode}
           /\ Upcoming(r).barcode # NoBarcode =>
                <<Upcoming(r).id, Upcoming(r).barcode>> \in carried
<1>1. PICK s : s = seed[r].todo
  OBVIOUS
<1>2. s \in Seq([id : Products, barcode : Barcodes \cup {NoBarcode}])
  BY <1>1 DEF IInv, TypeOK, SeedRuns
<1>3. Len(s) \in Nat \ {0} /\ Upcoming(r) = s[1]
  BY <1>1, <1>2, EmptySeq DEF Upcoming
<1>4. 1 \in 1..Len(s)
  BY <1>3
<1>5. s[1] \in [id : Products, barcode : Barcodes \cup {NoBarcode}]
  BY <1>2, <1>4, ElementOfSeq
<1> QED  BY <1>1, <1>3, <1>4, <1>5 DEF IInv, SeedOK

(* The product at hand is the next of the prefix read: once it is stored, or *)
(* skipped for want of an id, one place more is done with.                   *)
LEMMA SeedAdvances ==
    ASSUME IInv, NEW r \in Seeds, NEW old \in SeedRuns, old = seed[r],
           old.pc = "upsert", old.todo # <<>>,
           NEW m \in SeedRuns, m.pc = "upsert", m.todo = Tail(old.todo),
           m.fetched = old.fetched, m.page = old.page, m.short = old.short,
           m.ccDimsPresent <= m.upserted,
           IF Upcoming(r).id \in NoId
             THEN m.upserted = old.upserted /\ m.skipped = old.skipped + 1
             ELSE /\ m.upserted = old.upserted + 1 /\ m.skipped = old.skipped
                  /\ sku'[Upcoming(r).id].stored,
           UNCHANGED <<listing, default, carried, edits>>, Grows
    PROVE  SeedOK(m)'
<1>1. /\ old.todo \in Seq([id : Products, barcode : Barcodes \cup {NoBarcode}])
      /\ old.upserted \in Nat /\ old.skipped \in Nat /\ SeedOK(old)
  BY DEF SeedRuns, IInv
<1>2. PICK t : t = Tail(old.todo)
  OBVIOUS
<1>3. /\ Len(old.todo) \in Nat \ {0} /\ Len(t) = Len(old.todo) - 1
      /\ \A i \in 1..Len(t) : t[i] = old.todo[i + 1] /\ i + 1 \in 1..Len(old.todo)
      /\ Upcoming(r) = old.todo[1]
  BY <1>1, <1>2, HeadTailProperties, EmptySeq DEF Upcoming
<1>4. /\ old.fetched = old.upserted + old.skipped + Len(old.todo)
      /\ m.fetched = m.upserted + m.skipped + Len(t)
      /\ m.upserted \in Nat /\ m.skipped \in Nat /\ m.fetched \in Nat
  <2>1. /\ old.fetched = old.upserted + old.skipped + Len(old.todo)
        /\ m.upserted \in Nat /\ m.skipped \in Nat /\ m.fetched \in Nat
    BY <1>1 DEF SeedOK, SeedRuns
  <2>2. \/ m.upserted = old.upserted /\ m.skipped = old.skipped + 1
        \/ m.upserted = old.upserted + 1 /\ m.skipped = old.skipped
    OBVIOUS
  <2>3. m.fetched = old.fetched /\ old.fetched \in Nat
    BY <2>1
  <2>4. Len(old.todo) \in Nat /\ Len(t) \in Nat /\ Len(t) = Len(old.todo) - 1
    BY <1>3
  <2>5. old.fetched = m.upserted + m.skipped + Len(t)
    <3>1. PICK f \in Nat : f = old.fetched
      BY <2>3
    <3>2. PICK u \in Nat : u = old.upserted
      BY <1>1
    <3>3. PICK s \in Nat : s = old.skipped
      BY <1>1
    <3>4. PICK n \in Nat : n = Len(old.todo)
      BY <2>4
    <3>5. PICK u1 \in Nat : u1 = m.upserted
      BY <2>1
    <3>6. PICK s1 \in Nat : s1 = m.skipped
      BY <2>1
    <3>7. PICK n1 \in Nat : n1 = Len(t)
      BY <2>4
    <3>8. f = u + s + n
      BY <2>1, <3>1, <3>2, <3>3, <3>4
    <3>9. n1 = n - 1
      BY <2>4, <3>4, <3>7
    <3>10. (u1 = u /\ s1 = s + 1) \/ (u1 = u + 1 /\ s1 = s)
      BY <2>2, <3>2, <3>3, <3>5, <3>6
    <3>11. f = u1 + s1 + n1
      BY <3>8, <3>9, <3>10
    <3> QED  BY <3>1, <3>5, <3>6, <3>7, <3>11
  <2> QED  BY <2>1, <2>3, <2>5
<1>5. \A i \in 1..Len(t) : t[i].barcode # NoBarcode => <<t[i].id, t[i].barcode>> \in carried
  BY <1>1, <1>3 DEF SeedOK
<1>6. ASSUME edits = 0 PROVE Progress(m)'
  <2>1. PICK n \in Nat : n = old.fetched - Len(old.todo)
    BY <1>1, Counted DEF SeedOK
  <2>2. m.fetched - Len(t) = n + 1 /\ m.fetched \in Nat
    BY <1>3, <1>4, <2>1
  <2>3. /\ Progress(old) /\ Upcoming(r).id = listing[n + 1]
        /\ old.upserted = Cardinality(Wanted(n))
        /\ \A i \in Wanted(n) : sku[listing[i]].stored
    <3>1. Progress(old)
      BY <1>1, <1>6 DEF SeedOK
    <3>2. 1 \in 1..Len(old.todo)
      BY <1>3
    <3> QED  BY <1>3, <2>1, <3>1, <3>2 DEF Progress
  <2>4. m.upserted = Cardinality(Wanted(n + 1))
    BY <2>3, NextPlace
  <2>5. \A i \in Wanted(n) : listing[i] \in Products
    <3>1. Len(listing) \in Nat /\ n <= Len(listing)
      BY <1>3, <2>1, <2>2, <2>3, LenProperties DEF IInv, TypeOK, Progress
    <3>2. listing \in Seq(Products) /\ Wanted(n) \subseteq 1..n
      BY DEF IInv, TypeOK, Wanted
    <3>3. \A i \in 1..n : i \in 1..Len(listing)
      BY <2>1, <3>1
    <3> QED  BY <3>2, <3>3, ElementOfSeq
  <2>6. \A i \in Wanted(n + 1) : sku'[listing[i]].stored
    BY <2>3, <2>5, NextPlace DEF Grows
  <2>7. \A i \in 1..Len(t) : t[i].id = listing[m.fetched - Len(t) + i]
    <3> SUFFICES ASSUME NEW i \in 1..Len(t) PROVE t[i].id = listing[n + 1 + i]
      BY <2>2
    <3>1. old.todo[i + 1].id = listing[n + (i + 1)]
      BY <1>3, <2>1, <2>3 DEF Progress
    <3>2. n + (i + 1) = n + 1 + i
      BY <1>3
    <3> QED  BY <1>3, <3>1, <3>2
  <2>8. Wanted(n + 1)' = Wanted(n + 1)
    BY DEF Wanted
  <2> QED  BY <1>2, <2>2, <2>3, <2>4, <2>6, <2>7, <2>8 DEF Progress
<1> QED  BY <1>2, <1>4, <1>5, <1>6 DEF SeedOK

LEMMA SeedUpsertInv == ASSUME IInv, NEW r \in Seeds, SeedUpsert(r) PROVE IInv'
<1>1. PICK old \in SeedRuns : old = seed[r]
  BY DEF IInv, TypeOK
<1>2. PICK t : t = Tail(old.todo)
  OBVIOUS
<1>3. PICK p, b : p = Upcoming(r).id /\ b = Upcoming(r).barcode
  OBVIOUS
<1>4. /\ old.pc = "upsert" /\ old.todo # <<>>
      /\ old.upserted \in Nat /\ old.skipped \in Nat /\ old.ccDimsPresent \in Nat
      /\ old.ccDimsPresent <= old.upserted
      /\ t \in Seq([id : Products, barcode : Barcodes \cup {NoBarcode}])
      /\ UNCHANGED <<listing, default, lookup, carried, faults, edits, requests>>
  <2>1. old.todo \in Seq([id : Products, barcode : Barcodes \cup {NoBarcode}])
    BY DEF SeedRuns
  <2> QED  BY <1>1, <1>2, <2>1, HeadTailProperties DEF SeedUpsert, SeedRuns, IInv, SeedOK
<1>5. /\ p \in Products /\ b \in Barcodes \cup {NoBarcode}
      /\ b # NoBarcode => <<p, b>> \in carried
  BY <1>1, <1>3, <1>4, UpcomingFacts
<1>6. CASE SeedSkip(r)
  <2>1a. PICK skipped \in Nat : skipped = old.skipped + 1
    BY <1>4
  <2>1. PICK m : m = [old EXCEPT !.todo = t, !.skipped = skipped]
    OBVIOUS
  <2>2. /\ m \in SeedRuns /\ m.pc = old.pc /\ m.page = old.page /\ m.todo = t
        /\ m.short = old.short /\ m.fetched = old.fetched /\ m.upserted = old.upserted
        /\ m.ccDimsPresent = old.ccDimsPresent /\ m.skipped = skipped
    BY <1>4, <2>1 DEF SeedRuns
  <2>3. Table' /\ Grows /\ Upcoming(r).id \in NoId
    BY <1>4, <1>6, TableKept DEF SeedSkip
  <2>4. SeedOK(m)'
    BY <1>1, <1>2, <1>4, <2>1a, <2>2, <2>3, SeedAdvances
  <2>5. seed' = [seed EXCEPT ![r] = m]
    BY <1>1, <1>2, <1>6, <2>1a, <2>1 DEF SeedSkip
  <2> QED  BY <1>4, <2>2, <2>3, <2>4, <2>5, SeedMoves DEF IInv, TypeOK
<1>7. CASE SeedStore(r)
  <2>1. PICK one \in {0, 1} : one = IF p \in WithDims THEN 1 ELSE 0
    OBVIOUS
  <2>2a. PICK upserted \in Nat, present \in Nat :
           upserted = old.upserted + 1 /\ present = old.ccDimsPresent + one
    BY <1>4, <2>1
  <2>2. PICK m : m = [old EXCEPT !.todo = t, !.upserted = upserted, !.ccDimsPresent = present]
    OBVIOUS
  <2>3. /\ m \in SeedRuns /\ m.pc = old.pc /\ m.page = old.page /\ m.todo = t
        /\ m.short = old.short /\ m.fetched = old.fetched /\ m.upserted = upserted
        /\ m.ccDimsPresent = present /\ m.skipped = old.skipped
    BY <1>4, <2>2 DEF SeedRuns
  <2>4. Table' /\ Grows /\ sku'[p].stored
    BY <1>3, <1>4, <1>5, <1>7, StoreRow DEF SeedStore
  <2>5. SeedOK(m)'
    <3>1. Upcoming(r).id \notin NoId /\ sku'[Upcoming(r).id].stored
      BY <1>3, <1>7, <2>4 DEF SeedStore
    <3>2. m.ccDimsPresent <= m.upserted
      BY <1>4, <2>1, <2>2a, <2>3
    <3> QED  BY <1>1, <1>2, <1>4, <2>2a, <2>3, <2>4, <3>1, <3>2, SeedAdvances
  <2>6. seed' = [seed EXCEPT ![r] = m]
    BY <1>1, <1>2, <1>3, <1>7, <2>1, <2>2a, <2>2 DEF SeedStore
  <2> QED  BY <1>4, <2>3, <2>4, <2>5, <2>6, SeedMoves DEF IInv, TypeOK
<1>8. CASE SeedConflict(r)
  BY <1>4, <1>8, SeedStops DEF SeedConflict, IInv, TypeOK
<1> QED  BY <1>6, <1>7, <1>8 DEF SeedUpsert

LEMMA SeedNextInv == ASSUME IInv, NEW r \in Seeds, SeedNext(r) PROVE IInv'
<1>1. PICK old \in SeedRuns : old = seed[r]
  BY DEF IInv, TypeOK
<1>2. /\ old.pc = "upsert" /\ old.todo = <<>> /\ old.page \in Nat \ {0} /\ SeedOK(old)
      /\ UNCHANGED <<listing, default, sku, lookup, carried, faults, edits, requests>>
  BY <1>1 DEF SeedNext, AfterPage, SeedRuns, IInv
<1>3. Table' /\ Grows /\ AtRest
  BY <1>2, TableKept DEF AtRest
<1>4. CASE old.short
  <2>1. PICK m : m = [old EXCEPT !.pc = "done"]
    OBVIOUS
  <2>2. /\ m \in SeedRuns /\ m.pc = "done" /\ m.todo = old.todo /\ m.fetched = old.fetched
        /\ m.upserted = old.upserted /\ m.skipped = old.skipped
        /\ m.ccDimsPresent = old.ccDimsPresent
    BY <2>1 DEF SeedRuns
  <2>3. SeedOK(m)
    BY <1>2, <1>4, <2>2 DEF SeedOK, Progress
  <2>4. SeedOK(m)'
    BY <1>3, <2>2, <2>3, SeedKept DEF IInv
  <2>5. seed' = [seed EXCEPT ![r] = m]
    BY <1>1, <1>4, <2>1 DEF SeedNext, AfterPage
  <2> QED  BY <1>2, <1>3, <2>2, <2>4, <2>5, SeedMoves DEF IInv, TypeOK
<1>5. CASE ~old.short
  <2>1a. PICK page \in Nat \ {0} : page = old.page + 1
    BY <1>2
  <2>1. PICK m : m = [old EXCEPT !.pc = "page", !.page = page]
    OBVIOUS
  <2>2. /\ m \in SeedRuns /\ m.pc = "page" /\ m.todo = old.todo /\ m.fetched = old.fetched
        /\ m.upserted = old.upserted /\ m.skipped = old.skipped /\ m.page = page
        /\ m.ccDimsPresent = old.ccDimsPresent
    BY <1>2, <2>1 DEF SeedRuns
  <2>3. SeedOK(m)
    <3>1. m.page - 1 = old.page
      BY <1>2, <2>1a, <2>2
    <3> QED  BY <1>2, <1>5, <2>2, <3>1 DEF SeedOK, Progress
  <2>4. SeedOK(m)'
    BY <1>3, <2>2, <2>3, SeedKept DEF IInv
  <2>5. seed' = [seed EXCEPT ![r] = m]
    BY <1>1, <1>5, <2>1a, <2>1 DEF SeedNext, AfterPage
  <2> QED  BY <1>2, <1>3, <2>2, <2>4, <2>5, SeedMoves DEF IInv, TypeOK
<1> QED  BY <1>4, <1>5
-----------------------------------------------------------------------------
(* Lookups.                                                                  *)

LEMMA LookupTypes ==
    ASSUME IInv, NEW l \in Lookups
    PROVE  lookup[l] \in LookupRuns /\ LookupOK(lookup[l])
  BY DEF IInv, TypeOK

LEMMA LookupStartInv ==
    ASSUME IInv, NEW l \in Lookups, NEW b \in Barcodes, LookupStart(l, b)
    PROVE  IInv'
<1>1. PICK k : k = [NoLookup EXCEPT !.barcode = b, !.pc = "db"]
  OBVIOUS
<1>2. k \in LookupRuns /\ k.pc = "db" /\ k.barcode = b /\ k.answer = "idle" /\ k.page = 1
  <2>1. NoLookup \in LookupRuns /\ NoLookup.answer = "idle" /\ NoLookup.page = 1
    BY DEF NoLookup, LookupRuns
  <2> QED  BY <1>1, <2>1 DEF LookupRuns
<1>3. LookupOK(k)'
  <2>1. (k.page - 1) * PageSize = 0
    BY <1>2, BoundsAssumption
  <2> QED  BY <1>2, <2>1, ProductsAssumption DEF LookupOK
<1>4. UNCHANGED <<listing, default, sku, seed, carried, faults, edits>>
  BY DEF LookupStart
<1>5. Table' /\ Grows
  BY <1>4, TableKept
<1>6. requests' \in 0..MaxRequests
  BY BoundsAssumption DEF LookupStart, IInv, TypeOK
<1>7. lookup' = [lookup EXCEPT ![l] = k]
  BY <1>1 DEF LookupStart
<1> QED  BY <1>2, <1>3, <1>4, <1>5, <1>6, <1>7, LookupMoves DEF IInv, TypeOK

(* An answer is no product but one that carried the barcode.                 *)
LEMMA Answers ==
    ASSUME IInv, NEW l \in Lookups, NEW a \in Products \cup {"none", "upstream", "error"},
           Answer(l, a), a \in Products => <<a, lookup[l].barcode>> \in carried,
           UNCHANGED <<listing, default, seed, carried, edits>>, Table', Grows,
           faults' \in 0..MaxFaults, requests' \in 0..MaxRequests
    PROVE  IInv'
<1>1. PICK old \in LookupRuns : old = lookup[l]
  BY LookupTypes
<1>2. PICK k : k = [old EXCEPT !.pc = "idle", !.answer = a]
  OBVIOUS
<1>3. k \in LookupRuns /\ k.pc = "idle" /\ k.barcode = old.barcode /\ k.answer = a
  BY <1>2 DEF LookupRuns
<1>4. LookupOK(k)'
  BY <1>1, <1>3 DEF LookupOK
<1>5. lookup' = [lookup EXCEPT ![l] = k]
  BY <1>1, <1>2 DEF Answer
<1> QED  BY <1>3, <1>4, <1>5, LookupMoves

LEMMA LookupDbInv == ASSUME IInv, NEW l \in Lookups, LookupDb(l) PROVE IInv'
<1>1. /\ lookup[l].pc = "db"
      /\ UNCHANGED <<listing, default, sku, seed, carried, faults, edits, requests>>
      /\ faults' \in 0..MaxFaults /\ requests' \in 0..MaxRequests
  BY DEF LookupDb, IInv, TypeOK
<1>2. Table' /\ Grows
  BY <1>1, TableKept
<1>3. ASSUME NEW p \in Products, sku[p].barcode = lookup[l].barcode, Answer(l, p)
      PROVE  IInv'
  <2>1. lookup[l].barcode \in Barcodes
    BY <1>1, LookupTypes DEF LookupOK
  <2>2. <<p, lookup[l].barcode>> \in carried
    BY <1>3, <2>1, ProductsAssumption DEF IInv, Barcoded
  <2> QED  BY <1>1, <1>2, <1>3, <2>2, Answers
<1>4. CASE lookup' = [lookup EXCEPT ![l].pc = "page"]
  <2>1. PICK old \in LookupRuns : old = lookup[l]
    BY LookupTypes
  <2>2. PICK k : k = [old EXCEPT !.pc = "page"]
    OBVIOUS
  <2>3. /\ k \in LookupRuns /\ k.pc = "page" /\ k.barcode = old.barcode /\ k.page = old.page
        /\ k.answer = old.answer
    BY <2>2 DEF LookupRuns
  <2>4. LookupOK(k)'
    <3>1. LookupOK(old) /\ old.pc = "db"
      BY <1>1, <2>1, LookupTypes
    <3>2. LookupOK(k)
      BY <2>3, <3>1 DEF LookupOK
    <3> QED  BY <1>1, <1>2, <3>2, LookupKept DEF AtRest
  <2>5. lookup' = [lookup EXCEPT ![l] = k]
    BY <1>4, <2>1, <2>2
  <2> QED  BY <1>1, <1>2, <2>3, <2>4, <2>5, LookupMoves
<1> QED  BY <1>3, <1>4 DEF LookupDb
(* A page without the barcode: the next one is read knowing so.              *)
LEMMA Searched ==
    ASSUME IInv, NEW l \in Lookups, lookup[l].pc = "page", edits = 0,
           NEW products, products = Page(lookup[l].page)
    PROVE  /\ products \in Seq(Products) /\ Len(products) \in 0..PageSize
           /\ Carriers(l, products) = {} => \A i \in 1..Len(listing) :
                i <= lookup[l].page * PageSize \/ Len(products) < PageSize =>
                  lookup[l].barcode \notin UomBarcodes(listing[i])
           /\ \A i \in 1..Len(products) : \E j \in 1..Len(listing) : products[i] = listing[j]
<1>1. PICK n \in Nat \ {0} : n = lookup[l].page
  BY LookupTypes DEF LookupRuns
<1>2. PICK k : k = (n - 1) * PageSize
  OBVIOUS
<1>3. /\ k \in Nat /\ n * PageSize = k + PageSize
      /\ products \in Seq(Products) /\ Len(products) \in 0..PageSize
      /\ Len(products) = PageSize => k + PageSize <= Len(listing)
      /\ Len(products) < PageSize /\ k <= Len(listing) => k + Len(products) = Len(listing)
      /\ Len(products) < PageSize => Len(listing) <= k + PageSize
      /\ \A i \in 1..Len(products) :
           k + i \in 1..Len(listing) /\ products[i] = listing[k + i]
  <2>1. listing \in Seq(Products) /\ products = Page(n)
    BY <1>1 DEF IInv, TypeOK
  <2>2. /\ k \in Nat /\ n * PageSize = k + PageSize
        /\ Page(n) \in Seq(Products) /\ Len(Page(n)) \in 0..PageSize
        /\ Len(Page(n)) = PageSize => k + PageSize <= Len(listing)
        /\ Len(Page(n)) < PageSize /\ k <= Len(listing) => k + Len(Page(n)) = Len(listing)
        /\ Len(Page(n)) < PageSize => Len(listing) <= k + PageSize
        /\ \A i \in 1..Len(Page(n)) :
             k + i \in 1..Len(listing) /\ Page(n)[i] = listing[k + i]
    BY <1>2, <2>1, PageFacts
  <2> QED  BY <2>1, <2>2
<1>4. Len(listing) \in Nat /\ PageSize \in Nat \ {0}
  BY LenProperties, BoundsAssumption DEF IInv, TypeOK
<1>5. ASSUME Carriers(l, products) = {}, NEW i \in 1..Len(listing),
             i <= n * PageSize \/ Len(products) < PageSize
      PROVE  lookup[l].barcode \notin UomBarcodes(listing[i])
  <2>1. CASE i <= k
    BY <1>1, <1>2, <2>1, LookupTypes DEF LookupOK
  <2>2. CASE ~(i <= k)
    <3>1. i - k \in 1..Len(products) /\ k + (i - k) = i
      <4>1. CASE Len(products) = PageSize
        BY <1>3, <1>4, <1>5, <2>2, <4>1
      <4>2. CASE Len(products) < PageSize
        BY <1>3, <1>4, <2>2, <4>2
      <4> QED  BY <1>3, <1>4, <4>1, <4>2
    <3>2. DOMAIN products = 1..Len(products)
      BY <1>3, LenProperties
    <3>3. lookup[l].barcode \notin UomBarcodes(products[i - k])
      BY <1>5, <3>1, <3>2 DEF Carriers
    <3>4. products[i - k] = listing[i]
      BY <1>3, <3>1
    <3> QED  BY <3>3, <3>4
  <2> QED  BY <2>1, <2>2
<1> QED  BY <1>1, <1>3, <1>5

(* The first product of the page that carries the barcode.                   *)
LEMMA FirstHit ==
    ASSUME NEW l, NEW products \in Seq(Products), Carriers(l, products) # {}
    PROVE  \E i \in 1..Len(products) :
             /\ i = CHOOSE c \in Carriers(l, products) :
                      \A j \in Carriers(l, products) : c <= j
             /\ products[i] \in Products
             /\ lookup[l].barcode \in UomBarcodes(products[i])
<1>1. DOMAIN products = 1..Len(products) /\ Len(products) \in Nat
  BY LenProperties
<1>2. PICK hits : hits = Carriers(l, products)
  OBVIOUS
<1>3. hits \subseteq Nat /\ hits # {}
  BY <1>1, <1>2 DEF Carriers
<1>4. PICK m \in hits : \A j \in hits : m <= j
  BY <1>3, Least
<1>5. (CHOOSE c \in hits : \A j \in hits : c <= j) \in hits
  BY <1>4
<1>6. PICK i \in hits : i = CHOOSE c \in hits : \A j \in hits : c <= j
  BY <1>5
<1>7. i \in 1..Len(products) /\ lookup[l].barcode \in UomBarcodes(products[i])
  BY <1>1, <1>2 DEF Carriers
<1> QED  BY <1>2, <1>6, <1>7, ElementOfSeq
LEMMA LookupPageInv == ASSUME IInv, NEW l \in Lookups, LookupPage(l) PROVE IInv'
<1>1. PICK old \in LookupRuns : old = lookup[l] /\ old.pc = "page" /\ LookupOK(old)
  BY LookupTypes DEF LookupPage
<1>2. PICK n \in Nat \ {0}, b \in Barcodes : n = old.page /\ b = old.barcode
  BY <1>1 DEF LookupRuns, LookupOK
<1>3. PICK products : products = Page(n)
  OBVIOUS
<1>4. products \in Seq(Products)
  BY <1>3, PageFacts DEF IInv, TypeOK
<1>5. /\ UNCHANGED <<listing, default, sku, seed, carried, faults, edits, requests>>
      /\ faults' \in 0..MaxFaults /\ requests' \in 0..MaxRequests
  BY DEF LookupPage, IInv, TypeOK
<1>6. Table' /\ Grows /\ AtRest
  BY <1>5, TableKept DEF AtRest
<1>7. CASE Answer(l, "none")
  BY <1>5, <1>6, <1>7, ProductsAssumption, Answers
<1>8. ASSUME Carriers(l, products) # {}, NEW first \in {
               products[CHOOSE i \in Carriers(l, products) :
                          \A j \in Carriers(l, products) : i <= j]} \ NoId,
             lookup' = [lookup EXCEPT ![l].pc = "find", ![l].hit = first]
      PROVE  IInv'
  <2>1. PICK p \in Products : p = first /\ b \in UomBarcodes(p)
    BY <1>1, <1>2, <1>4, <1>8, FirstHit
  <2>2. PICK k : k = [old EXCEPT !.pc = "find", !.hit = p]
    OBVIOUS
  <2>3. /\ k \in LookupRuns /\ k.pc = "find" /\ k.hit = p /\ k.barcode = old.barcode
        /\ k.answer = old.answer
    BY <2>2 DEF LookupRuns
  <2>4. p \notin NoId /\ <<p, b>> \in carried
    BY <1>8, <2>1 DEF IInv, Barcoded
  <2>5. LookupOK(k)
    BY <1>1, <1>2, <2>3, <2>4, ProductsAssumption DEF LookupOK
  <2>6. LookupOK(k)'
    BY <1>6, <2>5, LookupKept
  <2>7. lookup' = [lookup EXCEPT ![l] = k]
    BY <1>1, <1>8, <2>1, <2>2
  <2> QED  BY <1>5, <1>6, <2>3, <2>6, <2>7, LookupMoves
<1>9. ASSUME Carriers(l, products) = {}, Len(products) = PageSize,
             lookup' = [lookup EXCEPT ![l].page = @ + 1]
      PROVE  IInv'
  <2>1. PICK page \in Nat \ {0} : page = n + 1
    OBVIOUS
  <2>2. PICK k : k = [old EXCEPT !.page = page]
    OBVIOUS
  <2>3. /\ k \in LookupRuns /\ k.pc = "page" /\ k.page = page /\ k.barcode = old.barcode
        /\ k.answer = old.answer
    BY <1>1, <2>2 DEF LookupRuns
  <2>4. LookupOK(k)
    <3>1. edits = 0 => \A i \in 1..Len(listing) :
            i <= n * PageSize => k.barcode \notin UomBarcodes(listing[i])
      BY <1>1, <1>2, <1>3, <1>9, <2>3, Searched
    <3>2. k.page - 1 = n
      BY <2>1, <2>3
    <3> QED  BY <1>1, <2>3, <3>1, <3>2 DEF LookupOK
  <2>5. LookupOK(k)'
    BY <1>6, <2>4, LookupKept
  <2>6. lookup' = [lookup EXCEPT ![l] = k]
    BY <1>1, <1>2, <1>9, <2>1, <2>2
  <2> QED  BY <1>5, <1>6, <2>3, <2>5, <2>6, LookupMoves
<1> QED  BY <1>1, <1>2, <1>3, <1>7, <1>8, <1>9, Zenon DEF LookupPage, NotHere

LEMMA LookupPageFailsInv ==
    ASSUME IInv, NEW l \in Lookups, LookupPageFails(l) PROVE IInv'
<1>1. /\ UNCHANGED <<listing, default, sku, seed, carried, edits, requests>>
      /\ faults' \in 0..MaxFaults /\ requests' \in 0..MaxRequests /\ Answer(l, "upstream")
  BY FaultTypes DEF LookupPageFails, IInv, TypeOK
<1>2. Table' /\ Grows
  BY <1>1, TableKept
<1> QED  BY <1>1, <1>2, ProductsAssumption, Answers

LEMMA LookupFindInv == ASSUME IInv, NEW l \in Lookups, LookupFind(l) PROVE IInv'
<1>1. PICK old \in LookupRuns : old = lookup[l] /\ old.pc = "find" /\ LookupOK(old)
  BY LookupTypes DEF LookupFind
<1>2. old.hit \in Products
  BY <1>1 DEF LookupOK
<1>3. PICK exists \in BOOLEAN : exists = sku[old.hit].stored
  BY <1>2, Zenon DEF IInv, TypeOK
<1>4. PICK k : k = [old EXCEPT !.pc = "write", !.exists = exists]
  OBVIOUS
<1>5. /\ k \in LookupRuns /\ k.pc = "write" /\ k.hit = old.hit /\ k.barcode = old.barcode
      /\ k.answer = old.answer
  BY <1>4 DEF LookupRuns
<1>6. LookupOK(k)
  BY <1>1, <1>5 DEF LookupOK
<1>7. /\ UNCHANGED <<listing, default, sku, seed, carried, faults, edits, requests>>
      /\ lookup' = [lookup EXCEPT ![l] = k]
  BY <1>1, <1>3, <1>4 DEF LookupFind
<1>8. Table' /\ Grows /\ AtRest
  BY <1>7, TableKept DEF AtRest
<1>9. LookupOK(k)'
  BY <1>6, <1>8, LookupKept
<1> QED  BY <1>5, <1>7, <1>8, <1>9, LookupMoves DEF IInv, TypeOK

(* What is stored and answered is what the page showed.                      *)
LEMMA LookupWriteInv == ASSUME IInv, NEW l \in Lookups, LookupWrite(l) PROVE IInv'
<1>1. PICK p \in Products, b \in Barcodes :
        p = lookup[l].hit /\ b = lookup[l].barcode /\ <<p, b>> \in carried
  BY LookupTypes DEF LookupWrite, LookupOK
<1>2. /\ UNCHANGED <<listing, default, seed, carried, faults, edits, requests>>
      /\ faults' \in 0..MaxFaults /\ requests' \in 0..MaxRequests
  BY DEF LookupWrite, IInv, TypeOK
<1>3. CASE Answer(l, "error") /\ UNCHANGED sku
  BY <1>2, <1>3, ProductsAssumption, TableKept, Answers
<1>4. CASE Answer(l, p) /\ sku' = [sku EXCEPT ![p] = Row(b, p)]
  <2>1. Table' /\ Grows
    BY <1>1, <1>2, <1>4, StoreRow
  <2> QED  BY <1>1, <1>2, <1>4, <2>1, Answers
<1> QED  BY <1>1, <1>3, <1>4 DEF LookupWrite

-----------------------------------------------------------------------------
(* CartonCloud's own users: what is assumed of a catalogue at rest goes.     *)
LEMMA EditInv ==
    ASSUME IInv, edits' = edits + 1, edits < MaxEdits, Table', Grows, listing' \in Seq(Products),
           default' \in [Products -> Barcodes \cup {NoBarcode}],
           carried' \subseteq Products \X Barcodes,
           \A p \in Products : \A b \in UomBarcodes(p)' : <<p, b>> \in carried',
           UNCHANGED <<sku, seed, lookup, faults, requests>>
    PROVE  IInv'
<1>1. edits' \in 0..MaxEdits /\ edits' # 0
  BY BoundsAssumption DEF IInv, TypeOK
<1>2. AtRest
  BY <1>1 DEF AtRest
<1>3. TypeOK'
  BY <1>1 DEF IInv, TypeOK, Table
<1>4. Barcoded' /\ Unedited'
  BY <1>1 DEF Barcoded, Unedited, Table
<1>5. ASSUME NEW r \in Seeds PROVE SeedOK(seed[r])'
  <2>1. PICK m \in SeedRuns : m = seed[r]
    BY DEF IInv, TypeOK
  <2>2. SeedOK(m)'
    BY <1>2, <2>1, SeedKept DEF IInv
  <2> QED  BY <2>1, <2>2 DEF SeedOK, Progress
<1>6. ASSUME NEW l \in Lookups PROVE LookupOK(lookup[l])'
  <2>1. PICK k : k = lookup[l]
    OBVIOUS
  <2>2. LookupOK(k)'
    BY <1>2, <2>1, LookupKept DEF IInv
  <2> QED  BY <2>1, <2>2 DEF LookupOK
<1> QED  BY <1>3, <1>4, <1>5, <1>6 DEF IInv

LEMMA RebarcodeInv ==
    ASSUME IInv, NEW p \in Products, NEW b \in Barcodes, Rebarcode(p, b)
    PROVE  IInv'
<1>1. /\ default' = [default EXCEPT ![p] = b] /\ carried' = carried \cup {<<p, b>>}
      /\ UNCHANGED <<listing, sku, seed, lookup, faults, requests>>
      /\ edits' = edits + 1 /\ edits < MaxEdits
  BY DEF Rebarcode
<1>2. default' \in [Products -> Barcodes \cup {NoBarcode}]
  BY <1>1 DEF IInv, TypeOK
<1>3. \A q \in Products : \A c \in UomBarcodes(q)' : <<q, c>> \in carried'
  BY <1>1 DEF IInv, TypeOK, Barcoded, UomBarcodes
<1>4. Table' /\ Grows
  BY <1>1 DEF IInv, TypeOK, Barcoded, Table, Grows
<1>5. carried' \subseteq Products \X Barcodes /\ listing' \in Seq(Products)
  BY <1>1 DEF IInv, TypeOK
<1> QED  BY <1>1, <1>2, <1>3, <1>4, <1>5, EditInv

LEMMA DeactivateInv ==
    ASSUME IInv, NEW i \in DOMAIN listing, Deactivate(i)
    PROVE  IInv'
<1>1. /\ listing' = SubSeq(listing, 1, i - 1) \o SubSeq(listing, i + 1, Len(listing))
      /\ UNCHANGED <<default, sku, seed, lookup, carried, faults, requests>>
      /\ edits' = edits + 1 /\ edits < MaxEdits
  BY DEF Deactivate
<1>2. listing \in Seq(Products) /\ DOMAIN listing = 1..Len(listing) /\ Len(listing) \in Nat
  BY LenProperties DEF IInv, TypeOK
<1>3. listing' \in Seq(Products)
  <2>1. \A j \in 1..Len(listing) : listing[j] \in Products
    BY <1>2, ElementOfSeq
  <2>2. SubSeq(listing, 1, i - 1) \in Seq(Products)
    BY <1>2, <2>1, SubSeqProperties
  <2>3. SubSeq(listing, i + 1, Len(listing)) \in Seq(Products)
    BY <1>2, <2>1, SubSeqProperties
  <2> QED  BY <1>1, <2>2, <2>3, ConcatProperties
<1>4. \A q \in Products : \A c \in UomBarcodes(q)' : <<q, c>> \in carried'
  BY <1>1 DEF IInv, Barcoded, UomBarcodes
<1>5. Table' /\ Grows
  BY <1>1, TableKept
<1> QED  BY <1>1, <1>3, <1>4, <1>5, EditInv DEF IInv, TypeOK
-----------------------------------------------------------------------------
LEMMA StutterInv == IInv /\ UNCHANGED vars => IInv'
<1> SUFFICES ASSUME IInv, UNCHANGED vars PROVE IInv'
  OBVIOUS
<1>1. UNCHANGED <<listing, default, sku, seed, lookup, carried, faults, edits, requests>>
  BY DEF vars
<1>2. AtRest /\ Grows
  BY <1>1 DEF AtRest, Grows
<1>3. TypeOK' /\ Barcoded' /\ Unedited'
  BY <1>1 DEF IInv, TypeOK, Barcoded, Unedited, UomBarcodes
<1>4. ASSUME NEW r \in Seeds PROVE SeedOK(seed[r])'
  <2>1. PICK m \in SeedRuns : m = seed[r]
    BY DEF IInv, TypeOK
  <2>2. SeedOK(m)'
    BY <1>2, <2>1, SeedKept DEF IInv
  <2> QED  BY <1>1, <2>1, <2>2 DEF SeedOK, Progress
<1>5. ASSUME NEW l \in Lookups PROVE LookupOK(lookup[l])'
  <2>1. PICK k : k = lookup[l]
    OBVIOUS
  <2>2. LookupOK(k)'
    BY <1>2, <2>1, LookupKept DEF IInv
  <2> QED  BY <1>1, <2>1, <2>2 DEF LookupOK
<1> QED  BY <1>3, <1>4, <1>5 DEF IInv

LEMMA StepInv == IInv /\ [Next]_vars => IInv'
<1> SUFFICES ASSUME IInv, [Next]_vars PROVE IInv'
  OBVIOUS
<1>1. ASSUME NEW r \in Seeds, SeedStart(r) \/ SeedStep(r) PROVE IInv'
  BY <1>1, SeedStartInv, SeedPageInv, SeedPageFailsInv, SeedUpsertInv, SeedNextInv DEF SeedStep
<1>2. ASSUME NEW l \in Lookups, LookupStep(l) \/ \E b \in Barcodes : LookupStart(l, b)
      PROVE  IInv'
  BY <1>2, LookupStartInv, LookupDbInv, LookupPageInv, LookupPageFailsInv, LookupFindInv,
     LookupWriteInv DEF LookupStep
<1> QED  BY <1>1, <1>2, StutterInv, RebarcodeInv, DeactivateInv DEF Next

THEOREM Invariance == Spec => []IInv
  BY InitInv, StepInv, PTL DEF Spec

(* The catalogue, the table, the seeds and the lookups have their types; a   *)
(* row with a barcode is stored, a page is stored before the next is read.   *)
THEOREM TypeCorrect == Spec => []TypeOK
<1>1. IInv => TypeOK
  BY DEF IInv
<1> QED  BY <1>1, Invariance, PTL

(* getSkuByBarcode answers a product only if CartonCloud's product carried   *)
(* the barcode, whatever seeds, lookups and edits came in between.           *)
THEOREM AnswersCarry == Spec => []AnswersCarryTheBarcode
<1>1. IInv => AnswersCarryTheBarcode
  BY DEF IInv, AnswersCarryTheBarcode, LookupOK
<1> QED  BY <1>1, Invariance, PTL

(* seedSkus reports as fetched what it stored and what it skipped.           *)
THEOREM SeedReportAddsUp == Spec => []ReportAddsUp
<1>1. IInv => ReportAddsUp
  <2> SUFFICES ASSUME IInv, NEW r \in Seeds, seed[r].pc = "done"
               PROVE  /\ seed[r].fetched = seed[r].upserted + seed[r].skipped
                      /\ seed[r].ccDimsPresent <= seed[r].upserted
    BY DEF ReportAddsUp
  <2>1. seed[r] \in SeedRuns /\ seed[r].todo = <<>> /\ SeedOK(seed[r])
    BY DEF IInv, TypeOK
  <2>2. Len(seed[r].todo) = 0
    BY <2>1, EmptySeq
  <2>3. seed[r].upserted \in Nat /\ seed[r].skipped \in Nat
    BY <2>1 DEF SeedRuns
  <2> QED  BY <2>1, <2>2, <2>3 DEF SeedOK
<1> QED  BY <1>1, Invariance, PTL

(* A seed that finishes while CartonCloud is at rest has stored every        *)
(* product with an id, page after page, whatever ran beside it.              *)
THEOREM SeedIsComplete == Spec => []SeedStoresAll
<1>1. IInv => SeedStoresAll
  <2> SUFFICES ASSUME IInv, edits = 0, NEW r \in Seeds, seed[r].pc = "done"
               PROVE  /\ \A i \in DOMAIN listing :
                           listing[i] \notin NoId => sku[listing[i]].stored
                      /\ seed[r].upserted =
                           Cardinality({i \in DOMAIN listing : listing[i] \notin NoId})
    BY DEF SeedStoresAll
  <2>1. seed[r] \in SeedRuns /\ seed[r].todo = <<>> /\ Progress(seed[r])
    BY DEF IInv, TypeOK, SeedOK
  <2>2. Len(seed[r].todo) = 0
    BY <2>1, EmptySeq
  <2>3. Len(listing) \in Nat /\ DOMAIN listing = 1..Len(listing)
    BY LenProperties DEF IInv, TypeOK
  <2>4. seed[r].fetched - Len(seed[r].todo) = Len(listing)
    BY <2>1, <2>2, <2>3 DEF Progress
  <2>5. Wanted(Len(listing)) = {i \in DOMAIN listing : listing[i] \notin NoId}
    BY <2>3 DEF Wanted
  <2>6. /\ seed[r].upserted = Cardinality(Wanted(Len(listing)))
        /\ \A i \in Wanted(Len(listing)) : sku[listing[i]].stored
    BY <2>1, <2>4 DEF Progress
  <2> QED  BY <2>5, <2>6
<1> QED  BY <1>1, Invariance, PTL

(* No product without an id carries a barcode that one with an id carries:   *)
(* the search stops at the first product with the barcode, and getSku-       *)
(* ByBarcode answers 404 if that one has no id.                              *)
Unshared ==
    \A p \in NoId, q \in Products \ NoId, b \in Barcodes :
        ~(b \in Other[p] \cup {Default[p]} /\ b \in Other[q] \cup {Default[q]})

LEMMA NotFoundStep ==
    ASSUME Unshared, IInv, NEW l \in Lookups, [Next]_vars,
           lookup[l].pc # "idle", lookup'[l].pc = "idle", lookup'[l].answer = "none", edits = 0,
           NEW i \in 1..Len(listing), listing[i] \notin NoId
    PROVE  lookup[l].barcode \notin UomBarcodes(listing[i])
<1>1. lookup[l].pc = "page" /\ LookupPage(l)
  <2>1. ASSUME NEW q \in Lookups, LookupStep(q) \/ \E b \in Barcodes : LookupStart(q, b)
        PROVE  LookupStep(l)
    <3>1. q # l => lookup'[l] = lookup[l]
      BY <2>1 DEF LookupStep, LookupStart, LookupDb, LookupPage, LookupPageFails, LookupFind,
                  LookupWrite, NotHere, Answer, IInv, TypeOK
    <3>2. ~\E b \in Barcodes : LookupStart(l, b)
      BY DEF LookupStart
    <3> QED  BY <2>1, <3>1, <3>2
  <2>2. LookupStep(l)
    BY <2>1 DEF Next, vars, SeedStart, SeedStep, SeedPage, SeedPageFails, SeedUpsert, SeedNext,
                AfterPage, Rebarcode, Deactivate
  <2>3. ~(LookupDb(l) \/ LookupPageFails(l) \/ LookupFind(l) \/ LookupWrite(l))
    <3>1. lookup[l] \in LookupRuns /\ lookup \in [Lookups -> LookupRuns]
      BY DEF IInv, TypeOK
    <3>2. ASSUME NEW a, Answer(l, a) PROVE lookup'[l].answer = a
      BY <3>1, <3>2 DEF Answer, LookupRuns
    <3>3. ~LookupDb(l)
      <4>1. lookup' # [lookup EXCEPT ![l].pc = "page"]
        BY <3>1 DEF LookupRuns
      <4> QED  BY <3>2, <4>1, ProductsAssumption DEF LookupDb
    <3>4. ~LookupPageFails(l)
      BY <3>2 DEF LookupPageFails
    <3>5. ~LookupFind(l)
      <4>1. PICK old \in LookupRuns : old = lookup[l]
        BY <3>1
      <4>2. ASSUME NEW e PROVE [old EXCEPT !.pc = "write", !.exists = e].pc = "write"
        BY DEF LookupRuns
      <4>3. LookupFind(l) => \E e : lookup'[l] = [old EXCEPT !.pc = "write", !.exists = e]
        BY <3>1, <4>1 DEF LookupFind
      <4> QED  BY <4>2, <4>3
    <3>6. ~LookupWrite(l)
      BY <3>2, ProductsAssumption, LookupTypes DEF LookupWrite, LookupOK
    <3> QED  BY <3>3, <3>4, <3>5, <3>6
  <2> QED  BY <2>2, <2>3 DEF LookupStep, LookupPage
<1>2. PICK products : products = Page(lookup[l].page)
  OBVIOUS
<1>3. CASE NotHere(l, products)
  <2>1. Carriers(l, products) = {} /\ Len(products) < PageSize
    <3>1. lookup' # [lookup EXCEPT ![l].page = @ + 1]
      BY <1>1 DEF IInv, TypeOK, LookupRuns
    <3> QED  BY <1>3, <3>1 DEF NotHere
  <2> QED  BY <1>1, <1>2, <2>1, Searched
<1>4. CASE Carriers(l, products) # {} /\
           products[CHOOSE c \in Carriers(l, products) :
                      \A j \in Carriers(l, products) : c <= j] \in NoId
  <2>1. products \in Seq(Products)
    BY <1>1, <1>2, Searched
  <2>2. PICK p \in NoId : lookup[l].barcode \in UomBarcodes(p)
    BY <1>4, <2>1, FirstHit
  <2>3. /\ lookup[l].barcode \in Barcodes /\ default = Default
        /\ p \in Products /\ listing[i] \in Products \ NoId
    BY LookupTypes, ProductsAssumption, ElementOfSeq DEF IInv, Unedited, LookupOK, TypeOK
  <2> QED  BY <2>2, <2>3 DEF Unshared, UomBarcodes
<1>5. ASSUME NEW first, first \notin NoId,
             lookup' = [lookup EXCEPT ![l].pc = "find", ![l].hit = first]
      PROVE  FALSE
  BY <1>1, <1>5 DEF IInv, TypeOK, LookupRuns
<1> QED  BY <1>1, <1>2, <1>3, <1>4, <1>5, Zenon DEF LookupPage

(* getSkuByBarcode answers 404 over a catalogue at rest only if no listed    *)
(* product carries the barcode, if barcodes are not shared with products     *)
(* that lack an id.                                                          *)
THEOREM NotFoundIsUnknown == ASSUME Unshared PROVE Spec => NotFoundMeansUnknown
<1>1. ASSUME IInv, [Next]_vars
      PROVE  [\A l \in Lookups : lookup[l].pc # "idle" /\ lookup'[l].pc = "idle" /\ lookup'[l].answer = "none" /\ edits = 0 =>
                \A i \in DOMAIN listing :
                    listing[i] \notin NoId => lookup[l].barcode \notin UomBarcodes(listing[i])]_vars
  <2>1. DOMAIN listing = 1..Len(listing)
    BY <1>1, LenProperties DEF IInv, TypeOK
  <2> QED  BY <1>1, <2>1, NotFoundStep
<1> QED  BY <1>1, Invariance, PTL DEF Spec, NotFoundMeansUnknown

-----------------------------------------------------------------------------
(* Seeds that conflict.                                                      *)

(* No two products with an id share a barcode.                               *)
Exclusive ==
    \A p, q \in Products \ NoId, b \in Barcodes :
        b \in Other[p] \cup {Default[p]} /\ b \in Other[q] \cup {Default[q]} => p = q

(* While nothing is edited, what CartonCloud ever carried is what it carried *)
(* at first.  Only products with an id have a row.                           *)
Original ==
    /\ edits = 0 => \A p \in Products, b \in Barcodes :
                      <<p, b>> \in carried => b \in Other[p] \cup {Default[p]}
    /\ \A p \in NoId : ~sku[p].stored

LEMMA OriginalInit == Init => Original
  BY ProductsAssumption DEF Init, Original, UomBarcodes, NoRow

LEMMA OriginalStep == IInv /\ Original /\ [Next]_vars => Original'
<1> SUFFICES ASSUME IInv, Original, [Next]_vars PROVE Original'
  OBVIOUS
<1>1. /\ sku \in [Products -> [barcode : Barcodes \cup {NoBarcode}, ccDims : BOOLEAN,
                              stored : BOOLEAN]]
      /\ edits \in Nat /\ NoId \subseteq Products
  BY BoundsAssumption, ProductsAssumption DEF IInv, TypeOK
<1>2. ASSUME NEW p \in Products \ NoId, NEW b, sku' = [sku EXCEPT ![p] = Row(b, p)],
             UNCHANGED <<carried, edits>>
      PROVE  Original'
  BY <1>1, <1>2 DEF Original
<1>3. ASSUME NEW r \in Seeds, SeedUpsert(r) PROVE Original'
  <2>1. CASE UNCHANGED sku
    BY <1>3, <2>1 DEF SeedUpsert, Original
  <2>2. CASE SeedStore(r)
    <3>1. Upcoming(r).id \in Products
      BY <1>3, UpcomingFacts DEF SeedUpsert
    <3> QED  BY <1>2, <1>3, <2>2, <3>1 DEF SeedUpsert, SeedStore
  <2> QED  BY <1>3, <2>1, <2>2 DEF SeedUpsert, SeedSkip, SeedConflict
<1>4. ASSUME NEW l \in Lookups, LookupWrite(l) PROVE Original'
  <2>1. lookup[l].hit \in Products \ NoId
    BY <1>4 DEF LookupWrite, IInv, LookupOK
  <2>2. CASE UNCHANGED sku
    BY <1>4, <2>2 DEF LookupWrite, Original
  <2>3. CASE sku' = [sku EXCEPT ![lookup[l].hit] = Row(lookup[l].barcode, lookup[l].hit)]
    BY <1>2, <1>4, <2>1, <2>3 DEF LookupWrite
  <2> QED  BY <1>4, <2>2, <2>3 DEF LookupWrite
<1>5. CASE edits' = edits + 1 /\ UNCHANGED sku
  BY <1>1, <1>5 DEF Original
<1>6. CASE UNCHANGED <<sku, carried, edits>>
  BY <1>6 DEF Original
<1>7. \/ \E r \in Seeds : SeedUpsert(r)
      \/ \E l \in Lookups : LookupWrite(l)
      \/ edits' = edits + 1 /\ UNCHANGED sku
      \/ UNCHANGED <<sku, carried, edits>>
  BY DEF Next, vars, SeedStart, SeedStep, SeedPage, SeedPageFails, SeedNext, AfterPage, LookupStart,
         LookupStep, LookupDb, LookupPage, LookupPageFails, LookupFind, Rebarcode, Deactivate
<1> QED  BY <1>3, <1>4, <1>5, <1>6, <1>7

(* The rows a seed and the lookups have written stand in its way only with a *)
(* barcode that CartonCloud has moved.                                       *)
LEMMA NoConflict ==
    ASSUME Exclusive, IInv, Original, edits = 0, NEW r \in Seeds,
           seed[r].pc = "upsert", seed[r].todo # <<>>
    PROVE  ~SeedConflict(r)
<1>1. PICK p, b : p = Upcoming(r).id /\ b = Upcoming(r).barcode
  OBVIOUS
<1>2. p \in Products /\ b \in Barcodes \cup {NoBarcode} /\ (b # NoBarcode => <<p, b>> \in carried)
  BY <1>1, UpcomingFacts
<1>3. SUFFICES ASSUME p \notin NoId, b # NoBarcode,
                      NEW q \in Products \ {p}, sku[q].barcode = b
               PROVE  FALSE
  BY <1>1 DEF SeedConflict, Taken
<1>4. <<q, b>> \in carried /\ sku[q].stored
  BY <1>3 DEF IInv, Barcoded, TypeOK
<1>5. q \notin NoId
  BY <1>4 DEF Original
<1> QED  BY <1>2, <1>3, <1>4, <1>5 DEF Original, Exclusive

LEMMA EditsCounted == [Next]_vars => edits' = edits \/ edits' = edits + 1
  BY DEF Next, vars, SeedStart, SeedStep, SeedPage, SeedPageFails, SeedUpsert, SeedNext,
         AfterPage, LookupStart, LookupStep, LookupDb, LookupPage, LookupPageFails, LookupFind,
         LookupWrite, Rebarcode, Deactivate

(* While nothing is edited, no step has a seed fail.                         *)
LEMMA FailStep ==
    ASSUME Exclusive, IInv, Original, [Next]_vars, edits' = 0, NEW r \in Seeds,
           seed[r].pc # "failed"
    PROVE  seed'[r].pc # "failed"
<1>1. edits = 0 /\ seed \in [Seeds -> SeedRuns] /\ seed[r] \in SeedRuns
  <2>1. edits \in Nat
    BY BoundsAssumption DEF IInv, TypeOK
  <2> QED  BY <2>1, EditsCounted DEF IInv, TypeOK
<1>2. CASE seed' = seed
  BY <1>2
<1>3. ASSUME NEW q \in Seeds, SeedStart(q) PROVE seed'[r].pc # "failed"
  <2>1. [NoSeed EXCEPT !.pc = "page"].pc = "page"
    BY DEF NoSeed
  <2> QED  BY <1>1, <1>3, <2>1 DEF SeedStart
<1>4. ASSUME NEW q \in Seeds, SeedPage(q) PROVE seed'[r].pc # "failed"
  BY <1>1, <1>4 DEF SeedPage, SeedRuns
<1>5. ASSUME NEW q \in Seeds, SeedPageFails(q) \/ SeedNext(q) PROVE seed'[r].pc # "failed"
  <2>1. PICK old \in SeedRuns : old = seed[q]
    BY <1>1
  <2>2. PICK ended, stopped, turned : /\ ended = [old EXCEPT !.pc = "done"]
                                      /\ stopped = [old EXCEPT !.pc = "refused"]
                                      /\ turned = [old EXCEPT !.pc = "page", !.page = @ + 1]
    OBVIOUS
  <2>3. ended.pc = "done" /\ stopped.pc = "refused" /\ turned.pc = "page"
    BY <2>2 DEF SeedRuns
  <2>4. \/ seed' = [seed EXCEPT ![q] = ended]
        \/ seed' = [seed EXCEPT ![q] = stopped]
        \/ seed' = [seed EXCEPT ![q] = turned]
    BY <1>1, <1>5, <2>1, <2>2 DEF SeedPageFails, SeedNext, AfterPage
  <2> QED  BY <1>1, <2>3, <2>4
<1>6. ASSUME NEW q \in Seeds, SeedUpsert(q) PROVE seed'[r].pc # "failed"
  <2>1. SeedSkip(q) \/ SeedStore(q)
    BY <1>1, <1>6, NoConflict DEF SeedUpsert
  <2>2. \E m : seed' = [seed EXCEPT ![q] = m] /\ m.pc = seed[q].pc
    <3>1. PICK old \in SeedRuns : old = seed[q]
      BY <1>1
    <3>2. ASSUME NEW t, NEW u, NEW d
          PROVE  [old EXCEPT !.todo = t, !.upserted = u, !.ccDimsPresent = d].pc = old.pc
      BY DEF SeedRuns
    <3>3. ASSUME NEW t, NEW u PROVE [old EXCEPT !.todo = t, !.skipped = u].pc = old.pc
      BY DEF SeedRuns
    <3>4. CASE SeedSkip(q)
      <4>1. PICK m : m = [old EXCEPT !.todo = Tail(old.todo), !.skipped = old.skipped + 1]
        OBVIOUS
      <4>2. m.pc = old.pc
        BY <3>3, <4>1
      <4>3. seed' = [seed EXCEPT ![q] = m]
        BY <1>1, <3>1, <3>4, <4>1 DEF SeedSkip
      <4> QED  BY <3>1, <4>2, <4>3
    <3>5. CASE SeedStore(q)
      <4>1. PICK d : d = old.ccDimsPresent + (IF Upcoming(q).id \in WithDims THEN 1 ELSE 0)
        OBVIOUS
      <4>2. PICK m : m = [old EXCEPT !.todo = Tail(old.todo), !.upserted = old.upserted + 1,
                                     !.ccDimsPresent = d]
        OBVIOUS
      <4>3. m.pc = old.pc
        BY <3>2, <4>2
      <4>4. seed' = [seed EXCEPT ![q] = m]
        BY <1>1, <3>1, <3>5, <4>1, <4>2 DEF SeedStore
      <4> QED  BY <3>1, <4>3, <4>4
    <3> QED  BY <2>1, <3>4, <3>5
  <2> QED  BY <1>1, <1>6, <2>2 DEF SeedUpsert
<1> QED  BY <1>2, <1>3, <1>4, <1>5, <1>6
         DEF Next, vars, SeedStep, LookupStart, LookupStep, LookupDb, LookupPage,
             LookupPageFails, LookupFind, LookupWrite, Rebarcode, Deactivate

(* "Idempotent; safe to re-run" holds of seedSkus, beside any other seeds    *)
(* and lookups, while no barcode moves in CartonCloud: a seed meets P2002    *)
(* only over an edit, if no two products with an id share a barcode.         *)
THEOREM ConflictsAreEdits ==
    ASSUME Exclusive PROVE Spec => [](edits = 0 => SeedFailsUpstreamOnly)
<1> DEFINE Unfailed == edits = 0 => SeedFailsUpstreamOnly
<1>1. Init => Unfailed
  BY DEF Init, NoSeed, SeedFailsUpstreamOnly
<1>2. IInv /\ Original /\ Unfailed /\ [Next]_vars => Unfailed'
  <2> SUFFICES ASSUME IInv, Original, Unfailed, [Next]_vars, edits' = 0, NEW r \in Seeds
               PROVE  seed'[r].pc # "failed"
    BY DEF SeedFailsUpstreamOnly
  <2>1. edits = 0
    <3>1. edits \in Nat
      BY BoundsAssumption DEF IInv, TypeOK
    <3> QED  BY <3>1, EditsCounted
  <2> QED  BY <2>1, FailStep DEF SeedFailsUpstreamOnly
<1> QED  BY <1>1, <1>2, OriginalInit, OriginalStep, Invariance, PTL DEF Spec
=============================================================================
