--------------------------- MODULE FloorFlowProofs ---------------------------
(* Proofs about FloorFlow, for any number of barcodes, saves and moves.      *)
EXTENDS FloorFlow, TLAPS

Router == {url, screen} \subseteq Routes /\ done \in BOOLEAN /\ moves \in 0..MaxMoves

(* The lookup that counts, and the SKU it gave, are of the barcode on the    *)
(* screen; other screens have neither.                                       *)
Cards ==
    /\ lookups \subseteq [code : Barcodes, current : BOOLEAN]
    /\ \A l \in lookups : l.current => l.code = screen
    /\ sku \in Barcodes \cup {None}
    /\ sku # None => sku = screen
    /\ camera \in {"closed", "open", "busy", "broken"}

(* A camera runs, or is to be used once granted, only where it is on the     *)
(* screen.                                                                   *)
Cameras ==
    /\ streams \subseteq [at : {"scan", "photo"}, live : BOOLEAN, mounted : BOOLEAN]
    /\ \A s \in streams :
         s.live \/ s.mounted => IF s.at = "scan" THEN screen = "scan" ELSE Overlay

(* What a measurement, a photo or a frame is of.                             *)
OfScreen(c) == c = Nothing \/ c.of = screen \/ c.kept

Boxes ==
    /\ {fields, photo} \subseteq Carton
    /\ shots \subseteq [frame : Carton, mine : BOOLEAN]
    /\ OfScreen(fields) /\ OfScreen(photo)
    /\ \A s \in shots : OfScreen(s.frame)

SaveRecords ==
    [pc : {"free", "post", "photo", "queue", "saved", "queued", "failed", "lost"},
     sku : Barcodes \cup {None}, dims : Carton, pic : Carton, mine : BOOLEAN]

(* A save posts under the SKU that its measurements and its photo are of.    *)
Posts ==
    /\ saving \in BOOLEAN
    /\ save \in [Saves -> SaveRecords]
    /\ wire \in [Saves -> {"none", "sent", "stored"}]
    /\ SavedForItsCarton
    /\ \A i \in Saves : /\ save[i].pc # "free" => save[i].sku \in Barcodes
                        /\ \/ save[i].pic = Nothing \/ save[i].pic.kept
                           \/ save[i].pic.of = save[i].sku

(* Only a save that has a photo uploads, once it has been answered, and only *)
(* into the file of its own dim.                                             *)
Uploads ==
    /\ upload \in [Saves -> {"none", "sent", "open", "written", "named", "gone"}]
    /\ file \in [Barcodes -> SUBSET Saves] /\ named \subseteq Barcodes
    /\ \A i \in Saves : upload[i] # "none" =>
         save[i].pc \in {"photo", "saved"} /\ save[i].pic # Nothing
    /\ \A b \in Barcodes : \A i \in file[b] : save[i].sku = b /\ upload[i] # "none"

(* How far an upload has come while nothing has failed.                      *)
Attached ==
    faults = 0 => \A i \in Saves :
        /\ upload[i] # "gone"
        /\ save[i].pc = "saved" /\ save[i].pic # Nothing => upload[i] = "named"
        /\ upload[i] = "named" => save[i].sku \in named
        /\ upload[i] \in {"written", "named"} =>
             \/ file[save[i].sku] # {}
             \/ \E j \in Saves : upload[j] = "open" /\ save[j].sku = save[i].sku

Bounds == photos \in 0..MaxPhotos /\ faults \in 0..MaxFaults

IInv ==
    /\ Router /\ Cards /\ Cameras /\ Boxes
    /\ OneSavePerScreen /\ Posts /\ Uploads /\ Attached /\ Bounds

-----------------------------------------------------------------------------
(* Facts about the constants, cartons, cameras and saves.                    *)

LEMMA Constants ==
    /\ None \notin Barcodes /\ "scan" \notin Barcodes /\ "away" \notin Barcodes
    /\ MaxSaves \in Nat /\ MaxMoves \in Nat /\ MaxPhotos \in Nat /\ MaxFaults \in Nat
  BY NamesAssumption, BoundsAssumption

LEMMA FaultCounted == ASSUME Bounds, Fault PROVE faults' \in 0..MaxFaults /\ faults' # 0
  BY Constants DEF Bounds, Fault

LEMMA MoveCounted == ASSUME Router, Move PROVE moves' \in 0..MaxMoves
  BY Constants DEF Router, Move

LEMMA CartonTypes ==
    /\ Nothing \in Carton
    /\ \A b \in Barcodes : Of(b) \in Carton /\ Of(b).of = b
  BY DEF Nothing, Of, Carton

(* What stays while the barcode changes is marked, whatever it is of.        *)
LEMMA KeptMarks ==
    ASSUME NEW c \in Carton
    PROVE  Kept(c) \in Carton /\ (Kept(c) = Nothing \/ Kept(c).kept)
<1>1. Kept(c) = [of |-> c.of, kept |-> c.of # None]
  BY DEF Kept, Carton
<1>2. CASE c.of = None
  <2>1. Kept(c) = [of |-> None, kept |-> FALSE]
    BY <1>1, <1>2
  <2> QED  BY <2>1 DEF Carton, Nothing
<1>3. CASE c.of # None
  <2>1. Kept(c) = [of |-> c.of, kept |-> TRUE]
    BY <1>1, <1>3
  <2> QED  BY <2>1 DEF Carton
<1> QED  BY <1>2, <1>3

(* Unmounting leaves no camera of the kind that runs or waits for one.       *)
LEMMA ReleasedStreams ==
    ASSUME Cameras, NEW at
    PROVE  /\ Released(at) \subseteq [at : {"scan", "photo"}, live : BOOLEAN, mounted : BOOLEAN]
           /\ \A s \in Released(at) :
                s.live \/ s.mounted => s \in streams /\ s.at # at
<1> DEFINE Gone(r) == [r EXCEPT !.mounted = FALSE]
<1>1. ASSUME NEW s \in Released(at)
      PROVE  \/ s \in streams /\ s.at # at
             \/ \E r \in streams : s = Gone(r) /\ r.at = at /\ ~r.live
  BY <1>1 DEF Released
<1>2. ASSUME NEW r \in streams
      PROVE  /\ Gone(r) \in [at : {"scan", "photo"}, live : BOOLEAN, mounted : BOOLEAN]
             /\ Gone(r).live = r.live /\ Gone(r).mounted = FALSE
  BY <1>2 DEF Cameras
<1> HIDE DEF Gone
<1>3. ASSUME NEW s \in Released(at)
      PROVE  /\ s \in [at : {"scan", "photo"}, live : BOOLEAN, mounted : BOOLEAN]
             /\ s.live \/ s.mounted => s \in streams /\ s.at # at
  <2>1. CASE s \in streams /\ s.at # at
    BY <2>1 DEF Cameras
  <2>2. CASE \E r \in streams : s = Gone(r) /\ r.at = at /\ ~r.live
    <3>1. PICK r \in streams : s = Gone(r) /\ ~r.live
      BY <2>2
    <3> QED  BY <1>2, <3>1
  <2> QED  BY <1>1, <1>3, <2>1, <2>2
<1> QED  BY <1>3

(* A save that moves on stays what it is.                                    *)
LEMMA SaveMoves ==
    ASSUME save \in [Saves -> SaveRecords], NEW i \in Saves,
           NEW how \in {"free", "post", "photo", "queue", "saved", "queued", "failed", "lost"},
           save' = [save EXCEPT ![i].pc = how]
    PROVE  /\ save' \in [Saves -> SaveRecords]
           /\ \A j \in Saves :
                /\ save'[j].sku = save[j].sku /\ save'[j].dims = save[j].dims
                /\ save'[j].pic = save[j].pic /\ save'[j].mine = save[j].mine
                /\ save'[j].pc = IF j = i THEN how ELSE save[j].pc
  BY DEF SaveRecords

(* As it does for the posts, and, unless it was refused, for its screen.     *)
LEMMA MovedPosts ==
    ASSUME Posts, OneSavePerScreen, NEW i \in Saves, save[i].pc # "free",
           NEW how \in {"photo", "queue", "saved", "queued", "lost"},
           save[i].pc # "failed",
           save' = [save EXCEPT ![i].pc = how], UNCHANGED <<wire, saving>>
    PROVE  Posts' /\ OneSavePerScreen'
<1>1. /\ save' \in [Saves -> SaveRecords]
      /\ \A j \in Saves :
           /\ save'[j].sku = save[j].sku /\ save'[j].dims = save[j].dims
           /\ save'[j].pic = save[j].pic /\ save'[j].mine = save[j].mine
           /\ save'[j].pc = IF j = i THEN how ELSE save[j].pc
  <2>1. how \in {"free", "post", "photo", "queue", "saved", "queued", "failed", "lost"}
    OBVIOUS
  <2>2. save \in [Saves -> SaveRecords]
    BY DEF Posts
  <2> QED  BY <2>1, <2>2 DEF SaveRecords
<1>2. \A j \in Saves : save'[j].pc = "failed" <=> save[j].pc = "failed"
  BY <1>1
<1>3. OneSavePerScreen'
  BY <1>1, <1>2 DEF OneSavePerScreen
<1>4. Posts'
  BY <1>1 DEF Posts, SavedForItsCarton
<1> QED  BY <1>3, <1>4

(* And for the uploads, while it is where its upload wants it.               *)
LEMMA MovedUploads ==
    ASSUME Posts, Uploads, NEW i \in Saves,
           NEW how \in {"photo", "queue", "saved", "queued", "failed", "lost"},
           how = "saved" \/ upload[i] = "none",
           save' = [save EXCEPT ![i].pc = how], UNCHANGED photoVars
    PROVE  Uploads'
<1>1. \A j \in Saves :
          /\ save'[j].sku = save[j].sku /\ save'[j].pic = save[j].pic
          /\ save'[j].pc = IF j = i THEN how ELSE save[j].pc
  BY SaveMoves DEF Posts
<1> QED  BY <1>1 DEF Uploads, photoVars

LEMMA MovedAttached ==
    ASSUME Posts, Uploads, Attached, NEW i \in Saves,
           NEW how \in {"photo", "queue", "saved", "queued", "failed", "lost"},
           how = "saved" => save[i].pic = Nothing \/ upload[i] = "named",
           save' = [save EXCEPT ![i].pc = how], UNCHANGED <<photoVars, faults>>
    PROVE  Attached'
<1>1. \A j \in Saves :
          /\ save'[j].sku = save[j].sku /\ save'[j].pic = save[j].pic
          /\ save'[j].pc = IF j = i THEN how ELSE save[j].pc
  BY SaveMoves DEF Posts
<1> QED  BY <1>1 DEF Attached, photoVars

-----------------------------------------------------------------------------
(* The invariant, one lemma per action.                                      *)

LEMMA InitInv == Init => IInv
<1> SUFFICES ASSUME Init PROVE IInv
  OBVIOUS
<1>1. Router /\ Cards
  <2>1. url \in Routes /\ screen \in Routes
    BY DEF Init, Routes
  <2>2. Cards
    BY Constants DEF Init, Cards
  <2>3. done \in BOOLEAN
    BY Zenon DEF Init
  <2>4. moves \in 0..MaxMoves
    BY Constants DEF Init
  <2> QED  BY <2>1, <2>2, <2>3, <2>4 DEF Router
<1>2. Cameras
  BY DEF Init, Cameras, Ask
<1>3. Boxes
  BY CartonTypes DEF Init, Boxes, OfScreen
<1>4. NoSave \in SaveRecords
  BY CartonTypes DEF NoSave, SaveRecords
<1>5. Posts
  BY <1>4 DEF Init, Posts, SavedForItsCarton, NoSave, Nothing
<1>6. OneSavePerScreen
  BY DEF Init, OneSavePerScreen, NoSave
<1>7. Uploads /\ Attached
  BY DEF Init, Uploads, Attached, NoSave
<1>8. Bounds
  BY Constants DEF Init, Bounds
<1> QED  BY <1>1, <1>2, <1>3, <1>5, <1>6, <1>7, <1>8 DEF IInv

LEMMA GrantInv ==
    ASSUME IInv, NEW s \in streams, Grant(s)
    PROVE  IInv'
<1>1. Cameras'
  <2>1. streams' \subseteq [at : {"scan", "photo"}, live : BOOLEAN, mounted : BOOLEAN]
    BY DEF IInv, Cameras, Grant
  <2>2. \A t \in streams' : t \in streams \/ (s.mounted /\ t.at = s.at)
    BY DEF IInv, Cameras, Grant
  <2> QED  BY <2>1, <2>2 DEF IInv, Cameras, Overlay, Grant, pageVars
<1>2. Router' /\ Cards' /\ Boxes' /\ OneSavePerScreen' /\ Posts' /\ Uploads' /\
      Attached' /\ Bounds'
  BY DEF IInv, Router, Cards, Boxes, OneSavePerScreen, Posts, Uploads,
        Attached, Bounds, OfScreen, SavedForItsCarton, Grant, pageVars,
        photoVars
<1> QED  BY <1>1, <1>2 DEF IInv

LEMMA DenyInv ==
    ASSUME IInv, NEW s \in streams, Deny(s)
    PROVE  IInv'
<1>1. Cards'
  BY DEF IInv, Cards, Deny
<1>2. Cameras'
  BY DEF IInv, Cameras, Overlay, Deny
<1>3. Router' /\ Boxes' /\ OneSavePerScreen' /\ Posts' /\ Uploads' /\ Attached'
      /\ Bounds'
  BY DEF IInv, Router, Boxes, OneSavePerScreen, Posts, Uploads, Attached,
        Bounds, OfScreen, SavedForItsCarton, Deny, photoVars
<1> QED  BY <1>1, <1>2, <1>3 DEF IInv

LEMMA ScanInv ==
    ASSUME IInv, NEW b \in Barcodes, Scan(b)
    PROVE  IInv'
<1>1. Router'
  BY MoveCounted DEF IInv, Router, Scan, Routes
<1>2. Cameras'
  BY DEF IInv, Cameras, Overlay, Scan, pageVars
<1>3. Cards' /\ Boxes' /\ OneSavePerScreen' /\ Posts' /\ Uploads' /\ Attached'
      /\ Bounds'
  BY DEF IInv, Cards, Boxes, OneSavePerScreen, Posts, Uploads, Attached,
        Bounds, OfScreen, SavedForItsCarton, Scan, pageVars, photoVars
<1> QED  BY <1>1, <1>2, <1>3 DEF IInv

LEMMA GoInv ==
    ASSUME IInv, NEW u \in Routes, Go(u)
    PROVE  IInv'
<1>1. Router'
  BY MoveCounted DEF IInv, Router, Go
<1>2. Cards' /\ Cameras' /\ Boxes' /\ OneSavePerScreen' /\ Posts' /\ Uploads'
      /\ Attached' /\ Bounds'
  BY DEF IInv, Cards, Cameras, Boxes, OneSavePerScreen, Posts, Uploads,
        Attached, Bounds, Overlay, OfScreen, SavedForItsCarton, Go, pageVars,
        photoVars
<1> QED  BY <1>1, <1>2 DEF IInv

LEMMA ResolveInv ==
    ASSUME IInv, NEW l \in lookups, Resolve(l)
    PROVE  IInv'
<1>1. Cards'
  BY DEF IInv, Cards, Resolve, Stale
<1>2. Cameras'
  <2>1. CASE UNCHANGED <<sku, streams>>
    BY <2>1 DEF IInv, Cameras, Overlay, Resolve
  <2>2. CASE ~Stale(l) /\ sku' = l.code
             /\ streams' = streams \cup {Ask("photo") : c \in {camera} \ {"closed"}}
    <3>1. sku' # None
      BY <2>2, Constants DEF IInv, Cards
    <3>2. \A s \in streams' : s \in streams \/ (s = Ask("photo") /\ camera # "closed")
      BY <2>2
    <3>3. Ask("photo") \in [at : {"scan", "photo"}, live : BOOLEAN, mounted : BOOLEAN]
          /\ Ask("photo").at = "photo"
      BY DEF Ask
    <3> QED  BY <3>1, <3>2, <3>3 DEF IInv, Cameras, Overlay, Resolve
  <2> QED  BY <2>1, <2>2 DEF Resolve
<1>3. Router' /\ Boxes' /\ OneSavePerScreen' /\ Posts' /\ Uploads' /\ Attached'
      /\ Bounds'
  BY DEF IInv, Router, Boxes, OneSavePerScreen, Posts, Uploads, Attached,
        Bounds, OfScreen, SavedForItsCarton, Resolve, photoVars
<1> QED  BY <1>1, <1>2, <1>3 DEF IInv

LEMMA FillInv ==
    ASSUME IInv, Fill
    PROVE  IInv'
<1>1. Boxes'
  BY CartonTypes DEF IInv, Boxes, OfScreen, Fill
<1>2. Router' /\ Cards' /\ Cameras' /\ OneSavePerScreen' /\ Posts' /\ Uploads'
      /\ Attached' /\ Bounds'
  BY DEF IInv, Router, Cards, Cameras, OneSavePerScreen, Posts, Uploads,
        Attached, Bounds, Overlay, SavedForItsCarton, Fill, photoVars
<1> QED  BY <1>1, <1>2 DEF IInv

LEMMA OpenCameraInv ==
    ASSUME IInv, OpenCamera
    PROVE  IInv'
<1>1. Cards'
  BY DEF IInv, Cards, OpenCamera
<1>2. Cameras'
  <2>1. \A s \in streams' : s \in streams \/ s = Ask("photo")
    BY DEF OpenCamera
  <2>2. Ask("photo") \in [at : {"scan", "photo"}, live : BOOLEAN, mounted : BOOLEAN]
        /\ Ask("photo").at = "photo"
    BY DEF Ask
  <2>3. Overlay' /\ UNCHANGED screen
    BY DEF OpenCamera, Overlay
  <2> QED  BY <2>1, <2>2, <2>3 DEF IInv, Cameras
<1>3. Bounds'
  BY Constants DEF IInv, Bounds, OpenCamera
<1>4. Router' /\ Boxes' /\ OneSavePerScreen' /\ Posts' /\ Uploads' /\ Attached'
  BY DEF IInv, Router, Boxes, OneSavePerScreen, Posts, Uploads, Attached,
        OfScreen, SavedForItsCarton, OpenCamera, photoVars
<1> QED  BY <1>1, <1>2, <1>3, <1>4 DEF IInv

LEMMA CloseCameraInv ==
    ASSUME IInv, CloseCamera
    PROVE  IInv'
<1>1. Cards'
  BY DEF IInv, Cards, CloseCamera
<1>2. Cameras'
  BY ReleasedStreams DEF IInv, Cameras, Overlay, CloseCamera
<1>3. Boxes'
  <2>1. \A t \in shots' : \E s \in shots : t = [s EXCEPT !.mine = FALSE]
    BY DEF CloseCamera, Unattended
  <2>2. \A s \in shots : /\ [s EXCEPT !.mine = FALSE] \in [frame : Carton, mine : BOOLEAN]
                         /\ [s EXCEPT !.mine = FALSE].frame = s.frame
    BY DEF IInv, Boxes
  <2> QED  BY <2>1, <2>2 DEF IInv, Boxes, OfScreen, CloseCamera
<1>4. Router' /\ OneSavePerScreen' /\ Posts' /\ Uploads' /\ Attached' /\
      Bounds'
  BY DEF IInv, Router, OneSavePerScreen, Posts, Uploads, Attached, Bounds,
        SavedForItsCarton, CloseCamera, photoVars
<1> QED  BY <1>1, <1>2, <1>3, <1>4 DEF IInv

LEMMA ShootInv ==
    ASSUME IInv, Shoot
    PROVE  IInv'
<1>1. Cards'
  BY DEF IInv, Cards, Shoot
<1>2. Cameras'
  BY DEF IInv, Cameras, Overlay, Shoot
<1>3. Boxes'
  <2>1. screen \in Barcodes
    BY DEF IInv, Cards, Overlay, Shoot
  <2>2. [frame |-> Of(screen), mine |-> TRUE] \in [frame : Carton, mine : BOOLEAN]
    BY <2>1, CartonTypes
  <2>3. OfScreen(Of(screen))'
    BY <2>1, CartonTypes DEF OfScreen, Shoot
  <2>4. \A s \in shots' : s \in shots \/ s = [frame |-> Of(screen), mine |-> TRUE]
    BY DEF Shoot
  <2>5. shots' \subseteq [frame : Carton, mine : BOOLEAN]
    BY <2>2, <2>4 DEF IInv, Boxes
  <2>6. \A s \in shots' : OfScreen(s.frame)'
    <3>1. \A s \in shots : OfScreen(s.frame)'
      BY DEF IInv, Boxes, OfScreen, Shoot
    <3>2. [frame |-> Of(screen), mine |-> TRUE].frame = Of(screen)
      OBVIOUS
    <3> QED  BY <2>1, <2>4, <3>1, <3>2, CartonTypes DEF OfScreen, Shoot
  <2> QED  BY <2>5, <2>6 DEF IInv, Boxes, OfScreen, Shoot
<1>4. Router' /\ OneSavePerScreen' /\ Posts' /\ Uploads' /\ Attached' /\
      Bounds'
  BY DEF IInv, Router, OneSavePerScreen, Posts, Uploads, Attached, Bounds,
        SavedForItsCarton, Shoot, photoVars
<1> QED  BY <1>1, <1>2, <1>3, <1>4 DEF IInv

LEMMA EncodedInv ==
    ASSUME IInv, NEW s \in shots, Encoded(s)
    PROVE  IInv'
<1>1. Cards'
  BY DEF IInv, Cards, Encoded
<1>2. Cameras'
  BY ReleasedStreams DEF IInv, Cameras, Overlay, Encoded
<1>3. Boxes'
  <2>1. \A t \in shots' : \E u \in shots : t = [u EXCEPT !.mine = FALSE]
    BY DEF Encoded
  <2>2. \A u \in shots : /\ [u EXCEPT !.mine = FALSE] \in [frame : Carton, mine : BOOLEAN]
                         /\ [u EXCEPT !.mine = FALSE].frame = u.frame
    BY DEF IInv, Boxes
  <2> QED  BY <2>1, <2>2 DEF IInv, Boxes, OfScreen, Encoded
<1>4. Router' /\ OneSavePerScreen' /\ Posts' /\ Uploads' /\ Attached' /\
      Bounds'
  BY DEF IInv, Router, OneSavePerScreen, Posts, Uploads, Attached, Bounds,
        SavedForItsCarton, Encoded, photoVars
<1> QED  BY <1>1, <1>2, <1>3, <1>4 DEF IInv

LEMMA EncodeFailsInv ==
    ASSUME IInv, NEW s \in shots, EncodeFails(s)
    PROVE  IInv'
<1>1. Cards'
  BY DEF IInv, Cards, EncodeFails
<1>2. Cameras'
  BY DEF IInv, Cameras, Overlay, EncodeFails
<1>3. Boxes'
  BY DEF IInv, Boxes, OfScreen, EncodeFails
<1>4. Attached'
  BY FaultCounted DEF IInv, Attached, EncodeFails, photoVars
<1>5. Bounds'
  BY FaultCounted DEF IInv, Bounds, EncodeFails
<1>6. Router' /\ OneSavePerScreen' /\ Posts' /\ Uploads'
  BY DEF IInv, Router, OneSavePerScreen, Posts, Uploads, SavedForItsCarton,
        EncodeFails, photoVars
<1> QED  BY <1>1, <1>2, <1>3, <1>4, <1>5, <1>6 DEF IInv

LEMMA SubmitInv ==
    ASSUME IInv, NEW i \in Saves, Submit(i)
    PROVE  IInv'
<1> DEFINE new == [pc |-> "post", sku |-> sku, dims |-> fields, pic |-> photo, mine |-> TRUE]
<1>1. sku \in Barcodes /\ sku = screen /\ fields # Nothing
  BY DEF IInv, Cards, Submit, Nothing
<1>2. new \in SaveRecords
  BY <1>1 DEF IInv, Boxes, SaveRecords
<1>3. \A j \in Saves : save'[j] = IF j = i THEN new ELSE save[j]
  BY DEF IInv, Posts, Submit
<1>4. upload[i] = "none" /\ \A b \in Barcodes : i \notin file[b]
  BY DEF IInv, Uploads, Submit
<1>5. Posts'
  <2>1. /\ saving' \in BOOLEAN /\ save' \in [Saves -> SaveRecords]
        /\ wire' \in [Saves -> {"none", "sent", "stored"}]
    BY <1>2 DEF IInv, Posts, Submit
  <2>2. fields.of = sku \/ fields.kept
    BY <1>1 DEF IInv, Boxes, OfScreen
  <2>3. photo = Nothing \/ photo.of = sku \/ photo.kept
    BY <1>1 DEF IInv, Boxes, OfScreen
  <2>4. SavedForItsCarton'
    BY <1>3, <2>2 DEF IInv, Posts, SavedForItsCarton
  <2> QED  BY <1>1, <1>3, <2>1, <2>3, <2>4 DEF IInv, Posts
<1>6. OneSavePerScreen'
  <2>1. \A j \in Saves : save[j].mine => save[j].pc = "failed"
    BY DEF IInv, OneSavePerScreen, Submit
  <2>2. saving' = TRUE /\ new.mine /\ new.pc # "failed"
    BY DEF Submit
  <2> QED  BY <1>3, <2>1, <2>2 DEF OneSavePerScreen
<1>7. Uploads'
  BY <1>3, <1>4 DEF IInv, Uploads, Submit, photoVars
<1>8. Attached'
  BY <1>3, <1>4 DEF IInv, Attached, Submit, photoVars
<1>9. Router' /\ Cards' /\ Cameras' /\ Boxes' /\ Bounds'
  BY DEF IInv, Router, Cards, Cameras, Overlay, Boxes, OfScreen, Bounds, Submit
<1> QED  BY <1>5, <1>6, <1>7, <1>8, <1>9 DEF IInv

LEMMA StoreInv ==
    ASSUME IInv, NEW i \in Saves, Store(i)
    PROVE  IInv'
<1>1. Posts'
  BY DEF IInv, Posts, SavedForItsCarton, Store, pageVars
<1>2. Router' /\ Cards' /\ Cameras' /\ Boxes' /\ OneSavePerScreen' /\ Uploads'
      /\ Attached' /\ Bounds'
  BY DEF IInv, Router, Cards, Cameras, Boxes, OneSavePerScreen, Uploads,
        Attached, Bounds, Overlay, OfScreen, Store, pageVars, photoVars
<1> QED  BY <1>1, <1>2 DEF IInv

LEMMA SavedInv ==
    ASSUME IInv, NEW i \in Saves, Saved(i)
    PROVE  IInv'
<1>1. PICK how \in {"photo", "saved"} :
          /\ save' = [save EXCEPT ![i].pc = how]
          /\ IF how = "saved" THEN save[i].pic = Nothing /\ UNCHANGED photoVars
             ELSE /\ save[i].pic # Nothing
                  /\ upload' = [upload EXCEPT ![i] = "sent"] /\ UNCHANGED <<file, named>>
  BY DEF Saved, Finish
<1>2. /\ save[i].pc = "post" /\ upload[i] = "none"
      /\ UNCHANGED <<screen, done, streams, pageVars, wire, moves, photos, faults>>
      /\ url' \in Routes
  BY DEF IInv, Router, Routes, Uploads, Saved, Finish
<1>3. Posts' /\ OneSavePerScreen'
  BY <1>1, <1>2, MovedPosts DEF IInv, pageVars
<1>4. \A j \in Saves :
          /\ save'[j].sku = save[j].sku /\ save'[j].pic = save[j].pic
          /\ save'[j].pc = IF j = i THEN how ELSE save[j].pc
  BY <1>1, SaveMoves DEF IInv, Posts
<1>5. Uploads'
  BY <1>1, <1>2, <1>4 DEF IInv, Uploads, photoVars
<1>6. Attached'
  BY <1>1, <1>2, <1>4 DEF IInv, Uploads, Attached, photoVars
<1>7. Router' /\ Cards' /\ Cameras' /\ Boxes' /\ Bounds'
  BY <1>2 DEF IInv, Router, Cards, Cameras, Overlay, Boxes, OfScreen, Bounds, pageVars
<1> QED  BY <1>3, <1>5, <1>6, <1>7 DEF IInv

LEMMA UnreachableInv ==
    ASSUME IInv, NEW i \in Saves, Unreachable(i)
    PROVE  IInv'
<1>1. save[i].pc = "post" /\ save' = [save EXCEPT ![i].pc = "queue"]
      /\ UNCHANGED <<wire, saving, photoVars>>
  BY DEF Unreachable, pageVars
<1>2. OneSavePerScreen'
  BY <1>1, MovedPosts DEF IInv
<1>3. Posts'
  BY <1>1, MovedPosts DEF IInv
<1>4. Uploads'
  <2>1. upload[i] = "none"
    BY <1>1 DEF IInv, Uploads
  <2> QED  BY <1>1, <2>1, MovedUploads DEF IInv
<1>5. Attached'
  <2>1. CASE Fault
    BY <2>1, FaultCounted DEF IInv, Attached
  <2>2. CASE UNCHANGED faults
    BY <1>1, <2>2, MovedAttached DEF IInv
  <2> QED  BY <2>1, <2>2 DEF Unreachable
<1>6. Bounds'
  BY FaultCounted DEF IInv, Bounds, Unreachable
<1>7. Router' /\ Cards' /\ Cameras' /\ Boxes'
  BY DEF IInv, Router, Cards, Cameras, Boxes, Overlay, OfScreen, Unreachable,
        pageVars
<1> QED  BY <1>2, <1>3, <1>4, <1>5, <1>6, <1>7 DEF IInv

LEMMA EnqueuedInv ==
    ASSUME IInv, NEW i \in Saves, Enqueued(i)
    PROVE  IInv'
<1>1. save[i].pc = "queue" /\ save' = [save EXCEPT ![i].pc = "queued"]
      /\ UNCHANGED <<wire, saving, photoVars>>
  BY DEF Enqueued, Finish, pageVars
<1>2. Router'
  BY DEF IInv, Router, Routes, Enqueued, Finish
<1>3. OneSavePerScreen'
  BY <1>1, MovedPosts DEF IInv
<1>4. Posts'
  BY <1>1, MovedPosts DEF IInv
<1>5. Uploads'
  <2>1. upload[i] = "none"
    BY <1>1 DEF IInv, Uploads
  <2> QED  BY <1>1, <2>1, MovedUploads DEF IInv
<1>6. Attached'
  BY <1>1, MovedAttached DEF IInv, Enqueued, Finish
<1>7. Bounds'
  BY FaultCounted DEF IInv, Bounds, Enqueued, Finish
<1>8. Cards' /\ Cameras' /\ Boxes'
  BY DEF IInv, Cards, Cameras, Boxes, Overlay, OfScreen, Enqueued, Finish,
        pageVars
<1> QED  BY <1>2, <1>3, <1>4, <1>5, <1>6, <1>7, <1>8 DEF IInv

LEMMA EnqueueFailsInv ==
    ASSUME IInv, NEW i \in Saves, EnqueueFails(i)
    PROVE  IInv'
<1>1. save[i].pc = "queue" /\ save' = [save EXCEPT ![i].pc = "lost"]
      /\ UNCHANGED <<wire, saving, photoVars>>
  BY DEF EnqueueFails, pageVars
<1>2. OneSavePerScreen'
  BY <1>1, MovedPosts DEF IInv
<1>3. Posts'
  BY <1>1, MovedPosts DEF IInv
<1>4. Uploads'
  <2>1. upload[i] = "none"
    BY <1>1 DEF IInv, Uploads
  <2> QED  BY <1>1, <2>1, MovedUploads DEF IInv
<1>5. Attached'
  BY <1>1, MovedAttached DEF IInv, EnqueueFails
<1>6. Bounds'
  BY FaultCounted DEF IInv, Bounds, EnqueueFails
<1>7. Router' /\ Cards' /\ Cameras' /\ Boxes'
  BY DEF IInv, Router, Cards, Cameras, Boxes, Overlay, OfScreen, EnqueueFails,
        pageVars
<1> QED  BY <1>2, <1>3, <1>4, <1>5, <1>6, <1>7 DEF IInv

LEMMA RefusedInv ==
    ASSUME IInv, NEW i \in Saves, Refused(i)
    PROVE  IInv'
<1>1. /\ save[i].pc = "post" /\ upload[i] = "none"
      /\ save' = [save EXCEPT ![i].pc = "failed"]
      /\ saving' = IF save[i].mine THEN FALSE ELSE saving
      /\ wire' \in {wire, [wire EXCEPT ![i] = "none"]} /\ UNCHANGED photoVars
  BY DEF IInv, Uploads, Refused
<1>2. /\ save' \in [Saves -> SaveRecords]
      /\ \A j \in Saves :
           /\ save'[j].sku = save[j].sku /\ save'[j].dims = save[j].dims
           /\ save'[j].pic = save[j].pic /\ save'[j].mine = save[j].mine
           /\ save'[j].pc = IF j = i THEN "failed" ELSE save[j].pc
  BY <1>1, SaveMoves DEF IInv, Posts
<1>3. Posts'
  <2>1. saving' \in BOOLEAN /\ wire' \in [Saves -> {"none", "sent", "stored"}]
    BY <1>1 DEF IInv, Posts
  <2>2. SavedForItsCarton'
    BY <1>2 DEF IInv, Posts, SavedForItsCarton
  <2>3. \A j \in Saves : /\ save'[j].pc # "free" => save'[j].sku \in Barcodes
                         /\ \/ save'[j].pic = Nothing \/ save'[j].pic.kept
                            \/ save'[j].pic.of = save'[j].sku
    BY <1>1, <1>2 DEF IInv, Posts
  <2> QED  BY <1>2, <2>1, <2>2, <2>3 DEF Posts
<1>4. OneSavePerScreen'
  <2>1. CASE save[i].mine
    <3>1. \A j \in Saves : save[j].mine /\ save[j].pc # "failed" => j = i
      BY <1>1, <2>1 DEF IInv, OneSavePerScreen
    <3>2. saving' = FALSE
      BY <1>1, <2>1
    <3> QED  BY <1>2, <3>1, <3>2 DEF OneSavePerScreen
  <2>2. CASE ~save[i].mine
    <3>1. saving' = saving
      BY <1>1, <2>2
    <3> QED  BY <1>2, <2>2, <3>1 DEF IInv, OneSavePerScreen
  <2> QED  BY <2>1, <2>2
<1>5. Uploads'
  BY <1>1, MovedUploads DEF IInv
<1>6. Attached' /\ Bounds'
  BY FaultCounted DEF IInv, Attached, Bounds, Refused
<1>7. Router' /\ Cards' /\ Cameras' /\ Boxes'
  BY DEF IInv, Router, Cards, Cameras, Overlay, Boxes, OfScreen, Refused
<1> QED  BY <1>3, <1>4, <1>5, <1>6, <1>7 DEF IInv

LEMMA PhotoOverInv ==
    ASSUME IInv, NEW i \in Saves, PhotoOver(i)
    PROVE  IInv'
<1>1. save[i].pc = "photo" /\ save' = [save EXCEPT ![i].pc = "saved"]
      /\ UNCHANGED <<wire, saving, photoVars>>
  BY DEF PhotoOver, Finish, pageVars
<1>2. Router'
  BY DEF IInv, Router, Routes, PhotoOver, Finish
<1>3. OneSavePerScreen'
  BY <1>1, MovedPosts DEF IInv
<1>4. Posts'
  BY <1>1, MovedPosts DEF IInv
<1>5. Uploads'
  BY <1>1, MovedUploads DEF IInv
<1>6. Attached'
  <2>1. CASE Fault
    BY <2>1, FaultCounted DEF IInv, Attached
  <2>2. CASE upload[i] \in {"named", "gone"} /\ UNCHANGED faults
    <3>1. CASE faults = 0
      BY <1>1, <2>2, <3>1, MovedAttached DEF IInv, Attached
    <3>2. CASE faults # 0
      BY <2>2, <3>2 DEF Attached
    <3> QED  BY <3>1, <3>2
  <2> QED  BY <2>1, <2>2 DEF PhotoOver
<1>7. Bounds'
  BY FaultCounted DEF IInv, Bounds, PhotoOver, Finish
<1>8. Cards' /\ Cameras' /\ Boxes'
  BY DEF IInv, Cards, Cameras, Boxes, Overlay, OfScreen, PhotoOver, Finish,
        pageVars
<1> QED  BY <1>2, <1>3, <1>4, <1>5, <1>6, <1>7, <1>8 DEF IInv

LEMMA PhotoOpenInv ==
    ASSUME IInv, NEW i \in Saves, PhotoOpen(i)
    PROVE  IInv'
<1>1. save[i].sku \in Barcodes
  BY DEF IInv, Posts, Uploads, PhotoOpen
<1>2. Uploads'
  BY <1>1 DEF IInv, Uploads, PhotoOpen
<1>3. Attached'
  <2>1. \A j \in Saves : upload'[j] = IF j = i THEN "open" ELSE upload[j]
    BY DEF IInv, Uploads, PhotoOpen
  <2>2. \A b \in Barcodes : b # save[i].sku => file'[b] = file[b]
    BY DEF IInv, Uploads, PhotoOpen
  <2>3. SUFFICES ASSUME faults = 0, NEW j \in Saves, upload[j] \in {"written", "named"}
                 PROVE  \/ file'[save[j].sku] # {}
                        \/ \E k \in Saves : upload'[k] = "open" /\ save[k].sku = save[j].sku
    BY <2>1 DEF IInv, Attached, PhotoOpen
  <2>4. CASE save[j].sku = save[i].sku
    BY <2>1, <2>4
  <2>5. CASE save[j].sku # save[i].sku
    <3>1. save[j].sku \in Barcodes
      BY <2>3 DEF IInv, Posts, Uploads
    <3>2. file'[save[j].sku] = file[save[j].sku]
      BY <2>2, <2>5, <3>1
    <3>3. \A k \in Saves : upload[k] = "open" => upload'[k] = "open"
      BY <2>1
    <3> QED  BY <2>3, <3>2, <3>3 DEF IInv, Attached
  <2> QED  BY <2>4, <2>5
<1>4. Router' /\ Cards' /\ Cameras' /\ Boxes' /\ OneSavePerScreen' /\ Posts' /\
      Bounds'
  BY DEF IInv, Router, Cards, Cameras, Boxes, OneSavePerScreen, Posts, Bounds,
        Overlay, OfScreen, SavedForItsCarton, PhotoOpen, pageVars
<1> QED  BY <1>2, <1>3, <1>4 DEF IInv

LEMMA PhotoWriteInv ==
    ASSUME IInv, NEW i \in Saves, PhotoWrite(i)
    PROVE  IInv'
<1>1. save[i].sku \in Barcodes
  BY DEF IInv, Posts, Uploads, PhotoWrite
<1>2. PICK rest \in {{}, file[save[i].sku]} :
          file' = [file EXCEPT ![save[i].sku] = {i} \cup rest]
  BY DEF PhotoWrite
<1>3. Uploads'
  <2>1. file' \in [Barcodes -> SUBSET Saves]
    BY <1>1, <1>2 DEF IInv, Uploads
  <2>2. \A b \in Barcodes : \A j \in file'[b] : j \in file[b] \/ (j = i /\ b = save[i].sku)
    BY <1>1, <1>2 DEF IInv, Uploads
  <2> QED  BY <2>1, <2>2 DEF IInv, Uploads, PhotoWrite
<1>4. Attached'
  <2>1. \A j \in Saves : upload'[j] = IF j = i THEN "written" ELSE upload[j]
    BY DEF IInv, Uploads, PhotoWrite
  <2>2. i \in file'[save[i].sku]
    BY <1>1, <1>2 DEF IInv, Uploads
  <2>3. \A b \in Barcodes : b # save[i].sku => file'[b] = file[b]
    BY <1>2 DEF IInv, Uploads
  <2>4. SUFFICES ASSUME faults = 0, NEW j \in Saves, upload'[j] \in {"written", "named"}
                 PROVE  \/ file'[save[j].sku] # {}
                        \/ \E k \in Saves : upload'[k] = "open" /\ save[k].sku = save[j].sku
    BY <2>1 DEF IInv, Attached, PhotoWrite
  <2>5. CASE save[j].sku = save[i].sku
    BY <2>2, <2>5
  <2>6. CASE save[j].sku # save[i].sku
    <3>1. upload[j] \in {"written", "named"}
      BY <2>1, <2>4, <2>6
    <3>2. save[j].sku \in Barcodes
      BY <3>1 DEF IInv, Posts, Uploads
    <3>3. file'[save[j].sku] = file[save[j].sku]
      BY <2>3, <2>6, <3>2
    <3>4. \A k \in Saves : upload[k] = "open" /\ save[k].sku = save[j].sku => upload'[k] = "open"
      BY <2>1, <2>6
    <3> QED  BY <2>4, <3>1, <3>3, <3>4 DEF IInv, Attached
  <2> QED  BY <2>5, <2>6
<1>5. Router' /\ Cards' /\ Cameras' /\ Boxes' /\ OneSavePerScreen' /\ Posts' /\
      Bounds'
  BY DEF IInv, Router, Cards, Cameras, Boxes, OneSavePerScreen, Posts, Bounds,
        Overlay, OfScreen, SavedForItsCarton, PhotoWrite, pageVars
<1> QED  BY <1>3, <1>4, <1>5 DEF IInv

LEMMA PhotoNameInv ==
    ASSUME IInv, NEW i \in Saves, PhotoName(i)
    PROVE  IInv'
<1>1. save[i].sku \in Barcodes
  BY DEF IInv, Posts, Uploads, PhotoName
<1>2. Uploads'
  BY <1>1 DEF IInv, Uploads, PhotoName
<1>3. Attached'
  BY DEF IInv, Attached, PhotoName
<1>4. Router' /\ Cards' /\ Cameras' /\ Boxes' /\ OneSavePerScreen' /\ Posts' /\
      Bounds'
  BY DEF IInv, Router, Cards, Cameras, Boxes, OneSavePerScreen, Posts, Bounds,
        Overlay, OfScreen, SavedForItsCarton, PhotoName, pageVars
<1> QED  BY <1>2, <1>3, <1>4 DEF IInv

LEMMA CrashInv ==
    ASSUME IInv, Crash
    PROVE  IInv'
<1>1. Posts'
  BY DEF IInv, Posts, SavedForItsCarton, Crash, pageVars
<1>2. Uploads'
  BY DEF IInv, Uploads, Crash
<1>3. Attached'
  BY FaultCounted DEF IInv, Attached, Crash
<1>4. Bounds'
  BY FaultCounted DEF IInv, Bounds, Crash
<1>5. Router' /\ Cards' /\ Cameras' /\ Boxes' /\ OneSavePerScreen'
  BY DEF IInv, Router, Cards, Cameras, Boxes, OneSavePerScreen, Overlay,
        OfScreen, Crash, pageVars
<1> QED  BY <1>1, <1>2, <1>3, <1>4, <1>5 DEF IInv

(* A screen that is unmounted takes its SKU, its boxes and its cameras with  *)
(* it; one whose barcode changes marks what it holds.                        *)
LEMMA RenderInv == ASSUME IInv, Render PROVE IInv'
<1>1. Router' /\ screen' = url /\ url \in Routes
  BY DEF IInv, Router, Render, Change, Mount
<1>2. Uploads' /\ Attached' /\ Bounds'
  <2>1. \A i \in Saves : /\ save'[i].pc = save[i].pc /\ save'[i].sku = save[i].sku
                         /\ save'[i].pic = save[i].pic
    <3>1. CASE Change
      BY <3>1 DEF Change
    <3>2. CASE Mount
      BY <3>2 DEF IInv, Posts, SaveRecords, Mount
    <3> QED  BY <3>1, <3>2 DEF Render
  <2> QED  BY <2>1 DEF IInv, Uploads, Attached, Bounds, Render, photoVars
<1>3. CASE {screen, url} \subseteq Barcodes
  <2>1. Change
    BY <1>3 DEF Render
  <2>2. Cards'
    <3>1. ASSUME NEW m \in lookups'
          PROVE  m \in [code : Barcodes, current : BOOLEAN] /\ (m.current => m.code = url)
      <4>1. m = [code |-> url, current |-> TRUE] \/ m \in Cancelled
        BY <2>1 DEF Change
      <4>2. ASSUME m \in Cancelled
            PROVE  m \in [code : Barcodes, current : BOOLEAN] /\ m.current = FALSE
        <5>1. PICK l \in lookups : m = [l EXCEPT !.current = FALSE]
          BY <4>2 DEF Cancelled
        <5>2. l \in [code : Barcodes, current : BOOLEAN]
          BY DEF IInv, Cards
        <5>3. m = [code |-> l.code, current |-> FALSE]
          BY <5>1, <5>2
        <5> QED  BY <5>2, <5>3
      <4>3. CASE m = [code |-> url, current |-> TRUE]
        BY <1>3, <4>3
      <4> QED  BY <4>1, <4>2, <4>3
    <3>2. sku' = None /\ camera' \in {"closed", "open"}
      BY <2>1 DEF Change
    <3> QED  BY <1>1, <3>1, <3>2 DEF Cards
  <2>3. Cameras'
    BY <1>3, <2>1, ReleasedStreams, Constants DEF IInv, Cameras, Change
  <2>4. Boxes'
    <3>1. fields' = Kept(fields) /\ photo' = Kept(photo)
      BY <2>1 DEF Change
    <3>2. ASSUME NEW t \in shots'
          PROVE  t \in [frame : Carton, mine : BOOLEAN] /\ (t.frame = Nothing \/ t.frame.kept)
      <4>1. PICK s \in shots : t = [s EXCEPT !.frame = Kept(s.frame), !.mine = FALSE]
        BY <2>1 DEF Change
      <4>2. s \in [frame : Carton, mine : BOOLEAN]
        BY DEF IInv, Boxes
      <4>3. t = [frame |-> Kept(s.frame), mine |-> FALSE]
        BY <4>1, <4>2
      <4> QED  BY <4>2, <4>3, KeptMarks
    <3> QED  BY <3>1, <3>2, KeptMarks DEF IInv, Boxes, OfScreen
  <2>5. Posts' /\ OneSavePerScreen'
    BY <2>1 DEF IInv, Posts, OneSavePerScreen, SavedForItsCarton, Change, Render
  <2> QED  BY <1>1, <1>2, <2>2, <2>3, <2>4, <2>5 DEF IInv
<1>4. CASE ~({screen, url} \subseteq Barcodes)
  <2>1. Mount
    BY <1>4 DEF Render
  <2>2. Cards'
    <3>1. lookups' = {[code |-> b, current |-> TRUE] : b \in {url} \cap Barcodes}
          /\ sku' = None /\ camera' = "closed"
      BY <2>1 DEF Mount
    <3>2. \A m \in lookups' : m \in [code : Barcodes, current : BOOLEAN] /\ m.code = url
      <4>1. SUFFICES ASSUME NEW m \in lookups'
                     PROVE  m \in [code : Barcodes, current : BOOLEAN] /\ m.code = url
        OBVIOUS
      <4>2. PICK b \in Barcodes : b = url /\ m = [code |-> b, current |-> TRUE]
        BY <3>1
      <4> QED  BY <4>2
    <3> QED  BY <1>1, <3>1, <3>2 DEF Cards
  <2>3. Cameras'
    <3>1. Ask("scan") \in [at : {"scan", "photo"}, live : BOOLEAN, mounted : BOOLEAN]
          /\ Ask("scan").at = "scan"
      BY DEF Ask
    <3>2. CASE screen = "scan"
      <4>1. streams' = Released("scan") \cup {Ask(s) : s \in {url} \cap {"scan"}}
        BY <2>1, <3>2 DEF Mount
      <4>2. \A s \in Released("scan") : ~s.live /\ ~s.mounted
        BY <3>2, ReleasedStreams, Constants DEF IInv, Cameras, Cards, Overlay
      <4> QED  BY <1>1, <3>1, <4>1, <4>2, ReleasedStreams DEF IInv, Cameras
    <3>3. CASE screen # "scan"
      <4>1. streams' = Released("photo") \cup {Ask(s) : s \in {url} \cap {"scan"}}
        BY <2>1, <3>3 DEF Mount
      <4>2. \A s \in Released("photo") : ~s.live /\ ~s.mounted
        BY <3>3, ReleasedStreams DEF IInv, Cameras
      <4> QED  BY <1>1, <3>1, <4>1, <4>2, ReleasedStreams DEF IInv, Cameras
    <3> QED  BY <3>2, <3>3
  <2>4. Boxes'
    BY <2>1, CartonTypes DEF Boxes, OfScreen, Mount
  <2>5. /\ save' \in [Saves -> SaveRecords]
        /\ \A i \in Saves :
             /\ save'[i].sku = save[i].sku /\ save'[i].dims = save[i].dims
             /\ save'[i].pic = save[i].pic /\ save'[i].mine = FALSE /\ save'[i].pc = save[i].pc
    <3>1. save' = [i \in Saves |-> [save[i] EXCEPT !.mine = FALSE]]
      BY <2>1 DEF Mount
    <3>2. ASSUME NEW old \in SaveRecords
          PROVE  LET new == [old EXCEPT !.mine = FALSE] IN
                 /\ new \in SaveRecords
                 /\ new.sku = old.sku /\ new.dims = old.dims /\ new.pic = old.pic
                 /\ new.mine = FALSE /\ new.pc = old.pc
      BY DEF SaveRecords
    <3> HIDE DEF SaveRecords
    <3> QED  BY <3>1, <3>2 DEF IInv, Posts
  <2>6. saving' = FALSE /\ wire' = wire
    BY <2>1 DEF Mount, Render
  <2>7. Posts'
    BY <2>5, <2>6 DEF IInv, Posts, SavedForItsCarton
  <2>8. OneSavePerScreen'
    BY <2>5, <2>6 DEF OneSavePerScreen
  <2> QED  BY <1>1, <1>2, <2>2, <2>3, <2>4, <2>7, <2>8 DEF IInv
<1> QED  BY <1>3, <1>4

LEMMA Untouched == ASSUME IInv, UNCHANGED vars PROVE IInv'
<1>1. Router' /\ Cards' /\ Cameras' /\ Boxes' /\ Bounds'
  BY DEF IInv, Router, Cards, Cameras, Overlay, Boxes, OfScreen, Bounds, vars, pageVars
<1>2. OneSavePerScreen' /\ Posts' /\ Uploads' /\ Attached'
  BY DEF IInv, OneSavePerScreen, Posts, SavedForItsCarton, Uploads, Attached, vars, pageVars,
        photoVars
<1> QED  BY <1>1, <1>2 DEF IInv

LEMMA StepInv == IInv /\ [Next]_vars => IInv'
<1> SUFFICES ASSUME IInv, [Next]_vars PROVE IInv'
  OBVIOUS
<1>1. CASE Browser
  BY <1>1, RenderInv, GrantInv, DenyInv, ResolveInv, EncodedInv, EncodeFailsInv DEF Browser
<1>2. CASE Operator
  BY <1>2, ScanInv, GoInv, FillInv, OpenCameraInv, CloseCameraInv, ShootInv, SubmitInv
     DEF Operator
<1>3. CASE Crash
  BY <1>3, CrashInv
<1>4. CASE \E i \in Saves : SaveStep(i)
  BY <1>4, SavedInv, UnreachableInv, EnqueuedInv, EnqueueFailsInv, RefusedInv, PhotoOverInv
     DEF SaveStep
<1>5. CASE \E i \in Saves : Backend(i)
  BY <1>5, StoreInv, PhotoOpenInv, PhotoWriteInv, PhotoNameInv DEF Backend
<1>6. CASE UNCHANGED vars
  BY <1>6, Untouched
<1> QED  BY <1>1, <1>2, <1>3, <1>4, <1>5, <1>6 DEF Next

(* The screens, cameras, saves and uploads as described by the parts above,  *)
(* in every reachable state.                                                 *)
THEOREM Invariance == Spec => []IInv
  BY InitInv, StepInv, PTL DEF Spec

(* The screens', the saves' and the backend's state keep their types; the    *)
(* lookup that counts is of the barcode that is rendered.                    *)
THEOREM TypeCorrect == Spec => []TypeOK
<1>1. IInv => TypeOK
  BY DEF IInv, Router, Cards, Cameras, Boxes, Posts, SaveRecords, Uploads, Bounds, TypeOK
<1> QED  BY <1>1, Invariance, PTL

(* FloorCapture.save posts under sku.id what its boxes hold: both are of the *)
(* barcode on the screen, unless the history changed it under them.          *)
THEOREM SavesItsCarton == Spec => []SavedForItsCarton
<1>1. IInv => SavedForItsCarton
  BY DEF IInv, Posts
<1> QED  BY <1>1, Invariance, PTL

(* The photo route writes a photo into the file of its own carton's dim,     *)
(* however uploads, answers and screens interleave.                          *)
THEOREM PhotosStayTheirs == Spec => []PhotosOfTheirCarton
<1>1. IInv => PhotosOfTheirCarton
  BY DEF IInv, Posts, Uploads, PhotosOfTheirCarton
<1> QED  BY <1>1, Invariance, PTL

(* FloorScan's and FloorPhotoCapture's cleanups: no camera goes on running   *)
(* when what used it has left the screen, also one granted after that.       *)
THEOREM CamerasAreReleased == Spec => []CameraReleased
<1>1. IInv => CameraReleased
  BY DEF IInv, Cameras, CameraReleased
<1> QED  BY <1>1, Invariance, PTL

(* FloorCapture's saving: a screen has at most one save that is not refused. *)
THEOREM OneSave == Spec => []OneSavePerScreen
<1>1. IInv => OneSavePerScreen
  BY DEF IInv
<1> QED  BY <1>1, Invariance, PTL

(* With nothing failed, a save that has ended with a photo has its dim name  *)
(* a file that holds a photo or is being written one.                        *)
THEOREM PhotosAreAttached == Spec => []PhotoIsAttached
<1>1. IInv => PhotoIsAttached
  BY DEF IInv, Attached, PhotoIsAttached
<1> QED  BY <1>1, Invariance, PTL
=============================================================================
