----------------------------- MODULE FloorFlow -----------------------------
(* The floor flow of the browser: the scanner (FloorScan.tsx), the screen    *)
(* that measures one carton (FloorCapture.tsx), its camera overlay           *)
(* (FloorPhotoCapture.tsx), and the backend's photo route (dims.ts,          *)
(* photoService.ts).  The router renders a route some time after it has      *)
(* been navigated to, and does not mount a new FloorCapture when only the    *)
(* barcode changes; a save goes on when its screen is gone.                  *)
EXTENDS Naturals

CONSTANTS Barcodes, \* of known SKUs, one each; they also name the SKU's dim
          None,     \* no barcode
          MaxSaves, \* BOUND: times the operator saves
          MaxMoves, \* BOUND: scans and navigations by the operator
          MaxPhotos, \* BOUND: times the operator opens the camera
          MaxFaults \* BOUND: requests, writes and backends that fail

Routes == Barcodes \cup {"scan", "away"}

ASSUME NamesAssumption == None \notin Barcodes /\ {"scan", "away"} \cap Barcodes = {}
ASSUME BoundsAssumption == {MaxSaves, MaxMoves, MaxPhotos, MaxFaults} \subseteq Nat

Saves == 1..MaxSaves

VARIABLES
    url,     \* where the router is: the scanner, a barcode's capture, a page
    screen,  \* the route that is rendered
    done,    \* FloorScan's doneRef
    streams, \* camera streams asked for or running: [at, live, mounted]
    lookups, \* lookups of the capture screen: [code, current]
    sku,     \* FloorCapture's sku
    fields,  \* the carton whose measurements the dims boxes hold
    photo,   \* the carton on the photo
    shots,   \* frames being encoded
    camera,  \* the overlay: closed, open, busy, broken: its shutter is disabled
    saving,
    save,    \* [Saves -> what FloorCapture.save is doing]
    wire,    \* [Saves -> what became of its POST /api/dims]
    upload,  \* [Saves -> where POST /api/dims/:id/photo is]
    file,    \* [Barcodes -> the saves whose photos the file has bytes of]
    named,   \* dims whose photoPath is set
    moves, photos, faults

pageVars  == <<lookups, sku, fields, photo, shots, camera, saving>>
photoVars == <<upload, file, named>>
vars == <<url, screen, done, streams, pageVars, save, wire, photoVars, moves, photos, faults>>

Move == moves < MaxMoves /\ moves' = moves + 1

Fault == faults < MaxFaults /\ faults' = faults + 1

(* What was measured or photographed, and whether it was on the screen when  *)
(* the barcode of the screen changed.                                        *)
Carton  == [of : Barcodes \cup {None}, kept : BOOLEAN]
Nothing == [of |-> None, kept |-> FALSE]
Of(b)   == [of |-> b, kept |-> FALSE]

NoSave == [pc |-> "free", sku |-> None, dims |-> Nothing, pic |-> Nothing, mine |-> FALSE]

(* The overlay is rendered while it is open and there is a SKU.              *)
Overlay == camera # "closed" /\ sku # None

-----------------------------------------------------------------------------
(* Cameras.                                                                  *)

Ask(at) == [at |-> at, live |-> FALSE, mounted |-> TRUE]

(* Unmounting stops a stream; one that is only asked for is marked.          *)
Released(at) ==
    {s \in streams : s.at # at}
        \cup {[s EXCEPT !.mounted = FALSE] : s \in {r \in streams : r.at = at /\ ~r.live}}

MutantGrant(s) ==
    /\ s \in streams /\ ~s.live
    /\ streams' = (streams \ {s}) \cup {[s EXCEPT !.live = TRUE]}
    /\ UNCHANGED <<url, screen, done, pageVars, save, wire, photoVars, moves, photos, faults>>

(* The browser opens the camera; if its screen has gone it is stopped.       *)
Grant(s) ==
    /\ s \in streams /\ ~s.live
    /\ streams' = (streams \ {s}) \cup (IF s.mounted THEN {[s EXCEPT !.live = TRUE]} ELSE {})
    /\ UNCHANGED <<url, screen, done, pageVars, save, wire, photoVars, moves, photos, faults>>

(* Or refuses to: the scanner offers manual entry, the overlay no shutter.   *)
Deny(s) ==
    /\ s \in streams /\ ~s.live
    /\ streams' = streams \ {s}
    /\ camera' = IF s.at = "photo" /\ s.mounted THEN "broken" ELSE camera
    /\ UNCHANGED <<url, screen, done, lookups, sku, fields, photo, shots, saving,
                   save, wire, photoVars, moves, photos, faults>>

-----------------------------------------------------------------------------
(* Routes.                                                                   *)

(* A decoded or typed barcode: the first one counts.                         *)
Scan(b) ==
    /\ Move
    /\ screen = "scan" /\ ~done
    /\ done' = TRUE
    /\ streams' = {s \in streams : ~(s.at = "scan" /\ s.live)}
    /\ url' = b
    /\ UNCHANGED <<screen, pageVars, save, wire, photoVars, photos, faults>>

(* "Scan again", the exit, and the browser's history, which goes to any of   *)
(* its entries at once and may have captures of any barcode.                 *)
Go(u) ==
    /\ Move
    /\ u # url
    /\ url' = u
    /\ UNCHANGED <<screen, done, streams, pageVars, save, wire, photoVars, photos, faults>>

Kept(c) == [c EXCEPT !.kept = c.of # None]

MutantCancelled == lookups

(* The cleanup of the effect on [barcode].                                   *)
Cancelled == {[l EXCEPT !.current = FALSE] : l \in lookups}

(* Another barcode, the same FloorCapture: the effect on [barcode] runs, and *)
(* all other state stays.  Without a SKU the overlay is not rendered.        *)
Change ==
    /\ lookups' = Cancelled \cup {[code |-> url, current |-> TRUE]}
    /\ sku' = None
    /\ fields' = Kept(fields) /\ photo' = Kept(photo)
    /\ shots' = {[s EXCEPT !.frame = Kept(s.frame), !.mine = FALSE] : s \in shots}
    /\ camera' = IF camera = "closed" THEN "closed" ELSE "open"
    /\ streams' = Released("photo")
    /\ UNCHANGED <<done, saving, save>>

(* The old screen is unmounted with its state, the new one is mounted.       *)
Mount ==
    /\ lookups' = {[code |-> b, current |-> TRUE] : b \in {url} \cap Barcodes}
    /\ sku' = None /\ fields' = Nothing /\ photo' = Nothing /\ shots' = {}
    /\ camera' = "closed" /\ saving' = FALSE /\ done' = FALSE
    /\ save' = [i \in Saves |-> [save[i] EXCEPT !.mine = FALSE]]
    /\ streams' = (IF screen = "scan" THEN Released("scan") ELSE Released("photo"))
                      \cup {Ask(s) : s \in {url} \cap {"scan"}}

Render ==
    /\ screen # url
    /\ screen' = url
    /\ IF {screen, url} \subseteq Barcodes THEN Change ELSE Mount
    /\ UNCHANGED <<url, wire, photoVars, moves, photos, faults>>

-----------------------------------------------------------------------------
(* The capture screen.                                                       *)

MutantStale(l) == FALSE

(* The effect's "cancelled".                                                 *)
Stale(l) == ~l.current

(* A lookup is answered, with the SKU or with an error.  A camera that was   *)
(* left open comes back with the SKU.                                        *)
Resolve(l) ==
    /\ l \in lookups
    /\ lookups' = lookups \ {l}
    /\ \/ UNCHANGED <<sku, streams>>
       \/ /\ ~Stale(l)
          /\ sku' = l.code
          /\ streams' = streams \cup {Ask("photo") : c \in {camera} \ {"closed"}}
    /\ UNCHANGED <<url, screen, done, fields, photo, shots, camera, saving, save, wire,
                   photoVars, moves, photos, faults>>

(* The operator measures the carton whose barcode was scanned, be its SKU    *)
(* looked up yet or not.                                                     *)
Fill ==
    /\ screen \in Barcodes /\ ~Overlay
    /\ fields # Of(screen)
    /\ fields' = Of(screen)
    /\ UNCHANGED <<url, screen, done, streams, lookups, sku, photo, shots, camera, saving,
                   save, wire, photoVars, moves, photos, faults>>

OpenCamera ==
    /\ photos < MaxPhotos /\ photos' = photos + 1
    /\ sku # None /\ camera = "closed"
    /\ camera' = "open"
    /\ streams' = streams \cup {Ask("photo")}
    /\ UNCHANGED <<url, screen, done, lookups, sku, fields, photo, shots, saving,
                   save, wire, photoVars, moves, faults>>

Unattended == {[s EXCEPT !.mine = FALSE] : s \in shots}

CloseCamera ==
    /\ Overlay
    /\ camera' = "closed"
    /\ streams' = Released("photo")
    /\ shots' = Unattended
    /\ UNCHANGED <<url, screen, done, lookups, sku, fields, photo, saving,
                   save, wire, photoVars, moves, photos, faults>>

(* The shutter: the frame is taken now and encoded later.                    *)
Shoot ==
    /\ Overlay /\ camera = "open"
    /\ \E s \in streams : s.at = "photo" /\ s.live
    /\ camera' = "busy"
    /\ shots' = shots \cup {[frame |-> Of(screen), mine |-> TRUE]}
    /\ UNCHANGED <<url, screen, done, streams, lookups, sku, fields, photo, saving,
                   save, wire, photoVars, moves, photos, faults>>

(* onCapture, also of an overlay that has been closed meanwhile.             *)
Encoded(s) ==
    /\ s \in shots
    /\ photo' = s.frame
    /\ camera' = "closed"
    /\ streams' = Released("photo")
    /\ shots' = {[t EXCEPT !.mine = FALSE] : t \in shots \ {s}}
    /\ UNCHANGED <<url, screen, done, lookups, sku, fields, saving,
                   save, wire, photoVars, moves, photos, faults>>

EncodeFails(s) ==
    /\ Fault
    /\ s \in shots
    /\ shots' = shots \ {s}
    /\ camera' = IF s.mine THEN "broken" ELSE camera
    /\ UNCHANGED <<url, screen, done, streams, lookups, sku, fields, photo, saving,
                   save, wire, photoVars, moves, photos>>

-----------------------------------------------------------------------------
(* FloorCapture.save.                                                        *)

MutantSubmit(i) ==
    /\ sku # None /\ ~Overlay /\ fields.of # None
    /\ save[i].pc = "free" /\ \A j \in Saves : j < i => save[j].pc # "free"
    /\ saving' = TRUE
    /\ save' = [save EXCEPT ![i] = [pc |-> "post", sku |-> sku, dims |-> fields, pic |-> photo, mine |-> TRUE]]
    /\ wire' = [wire EXCEPT ![i] = "sent"]
    /\ UNCHANGED <<url, screen, done, streams, lookups, sku, fields, photo, shots, camera,
                   photoVars, moves, photos, faults>>

(* Save, of fields that parse and with a name: posts what is on the screen.  *)
Submit(i) ==
    /\ sku # None /\ ~saving /\ ~Overlay /\ fields.of # None
    /\ save[i].pc = "free" /\ \A j \in Saves : j < i => save[j].pc # "free"
    /\ saving' = TRUE
    /\ save' = [save EXCEPT ![i] = [pc |-> "post", sku |-> sku, dims |-> fields, pic |-> photo, mine |-> TRUE]]
    /\ wire' = [wire EXCEPT ![i] = "sent"]
    /\ UNCHANGED <<url, screen, done, streams, lookups, sku, fields, photo, shots, camera,
                   photoVars, moves, photos, faults>>

(* The backend saves the measurements.                                       *)
Store(i) ==
    /\ wire[i] = "sent"
    /\ wire' = [wire EXCEPT ![i] = "stored"]
    /\ UNCHANGED <<url, screen, done, streams, pageVars, save, photoVars, moves, photos, faults>>

(* A save is over: to the scanner, from whatever screen the operator is on.  *)
Finish(i, how) ==
    /\ save' = [save EXCEPT ![i].pc = how]
    /\ url' = "scan"
    /\ UNCHANGED <<screen, done, streams, pageVars, wire, moves, photos>>

MutantSaved(i) ==
    /\ save[i].pc = "post" /\ wire[i] = "stored"
    /\ \/ photo = Nothing /\ Finish(i, "saved") /\ UNCHANGED <<photoVars, faults>>
       \/ /\ photo # Nothing
          /\ save' = [save EXCEPT ![i].pc = "photo", ![i].pic = photo]
          /\ upload' = [upload EXCEPT ![i] = "sent"]
          /\ UNCHANGED <<url, screen, done, streams, pageVars, wire, file, named, moves, photos, faults>>

(* The answer: the photo, if there was one when Save was pressed, follows.   *)
Saved(i) ==
    /\ save[i].pc = "post" /\ wire[i] = "stored"
    /\ \/ save[i].pic = Nothing /\ Finish(i, "saved") /\ UNCHANGED <<photoVars, faults>>
       \/ /\ save[i].pic # Nothing
          /\ save' = [save EXCEPT ![i].pc = "photo"]
          /\ upload' = [upload EXCEPT ![i] = "sent"]
          /\ UNCHANGED <<url, screen, done, streams, pageVars, wire, file, named, moves, photos, faults>>

(* No answer: the measurements are queued and the photo is dropped; the      *)
(* request may be served yet.                                                *)
Unreachable(i) ==
    /\ save[i].pc = "post"
    /\ Fault \/ (wire[i] = "none" /\ UNCHANGED faults)
    /\ save' = [save EXCEPT ![i].pc = "queue"]
    /\ UNCHANGED <<url, screen, done, streams, pageVars, wire, photoVars, moves, photos>>

Enqueued(i) ==
    /\ save[i].pc = "queue"
    /\ Finish(i, "queued")
    /\ UNCHANGED <<photoVars, faults>>

(* IndexedDB refuses: nothing catches what enqueue throws. A save is lost at  *)
(* most once, after the fault that took its answer, so no bound is needed.   *)
EnqueueFails(i) ==
    /\ save[i].pc = "queue"
    /\ save' = [save EXCEPT ![i].pc = "lost"]
    /\ UNCHANGED <<url, screen, done, streams, pageVars, wire, photoVars, moves, photos, faults>>

(* An error is answered, which the screen shows: by the backend, or by the   *)
(* proxy before it, and then the measurements may be stored all the same.    *)
Refused(i) ==
    /\ Fault
    /\ save[i].pc = "post"
    /\ \/ wire[i] = "sent" /\ wire' = [wire EXCEPT ![i] = "none"]
       \/ UNCHANGED wire
    /\ save' = [save EXCEPT ![i].pc = "failed"]
    /\ saving' = IF save[i].mine THEN FALSE ELSE saving
    /\ UNCHANGED <<url, screen, done, streams, lookups, sku, fields, photo, shots, camera,
                   photoVars, moves, photos>>

(* The upload is answered or fails: either way the save is over.             *)
PhotoOver(i) ==
    /\ save[i].pc = "photo"
    /\ Fault \/ (upload[i] \in {"named", "gone"} /\ UNCHANGED faults)
    /\ Finish(i, "saved")
    /\ UNCHANGED photoVars

-----------------------------------------------------------------------------
(* The photo route.  Dims are never deleted: neither 404 occurs.             *)

(* writeFile opens the dim's file, which empties it,                         *)
PhotoOpen(i) ==
    /\ upload[i] = "sent"
    /\ upload' = [upload EXCEPT ![i] = "open"]
    /\ file' = [file EXCEPT ![save[i].sku] = {}]
    /\ UNCHANGED <<url, screen, done, streams, pageVars, save, wire, named, moves, photos, faults>>

(* and writes from its beginning, over what another upload has written since *)
(* and, where that is longer, leaving its end.                               *)
PhotoWrite(i) ==
    /\ upload[i] = "open"
    /\ upload' = [upload EXCEPT ![i] = "written"]
    /\ \E rest \in {{}, file[save[i].sku]} : file' = [file EXCEPT ![save[i].sku] = {i} \cup rest]
    /\ UNCHANGED <<url, screen, done, streams, pageVars, save, wire, named, moves, photos, faults>>

MutantPhotoName(i) ==
    /\ upload[i] = "written"
    /\ upload' = [upload EXCEPT ![i] = "named"]
    /\ UNCHANGED <<url, screen, done, streams, pageVars, save, wire, file, named, moves, photos, faults>>

(* setDimPhoto.                                                              *)
PhotoName(i) ==
    /\ upload[i] = "written"
    /\ upload' = [upload EXCEPT ![i] = "named"]
    /\ named' = named \cup {save[i].sku}
    /\ UNCHANGED <<url, screen, done, streams, pageVars, save, wire, file, moves, photos, faults>>

(* The backend crashes and restarts.                                         *)
Crash ==
    /\ Fault
    /\ upload' = [i \in Saves |-> IF upload[i] \in {"sent", "open", "written"} THEN "gone" ELSE upload[i]]
    /\ wire' = [i \in Saves |-> IF wire[i] = "sent" THEN "none" ELSE wire[i]]
    /\ UNCHANGED <<url, screen, done, streams, pageVars, save, file, named, moves, photos>>

-----------------------------------------------------------------------------
Init ==
    /\ url = "scan" /\ screen = "scan" /\ done = FALSE
    /\ streams = {Ask("scan")}
    /\ lookups = {} /\ sku = None /\ fields = Nothing /\ photo = Nothing /\ shots = {}
    /\ camera = "closed" /\ saving = FALSE
    /\ save = [i \in Saves |-> NoSave]
    /\ wire = [i \in Saves |-> "none"] /\ upload = [i \in Saves |-> "none"]
    /\ file = [b \in Barcodes |-> {}] /\ named = {}
    /\ moves = 0 /\ photos = 0 /\ faults = 0

Browser ==
    \/ Render
    \/ \E s \in streams : Grant(s) \/ Deny(s)
    \/ \E l \in lookups : Resolve(l)
    \/ \E s \in shots : Encoded(s) \/ EncodeFails(s)

Operator ==
    \/ \E b \in Barcodes : Scan(b)
    \/ \E u \in Routes : Go(u)
    \/ Fill \/ OpenCamera \/ CloseCamera \/ Shoot
    \/ \E i \in Saves : Submit(i)

SaveStep(i) ==
    \/ Saved(i) \/ Unreachable(i) \/ Enqueued(i) \/ EnqueueFails(i) \/ Refused(i) \/ PhotoOver(i)

Backend(i) == Store(i) \/ PhotoOpen(i) \/ PhotoWrite(i) \/ PhotoName(i)

Next == Browser \/ Operator \/ Crash \/ \E i \in Saves : SaveStep(i) \/ Backend(i)

Spec == Init /\ [][Next]_vars

-----------------------------------------------------------------------------
(* The screens', the saves' and the backend's state have their types; the    *)
(* lookup that counts is of the barcode that is rendered.                    *)
TypeOK ==
    /\ {url, screen} \subseteq Routes
    /\ done \in BOOLEAN /\ saving \in BOOLEAN
    /\ streams \subseteq [at : {"scan", "photo"}, live : BOOLEAN, mounted : BOOLEAN]
    /\ lookups \subseteq [code : Barcodes, current : BOOLEAN]
    /\ \A l \in lookups : l.current => l.code = screen
    /\ sku \in Barcodes \cup {None} /\ {fields, photo} \subseteq Carton
    /\ shots \subseteq [frame : Carton, mine : BOOLEAN]
    /\ camera \in {"closed", "open", "busy", "broken"}
    /\ save \in [Saves -> [pc : {"free", "post", "photo", "queue", "saved", "queued", "failed", "lost"},
                           sku : Barcodes \cup {None}, dims : Carton, pic : Carton, mine : BOOLEAN]]
    /\ wire \in [Saves -> {"none", "sent", "stored"}]
    /\ upload \in [Saves -> {"none", "sent", "open", "written", "named", "gone"}]
    /\ file \in [Barcodes -> SUBSET Saves] /\ named \subseteq Barcodes
    /\ moves \in 0..MaxMoves /\ photos \in 0..MaxPhotos /\ faults \in 0..MaxFaults

(* Measurements are posted for the SKU of the carton they were made of,      *)
(* however lookups are answered, unless the browser's history changed the    *)
(* barcode under them.                                                       *)
SavedForItsCarton ==
    \A i \in Saves : save[i].sku = save[i].dims.of \/ save[i].dims.kept

(* A dim's file never has bytes of another carton's photo, whatever the      *)
(* operator looks at when the photo is sent, with the same exception.        *)
PhotosOfTheirCarton ==
    \A b \in Barcodes : \A i \in file[b] : save[i].pic.of = b \/ save[i].pic.kept

(* "The stream is always stopped on unmount": a camera runs only for the     *)
(* scanner or the overlay on the screen, also when it was granted late.      *)
CameraReleased ==
    \A s \in streams : s.live => IF s.at = "scan" THEN screen = "scan" ELSE Overlay

(* A screen has one save at most that is not refused, and knows of it, also  *)
(* when its barcode changes under the save.                                  *)
OneSavePerScreen ==
    /\ saving <=> \E i \in Saves : save[i].mine /\ save[i].pc # "failed"
    /\ \A i, j \in Saves :
         save[i].mine /\ save[j].mine /\ "failed" \notin {save[i].pc, save[j].pc} => i = j

(* A save that ends with nothing failed has attached its photo, wherever the *)
(* operator went meanwhile: its dim names a file with a photo in it, or with *)
(* a later one on its way there.                                             *)
PhotoIsAttached ==
    \A i \in Saves :
        save[i].pc = "saved" /\ save[i].pic # Nothing /\ faults = 0 =>
            /\ save[i].sku \in named
            /\ \/ file[save[i].sku] # {}
               \/ \E j \in Saves : upload[j] = "open" /\ save[j].sku = save[i].sku
=============================================================================
