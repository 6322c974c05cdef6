# Verification of dim-capture-app

Operators measure cartons on a PWA, a backend stores the measurements, and a sync run
pushes them to CartonCloud (CC), the warehouse system. This directory holds TLA+ models
of the parts where order and failure matter, the TLC runs that check them and the TLAPS
proofs of all their safety properties. `src/` paths below are the repository's.

## 1. The system

| component | code | state it keeps | operations |
|---|---|---|---|
| Captures and corrections | `backend/src/services/dimService.ts`, `routes/dims.ts` | the `Dim` table, one row per SKU: measurements, `measuredAt`, `syncedToCC`, `syncBlockedReason` | `POST /api/dims` (`saveDim`, an upsert under the SKU's advisory lock), `PUT /api/dims/:id` (`updateDim`, no lock) |
| Transactions and locks | `backend/src/lib/db.ts` | Postgres advisory locks, row locks | `withAdvisoryLock`: blocking for savers, try-lock for sync runs; 5 s and 120 s limits |
| Sync run | `services/syncService.ts`, `routes/sync.ts` | the run's snapshot, its uncommitted updates, its report | `POST /api/sync/cc`: for each pending row in order of `measuredAt` write the product in CC and mark the row; all in one transaction |
| CC write recipe | `services/ccClient.ts` (`patchProductDims`) | CC's products | GET, customer and name guards, diff, PATCH, read-back GET |
| CC client | `services/ccClient.ts` | two token buckets, one cached OAuth2 token | `guard`, `ensureToken`, `authedFetch` with a timeout and one retry on a 401 |
| SKU catalogue | `services/skuService.ts`, `routes/admin.ts`, `routes/skus.ts` | the `Sku` table (id, unique barcode) | `POST /api/admin/seed`, `GET /api/skus/:barcode` (database, then CC) |
| Progress | `skuService.getProgress`, `hooks/useProgress.ts` | none / the last answer | five counts in one transaction; fetched on mount, every 30 s and after saves and syncs, answers taken as they come |
| Photos | `services/photoService.ts`, `routes/dims.ts` | a JPEG per dim id, `Dim.photoPath` | upload (file, then row), download |
| Offline queue | `frontend/src/lib/offlineQueue.ts`, `context/OfflineQueueContext.tsx`, `hooks/useSync.ts` | an IndexedDB table per device | enqueue when a save gets no answer; drain loop per tab every 30 s and when online again, followed by a sync run if the tab has the sync key |
| Capture page | `pages/Capture.tsx`, `hooks/useSku.ts`, `components/DimForm.tsx` | the search field, the lookup, the form | scan/type, debounced lookup, fill, save |
| Floor flow | `frontend/src/floor/*` | route, lookup, fields, photo, camera streams | scan, look up, measure, photograph, save with photo, move through the history |
| Sync key | `middleware/requireSyncKey.ts`, `lib/syncKey.ts`, `lib/api.ts` | a key in `sessionStorage`; `SYNC_SECRET` | gate a sync run (503, 401), send the key, clear it on a 401 |
| Review page | `pages/Review.tsx` | the prompt, a sync under way, a list | sync, prompt and authorise, edit a capture |
| Shells, deployment | `app.ts`, `errorHandler.ts`, `App.tsx`, compose files, `nginx.conf` | - | wiring |

How they interact: forms and drain loops call the capture routes; the drain loop (or the
Review page) starts sync runs; runs, seeds and lookups share the one CC client, its
buckets and its token; captures and runs meet in the rows of `Dim`, seeds and lookups in
the rows of `Sku`; CC is edited by its own users meanwhile.

What is hard: a run reads its rows once and updates them one by one minutes later, while
captures commit; the transaction that holds its lock can expire while its loop goes on;
a PATCH may be applied although its caller saw a timeout; a crash falls between CC's write
and the row's; the queue delivers at least once, from several tabs, late; lookups answer
out of order under a user who scans again; concurrent calls refresh one token; a page and a
background loop share a key that the answer to either's call may clear, and a proxy gives
up on runs that go on.

What makes each component correct is stated by the properties of section 3; every hazard
found is listed with its line in `PROJECT.json`, also those no property covers yet.

## 2. Modules

| module | models | variables and actions ↔ code |
|---|---|---|
| `DimLifecycle` | what the backend promises about one carton: captured, pending, then delivered or refused; a settled carton changes only by a capture | `Capture` ↔ both captures' reset of the sync columns; `Settle` ↔ a run's updates |
| `DimSync` | `dimService`, `syncService`, `withAdvisoryLock`, `patchProductDims` | `dim` is the committed table, `wpc`…`wat` a request in `saveDim`/`updateDim`, `rpc`…`tally` a run in `syncUnsyncedDims`, `tx` and `mark` its transaction, `cc`/`ccState`/`late` CartonCloud. One action per stretch between two awaits: `SaveLock`, `SaveUpsert`, `SaveCommit`, `PutCheck`, `PutWrite`; `RunStart`, `RunGet`, `RunPatch`, `RunVerify`, `RunMark`, `RunCount`, `RunCommit`, `RunAbort`. Around them `SaveExpire` (5 s), `TxExpire` (120 s), `Crash`, `LatePatch`, `CcEdit` |
| `MCDimSync` | symmetry for its safety runs | |
| `DimSyncProofs` | theorems about `DimSync` | |
| `OfflineQueue` | `offlineQueue.ts`, `useSync.ts` (drain loop), the save of `DimForm` and `FloorCapture` against the capture route | `queue` is a device's IndexedDB table; `FormPost`/`FormEnqueue`/`FormDone` are a form's save, `DrainStart`/`DrainPost`/`DrainRemove`/`DrainNext`/`DrainStop` a tab's loop; `wire` holds posts whose sender is gone; `noDb` are the tabs whose one cached IndexedDB connection has failed (`StorageFails`) |
| `OfflineQueueProofs` | theorems about `OfflineQueue` | |
| `SkuCatalog` | `seedSkus`, `getSkuByBarcode`, `lookupByBarcode` | `sku` is the table, `seed` and `lookup` the handlers, a page or a row per action; `listing`/`default` CC's products, edited by `Rebarcode` and `Deactivate` |
| `SkuCatalogProofs` | theorems about `SkuCatalog` | |
| `CcClient` | `TokenBucket`, `guard`, `ensureToken`, `authedFetch` | `bucket`, `cache`, `call` (a caller), `now` in ticks; `opened`/`admitted` are an observer's window, not code |
| `CcClientProofs` | theorems about `CcClient` | |
| `CaptureScreen` | `Capture.tsx`, `useSku.ts`, `DimForm.tsx` | `query` and `seen` are the search field and what the effect has run for, `flight` the lookups, `saves` the saves under way |
| `CaptureScreenProofs` | theorems about `CaptureScreen` | |
| `FloorFlow` | `FloorScan.tsx`, `FloorCapture.tsx`, `FloorPhotoCapture.tsx`, the photo route and `photoService.ts` | `url` is where the router is and `screen` what is rendered; `streams` are cameras, `save` the calls of `FloorCapture.save`, which outlive their screen; `upload`, `file` and `named` are the photo route, the file on disk and `Dim.photoPath` |
| `FloorFlowProofs` | theorems about `FloorFlow` | |
| `SyncTab` | `requireSyncKey.ts`, `syncKey.ts`, `api.syncToCC`, the whole loop of `useSync.ts`, `useProgress.ts`, the sync button of `Review.tsx` | one tab and its backend. `secret`, `run`, `todo` are the backend's; `cpc`/`sentKey` the calls of `POST /api/sync/cc`, of the loop or of the page's (`Tickets`); `key` the session's; `Loop...` the steps of `syncNow`, `idb` whether its IndexedDB works; `Press`, `Cancel`, `Authorise`, `ReviewAnswered`, `Revisit` the page, whose prompt stays usable while it fades (until `Faded`); `fpc`/`count` the fetches of the count, of the loop's refresh or of the polls (`Polls`). The rows are a `DimLifecycle`, instantiated: captures are its `Capture`, a run's commit its `Settle` |
| `SyncTabProofs` | theorems about `SyncTab` | |
| `NatLemmas` | least and greatest elements of sets of naturals, for the proofs about the queue and the catalogue | |
| `MCOfflineQueue`, `MCSkuCatalog`, `MCCcClient`, `MCCaptureScreen`, `MCFloorFlow` | the instances of their runs | |

Abstractions. Measurements are functions from fields to readings distinct at CC's
precision; validation, rounding and units are left out. A CC product is its
measurements and one of four states: usable, of another customer, with an invalid unit
name, or unusable (removed, or without a default unit). History variables
(`overtaken`, `carried`, `fate`, `admitted`, `approved`) only observe. A run that finds the
sync lock held, and a call that finds its bucket empty, change nothing and are no step.
`DimSync` refines `DimLifecycle` (`INSTANCE DimLifecycle WITH status <- ..., measured <- ...`),
and `SyncTab` is built on the promise that `DimSync` is proved to keep, not on the detail: what a
run still does after its transaction has expired, and a capture that overtakes its row, are
`DimSync`'s. In `SyncTab` a refresh after a sync is one of the `Polls`; a request for the count
is read by the backend in the step that sends it, as nothing hangs on when it gets there,
and its answer comes in a later one; of the answers to a sync call only the 401 is told from
the others, as in the code; a page that is not mounted is a page whose button nobody presses,
and captures made with the backend at hand, in this tab or elsewhere, are one action. What
fails for ever is a kind of SKU there: `UnusableSkus`, whose product CartonCloud cannot take
(removed, or without a default unit), and `RejectedSkus`, whose captures the backend refuses.

The definitions named `Mutant...` are not the code: each is one plausible bug, next to the
definition it would replace, and shows that a property can fail.

## 3. Runs

| run | shows | bounds |
|---|---|---|
| `sync` | no row is synced and refused at once; an open run's rows are pending; reports match commits; what is marked was delivered; a synced row differs from CC only if a capture or an abandoned PATCH overtook its run; other customers' products are untouched; `DimLifecycle` is implemented | 2 SKUs, 2 requests, 2 runs, 2 readings of one field, 2 captures, any 2 of 9 kinds of failure |
| `sync_live` | every request and run is answered; every capture is settled unless CC has no usable product | a known and an unknown SKU, 2 requests, 2 runs, one failure of 7 kinds |
| `sync_lost_update` | *violated*: a synced row's measurements are delivered | 1 SKU, 2 fields, no failure |
| `sync_overlap` | *violated*: at most one run patches | 1 SKU, 2 runs, one expiry |
| `queue` | nothing promised is lost; an entry leaves the queue only when stored; every queued capture the backend accepts is delivered, also behind a rejected one, unless its tab has lost its IndexedDB, and then after the tab's reload | 2 devices, 2 tabs of one, 2 forms, 3 captures, any 2 failures |
| `catalog` | answers carry the barcode; reports add up; a finished seed has stored all; a 404 is right; seeds and lookups end | 3 products on 2 pages (one with two barcodes, one without an id), 2 seeds, 1 lookup, 3 requests, one failure, one edit in CC |
| `catalog_reseed` | *violated*: a seed fails for CC's errors only | 1 seed, 1 lookup, one edit |
| `cc_client` | any window admits at most a full bucket and its refill; no request carries an expired token; one revocation never fails a call | 2 callers, buckets of 2 and 1, 3 ticks, one revocation |
| `capture` | the card is of the barcode in the field; measurements are saved for their carton, once; every question is answered and every save ends | 3 barcodes (one unknown), 4 scans or edits, 2 measurements, one failure |
| `capture_empty` | *violated*: an empty search clears the result | as above |
| `floor` | measurements and photos are those of their carton, unless the browser's history changed the barcode under them; no camera runs without its screen; one save per screen; an unfailed save attaches its photo | 2 barcodes, 2 saves, 3 scans or navigations, 2 photos, one failure |
| `sync_tab` | no call goes out that the operator has not authorised in this session, or after a 401; the page is never stuck in a sync, nor asks for a key over one; the count on display settles on what is pending; with the right key and a working IndexedDB all that the backend accepts leaves the queue and all that CartonCloud can take is delivered or set aside, beside an entry and a row that fail for ever | 3 SKUs (one that CartonCloud cannot take, pending from before; one the backend rejects, queued from before), 1 more capture, 2 keys, 2 calls of the page beside the loop's, 1 poll beside the loop's refresh, one failure of any kind |

Why the bounds are enough. Every conflict in this code is between two: two requests on a
row, a request and a run, two runs, two tabs, two lookups, two callers of the client. With
two of each, two rows (order and isolation between rows) and two failures (the second
during the recovery from the first) all interleavings of those conflicts occur; a second
field matters to a PATCH that touches a part of a product and is in the two violating
sync runs. Two pages and three products are the least for a short page, a full page and a
product on each. `Timeout`, `Skew` and `Life` are one, two and three ticks: the smallest
with the proportions the constants of the code have (12 s, 60 s, an hour). Four scans
give two lookups under way, an emptied field and one more question after it. In `FloorFlow`
three moves take the operator away, back and away again, over two saves and two photos, with
one fault among them: the storage refusing an entry needs no second one, as a save reaches
the queue only through the first.
In `SyncTab` two calls of the page are one of the present visit and one of a former, or two of
one visit (authorised twice), beside the loop's, of which one may be a run and the others lose its lock; a poll and the loop's
refresh suffice to answer in the wrong order; two keys are a right and a wrong one, and a
restart of the backend, with another `SYNC_SECRET` or none, swaps them. Rows do not interact
there (their order in a run is `DimSync`'s), so one SKU of each kind is enough: one that can be
delivered, captured while a run is on its way, after it, or queued; one whose row fails in
every run; one whose entry stays in the queue.
`CHECK_DEADLOCK FALSE` stands where a bound on requests makes the system stop.

Fairness. `DimSync`: a request or run that can go on does (the event loop and Postgres;
every call to CC ends by its timeout), and some run is started again and again, since a
tab with the sync key polls every 30 s (`useSync.ts:86`). Nothing makes clients capture or
a late PATCH arrive. `OfflineQueue`: the tabs' loops go on and start again, the browser
settles every fetch and is online again at some time; forms have no fairness beyond
their own code, and closing a tab is bounded by the faults. `SkuCatalog`: a request under
way goes on. `CaptureScreen`: React runs its effects, timers fire, every fetch is settled
(the code sets no timeout: this rests on the browser); the operator does nothing of
necessity. `FloorFlow` is checked for safety only. `SyncTab`: the loop's timer fires, and its
own calls are answered or fail (`LoopChain`); a run comes to its end, by commit or by its
time limit (`RunCommit`). Nothing is asked of the operator, nor of the calls of the page or
of the polls, which may stay on their way for ever: the loop alone must settle the count
and finish the work, and it does, as its refresh ends every tick.

What the liveness properties except, because the code keeps it for ever. A row whose product
CC has removed, or left without a default unit, fails in every run and stays pending
(`ccClient.ts:553`, `ccClient.ts:606`, `syncService.ts:155`): `EventuallySettled` and
`KeyedWorkIsDone` are about the others. An entry the backend rejects stays queued and is
posted again in every drain (`useSync.ts:49`): `EventuallyDelivered` and `KeyedWorkIsDone` are
about the others, also those queued behind it. A tab whose connection to IndexedDB has failed
once hands out the same rejected promise until it is reloaded (`offlineQueue.ts:33`), and its
loop then neither drains nor pushes (`useSync.ts:39`): both properties ask for a tab without
that failure.

## 4. Findings

The four violated properties quote what the repository says and the code does not do;
`PROJECT.json` has the quotations.

- **Lost update** (`syncService.ts:149`): a re-capture that commits while a run pushes the
  older measurements is marked synced and never sent. Shortest behaviour: capture, run
  reads it, re-capture commits, run marks the row by id.
- **Overlapping runs** (`syncService.ts:175`): the 120 s limit releases the lock while the
  callback goes on.
- **Seed stuck on a barcode** (`skuService.ts:120`): the upsert by id hits the unique barcode
  and every re-run stops there.
- **Empty search** (`useSku.ts:32`): a pending lookup is not discarded.

Seen while modelling, without a run: a capture queued offline carries no time of
measurement and replaces a newer one when the queue is drained (`useSync.ts:44`); going
from one floor capture to another in the browser's history keeps the fields, the photo and
the save of the first under the barcode of the second (`FloorCapture.tsx:56`: the effect
resets the SKU only), and TLC shows them saved for it when the exception is taken out of
`SavedForItsCarton`; a floor save that ends while the operator is on the next carton takes
the screen away (`FloorCapture.tsx:125`), and in the instant between a scan and its
rendering leaves the scanner with `doneRef` set, reading nothing; two uploads for one dim
may leave a file with parts of both (`photoService.ts:56`); nothing catches an IndexedDB
failure of `enqueue` (`FloorCapture.tsx:129`); `SyncReport.pending` is not the run's failures when
a capture commits meanwhile (`DECISIONS.md:22`); a backend down behind nginx answers 502,
which does not lead to the queue (`offlineQueue.ts:8`); a scanned barcode does not stay a
database hit when the seed rewrites the row (`skuService.ts:221`); a lookup answers 404 for
a known product when a deactivation shifts the pages (`skuService.ts:164`); the counts of
`getProgress` do not share a snapshot under READ COMMITTED (`skuService.ts:258`); the
message about a failed photo is never seen (`FloorCapture.tsx:119`), nor is the flash of a
queued save (`FloorCapture.tsx:131`); one token of a bucket pays for up to three requests, so
that the tenant's ceiling can be exceeded (`ccClient.ts:415`), which the TODO at `ccClient.ts:28`
concedes; the proxy gives up on a sync run after 30 s (`nginx.conf:84`), a quarter of the
run's limit, and the Review page then says nothing and does not reload (`Review.tsx:80`); the
401 of an older call clears a newer key (`api.ts:258`); where IndexedDB fails, `list()` rejects
and the loop never reaches its push (`useSync.ts:39`); and it goes on
rejecting until the tab is reloaded, since the failed connection is what is cached
(`offlineQueue.ts:33`); an edit form filled from an old list overwrites a capture made since
(`Review.tsx:249`); the prompt for the key has no guard and takes input while it fades
(`Review.tsx:101`, `dialog.tsx:49`: 150 ms), so a double click makes two calls of one visit, and
the first answer ends the display while the other runs (`Review.tsx:83`); the upsert after a
lookup is a read and a write (`LookupFind`, `LookupWrite`), and if the seed inserts the product
in between, the scan of a known SKU is answered 500 (`skuService.ts:223`), although the comment
above it (`skuService.ts:220`) says that it "can't blow up on the unique-id constraint": TLC
reaches it in nine steps without an edit in CC.

## 5. Proofs

All theorems are for every value of the constants that satisfies the modules' named
assumptions, and TLC evaluates those in every run. Every invariant and action property that
a passing run checks is a theorem, and so is the refinement; only liveness is not. A module
of proofs states an inductive invariant `IInv`, the conjunction of a part for each actor or
table, shows `Init => IInv` and, action by action, that `IInv` is kept (`StepInv`), and reads
the properties off it (`CcClientProofs` has a strengthening for each property instead, on top
of its types). Few of the properties are inductive; what they rest on is below.

`DimSyncProofs` (any SKUs, fields, readings, requests, runs, captures and faults, from
`SkusAssumption` (finitely many SKUs, none of them the placeholder `NoSku`) and the
typing assumptions on the bounds):

- `TypeCorrect`, `NeverBoth` (`NeverSyncedAndBlocked`), `WorkStaysPending`
  (`WorkIsPending`), and `ImplementsLifecycle`: `DimSync` implements `DimLifecycle`.
- Neither safety property is inductive. That a row never becomes both rests on every row
  an open run still works on, or has marked, being pending in the table; this in turn on no
  other run settling it meanwhile, that is on at most one open transaction (`OneOpenTx`:
  the sync lock), and on a request's capture leaving a row pending (`RequestsPlaced`: it is
  past its 404 check and has its `measuredAt`; `RowsKnown`: a row without a capture is
  `NoRow`) and on a run without an open transaction having no updates (`RunsPlaced`).
- The refinement uses `IInv`: `Lifecycle!Settle` wants a pending carton for every row a
  commit settles, which is `WorkIsPending`.
- `ForeignStaysUntouched`, `MarkedAreDelivered`, `SyncedAreDelivered` and `ReportAddsUp`
  (`ForeignUntouched`, `MarkedMeansDelivered`, `SyncedUnlessOvertaken`,
  `ReportMatchesCommit`), from a second invariant `DInv` on top of the first. `Shielded`: a
  PATCH about to be sent, or abandoned and on its way, is for a product of the customer's
  own (products never change customer, so the guard before it stays good). `Work`: the rows
  a run has read are those to come, the one at hand, those marked and those given up, each
  in one place. `StillPending`: also a row given up stays pending, so the final count has
  it. `Delivering`: between the comparison that finds nothing to write, or the read-back,
  and the row's update, the product stays as it was found, unless the row is overtaken.
  `Tallied`: the counters are the cardinalities of those sets.
- `OnePatcherUntilExpiry`: without an expiry in `FaultKinds`, no two runs are inside
  `patchProductDims` at once. The run `sync_overlap` shows what one expiry does; the theorem,
  that nothing else does it.

`CcClientProofs` (any number of callers, any capacities and times):

- `TypeCorrect`; a bucket never goes below empty or above full.
- `BudgetKept` (`AdmittedWithinBudget`), along `Budget`: what was admitted plus what the
  bucket still holds never exceeds a full bucket plus the refill since the window was opened.
- `TokensOutliveRequests` (`NeverExpiredInFlight`), from `SkewAssumption`: twice the timeout
  is at most the skew. The strengthening `Ages` says that a request in flight is within its
  timeout, that a token was issued after it was asked for, and hence that the expiry the
  client computes on receipt is late by at most one timeout. The code's 12 s and 60 s
  satisfy the assumption; nothing in the code ties one constant to the other.
- `OneRevocationOneRetry` (`UnauthorizedOnlyIfStruck`), from the former theorem and `Earned`:
  the token of a retry was issued after the last revocation unless the observer saw another.

`SyncTabProofs` (any number of SKUs, keys, calls of the page, polls, captures and faults, from
`CallersAssumption`: the loop is not one of the page's tickets; `SkusAssumption`: the kinds of SKU are
SKUs, in any number of each; and `BoundsAssumption`):

- `TypeCorrect`; `PageNeverStuck` (`NoStuckPage`); `NothingUnauthorisedLeaves` (`NoSpam`).
- `IInv` has a part for each actor. `Rows`: what a run has read stays pending, as captures keep
  a row pending and only the run's own commit settles it. `Calls`: a call is running exactly if
  the run answers it, so that no second answer can come. `Loop`: the loop waits for its own
  call or its own refresh. `Page`: `mine` holds calls of this visit that
  are under way, and at least one while a sync is shown; an open prompt was opened for want of
  a key, or by the 401 that cleared it, and closes with the step that stores one, so that
  neither a key nor a display can come in under it. `Keyed`: a key in the session is an approved one. `NoSpam` follows
  from `Keyed` in the state before each step that sends.

`OfflineQueueProofs` (any devices, tabs, forms, SKUs, captures and faults; `SkusAssumption`
says that there is a SKU and that those the backend refuses are SKUs, `DevicesAssumption`
that every tab and form is on a device):

- `TypeCorrect`; `PromisesAreKept` (`NothingPromisedIsLost`); `RemovesOnlyStored`
  (`RemovedOnlyIfStored`, an action property).
- The promise is kept because a loop about to remove an entry has been answered that the
  backend has the capture (`Loops`), whoever else has removed or posted it, and because what
  the backend has accepted it never forgets, even when a later capture replaces its row.
  `StampType` needs that a finite set of stamps has a greatest (`NatLemmas`).

`SkuCatalogProofs` (any products, barcodes, list, page size, seeds, lookups, faults and edits;
`ProductsAssumption` says among other things that a product id is none of the marks that
stand for answers without a product):

- `TypeCorrect`; `AnswersCarry` (`AnswersCarryTheBarcode`); `SeedReportAddsUp`
  (`ReportAddsUp`); `SeedIsComplete` (`SeedStoresAll`).
- `Progress` is the argument for the seed: while nothing is edited, it has read a prefix of
  the list, of whole pages until the short one, its `todo` is the end of that prefix, and
  what comes before is stored and counted. A place is counted, not a product, so the list
  may repeat one. `LookupOK` is the same for a lookup: no product on the pages before the
  one it is at carries the barcode. `Barcoded`: every barcode in the table is one CC had.
- `NotFoundIsUnknown` (`NotFoundMeansUnknown`, an action property) has a hypothesis,
  `Unshared`: no product without an id shares a barcode with one that has an id. It is
  needed. `lookupByBarcode` takes the first product on the page that carries the barcode, and
  `getSkuByBarcode` answers 404 if that one has no id (`skuService.ts:215`), also when the next one
  has: with such a list TLC finds the property violated. The list of the run `catalog`
  satisfies it.
- `ConflictsAreEdits`: if no two products with an id share a barcode (`Exclusive`), no seed
  meets a unique-barcode conflict before something is edited in CC, whatever seeds and
  lookups run beside it. The run `catalog_reseed` shows what one edit does.

`CaptureScreenProofs` (any catalogue, scans, measurements and faults):

- `TypeCorrect`; `ShowsWhatIsAsked` (`ShownIsAsked`); `SavesTheShownCarton`
  (`SavedForItsCarton`); `OneSave` (`OneSavePerForm`).
- `Lookups`: ids are unique, and while the debounce runs no lookup has the current one.
  `Result`: the one lookup that will not be ignored is for the query last seen, and nothing
  is on the page before its answer. The emptied field is an exception there, as in the
  code: it leaves the pending lookup its id (the finding `capture_empty`). `Form`: what the
  form holds was measured on the card it is shown with.

`FloorFlowProofs` (any barcodes, saves, moves, photos and faults):

- `TypeCorrect`; `SavesItsCarton` (`SavedForItsCarton`); `PhotosStayTheirs`
  (`PhotosOfTheirCarton`); `CamerasAreReleased` (`CameraReleased`); `OneSave`
  (`OneSavePerScreen`); `PhotosAreAttached` (`PhotoIsAttached`).
- `Cards`: the lookup that counts, and the SKU it gave, are of the barcode on the screen.
  `Boxes`: what fields, photo and frames hold is of that barcode, or marked as kept through a
  change of it by the history. `Posts` carries both into the saves, `Uploads` into the
  files: only a save with a photo uploads, into the file of its own dim. `Attached`: while
  nothing has failed, a file that an upload has left is held or being written by another.

Only model-checked: the liveness properties `AllAnswered`, `EventuallySettled`,
`EventuallyDelivered`, `RequestsEnd`, `NothingHangs`, `CountSettles` and `KeyedWorkIsDone`,
which need fairness and ENABLED and are out of the prover's reach, and the behaviours of
section 4 that violate what the repository says.

## 6. Plan

Done: `DimLifecycle`, `DimSync`, `OfflineQueue`, `SkuCatalog`, `CcClient`, `CaptureScreen`,
`FloorFlow`, and `SyncTab`, which composes the tab's queue, its loop and the Review page with
`DimLifecycle`; proofs of all their safety properties.

Left:

1. The five counts of `getProgress` as five reads over the tables of `DimSync` and
   `SkuCatalog`, each with the bounds that hold between two of them.
2. The edit form of the Review and Progress pages, filled from a list that grows old.
3. A theorem that `SyncTab` itself is a `DimLifecycle`, so that the promise is proved of both
   ends of the composition; and abstract specifications of the queue (at least once, never
   lost) and of the seed (one step that stores all) with their refinements.

Not modelled, and why: wording, layout, logging and the camera (no property is about them);
floating-point arithmetic of units and rounding (outside TLC); the wiring of server and front
end, deployment files and smoke tests (of these the proxy's 502 and its time limit are faults
of `OfflineQueue` and `SyncTab`); reads that change nothing (`listSkus`, `listDims`) and the
lists shown from them; of `getProgress` the four counts nothing acts upon.
