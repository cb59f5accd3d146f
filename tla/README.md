# AgXRAW in TLA+

AgXRAW (`src/dngscan`) renders RAW photographs to SDR and HDR images, from a
command line and from a local web GUI. The command line is one sequential pass.
The GUI is not: every HTTP request runs on a thread of its own, several browser
tabs ask for frames that become obsolete while they are rendered, caches are
filled once for all who want them, calibrations change underneath, a writer
thread persists proxies, and exports run in processes of their own that may hang
or be killed. Beside the concurrency stands a second kind of difficulty: what a
picture is made of (measurements, tags, decoders, corrections, masks, plans)
passes through many hands, and each of them could take it for something else.

This directory holds a TLA+ model of both: modules translated from the source,
TLC runs over small instances, and theorems that TLAPS proves for all instances.

## 1. The system

### Components, state, operations

| Component | Source (`src/dngscan/`) | State | Operations that change it |
|---|---|---|---|
| Render scheduler | `gui/scheduler.py` | a semaphore and an active count per slot kind (preview, prepare, export), leases per thread | `slot`, `_SlotLease.acquire/release/finish/resume`, `shared_flight_wait` |
| Preview coordinator | `gui/preview_scheduler.py` | two bounded recency maps: session to generation, client to selection epoch | `register`, `register_selection`, `clear` |
| Proxy store | `gui/preview_cache.py`, `PreviewCache` | memory entries, flights on record, build slots | `get` (lookup, join, build, abandon, install), `_trim_memory`, `clear_memory` |
| Entry runtime | `gui/preview_cache.py`, `PreviewEntry` | plans, balances, exposures, pixels, reports, frames | `get_or_compute`, `evict_runtime`, `put_pixels`, `get_pixels`, `put_frame` |
| Disk writer | `gui/preview_cache.py`, `DiskWriter` | a replaceable queue, the job in hand, the cache directory | `submit`, `_run`, `_write_disk_entry`, `_trim_disk_cache`, a reader's unlink |
| GUI service | `gui/service.py` | none besides caches; every request walks the other components | `run_preview`, `export_preview_jpeg`, `prepare_preview`, `run_export`, `run_export_isolated` |
| Page | `gui/page.py` | controls, session serial, frame generation, what is shown | handlers of the controls, `preparePreview`, `requestPreview`, `changeCalibration` |
| Calibration store | `calibration.py`, `gui/calibration_service.py` | one JSON record per measurement, without a lock | import, remove, activate, each followed by `_invalidate_preview` in the GUI |
| Measurements and priors | `collect_manifest.py`, `calibration*.py`, `priors.py` | groups of tables, fitted curves, selected release and its two-part cache | prepare, fit, validate, `find_priors`, `_jptc_entries` |
| Uploads | `gui/uploads.py` | reservations, files | `_reserve`, `store_stream`, `_release_reservation` |
| CPU budget | `cpu_budget.py`, `rust/src/budget.rs` | claims on the native thread pool | `native_budget`, `ordered_budget_map` |
| Export and delivery | `gui/service.py`, `export.py`, `delivery_transaction.py`, `protected_output.py` | worker process, result queue, private candidates, published names | start, watch, terminate; decode to post; stage, check, replace |
| Encoding | `auto_encode.py`, `gainmap*.py`, `heif_*.py`, `jpeg_gainmap.py` | donor files, the winner so far, containers | search, readback, rewrite |
| Files and decoders | `source_metadata.py`, `metadata.py`, `readout.py`, `raw_io.py`, `coreimage_decode.py`, `dng_*.py` | a session per file, the bundle under construction | walk, observe, load, fall back, correct |
| Evidence and analysis | `guidance.py`, `reliability.py`, `decoder_loss.py`, `analysis.py`, `noise_model.py` | clip masks, exclusions, white levels, noise models | collect, align, resolve |
| Exposure and tone | `auto_ev.py`, `joint_exposure.py`, `tone.py`, `drt.py`, `hdr_*.py` | a search, a plan | `max_safe_ev`, `select_joint_plan`, `build_render_plan` |
| Command line | `cli.py`, `export.py`, `report.py` | files written, what was said of them | one run |
| Kernels and transport | `rust/src/lib.rs`, `agx.py`, `gui/fastapi_app.py`, ... | none | pure functions of pixels; a thread per request |

`PROJECT.json` lists the parts again with their status and the reason where one is
modelled in part or not at all, and under `hazards` each place where the code is
hard to test, with the property that watches it.

### How they interact

A frame goes page -> `/preview` -> `run_preview` (registers its selection epoch and
its generation with the coordinator) -> `PreviewCache.get` (proxy, possibly by
another request's flight) -> preview slot -> `PreviewEntry.get_or_compute` for the
plan (the slot goes back while another request compiles it) -> pixels, histograms,
JPEG, with a check of the generation after each -> frame cache -> answer. A selection
goes page -> `/prepare` -> the same store and plans under the prepare slot. A
calibration edit goes page -> `calibration_service` -> store on disk, then
`coordinator.clear()`, then `clear_memory()`; the page then begins a new session. An
export goes page -> export slot -> a disposable process, which loads, analyses, plans,
searches for an encoding and publishes, and answers through a queue.

Everything in the server is shared memory between threads with short lock regions.
Cancellation is cooperative: nothing stops a running thread, a request asks
`is_current()` at its boundaries. Answers and requests of a page overtake each other.

### What makes each part correct

* Scheduler: no kind exceeds its quota; no permit is lost or doubled by an interrupt;
  nobody holds one slot while waiting for another; a shared wait ends only with the
  slot back.
* Coordinator: nothing obsolete is revived; forgetting takes the names idle longest.
* Store: one build per key; a request still wanted is never cancelled because
  somebody else's is not; one that is not wanted gets no proxy; a request that needs
  guidance gets it; slots and flights are released on every exit; an entry's analysis
  belongs to the calibrations in its key.
* Runtime and frames: one computation per key, an outcome in force during the call,
  everybody wakes; what is served is what the dials ask for.
* Writer, uploads, CPU: bounded memory, quotas and shares that survive failures.
* Export: a published file is finished and what its name says, an image passed its
  readback, the RAW keeps its bytes; what is reported saved is saved.
* Measurements: what a table or a file did not declare is never taken from another.
* Pictures: masks and facts follow the pixels; evidence, plans and noise belong to the
  decode and the calibration they are read with.

## 2. Modules

Every module stands for one component, with its state as variables, an action per
lock region, handler or statement that changes it, and its properties at its end.
`Mutant of ...` operators beside a definition are plausible slips of that code; with
one of them in place of the definition a run must fail.

### The preview engine

| Module | Models | Notes |
|---|---|---|
| `Lru` | the bounded-`OrderedDict` discipline | used by the registries and caches |
| `RenderScheduler` | `scheduler.py` | one action per lock region or semaphore operation |
| `PreviewCoordinator` | `preview_scheduler.py` | every operation is one lock region |
| `PreviewStore` | `PreviewCache.get` and what surrounds it | contains an instance of `DiskWriter` |
| `DiskWriter` | writer, directory | driven by `MCGui`, and inside `PreviewStore` |
| `SingleFlight` | the promise of `get_or_compute` | abstract specification |
| `RuntimeCache` | `PreviewEntry` | implements `SingleFlight` |
| `FrameReuse` | keys and contents of all that a preview keeps | frames against what their dials would make |
| `PreviewPipeline` | page, request threads, coordinator | extends `PreviewCoordinator` |
| `PageControls`, `PageFlow` | the page's controls; its uploads, sessions and layers | `PageFlow` extends `PageControls`, with which it shares no state |
| `UploadStore`, `CpuBudget` | `uploads.py`; `cpu_budget.py` and `budget.rs` | |

**RenderScheduler.** A thread's lease of a kind has a status: `queued` (in
`sem.acquire`), `taken` (permit owned, counts not updated), `counted` (`acquire` about
to return), `held`, then on the way out `pausing`/`paused` (shared wait) or
`closing`, and `aborting` for the rollback of `acquire`'s `except BaseException`.
`depth` counts nested `slot` blocks, `waiting` marks the `shared_flight_wait`,
`pending` the exception `resume()` remembers while it queues again, `raised` an
exception the body sees. An interrupt is possible wherever the code guards against
one.

**PreviewStore.** A request walks `new`, `identify` (fingerprint and key), `lookup`,
then `final`, `wait` (subscriber of a flight) or, as the owner of a flight, `queued`
(for a build slot), `poll` before each of the stages `disk`, `decode`, `analyze`, and
`install`, `trim`, `land`, `submit`, `release`, `final`. Flights are named by their
owner. `Poll` and `Abandon` are separate because `_check_flight_interest` asks the
subscribers outside the lock and compares the list again inside. The calibration
service's edit is three steps: write, clear generations, clear memory. `Supersede`
stands for newer announcements of the session.

**DiskWriter.** The directory is the sequence of its files by modification time.
`submit` replaces the queued job of the path and then drops the oldest until both
limits hold. `WriterReplaces` is the atomic rename with the trimming that follows,
`WriterSkips` every reason for which nothing is written. The limit of the directory
in bytes shows as its limit in files.

**RuntimeCache and SingleFlight.** `get_or_compute` in its lock regions and Future
operations. `SingleFlight` says what callers may rely on: at most one computes a key,
and a call ends with an outcome of its key that was in force at some moment while the
call was open. The refinement maps places to phases (`LookupPhase`) and the value in
force to the flight's decision or the cached value (`InForce`).

Renders of a frame are counted: `drawn` is the one whose pixels a key holds, `reports`
the one its report is of, none for a render without a report. `put_pixels` puts both in
one critical section, so `ReportsOfTheirPixels` holds after every step. A request reads
them in two (`gui/service.py:946` and 1030), with the plan between; that pair is not
modelled, and nothing says that it must be of one render.

**FrameReuse.** A request is a setting of the page's dials, each with two positions.
Scene, plan, automatic exposure, pixels, histogram and frame are records of what the
code reads to make them, stored under the keys the code composes; a served frame is
compared with the one made from nothing.

**PreviewPipeline.** One page with its numbers, a record per message it can send, one
thread per message on the server. `Boundary` is `ensure_current`. The proxy store and
plan flights appear as the steps at which they let the request go on.

**CpuBudget.** `OpenSection`/`CloseSection` are the pooled section of a render, with a
claim of its own; a stream worker's map (`BeginMap`) claims the share of its batches,
submits them to a pool all share, waits for every one of them whatever fails
(`InterruptMap` is noted, the wait goes on) and lets its claim go with the last
(`EndMap`). `native` is the tightest claim that is held.

### Exports

| Module | Models | Notes |
|---|---|---|
| `ExportJob` | `run_export_isolated`, its worker, delivery and protected names | kills, failures, edits and aliases at any step |
| `EncodeSearch` | the automatic searches and the ladder of a manual gain map | encoders as oracles |
| `GainmapPackage` | rewriting HEIF and JPEG containers, declared headroom | tile digests one level deep, `pasp` left out, the bitmap of the map is not read |
| `CommandRun` | one run of the command line | what is computed, written, said |

**ExportJob.** Names and files are kept apart: `directory` gives each name the file it
is of, `disk` each file its content, so a name may become one more name of the RAW's
file (`AliasSource`), and what `os.replace` does to such a name is a consequence, not
an assumption. An encoder may leave an image that is not `sound` (`Encode`); `Readback`
finds that out, and `Carried` takes a rewritten copy only if `encoded_content_signature`
finds the same content. Deliveries differ in the order of the two: a JPEG of fixed
quality is dressed with its metadata and then read back, a searched JPEG and a gain map
are read back and then dressed, a HEIF is read back a second time, which can only refuse
more and is left out. The dashboard is saved without a readback, so nothing is claimed of
its pixels; `Release` may raise after it was written and before the `try` whose `finally`
removes it (`gui/service.py:1919-1921`), the one way a worker that ends by itself leaves a
temporary, which the property names.

### From the file to the picture

| Module | Models |
|---|---|
| `CalibrationStore` | edits of the store of measurements by concurrent processes |
| `CollectGroups`, `ReadoutScope` | groups of a package's tables; the files their products may be used on |
| `CalibrationFit` | black levels, read noise, relative and absolute gain; logarithms in steps of five percent |
| `PriorChoice`, `PriorsCache` | which prior a file is analysed with; the cache of the public release |
| `IfdWalk`, `FileFacts` | directories of a container; what is known of a shot |
| `RawLoad`, `AppleDecode` | a load while its file changes, fallbacks; Apple's decoder and its controls |
| `CorrectedDecode`, `FrameGeometry` | opcodes of a DNG around the demosaic; crop, turn and reduction with their masks |
| `SceneEvidence`, `FrameAnalysis` | masks, exclusions, guidance; saturation and noise of a frame |
| `ExposureSearch`, `RenderPlans` | the automatic exposure; SDR curve, adjustments, HDR plan |
| `BandedRender` | a frame streamed through a pool, with its dither |
| `BalanceWindows` | the balance a scene is moved to, the windows of colour found again in it, the file of anchors of the other decoder, and the tool that measures and installs those (`tools/calibrate_raw9_anchors.py`) |

**SceneEvidence.** An entry of the disk cache may lose any of the arrays in `Arrays`.
The reader notices the loss of an exclusion, of the sample beside one, and of the
guidance's eligibility. It cannot notice that of the masks of the sample
(`preview_cache.py:874-877`): `tone.py:280-282` takes a sample without masks for one of a
capture that had none, and pixels that clipped then count as reliable. The model reads
such an entry as the code does; `EvidenceFollows` exempts those pixels and keeps its
claim on what is excluded. `reliable_reference` (911-912) is read the same way and is not
modelled.

`CalibrationFit` is given Bayer patterns with both greens; where the channel named in a
file is missing, `_phase_black` falls back to the colour index, which it leaves out.

### Modules for TLC, modules of proofs

`MCAdmission` (scheduler and proxy store, their requests permuted together), `MCGui`
(registry, writer with its driver and histories, uploads, CPU budget, runtime caches),
`MCExport` and `MCLibrary` (twenty-three parts) put components that share no state beside
each other: a variable `part` says which one moves, the others stay in one
initial state. One run so explores the sum of their state spaces, not the product.
The modules `*_proofs` are the subject of section 4.

## 3. Runs

Twelve runs; six must pass, six must find the violation described under Findings.

| Run | Distinct states | Question |
|---|---|---|
| `admission` | 1,247,870 | quotas, permits, no hold-and-wait, admission restored; builds bounded, flights owned, guidance honoured, no obsolete request served |
| `requests` | 195,625 | every request leaves its slots and is answered |
| `pipeline_screen` | 379,963 | the screen follows the page, the newest frame is never dropped, the page settles |
| `gui_parts` | 194,671 | registry, writer, uploads, CPU budget, runtime caches: bounds, quotas, refinement of `SingleFlight`, reports of the pixels they lie beside, work that ends |
| `export` | 578,197 | the directory is sound, files are what their names say, what is reported saved is saved, searches deliver what they verified, every export is answered |
| `library` | 499,164 | the parts between a user's files and the picture, thirteen properties |
| `store_staleness`, `pipeline_late`, `export_report`, `export_names`, `library_race`, `page_reset` | violated | see below |

### Bounds and why they are enough

* `admission`: three threads, so that one can wait for a slot while another rolls back
  and a third takes it; three calls per thread are a slot, a borrow or wait, and a
  rejected or second slot; quotas are the code's. Beside them three requests for one
  file (owner, subscriber, successor); with an edit or a disturbance (failure, eviction,
  expired fallback) there are two, as three with either is out of reach of a run. The
  theorems of section 4 have no such restriction.
* `requests`: two threads and two interrupts, so that `resume()` is interrupted again
  after a rollback; two files with room for one entry and one build slot.
* `pipeline_screen`: two sessions of two frames each are the smallest in which frame
  numbers repeat; one failure or calibration edit. `MaxSerial` and `MaxGeneration`
  stop the page, not the server.
* `gui_parts`: three names on a registry of two; three paths for two places of the
  queue, sizes 1, 2 and 4 against a limit of three bytes, four submissions; three
  uploads for two slots with lengths around both limits; two maps of up to three items
  on machines of 1 and 12 threads with one mishap; three callers of two plans for one
  place, two frames for one place, rendered with and without reports, one failure and one
  eviction from outside.
* `export`: two exports, three events (requests, kills, failures, edits, aliases)
  between them, encoders and rewritten metadata sound or not; searches over three qualities with every outcome of encoder and readback.
* `library`: inputs enumerated in `MCLibrary`, per part: two commands over two
  measurements with two mishaps; packages of up to three tables; files with at most
  two sources of priors; loads with two changes of the file; up to three opcodes;
  sensors of up to five rows in every orientation, with crops in
  halves of a sensel; one pixel of evidence under both
  wells, in entries that lost any of their five arrays; four directories pointing at
  each other; two readers of a shot; every setting
  of the page's controls, three sessions of two frames; two requests with any dial
  turned; two halvings of the exposure search; every command line over three stems;
  Macs whose controls apply, refuse, ignore or fail after the write; frames of up to
  seven pixels cut in every way; three pixels of light per plan; two cells of codes;
  ladders of four ISOs; containers of up to six items rewritten twice; scenes of both
  decoders under every balance while the file of anchors is replaced; manifests of four
  photographs, one of which is replaced while it is measured.

`CHECK_DEADLOCK FALSE` appears where the system may stop: parts that end with their
answer, a writer to whom nobody submits any more, a page whose user has no more input
within the bound.

### Fairness

Weak fairness of each thread's own steps: the operating system schedules a thread
that can run, computations and decodes end, an answer reaches the page. No fairness
of users, interrupts, failures, edits or evictions. Weak fairness suffices for
semaphores here because each request is served a bounded number of times within the
bounds; nothing is claimed of a semaphore under an endless load. Strong fairness in two
places: the queue of the pool is first in, first out, so a batch that can run again
and again does (`CpuBudget`); and a server thread that looks at the clock again and
again finds its deadline passed (`ExportJob`). An export worker gets no fairness until
it has answered: it may hang.

### Findings

* `pipeline_late`: `export_preview_jpeg` checks the generation for the last time at
  `gui/service.py:1008`, and publishes at 1036-1037; a generation announced in between
  does not stop the old frame, against `gui/preview_scheduler.py:17-18`. The page drops
  it (`pipeline_screen`), so the screen is not affected.
* `store_staleness`: the key, with the calibration fingerprint in it, is computed
  before the decode, the analysis reads the calibrations after it. An edit in between,
  and its reversal later, leave an analysis of the other content under the old
  fingerprint, in memory or on disk, against `gui/service.py:1545-1546`.
* `export_report`: between the `Empty` of `result_queue.get` and `is_alive()` the
  worker may post and exit; an export that is on disk is reported as a crash
  (`gui/service.py:2122-2126`).
* `export_names`: the name of an export holds the exposure, not whether it was
  automatic, although an automatic one renders with a plan of its own; two different
  renders share a path (`gui/service.py:1857`, against 1506-1510).
* `library_race`: `_jptc_entries` stores entries and version in two assignments
  without a lock; entries of one release may stay under the name of another
  (`priors.py:325-326`).
* `page_reset`: the button that returns every control to its default replays values
  set aside for LibRaw when Apple RAW is selected (`gui/page.py:1060`).

## 4. Proofs

TLAPS checks each theorem below for every value of the constants: any number of
threads, requests, jobs, commands, pixels or items, any quotas and any bounds. The
bounds of the actions (`MaxEdits`, `MaxEvents`, `MaxMishaps`, ...) are arbitrary, so
these are statements about behaviours with any number of edits, kills and failures.
TLC checked each inductive invariant on a small instance before it was proved, with
the witnesses of its existential quantifiers sought among the inputs of the run.

| Module | Theorem | Property |
|---|---|---|
| `Admission_proofs` | `Invariance`, `TypeCorrectness`, `PermitsNeverLost`, `QuotaAlwaysRespected`, `ActiveAlwaysTruthful` | `IInv`, `TypeOK`, and the conjuncts of the next |
| | `SlotsAlwaysAccounted` | `SlotsAccounted` |
| | `NeverHoldAndWait` | `NoHoldAndWait` |
| | `AdmissionAlwaysRestored` | `AdmissionRestored` (action property) |
| | `StoreInvariant`, `FlightsAlwaysAccounted` | `StoreInv`, `FlightsAccounted` |
| | `GuidanceAlwaysHonoured` | `GuidanceHonoured` |
| | `ServedOnlyIfCurrent` | `ServedIfCurrent` (action property) |
| `Registry_proofs` | `RegistryInvariant` | `RegistryInv`, with `RegistryConsistent` and `RecentSessionsKept`, conjuncts of `GuiTypeOK` |
| | `NothingRevived` | `NeverRevived` (action property) |
| `Gui_proofs` | `CpuInvariant`, `KernelsAlwaysWithinShare` | `CpuInv`, `KernelsWithinShare` |
| | `MapsReturnWhole` | `ReturnsWhole` |
| | `CallInvariant`, `PromiseKept` | `CallInv`, `KeepsPromise` (refinement of `SingleFlight`) |
| | `ReportsAlwaysOfTheirPixels` | `ReportsOfTheirPixels` |
| | `UploadInvariant`, `UploadsAlwaysAccounted` | `UploadInv`, `UploadsAccounted` |
| | `DiskInvariant`, `NewestAlwaysPersisted` | `DiskInv`, `NewestPersisted` |
| | `GuiTypesAlwaysOK` | `GuiTypeOK`, the types of all parts of `MCGui` |
| `PreviewPipeline_proofs` | `PipelineInvariant`, `SlotsAlwaysWithWorkers` | `PipelineInv`, `SlotsHeldByWorkers` |
| | `ScreenAlwaysFollows` | `ScreenFollowsPage` (action property) |
| | `NewestAlwaysServed` | `NewestNeverDropped` (action property) |
| `ExportJob_proofs` | `ExportInvariant`, `ExportTypesKept` | `ExportInv`, `ExportTypeOK` |
| | `DirectoryAlwaysSound` | `DirectorySound` |
| | `RenditionsAlwaysHonest` | `RenditionsHonest` |
| | `ReportedAlwaysSaved` | `ReportedIsSaved` (action property) |
| | `EncodeInvariant`, `SearchAlwaysSound` | `EncodeInv`, `SearchSound` |
| | `TypesAlwaysOK` | `TypesOK`, the types of both parts of `MCExport` |
| `Library_proofs` | `ReuseInvariant`, `FramesAlwaysFollowDials` | `ReuseInv`, `FramesFollowDials` |
| | `EditInvariant`, `EditsAlwaysHold` | `EditInv`, `EditsHold` |
| | `MeasurementsAlwaysApart` | `MeasurementsNeverMixed` |
| | `RunsAlwaysHonest` | `RunsHonest` |
| | `FlowInvariant`, `ControlsInvariant`, `PageAlwaysHonest` | `FlowInv`, `ControlsInv`, `PageHonest` |
| | `PriorsAlwaysOfTheFile` | `PriorsOfTheFile` |
| | `ScopeNeverWidened`, `FactsAlwaysObserved` | `ScopeNarrowsOnly`, `FactsNeverInvented`, conjuncts of `FactsOfTheFile` |
| `Picture_proofs` | `EvidenceAlwaysFollows` | `EvidenceFollows` |
| | `ExposureInvariant`, `ExposureAlwaysRendered` | `CapInv` and `JointInv`, `ExposureRendered` |
| | `DecodeInvariant`, `CorrectionsAlwaysAccounted` | `DecodeInv`, `CorrectionsAccounted` |
| | `LoadInvariant`, `BundlesAlwaysHonest` | `LoadInv`, `BundlesHonest` |
| | `AnalysisAlwaysHonest` | `AnalysisHonest`, conjunct of `PicturesTrue` |
| | `BandsInvariant`, `BandsAlwaysAgree` | `BandsInv`, `BandsAgree`, conjunct of `PicturesTrue` |
| | `MapsAlwaysFollowScene` | `MapsFollowScene` |

Of the properties of the runs that pass, all that are not liveness have a theorem,
except `FactsOfTheFile` and `PicturesTrue`, of whose conjuncts four are proved.

### Assumptions

Only the named `ASSUME`s of the modules, which TLC evaluates on the runs. They are of
three kinds.

* Sets that are counted or summed over are finite, bounds and quotas are natural numbers,
  and what the code creates with one place or more has one: `ThreadsAssumption`,
  `RequestsAssumption`, `BoundsAssumption`, `QuotasAssumption`, `QuotaAssumption`,
  `InteractiveAssumption`, `AnonymousAssumption`, `MaxSessionsAssumption`,
  `MaxGenerationAssumption`, `LimitsAssumption`, `CpuAssumption`, `UploadAssumption`,
  `DiskAssumption`, `PageAssumption`, `TtlAssumption`, `AnchorAssumption`,
  `TouchAssumption`.
* What the parts are given has the shape it has in the code: packages that are sequences
  of groups (`StoreAssumption`), entries of a size (`SnapshotsAssumption`), dials of two
  positions (`SettingsAssumption`), ladders of qualities whose first is the best for JPEG
  (`EncodeAssumption`), at least two candidates of either kind in an exposure search
  (`SearchAssumption`), arguments of the parser's values (`CommandLinesAssumption`),
  opcodes in the order of their lists (`DngAssumption`), requests and offers of a load
  (`LoadAssumption`), tables of a package that do not contradict each other
  (`ScopeAssumption`; `CollectGroups` proves it of the groups it makes), measurements told
  apart by their time stamps (`LookupsAssumption`), fields a user may declare of which a
  file holds one value at most (`FactsAssumption`), recordings and captures
  (`RecordingsAssumption`, `CapturesAssumption`), groups of whole chunks
  (`JobsAssumption`), and crops that begin on the sensor and are not empty
  (`FramesAssumption`).
* Sentinels are not among what they stand beside: `NobodyAssumption`,
  `ExportAssumption`, `NoFrameAssumption`, `SectionAssumption`, `NoNameAssumption`,
  `NothingAssumption`.

One theorem has a hypothesis of its own: `NewestAlwaysServed` supposes
`MaxSerial <= MaxSessions`, sessions of a page that fit the registry (64 in the code).
Without it TLC finds, for a registry of one session, a late message of an old session
that pushes the newest one out.

### The inductive invariants and why they are needed

None of the properties is inductive by itself.

* **Scheduler.** `IInv` adds to the types that permits and owners add up, that counts
  and members agree, and that a thread has one lease (`OneLease`), because leaving a
  slot reasons about the lease of one kind. `LeaseStep` computes how owners and
  members change with one lease, `BalancedStep` that a step which moves a permit with
  its owner keeps the sums, `CoreStep` that every action is one. `CountOne` (one element
  more or less in a finite set) is shared with the store.
* **Proxy store.** The properties speak of answers, but what makes them true happens
  while a flight runs. `StoreInv` records that a running flight is the one on record
  for its key and a flight on record has an owner (`FlightsKnown`); that a waiter
  counts among the interested of a flight that will wake it (`InterestKept`); that an
  outcome comes only when the work is over, and that a flight is given up only when
  everybody polled is obsolete (`OutcomeLast`); that an entry in hand has the guidance
  asked for (`GuidanceKept`); and that free slots and builders add up (`SlotsKept`).
* **Registries.** A registry is a map and an order, and trimming the one must not
  forget what the other keeps. `RegistryInv` says that they name the same sessions (or
  clients), once each, and that the order of sessions is what is left of all announcements (`announced`, a
  history without limit) when only the newest stay. The step that matters is
  `TrimmedEarlier`: to trim, move one name to the end and trim again forgets nothing
  that moving it in the untrimmed order would have kept.
* **Pipeline.** What makes a request the newest is known to the page, what is dropped is
  decided by the server. `PipelineInv` says that nothing newer than what the page asked
  for last is under way (`SentInOrder`) or on record (`RecordedInOrder`), and that the
  newest selection and frame, once announced, are on record as such (`NewestSelected`,
  `NewestRegistered`); so a request that is dismissed had a newer one before it, in
  whatever order they arrived.
* **Runtime caches.** `CallInv` ties together four places where an outcome can be: the
  cache, the flight on record, its Future, and the answer a call is about to give. A
  flight on record has an owner at work on that key (`FlightsOwned`), its Future is
  decided only when the owner is about to take it off (`DecidedInTime`), what is cached
  meanwhile can only be its value (`CachedByFlight`), an open call was offered what is
  in force (`OffersHold`), and a subscriber what its flight has come to, although the
  flight may be off record when it wakes (`SubscribersServed`). With it every step is
  one of the promise: `Enter` is `Open`; `LookupHit`, `Wake` and `PopFlight` are
  `Close`; `LookupMiss` is `Compute`, or nothing a caller sees when it subscribes;
  `Insert` and `BuilderRaises` are `Decide`; `Notify`, `Land` and the evictions are
  `Forget`, which loses values or none. `FlightsOwned` fails if two callers ever
  work on one key, and `OffersHold` if a value returns after it was evicted. `PixelInv`
  says of the frames that no key is queued twice, so one that is trimmed is gone, and
  that a report is of what was drawn last.
* **CPU budget.** `CpuInv` relates one number, the native budget, to all claims
  (`BudgetTight`) and each claim to the batches that may still run (`ClaimStands`);
  batches are submitted in order (`InOrder`), so their number bounds those that run;
  the share of a map times its batches fits the worker's (`SharesFit`). The arithmetic
  of the splits (`DivisionBounds`, `BatchesFit`, `MachineShared`) is proved for all
  natural numbers, and that the least of a nonempty set exists (`LeastIsMin`) by
  well-foundedness.
* **Uploads.** `UploadInv` is the books: slots free and taken, the bytes reserved as the
  sum of the lengths promised, and what is on disk beside the uploads in progress, which
  together with the promises stays within the quota. `SumFunctionOnSet` adds in an order of its
  choice; `SumBySteps` and `SumWithout` say that a sum changes by the one term that does.
* **Disk writer.** `DiskInv` follows the newest snapshot of each path from the queue
  through the writer's hands into the file (`OnItsWay`): what is older stands only
  behind it. A queue that is too long loses its oldest jobs, whose paths are those the
  property exempts; `FittingFacts` and `TailBytes` say which these are and that the bytes
  of the rest fit.
* **Types of parts side by side.** A part moves by its own steps while the others stand
  still, so a behaviour of `MCGui` or `MCExport` is one of every part
  (`PartsOfTheWhole`), and the theorems of the parts add up.
* **Exports.** What a name promises was established steps before it was published.
  `ExportInv` says for each place of a worker what has been secured there: whose slot
  it runs in (`Watched`), which temporaries it may have (`PrivateKept`), what it has
  found out of the calibrations and the decoder and that a difference is noticed or
  has come back by the time files are named (`FoundOut`), what is saved before the
  answer (`SavedInTime`); that an image is sound from its readback on, through the
  rewriting of its metadata, until it has a name; and for every published name what it is
  (`FileInv`). Only files of jobs are ever written or given to an output name, so the RAW's
  file keeps its bytes under whatever names it has.
* **Encode search.** What was verified first is the oracle of the whole search, and the
  winner is the smallest so far (`SizeInv`) of what stays within its budget (`ChosenInv`,
  `OracleInv`). While gain maps change the donor of the winner is pinned (`StageInv`,
  `DonorInv`), and what was tried and what is left are together bounded (`CountInv`).
* **Frames.** A frame may be assembled from parts made for other requests. `ReuseInv`
  says that everything stored is what *some* request of the same proxy would have
  made from nothing; `KeysTell` shows, key by key, that two requests with the same key
  would have made the same. The proofs of `PixelKeyTells` and `KeysTell` go through
  each dial the content reads and fail when the key forgets one.
* **Measurements.** To read a record, change it and write it back is not one step.
  `EditInv` says what an activation under way may still write (`ReadsRemembered`):
  a record as young as the last import, of a measurement whose removal nobody counts
  on; with the shape of names (`NamedForPayload`), temporaries (`Tidy`) and the edits
  previews were not told of. It is this that separates an overwritten removal the
  code permits from one it promises against.
* **Groups, priors, scopes, facts.** Groups are computed in one step; the proof is that
  a table's group is named by what it and all its kin declare, and that a table whose kin
  disagree has none (`GroupFacts`). For priors, that the choice among candidates is a
  best one exists because measurements differ in their stamps (`BestFound`), and that
  each source proves for the file what it lends. `ScopeInv` says that the edits of a
  user add up to the explicit scope of a bound product, although the form shows a
  mixture of edits and declarations. `FactsInv` says that what is bundled or kept is a
  snapshot of the file with an accepted declaration, and what is published such a
  snapshot without what is private.
* **Command line.** `CommandInv` lists, for each statement of `main`, what is in memory
  for the statements to come (`BuffersKept`), what is on disk by then (`ProductsThere`),
  and that the names are not protected once they were checked; a container's suffix is
  that of its format (`SuffixTellsContainer`).
* **The page.** `FlowInv`: a request for a frame or a preparation that was not aborted
  is of the file and the session the page is at, so what is taken over may be shown.
  `ControlsInv`: between two handlers what is locked and set aside belongs to the
  decoder (`SetAside`, `Locked`), the encoding to profile and format (`Fixed`), and what
  is remembered is what a save would write; every handler ends in such a page
  (`HandlersEnd`), from which the contract with the service follows.
* **Evidence.** `EvidenceInv` says that from the analysis on a bundle, cached or not,
  carries the masks and the exclusion of the well that was resolved, in its sample too
  unless the sample came without masks, and guidance that was measured with that well or
  is marked as to be measured again.
* **Exposure.** `CapInv`: while the search halves, the highlights hold at one end of the
  bracket and not at the other, which is as wide as the halvings left; `JointInv`: the joint
  search has rejected every candidate before the one it is at. Widths and lists are
  recursive functions over an interval; that they exist is proved once
  (`RecursionExists`, from `LeastNumber`).
* **Corrections of a DNG.** `DecodeInv`: at every stage what was applied followed by what is to
  do is the plan's list (`OnMosaic`, `OnCamera`, `PlanComplete`), and what was lost is in a
  raster or the frame is not trusted. A plan that is kept for a later call is one an
  honest reading of the file gives.
* **Loads.** Generations only grow: if the file is still the session's when a load returns, it
  was all the time. `LoadSound` says of each place of a load which parts of the bundle
  can be claimed so, and `Attempts` which decoders were tried before.
* **Analysis.** A summary on its way is that of the white level it was asked for,
  whatever the level is by then (`ScanSound`); noise and electrons are made in order
  from the recording's prior.
* **Bands.** The group in progress begins at a base (`Joining`): what lies before it is
  written, with two values of the generator for each pixel, and the tail kept of it is the
  brightest of all its pixels, since the brightest of a tail and a chunk are the brightest
  of what both were taken of.
* **Geometry.** The maps of a scene are made in one step, by two paths whose roundings
  differ. The edges of a crop that is resampled lie within half a pixel of those that were
  rounded; the sensels of a pixel are known by its place before it was turned; so the
  footprint of a mask holds the pixel the scene took, for a sensor of any size, a crop
  in any parts of a sensel and all eight orientations.

### What stays with TLC, and why

* Liveness (`EveryRequestLeaves`, `EveryRequestAnswered`, `SettlesOnNewest`, `WorkEnds`,
  `EveryExportAnswered`): fairness and ENABLED are outside what the prover handles.
* `FactsOfTheFile` as a whole: its conjunct `FrameOfTheFile` compares a walk with the
  order of a parser, which a recursive function computes over the directories of a
  container; what it computes for every container needs induction over data.
* `PicturesTrue` as a whole: `PackagesWhole`, `FitsHonest`, `AnchorsMeasured` and
  `WindowsFollowPixels` filter lists, sort, add up with folds or follow references by
  recursion over data; `AppleLinear` filters what a Mac offers; for `PlansEarned` no proof
  was tried.
* The six violations: TLC's counterexamples.

## 5. What is not modelled

* Numeric code: what a pixel becomes in tone curves, colour, noise reduction and the
  Rust kernels; image statistics; codecs. Where control depends on a number, the
  models use a small scale (tenths of an EV, sixteenths, steps of five percent) or an
  oracle that answers consistently.
* Transport (`gui/fastapi_app.py`, `gui/server.py`): its one relevant effect, a thread
  per request that nobody cancels, is built into the models.
* The dither owner of an entry, `peek`, timings and counters that decide nothing;
  probes and overlays of the service; layout, labels and drawing of the page; formats
  of reports.
* A second tab in the pipeline. After an edit in one tab, the newest request of
  another is superseded and that page stays busy until its user acts; nothing in the
  code promises otherwise.
* What should become of an export that answers after another file was selected: it is
  shown as if it were of that file (`gui/page.py:1871`). `PageFlow` has the step, and its
  property exempts it, since nothing says that it should not.
* `src/tools`, except the one that measures anchors: benchmarks, validators and
  generators beside the program.

## 6. Plan

1. `FrameOfTheFile`: the bound of the walk and that a frame is one of the main frames
   seen need no order of the parser; with them only the last conjunct would stay with TLC.
2. The conjuncts of `PicturesTrue` in reach: `PlansEarned`, whose plan is a record
   computed without recursion, and `AppleLinear`, after a lemma on what the filtered
   offers of a Mac hold.
3. The bounds on generations that `NewestNeverDropped` needs, stated for a page whose
   sessions outnumber the registry: which of them may be forgotten.
