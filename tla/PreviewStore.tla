---------------------------- MODULE PreviewStore ----------------------------
(***************************************************************************)
(* gui/preview_cache.py, PreviewCache.get: preview requests obtain the     *)
(* proxy of a file from memory, from a flight another request owns, from   *)
(* disk, or by building it (decode, analyze, reduce).                      *)
(*                                                                         *)
(* A flight is named by the request that owns it (an owner never owns a    *)
(* second one).  Every lock region is one step.  Polling is_current is a   *)
(* step of its own, since other requests may become obsolete at any time.  *)
(*                                                                         *)
(* The key of an entry is its file and the calibration content read when   *)
(* the request arrived (_cache_identity); the decode parameters belong to  *)
(* the file here.  The white-balance step that follows is RuntimeCache's.  *)
(***************************************************************************)
EXTENDS Lru, FiniteSets

CONSTANTS
    Requests,        \* request handler threads
    Anonymous,       \* requests without generation and epoch, always current
    Files,           \* RAW files with their decode parameters
    Measurable,      \* files whose mosaic yields RAW guidance maps
    Calibrations,    \* contents the calibration store can have
    Nobody,          \* no request
    MaxItems,        \* MAX_MEMORY_PROXY_ITEMS
    MaxBuilds,       \* MAX_CONCURRENT_BUILDS
    MaxPending,      \* DiskWriter.max_items
    MaxFiles,        \* MAX_DISK_CACHE_FILES
    MaxEdits,        \* bound: edits of the calibration store
    MaxDisturbances  \* bound: failures, evictions by size, expired fallbacks

ASSUME RequestsAssumption == IsFiniteSet(Requests)
ASSUME AnonymousAssumption == Anonymous \subseteq Requests
ASSUME NobodyAssumption == Nobody \notin Requests
ASSUME QuotaAssumption == MaxBuilds \in Nat \ {0} /\ MaxItems \in Nat \ {0}

VARIABLES
    entries,      \* PreviewCache.entries, oldest first
    inflight,     \* _inflight: the owner of the key's flight, or Nobody
    flight,       \* the waiter object of each owner
    buildSlots,   \* value of _build_slots
    req,          \* the local state of each request
    current,      \* what the request's is_current() answers
    calibration,  \* content of the calibration store
    editing,      \* how far the calibration service is with an edit
    edits, disturbances,     \* counters of the bounds
    toWrite, writing, files  \* the disk writer's queue, job and directory

storeVars == <<entries, inflight, flight, buildSlots, req, current>>
serviceVars == <<calibration, editing, edits>>
writerVars == <<toWrite, writing, files>>
proxyVars == <<storeVars, serviceVars, disturbances, writerVars>>

CacheKeys == Files \X Calibrations

SizeOfOne(e) == 1
NotFallback(e) == ~e.fallback
Writer == INSTANCE DiskWriter WITH
    pending <- toWrite, Paths <- CacheKeys, MaxPendingBytes <- MaxPending,
    EntryBytes <- SizeOfOne, Durable <- NotFallback

\* guided: bundle.raw_guidance is not None; analysed: the calibration content
\* analyze() consulted; expired: an auto fallback past its retry time.
Entry(k, guided, analysed, fallback) ==
    [key |-> k, guided |-> guided, analysed |-> analysed,
     fallback |-> fallback, expired |-> FALSE]

NoEntry == [key |-> <<>>]

\* "building" states: the request owns a flight and a build slot.
Building == {"poll", "abandon", "disk", "unlink", "decode", "analyze"}
HoldingFlight == Building \cup {"queued", "install", "trim", "land", "submit", "release"}
Answered == {"served", "superseded", "failed"}
Places == {"new", "identify", "lookup", "wait", "final"} \cup HoldingFlight \cup Answered

ProxyInit ==
    /\ entries = <<>>
    /\ inflight = [k \in CacheKeys |-> Nobody]
    /\ flight = [r \in Requests |-> [interests |-> {}, landed |-> FALSE, error |-> "none"]]
    /\ buildSlots = MaxBuilds
    /\ req = [r \in Requests |-> [at |-> "new", key |-> <<>>, guidance |-> FALSE,
                                  joined |-> Nobody, polled |-> {}, stage |-> 1,
                                  entry |-> NoEntry]]
    /\ current = [r \in Requests |-> TRUE]
    /\ calibration \in Calibrations
    /\ editing = "idle"
    /\ edits = 0
    /\ disturbances = 0
    /\ Writer!DiskInit

At(r, place) == req[r].at = place
Goto(r, place) == req' = [req EXCEPT ![r].at = place]
Disturb == disturbances < MaxDisturbances /\ disturbances' = disturbances + 1

\* The entries of a sequence under key k (at most one), and the others.
Find(k) == {entries[i] : i \in {j \in DOMAIN entries : entries[j].key = k}}
Without(k) == SelectSeq(entries, LAMBDA e : e.key # k)
Suffices(e, r) == ~req[r].guidance \/ e.guided

-----------------------------------------------------------------------------
(* Arrival, identity and the memory lookup *)

Arrive(r) ==
    /\ At(r, "new")
    /\ \E f \in Files, g \in BOOLEAN :
         req' = [req EXCEPT ![r].at = "identify", ![r].guidance = g, ![r].key = <<f>>]
    /\ UNCHANGED <<entries, inflight, flight, buildSlots, current, serviceVars,
                   disturbances, writerVars>>

Identify(r) ==
    /\ At(r, "identify")
    /\ req' = [req EXCEPT
                 ![r].at = IF current[r] THEN "lookup" ELSE "superseded",
                 ![r].key = IF current[r] THEN <<@[1], calibration>> ELSE @]
    /\ UNCHANGED <<entries, inflight, flight, buildSlots, current, serviceVars,
                   disturbances, writerVars>>

\* Mutant of Lookup: a request that needs guidance does not join a flight.
LookupAlone(r) ==
    LET k == req[r].key
        hit == {e \in Find(k) : ~e.expired /\ Suffices(e, r)}
    IN
    /\ At(r, "lookup")
    /\ UNCHANGED entries
    /\ IF hit # {}
         THEN /\ req' = [req EXCEPT ![r].at = "final", ![r].entry = CHOOSE e \in hit : TRUE]
              /\ UNCHANGED <<inflight, flight>>
         ELSE IF inflight[k] = Nobody \/ req[r].guidance
                THEN /\ inflight' = [inflight EXCEPT ![k] = r]
                     /\ flight' = [flight EXCEPT ![r].interests = {r}]
                     /\ Goto(r, "queued")
                ELSE /\ flight' = [flight EXCEPT ![inflight[k]].interests = @ \cup {r}]
                     /\ req' = [req EXCEPT ![r].at = "wait", ![r].joined = inflight[k]]
                     /\ UNCHANGED inflight
    /\ UNCHANGED <<buildSlots, current, serviceVars, disturbances, writerVars>>

\* An expired fallback leaves the memory; an entry that suffices is a hit;
\* otherwise the request joins the key's flight or starts one.
Lookup(r) ==
    LET k == req[r].key
        fresh == {e \in Find(k) : ~e.expired}
        hit == {e \in fresh : Suffices(e, r)}
    IN
    /\ At(r, "lookup")
    /\ IF hit # {}
         THEN /\ entries' = Append(Without(k), CHOOSE e \in hit : TRUE)
              /\ req' = [req EXCEPT ![r].at = "final", ![r].entry = CHOOSE e \in hit : TRUE]
              /\ UNCHANGED <<inflight, flight>>
         ELSE /\ entries' = IF fresh = {} THEN Without(k) ELSE entries
              /\ IF inflight[k] = Nobody
                   THEN /\ inflight' = [inflight EXCEPT ![k] = r]
                        /\ flight' = [flight EXCEPT ![r].interests = {r}]
                        /\ Goto(r, "queued")
                   ELSE /\ flight' = [flight EXCEPT ![inflight[k]].interests = @ \cup {r}]
                        /\ req' = [req EXCEPT ![r].at = "wait", ![r].joined = inflight[k]]
                        /\ UNCHANGED inflight
    /\ UNCHANGED <<buildSlots, current, serviceVars, disturbances, writerVars>>

\* Mutant of Wake: the flight's result is taken as it is.
WakeTakesAny(r) ==
    LET f == req[r].joined IN
    /\ At(r, "wait")
    /\ flight[f].landed
    /\ IF flight[f].error # "none"
         THEN Goto(r, flight[f].error)
         ELSE req' = [req EXCEPT ![r].at = "final", ![r].entry = req[f].entry]
    /\ UNCHANGED <<entries, inflight, flight, buildSlots, current, serviceVars,
                   disturbances, writerVars>>

\* A subscriber wakes: the flight's own error, its result if it suffices, or
\* another look at the memory.
Wake(r) ==
    LET f == req[r].joined IN
    /\ At(r, "wait")
    /\ flight[f].landed
    /\ IF flight[f].error # "none"
         THEN Goto(r, flight[f].error)
         ELSE IF Suffices(req[f].entry, r)
                THEN req' = [req EXCEPT ![r].at = "final", ![r].entry = req[f].entry]
                ELSE Goto(r, "lookup")
    /\ UNCHANGED <<entries, inflight, flight, buildSlots, current, serviceVars,
                   disturbances, writerVars>>

\* Mutant of Final: the entry is handed out unchecked.
FinalUnchecked(r) ==
    /\ At(r, "final")
    /\ Goto(r, "served")
    /\ UNCHANGED <<entries, inflight, flight, buildSlots, current, serviceVars,
                   disturbances, writerVars>>

\* The last boundary before the entry is handed out.
Final(r) ==
    /\ At(r, "final")
    /\ Goto(r, IF current[r] THEN "served" ELSE "superseded")
    /\ UNCHANGED <<entries, inflight, flight, buildSlots, current, serviceVars,
                   disturbances, writerVars>>

-----------------------------------------------------------------------------
(* The owner of a flight *)

TakeBuildSlot(r) ==
    /\ At(r, "queued")
    /\ buildSlots > 0
    /\ buildSlots' = buildSlots - 1
    /\ Goto(r, "poll")
    /\ UNCHANGED <<entries, inflight, flight, current, serviceVars, disturbances, writerVars>>

\* _check_flight_interest: the owner goes on while anyone still cares.
Poll(r) ==
    LET cares == \E i \in flight[r].interests : current[i] IN
    /\ At(r, "poll")
    /\ req' = [req EXCEPT
                 ![r].at = IF cares THEN <<"disk", "decode", "analyze">>[req[r].stage] ELSE "abandon",
                 ![r].polled = IF cares THEN {} ELSE flight[r].interests]
    /\ UNCHANGED <<entries, inflight, flight, buildSlots, current, serviceVars,
                   disturbances, writerVars>>

\* Mutants of Abandon: it does not look again at who joined, or it always
\* asks again.
AbandonAtOnce(r) ==
    /\ At(r, "abandon")
    /\ inflight' = [k \in CacheKeys |-> IF inflight[k] = r THEN Nobody ELSE inflight[k]]
    /\ flight' = [flight EXCEPT ![r].error = "superseded"]
    /\ buildSlots' = buildSlots + 1
    /\ Goto(r, "release")
    /\ UNCHANGED <<entries, current, serviceVars, disturbances, writerVars>>

AbandonNever(r) ==
    /\ At(r, "abandon")
    /\ Goto(r, "poll")
    /\ UNCHANGED <<entries, inflight, flight, buildSlots, current, serviceVars,
                   disturbances, writerVars>>

\* Nobody cared when polled.  Unless somebody joined since, the flight leaves
\* _inflight before it fails, so a later request starts afresh.
Abandon(r) ==
    /\ At(r, "abandon")
    /\ IF flight[r].interests # req[r].polled
         THEN Goto(r, "poll") /\ UNCHANGED <<inflight, flight, buildSlots>>
         ELSE /\ inflight' = [k \in CacheKeys |-> IF inflight[k] = r THEN Nobody ELSE inflight[k]]
              /\ flight' = [flight EXCEPT ![r].error = "superseded"]
              /\ buildSlots' = buildSlots + 1
              /\ Goto(r, "release")
    /\ UNCHANGED <<entries, current, serviceVars, disturbances, writerVars>>

\* _read_disk_entry: a file that cannot be opened is about to be unlinked, one
\* without the guidance asked for is left alone, any other is the product.
ReadDisk(r) ==
    LET found == Writer!OnDisk(req[r].key) IN
    /\ At(r, "disk")
    /\ \/ /\ \E e \in found :
               /\ Suffices(e, r)
               /\ req' = [req EXCEPT ![r].at = "install", ![r].stage = 1, ![r].entry = e]
          /\ buildSlots' = buildSlots + 1
       \/ /\ \E e \in found : ~Suffices(e, r)
          /\ req' = [req EXCEPT ![r].at = "poll", ![r].stage = 2]
          /\ UNCHANGED buildSlots
       \/ /\ found = {}
          /\ Goto(r, "unlink")
          /\ UNCHANGED buildSlots
    /\ UNCHANGED <<entries, inflight, flight, current, serviceVars, disturbances, writerVars>>

UnlinkUnreadable(r) ==
    /\ At(r, "unlink")
    /\ Writer!Unlink(req[r].key)
    /\ req' = [req EXCEPT ![r].at = "poll", ![r].stage = 2]
    /\ UNCHANGED <<entries, inflight, flight, buildSlots, current, serviceVars, disturbances>>

Decode(r) ==
    /\ At(r, "decode")
    /\ req' = [req EXCEPT ![r].at = "poll", ![r].stage = 3]
    /\ UNCHANGED <<entries, inflight, flight, buildSlots, current, serviceVars,
                   disturbances, writerVars>>

\* analyze() and build_proxy_entry: the calibrations consulted are those of
\* this moment; guidance is built only when this request asked for it.
Analyze(r) ==
    /\ At(r, "analyze")
    /\ \E fallback \in BOOLEAN :
         req' = [req EXCEPT ![r].at = "install",
                    ![r].entry = Entry(req[r].key, req[r].guidance /\ req[r].key[1] \in Measurable,
                                       calibration, fallback)]
    /\ buildSlots' = buildSlots + 1
    /\ UNCHANGED <<entries, inflight, flight, current, serviceVars, disturbances, writerVars>>

BuildFails(r) ==
    /\ At(r, "decode") \/ At(r, "analyze")
    /\ Disturb
    /\ flight' = [flight EXCEPT ![r].error = "failed"]
    /\ buildSlots' = buildSlots + 1
    /\ Goto(r, "release")
    /\ UNCHANGED <<entries, inflight, current, serviceVars, writerVars>>

Install(r) ==
    /\ At(r, "install")
    /\ entries' = KeepNewest(Append(Without(req[r].key), req[r].entry), MaxItems)
    /\ Goto(r, "trim")
    /\ UNCHANGED <<inflight, flight, buildSlots, current, serviceVars, disturbances, writerVars>>

\* _trim_memory: the byte limit may take any number of the oldest entries.
EvictOldest == \E n \in 1..Len(entries) : entries' = KeepNewest(entries, Len(entries) - n)

Trim(r) ==
    /\ At(r, "trim")
    /\ \/ UNCHANGED <<entries, disturbances>>
       \/ EvictOldest /\ Disturb
    /\ Goto(r, "land")
    /\ UNCHANGED <<inflight, flight, buildSlots, current, serviceVars, writerVars>>

\* waiter.result = built; waiter.set(), before the optional disk write of a
\* cold build (stage 3; an entry read from disk reset it).
Land(r) ==
    /\ At(r, "land")
    /\ flight' = [flight EXCEPT ![r].landed = TRUE]
    /\ Goto(r, IF req[r].stage = 3 THEN "submit" ELSE "release")
    /\ UNCHANGED <<entries, inflight, buildSlots, current, serviceVars, disturbances, writerVars>>

SubmitToDisk(r) ==
    /\ At(r, "submit")
    /\ Writer!Submit(req[r].key, req[r].entry)
    /\ Goto(r, "release")
    /\ UNCHANGED <<entries, inflight, flight, buildSlots, current, serviceVars, disturbances>>

\* Mutant of ReleaseFlight: the key to remove is computed from the calibrations of now.
ReleasePresentKey(r) ==
    /\ At(r, "release")
    /\ inflight' = [inflight EXCEPT ![<<req[r].key[1], calibration>>] = Nobody]
    /\ flight' = [flight EXCEPT ![r].landed = TRUE]
    /\ Goto(r, IF flight[r].error = "none" THEN "final" ELSE flight[r].error)
    /\ UNCHANGED <<entries, buildSlots, current, serviceVars, disturbances, writerVars>>

\* The finally block: the flight leaves _inflight, its subscribers wake.
ReleaseFlight(r) ==
    /\ At(r, "release")
    /\ inflight' = [k \in CacheKeys |-> IF inflight[k] = r THEN Nobody ELSE inflight[k]]
    /\ flight' = [flight EXCEPT ![r].landed = TRUE]
    /\ Goto(r, IF flight[r].error = "none" THEN "final" ELSE flight[r].error)
    /\ UNCHANGED <<entries, buildSlots, current, serviceVars, disturbances, writerVars>>

-----------------------------------------------------------------------------
(* What goes on around the store *)

\* A newer generation or selection of the same browser session; nobody asks
\* is_current() of a request that was answered.
Supersede(r) ==
    /\ r \notin Anonymous
    /\ req[r].at \notin Answered
    /\ current[r]
    /\ current' = [current EXCEPT ![r] = FALSE]
    /\ UNCHANGED <<entries, inflight, flight, buildSlots, req, serviceVars,
                   disturbances, writerVars>>

\* The runtime caches of a retained entry grew: _trim_memory again.
MemoryPressure ==
    /\ EvictOldest
    /\ Disturb
    /\ UNCHANGED <<inflight, flight, buildSlots, req, current, serviceVars, writerVars>>

\* AUTO_FALLBACK_RETRY_SECONDS pass over an entry of a decoder fallback.
FallbackExpires ==
    /\ \E i \in DOMAIN entries :
         /\ entries[i].fallback /\ ~entries[i].expired
         /\ entries' = [entries EXCEPT ![i].expired = TRUE]
    /\ Disturb
    /\ UNCHANGED <<inflight, flight, buildSlots, req, current, serviceVars, writerVars>>

\* calibration_service: the store is edited, then _invalidate_preview clears
\* the generations and after them the memory.
EditCalibration ==
    /\ editing = "idle"
    /\ edits < MaxEdits
    /\ \E c \in Calibrations \ {calibration} : calibration' = c
    /\ edits' = edits + 1
    /\ editing' = "written"
    /\ UNCHANGED <<storeVars, disturbances, writerVars>>

\* Requests not yet registered are untouched by the clearing.
ClearGenerations ==
    /\ editing = "written"
    /\ editing' = "cleared"
    /\ current' = [r \in Requests |-> current[r] /\ (r \in Anonymous \/ At(r, "new"))]
    /\ UNCHANGED <<entries, inflight, flight, buildSlots, req, calibration, edits,
                   disturbances, writerVars>>

ClearMemory ==
    /\ editing = "cleared"
    /\ editing' = "idle"
    /\ entries' = <<>>
    /\ UNCHANGED <<inflight, flight, buildSlots, req, current, calibration, edits,
                   disturbances, writerVars>>

DiskWrite == Writer!WriterStep /\ UNCHANGED <<storeVars, serviceVars, disturbances>>

AllAnswered == (\A r \in Requests : req[r].at \in Answered) /\ UNCHANGED proxyVars

-----------------------------------------------------------------------------
RequestStep(r) ==
    \/ Identify(r) \/ Lookup(r) \/ Wake(r) \/ Final(r)
    \/ TakeBuildSlot(r) \/ Poll(r) \/ Abandon(r)
    \/ ReadDisk(r) \/ UnlinkUnreadable(r) \/ Decode(r) \/ Analyze(r) \/ BuildFails(r)
    \/ Install(r) \/ Trim(r) \/ Land(r) \/ SubmitToDisk(r) \/ ReleaseFlight(r)

ProxyNext ==
    \/ \E r \in Requests : Arrive(r) \/ RequestStep(r) \/ Supersede(r)
    \/ MemoryPressure \/ FallbackExpires
    \/ EditCalibration \/ ClearGenerations \/ ClearMemory
    \/ DiskWrite
    \/ AllAnswered

ProxySpec == ProxyInit /\ [][ProxyNext]_proxyVars

\* Handler threads are scheduled; decoding and analysis end.
ProxyFairSpec == ProxySpec /\ \A r \in Requests : WF_proxyVars(RequestStep(r))

-----------------------------------------------------------------------------
ProxyTypeOK ==
    /\ \A r \in Requests : req[r].at \in Places
    /\ inflight \in [CacheKeys -> Requests \cup {Nobody}]
    /\ buildSlots \in 0..MaxBuilds
    /\ current \in [Requests -> BOOLEAN]
    /\ calibration \in Calibrations
    /\ editing \in {"idle", "written", "cleared"}

\* Requests for the same key never build twice at once (lines 1163-1164), nor
\* queue for it, not even around the detaching of an abandoned flight.
OneBuildPerKey ==
    \A r, s \in Requests :
        r # s /\ {req[r].at, req[s].at} \subseteq HoldingFlight \ {"release"} => req[r].key # req[s].key

\* Every exit from a build (hit, product, failure, abandonment) gives its
\* build slot back exactly once.
BuildSlotsConserved ==
    buildSlots + Cardinality({r \in Requests : req[r].at \in Building}) = MaxBuilds

\* Builds are bounded: one per key, and their slots all come back.
BuildsBounded == OneBuildPerKey /\ BuildSlotsConserved

\* A flight on record has a live owner, so no key is blocked for ever, and a
\* subscriber waits for a flight that has landed or whose owner still runs.
FlightsOwned ==
    /\ \A k \in CacheKeys : inflight[k] # Nobody =>
           req[inflight[k]].at \in HoldingFlight /\ req[inflight[k]].key = k
    /\ \A r \in Requests : At(r, "wait") =>
           flight[req[r].joined].landed \/ req[req[r].joined].at \in HoldingFlight

\* A request that needs RAW guidance never receives a proxy without it, from
\* memory, flight or disk, when the file can provide it.
GuidanceHonoured ==
    \A r \in Requests :
        At(r, "served") /\ req[r].guidance /\ req[r].key[1] \in Measurable => req[r].entry.guided

\* A request that is still wanted is never answered "superseded", whichever
\* flight it joined and whoever owned it (lines 1382, 1391-1392).
CurrentNeverSuperseded ==
    [][\A r \in Requests : current[r] /\ ~At(r, "superseded") => req'[r].at # "superseded"]_proxyVars

\* A request that became obsolete, by a newer selection or by an edit of the
\* calibrations, is not handed a proxy any more.
ObsoleteNeverServed ==
    [][\A r \in Requests : ~current[r] /\ req'[r].at = "served" => At(r, "served")]_proxyVars

\* The proxy builds are accounted for and owned, so no key and no request waits for nobody.
FlightsAccounted == ProxyTypeOK /\ BuildsBounded /\ FlightsOwned

\* Whether a request is served or turned away is decided by what it asks for now.
ServedIfCurrent == CurrentNeverSuperseded /\ ObsoleteNeverServed

\* Every request is answered: it cannot wait, poll or look up for ever.
EveryRequestAnswered ==
    \A r \in Requests : At(r, "identify") ~> req[r].at \in Answered

\* "Reuse is exact by construction" (service.py lines 1542-1546): once the
\* calibration service is done with its edits, a request never receives an
\* analysis made under another calibration content than the present one.
AnalysisMatchesCalibration ==
    [][\A r \in Requests :
           ~At(r, "served") /\ req'[r].at = "served" /\ editing = "idle"
             /\ req[r].key[2] = calibration
           => req[r].entry.analysed = calibration]_proxyVars
=============================================================================
