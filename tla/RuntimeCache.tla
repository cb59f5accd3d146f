---------------------------- MODULE RuntimeCache ----------------------------
(***************************************************************************)
(* gui/preview_cache.py, PreviewEntry: the plans, balances and exposures   *)
(* computed at most once per key (get_or_compute), the rendered pixels     *)
(* with their reports, and evict_runtime.  One step per critical section   *)
(* of _runtime_cache_lock and per operation on a flight's Future.          *)
(*                                                                         *)
(* A flight is named by the caller that owns it; a caller makes one call.  *)
(* The slot a waiting caller gives back is RenderScheduler's.              *)
(***************************************************************************)
EXTENDS Lru, FiniteSets

CONSTANTS
    Callers,     \* requests that need a computed object
    Kinds,       \* plan, balance, auto_ev
    Names,       \* the keys within a kind
    Limits,      \* items each kind keeps
    EvictionOrder, \* the sequence of caches evict_runtime goes through
    PixelKeys,   \* keys of rendered frames
    PixelLimit,  \* MAX_PIXEL_CACHE_ITEMS
    Nobody,      \* no caller, no key, no outcome
    MaxFailures, \* bound: builders that raise
    MaxRenders,  \* bound: frames rendered
    MaxPressure  \* bound: evictions by the store

ASSUME NobodyAssumption ==
    /\ Nobody \notin Callers
    /\ Nobody \notin Kinds \X Names
    /\ Nobody \notin {"value", "failure"} \X Callers
ASSUME LimitsAssumption == Limits \in [Kinds -> Nat \ {0}] /\ PixelLimit \in Nat \ {0}

VARIABLES
    caches,    \* the OrderedDict of each kind: [name, value] records, oldest first
    inflight,  \* _runtime_inflight: the owner of each token's flight, or Nobody
    verdict,   \* the Future of each owner: Nobody until decided
    lookups,   \* where each caller is in get_or_compute
    offers,    \* history: outcomes in force for the call since it was opened
    pixels,    \* _pixel_cache, oldest first
    drawn,     \* the render that the pixels of each key are of; renders are counted
    reports,   \* _pixel_reports: the render that the report of each key is of, 0 none
    failures, renders, pressure   \* counters of the bounds

frameVars == <<pixels, drawn, reports>>
cacheVars == <<caches, inflight, verdict, lookups, offers, frameVars, failures, renders, pressure>>

Tokens == Kinds \X Names
Value(c) == <<"value", c>>       \* what c's builder returns
Failure(c) == <<"failure", c>>   \* what c's builder raises
Outcomes == {"value", "failure"} \X Callers

CacheInit ==
    /\ caches = [kind \in Kinds |-> <<>>]
    /\ inflight = [token \in Tokens |-> Nobody]
    /\ verdict = [c \in Callers |-> Nobody]
    /\ lookups = [c \in Callers |-> [at |-> "idle", token |-> Nobody,
                                     joined |-> Nobody, answer |-> Nobody]]
    /\ offers = [c \in Callers |-> {}]
    /\ pixels = <<>>
    /\ drawn = [p \in PixelKeys |-> 0]
    /\ reports = [p \in PixelKeys |-> 0]
    /\ failures = 0 /\ renders = 0 /\ pressure = 0

LookupAt(c, place) == lookups[c].at = place
LookupGoto(c, place) == lookups' = [lookups EXCEPT ![c].at = place]

Cached(token) ==
    {caches[token[1]][i].value : i \in {j \in DOMAIN caches[token[1]] :
                                          caches[token[1]][j].name = token[2]}}
Others(token) == RemoveFirstMatch(caches[token[1]], LAMBDA item : item.name = token[2])
Newest(token, value) == Append(Others(token), [name |-> token[2], value |-> value])

\* What a call of the token opened now could end with: the decision of the
\* flight on record, else the cached value.
InForce(token) ==
    LET owner == inflight[token] IN
    IF owner # Nobody /\ (LookupAt(owner, "notify") \/ LookupAt(owner, "land"))
      THEN Value(owner)
      ELSE IF owner # Nobody /\ verdict[owner] # Nobody
             THEN verdict[owner]
             ELSE IF Cached(token) # {} THEN CHOOSE v \in Cached(token) : TRUE ELSE Nobody

\* A decision is offered to every open call of the token.
Offer(token, outcome) ==
    offers' = [c \in Callers |-> IF lookups[c].token = token /\ ~LookupAt(c, "done")
                                   THEN offers[c] \cup {outcome} ELSE offers[c]]

-----------------------------------------------------------------------------
(* get_or_compute *)

Enter(c, token) ==
    /\ LookupAt(c, "idle")
    /\ lookups' = [lookups EXCEPT ![c].at = "lookup", ![c].token = token]
    /\ offers' = [offers EXCEPT ![c] = {InForce(token)} \ {Nobody}]
    /\ UNCHANGED <<caches, inflight, verdict, frameVars, failures, renders, pressure>>

LookupHit(c) ==
    LET token == lookups[c].token IN
    /\ LookupAt(c, "lookup")
    /\ \E v \in Cached(token) :
         /\ caches' = [caches EXCEPT ![token[1]] = Newest(token, v)]
         /\ lookups' = [lookups EXCEPT ![c].at = "done", ![c].answer = v]
    /\ UNCHANGED <<inflight, verdict, offers, frameVars, failures, renders, pressure>>

\* Mutant of LookupMiss: every caller builds for itself.
LookupMissAlone(c) ==
    LET token == lookups[c].token IN
    /\ LookupAt(c, "lookup")
    /\ Cached(token) = {}
    /\ inflight' = [inflight EXCEPT ![token] = c]
    /\ LookupGoto(c, "build")
    /\ UNCHANGED <<caches, verdict, offers, frameVars, failures, renders, pressure>>

LookupMiss(c) ==
    LET token == lookups[c].token IN
    /\ LookupAt(c, "lookup")
    /\ Cached(token) = {}
    /\ IF inflight[token] = Nobody
         THEN /\ inflight' = [inflight EXCEPT ![token] = c]
              /\ LookupGoto(c, "build")
         ELSE /\ lookups' = [lookups EXCEPT ![c].at = "wait", ![c].joined = inflight[token]]
              /\ UNCHANGED inflight
    /\ UNCHANGED <<caches, verdict, offers, frameVars, failures, renders, pressure>>

\* flight.result() inside shared_flight_wait: the flight's own outcome.
Wake(c) ==
    /\ LookupAt(c, "wait")
    /\ verdict[lookups[c].joined] # Nobody
    /\ lookups' = [lookups EXCEPT ![c].at = "done", ![c].answer = verdict[lookups[c].joined]]
    /\ UNCHANGED <<caches, inflight, verdict, offers, frameVars, failures, renders, pressure>>

\* The builder returned: its value is inserted and the oldest items go.
Insert(c) ==
    LET token == lookups[c].token IN
    /\ LookupAt(c, "build")
    /\ caches' = [caches EXCEPT ![token[1]] =
                    KeepNewest(Newest(token, Value(c)), Limits[token[1]])]
    /\ Offer(token, Value(c))
    /\ LookupGoto(c, "notify")
    /\ UNCHANGED <<inflight, verdict, frameVars, failures, renders, pressure>>

\* Mutant of BuilderRaises: the Future is not told.
BuilderRaisesSilently(c) ==
    /\ LookupAt(c, "build")
    /\ failures < MaxFailures
    /\ failures' = failures + 1
    /\ Offer(lookups[c].token, Failure(c))
    /\ LookupGoto(c, "pop")
    /\ UNCHANGED <<caches, inflight, verdict, frameVars, renders, pressure>>

BuilderRaises(c) ==
    /\ LookupAt(c, "build")
    /\ failures < MaxFailures
    /\ failures' = failures + 1
    /\ verdict' = [verdict EXCEPT ![c] = Failure(c)]
    /\ Offer(lookups[c].token, Failure(c))
    /\ LookupGoto(c, "pop")
    /\ UNCHANGED <<caches, inflight, frameVars, renders, pressure>>

Land(c) ==
    /\ LookupAt(c, "land")
    /\ verdict' = [verdict EXCEPT ![c] = Value(c)]
    /\ LookupGoto(c, "pop")
    /\ UNCHANGED <<caches, inflight, offers, frameVars, failures, renders, pressure>>

PopFlight(c) ==
    /\ LookupAt(c, "pop")
    /\ inflight' = [inflight EXCEPT ![lookups[c].token] = Nobody]
    /\ lookups' = [lookups EXCEPT ![c].at = "done", ![c].answer = verdict[c]]
    /\ UNCHANGED <<caches, verdict, offers, frameVars, failures, renders, pressure>>

-----------------------------------------------------------------------------
(* Eviction and pixels *)

\* Mutant of EvictRuntime: the report stays when its pixels go.
EvictKeepsReport ==
    \E n \in DOMAIN EvictionOrder :
        LET kind == EvictionOrder[n]
            Empty(k) == IF k = "pixel" THEN pixels = <<>> ELSE caches[k] = <<>>
        IN
        /\ ~Empty(kind)
        /\ \A m \in 1..n - 1 : Empty(EvictionOrder[m])
        /\ IF kind = "pixel"
             THEN pixels' = Tail(pixels) /\ UNCHANGED caches
             ELSE caches' = [caches EXCEPT ![kind] = Tail(@)] /\ UNCHANGED pixels
        /\ UNCHANGED <<drawn, reports>>

\* evict_runtime: the oldest item of the first cache that has one.
EvictRuntime ==
    \E n \in DOMAIN EvictionOrder :
        LET kind == EvictionOrder[n]
            Empty(k) == IF k = "pixel" THEN pixels = <<>> ELSE caches[k] = <<>>
        IN
        /\ ~Empty(kind)
        /\ \A m \in 1..n - 1 : Empty(EvictionOrder[m])
        /\ IF kind = "pixel"
             THEN /\ pixels' = Tail(pixels)
                  /\ reports' = [reports EXCEPT ![Head(pixels)] = 0]
                  /\ UNCHANGED <<caches, drawn>>
             ELSE /\ caches' = [caches EXCEPT ![kind] = Tail(@)]
                  /\ UNCHANGED frameVars

\* _changed: the store may find itself over its byte limit and evict.
Notify(c) ==
    /\ LookupAt(c, "notify")
    /\ LookupGoto(c, "land")
    /\ \/ UNCHANGED <<caches, frameVars, pressure>>
       \/ pressure < MaxPressure /\ pressure' = pressure + 1 /\ EvictRuntime
    /\ UNCHANGED <<inflight, verdict, offers, failures, renders>>

StorePressure ==
    /\ pressure < MaxPressure
    /\ pressure' = pressure + 1
    /\ EvictRuntime
    /\ UNCHANGED <<inflight, verdict, lookups, offers, failures, renders>>

\* The oldest frames go, with their reports.
KeptFrames(p) == KeepNewest(MoveToEnd(pixels, p), PixelLimit)
Reported(p, report) ==
    [k \in PixelKeys |-> IF k = p THEN report
                         ELSE IF k \in ToSet(pixels) \ ToSet(KeptFrames(p)) THEN 0 ELSE reports[k]]

\* Mutant of PutPixels: a frame without a report leaves the one that is there.
PutPixelsKeepingReport(p) ==
    /\ renders < MaxRenders
    /\ renders' = renders + 1
    /\ pixels' = KeptFrames(p)
    /\ drawn' = [drawn EXCEPT ![p] = renders']
    /\ \E report \in {reports[p], renders'} : reports' = Reported(p, report)
    /\ UNCHANGED <<caches, inflight, verdict, lookups, offers, failures, pressure>>

\* put_pixels, with or without a report: what the key had is replaced.
PutPixels(p) ==
    /\ renders < MaxRenders
    /\ renders' = renders + 1
    /\ pixels' = KeptFrames(p)
    /\ drawn' = [drawn EXCEPT ![p] = renders']
    /\ \E report \in {0, renders'} : reports' = Reported(p, report)
    /\ UNCHANGED <<caches, inflight, verdict, lookups, offers, failures, pressure>>

GetPixels(p) ==
    /\ p \in ToSet(pixels)
    /\ pixels' = MoveToEnd(pixels, p)
    /\ UNCHANGED <<caches, inflight, verdict, lookups, offers, drawn, reports, failures, renders, pressure>>

AllDone == (\A c \in Callers : LookupAt(c, "done")) /\ UNCHANGED cacheVars

-----------------------------------------------------------------------------
CallStep(c) ==
    \/ LookupHit(c) \/ LookupMiss(c) \/ Wake(c)
    \/ Insert(c) \/ BuilderRaises(c) \/ Notify(c) \/ Land(c) \/ PopFlight(c)

CacheNext ==
    \/ \E c \in Callers : CallStep(c) \/ \E token \in Tokens : Enter(c, token)
    \/ \E p \in PixelKeys : PutPixels(p) \/ GetPixels(p)
    \/ StorePressure
    \/ AllDone

CacheSpec == CacheInit /\ [][CacheNext]_cacheVars

\* Handler threads are scheduled and builders end.
FairCacheSpec == CacheSpec /\ \A c \in Callers : WF_cacheVars(CallStep(c))

-----------------------------------------------------------------------------
CacheTypeOK ==
    /\ inflight \in [Tokens -> Callers \cup {Nobody}]
    /\ verdict \in [Callers -> Outcomes \cup {Nobody}]
    /\ \A c \in Callers : lookups[c].at \in {"idle", "lookup", "wait", "build", "notify",
                                             "land", "pop", "done"}
    /\ \A kind \in Kinds : Len(caches[kind]) <= Limits[kind]
    /\ Len(pixels) <= PixelLimit

\* A report is of the render whose pixels its key holds: it outlives neither
\* their eviction nor their replacement by a render of the same key, whether that
\* has a report of its own or none, in whatever order frames are put, read again
\* and evicted.
ReportsOfTheirPixels ==
    \A p \in PixelKeys : reports[p] # 0 => p \in ToSet(pixels) /\ reports[p] = drawn[p]

\* The phases of the promise, seen from get_or_compute.
LookupPhase(c) ==
    LET place == lookups[c].at IN
    IF place = "idle" THEN "idle"
    ELSE IF place \in {"lookup", "wait"} THEN "open"
    ELSE IF place = "build" THEN "computing"
    ELSE IF place = "done" THEN "closed"
    ELSE "decided"

Promise == INSTANCE SingleFlight WITH
    Keys <- Tokens, Nothing <- Nobody,
    phase <- [c \in Callers |-> LookupPhase(c)],
    wanted <- [c \in Callers |-> lookups[c].token],
    answer <- [c \in Callers |-> lookups[c].answer],
    inForce <- [token \in Tokens |-> InForce(token)]

\* get_or_compute keeps its promise through eviction, failures and late
\* subscribers: one computation per key, and outcomes in force.
KeepsPromise == Promise!SingleFlightSpec

\* Every call returns: a flight cannot end without waking its subscribers.
EveryCallReturns == \A c \in Callers : LookupAt(c, "lookup") ~> LookupAt(c, "done")
=============================================================================
