---------------------------- MODULE BandedRender ----------------------------
(***************************************************************************)
(* render.render_output_u8 and hdr_agx.render_ultrahdr_agx_pair: a frame   *)
(* streams through a pool in chunks; the consumer takes them in order,     *)
(* joins them into quantization groups and dithers each group with the     *)
(* next noise of one generator.  A native kernel may fail at any call.     *)
(*                                                                         *)
(* The bytes must not tell how many workers there were, how the frame was  *)
(* cut, or which kernels worked: a preview that caches its noise planes    *)
(* (deterministic_dither_planes) shows what the export will write.         *)
(***************************************************************************)
EXTENDS Integers, FiniteSets

CONSTANTS
    Jobs        \* [pixels, chunk, group, workers, compiled, strict, cached, pair]

ASSUME JobsAssumption ==
    \A j \in Jobs : /\ {j.pixels, j.chunk, j.group, j.workers} \subseteq Nat \ {0}
                    /\ j.group % j.chunk = 0

VARIABLES
    job,
    flying,     \* chunks in the pool: "running" or "rendered", by index
    submitted,  \* chunks handed to the pool
    consumed,   \* chunks taken back
    parts,      \* chunks of the group being joined
    drawn,      \* values taken from the generator
    bytes,      \* noise of each written pixel
    tail,       \* the brightest pixels so far, for the headroom of the HDR leg
    outcome     \* "rendering", "returned" or "raised"

bandVars == <<job, flying, submitted, consumed, parts, drawn, bytes, tail, outcome>>

Fewer(a, b) == IF a < b THEN a ELSE b
CeilDiv(a, b) == (a + b - 1) \div b

Chunks == CeilDiv(job.pixels, job.chunk)
From(i) == (i - 1) * job.chunk
To(i) == Fewer(i * job.chunk, job.pixels)
ChunkPixels(i) == From(i)..(To(i) - 1)

\* One range, or a small frame: no pool.
Workers == IF Chunks = 1 THEN 1 ELSE Fewer(job.workers, Chunks)

BandsFrom(jobs) ==
    /\ job \in jobs
    /\ flying = <<>> /\ submitted = 0 /\ consumed = 0 /\ parts = {} /\ drawn = 0
    /\ bytes = <<>> /\ tail = {} /\ outcome = "rendering"
BandsInit == BandsFrom(Jobs)

With(f, x, v) == [y \in DOMAIN f \cup {x} |-> IF y = x THEN v ELSE f[y]]

-----------------------------------------------------------------------------
(* The pool *)

\* One for each worker, then one for each result.
Submit ==
    /\ outcome = "rendering" /\ submitted < Chunks
    /\ submitted < consumed + Workers
    /\ flying' = With(flying, submitted + 1, "running")
    /\ submitted' = submitted + 1
    /\ UNCHANGED <<job, consumed, parts, drawn, bytes, tail, outcome>>

\* render_post_tone_chunk: a worker is done with its chunk, in any order.
RenderChunk(i) ==
    /\ i \in DOMAIN flying /\ flying[i] = "running"
    /\ \E result \in {"rendered", "failed"} : flying' = [flying EXCEPT ![i] = result]
    /\ UNCHANGED <<job, submitted, consumed, parts, drawn, bytes, tail, outcome>>

-----------------------------------------------------------------------------
(* Noise *)

\* generate_dither_noise: two planes, one after the other.
PlaneA(base, first, p) == base + (p - first)
PlaneB(base, first, last, p) == base + (last - first) + (p - first)

GroupOf(p) == p \div job.group
FirstOf(g) == g * job.group
LastOf(g) == Fewer((g + 1) * job.group, job.pixels)

\* deterministic_dither_planes: the noise of a pixel.
PlaneNoise(p) ==
    <<PlaneA(2 * FirstOf(GroupOf(p)), FirstOf(GroupOf(p)), p),
      PlaneB(2 * FirstOf(GroupOf(p)), FirstOf(GroupOf(p)), LastOf(GroupOf(p)), p)>>

\* Mutant of Drawn: each part of a group draws for itself.
DrawnByPart(p, first, last, base) ==
    LET start == From(p \div job.chunk + 1)
    IN  <<base + 2 * (start - first) + (p - start),
          base + 2 * (start - first) + (To(p \div job.chunk + 1) - start) + (p - start)>>

\* The noise of a pixel of the group first..last-1, drawn from base on: a part of
\* the group gets its slice of the planes of the whole.
Drawn(p, first, last, base) ==
    IF job.cached THEN PlaneNoise(p) ELSE <<PlaneA(base, first, p), PlaneB(base, first, last, p)>>

-----------------------------------------------------------------------------
(* The consumer *)

\* Mutant of Ready: whichever is ready.
ReadyAny(i) == i \in DOMAIN flying /\ flying[i] # "running"

\* ordered_results: chunk after chunk.
Ready(i) == i = consumed + 1 /\ i \in DOMAIN flying /\ flying[i] # "running"

GroupEnds(i) == To(i) = LastOf(GroupOf(From(i)))

JoinedParts(i) == parts \cup ChunkPixels(i)
First(pixels) == CHOOSE p \in pixels : \A q \in pixels : p <= q
EndOf(pixels) == (CHOOSE p \in pixels : \A q \in pixels : q <= p) + 1

\* quantize_chunk: a kernel that fails leaves the same noise to NumPy; under
\* DNGSCAN_FAST=1 its error is the render's.
Quantized(i) ==
    LET pixels == JoinedParts(i)
    IN  [p \in DOMAIN bytes \cup pixels |->
           IF p \in pixels THEN Drawn(p, First(pixels), EndOf(pixels), drawn) ELSE bytes[p]]

\* Brightness of the pixels of the HDR leg.
Peak(p) == (p * 2 + 1) % 7

\* _HeadroomTail: as many as the rank can touch.
KeptRanks == job.pixels - ((job.pixels - 1) * 3) \div 4
Brightest(pixels, n) ==
    {p \in pixels : Cardinality({q \in pixels : Peak(q) > Peak(p) \/ (Peak(q) = Peak(p) /\ q > p)}) < n}

\* Mutant of TailWith: each chunk replaces the tail of those before.
TailOfChunk(i) == Brightest(ChunkPixels(i), KeptRanks)

TailWith(i) == Brightest(tail \cup ChunkPixels(i), KeptRanks)

Consume(i) ==
    /\ outcome = "rendering" /\ Ready(i) /\ flying[i] = "rendered"
    /\ consumed' = consumed + 1
    /\ flying' = [j \in DOMAIN flying \ {i} |-> flying[j]]
    /\ tail' = IF job.pair THEN TailWith(i) ELSE tail
    /\ IF GroupEnds(i)
         THEN /\ bytes' = Quantized(i) /\ parts' = {}
              /\ drawn' = IF job.cached THEN drawn ELSE drawn + 2 * Cardinality(JoinedParts(i))
         ELSE parts' = JoinedParts(i) /\ UNCHANGED <<bytes, drawn>>
    /\ UNCHANGED <<job, submitted, outcome>>

\* A worker's error, or a kernel's where kernels are required; the pool waits for
\* the chunks it has.
Raises(i) ==
    /\ outcome = "rendering" /\ Ready(i)
    /\ flying[i] = "failed" \/ (job.compiled /\ job.strict /\ GroupEnds(i))
    /\ outcome' = "raised"
    /\ UNCHANGED <<job, flying, submitted, consumed, parts, drawn, bytes, tail>>

Return ==
    /\ outcome = "rendering" /\ consumed = Chunks
    /\ outcome' = "returned"
    /\ UNCHANGED <<job, flying, submitted, consumed, parts, drawn, bytes, tail>>

BandsNext ==
    \/ Submit \/ Return
    \/ \E i \in 1..Chunks : RenderChunk(i) \/ Consume(i) \/ Raises(i)

BandsSpec == BandsInit /\ [][BandsNext]_bandVars

-----------------------------------------------------------------------------
\* A returned frame has every pixel, with the noise of the planes, whatever the
\* chunks, the workers and the order they finished in; what has been written so
\* far is right already.
BytesOfThePlanes ==
    /\ \A p \in DOMAIN bytes : bytes[p] = PlaneNoise(p)
    /\ outcome = "returned" => DOMAIN bytes = 0..(job.pixels - 1) /\ flying = <<>>

\* The chunks in memory are bounded by the workers.
ChunksBounded == Cardinality(DOMAIN flying) <= Workers

\* The headroom is of the brightest pixels of the frame.
HeadroomExact ==
    outcome = "returned" /\ job.pair => tail = Brightest(0..(job.pixels - 1), KeptRanks)

BandsAgree == BytesOfThePlanes /\ ChunksBounded /\ HeadroomExact
=============================================================================
