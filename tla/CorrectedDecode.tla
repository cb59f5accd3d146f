--------------------------- MODULE CorrectedDecode ---------------------------
(***************************************************************************)
(* The corrections a DNG carries (dng_opcodes.read_plan) applied around    *)
(* LibRaw's demosaic (raw_io._decode_corrected_libraw), and what is known  *)
(* in the end of the values they clipped: a mask of their pixels, or the   *)
(* word that the whole frame cannot be trusted (decoder_loss.py).  A       *)
(* session decodes the same file several times, from one reading of it.    *)
(***************************************************************************)
EXTENDS Naturals, Sequences, SequencesExt

CONSTANTS
    DngFiles,    \* [opcodes, lens, layout, black, square]: files, see Opcode
    Calls        \* [highlight, half, demosaic, auto]: how they are decoded

\* The three lists of a file are read in turn.
ASSUME DngAssumption ==
    /\ Calls \subseteq [highlight : STRING, half : BOOLEAN, demosaic : STRING, auto : BOOLEAN]
    /\ \A f \in DngFiles :
         /\ f.opcodes \in Seq([kind : STRING, stage : 1..3, required : BOOLEAN, supported : BOOLEAN])
         /\ \A i, j \in DOMAIN f.opcodes : i < j => f.opcodes[i].stage <= f.opcodes[j].stage

VARIABLES
    source,      \* the file
    memo,        \* the plan that was read first, {} before
    decode,      \* the call, and where it is
    lost,        \* whose clipping the frame has met
    applied      \* the corrections the frame has got, in order

decodeVars == <<source, memo, decode, lost, applied>>

\* An opcode is [kind, stage, required, supported]; a step knows its place.
Op(i) == source.opcodes[i]
Step(i) == [kind |-> Op(i).kind, place |-> i]
Other(kind) == [kind |-> kind, place |-> 0]
LensSteps == IF source.lens THEN <<Other("shading"), Other("distortion")>> ELSE <<>>
Has(steps, kinds) == \E i \in DOMAIN steps : steps[i].kind \in kinds

-----------------------------------------------------------------------------
(* read_plan *)

NoPlan == [lists |-> [stage \in 1..3 |-> <<>>], skipped |-> {}, warped |-> 0, refused |-> FALSE]
Planned(plan, i) == [plan EXCEPT !.lists[Op(i).stage] = Append(@, Step(i))]

\* Mutant of ReadOpcode: the mark of a WarpRectilinear2 outlives the next opcode.
ReadOpcodeMarked(plan, i) ==
    LET op == Op(i) next == plan
    IN  IF plan.warped = op.stage /\ op.kind = "warp" THEN next
        ELSE IF ~op.supported
          THEN IF op.required THEN [next EXCEPT !.refused = TRUE] ELSE [next EXCEPT !.skipped = @ \cup {i}]
        ELSE IF op.kind # "trim" /\ Has(plan.lists[3], {"trim"}) THEN [next EXCEPT !.refused = TRUE]
        ELSE [Planned(next, i) EXCEPT !.warped = IF op.kind = "warp2" /\ ~op.required THEN op.stage ELSE 0]

\* In a list, a warp right after an optional WarpRectilinear2 is for readers without it.
ReadOpcode(plan, i) ==
    LET op == Op(i) next == [plan EXCEPT !.warped = 0]
    IN  IF plan.warped = op.stage /\ op.kind = "warp" THEN next
        ELSE IF ~op.supported
          THEN IF op.required THEN [next EXCEPT !.refused = TRUE] ELSE [next EXCEPT !.skipped = @ \cup {i}]
        ELSE IF op.kind # "trim" /\ Has(plan.lists[3], {"trim"}) THEN [next EXCEPT !.refused = TRUE]
        ELSE [Planned(next, i) EXCEPT !.warped = IF op.kind = "warp2" /\ ~op.required THEN op.stage ELSE 0]

PlanTo[n \in 0..Len(source.opcodes)] == IF n = 0 THEN NoPlan ELSE ReadOpcode(PlanTo[n - 1], n)
ReadPlan == PlanTo[Len(source.opcodes)]
WithLens(plan) == [plan EXCEPT !.lists[3] = @ \o LensSteps]

-----------------------------------------------------------------------------
(* Rasters: the set of what one holds, {} before it is allocated *)

NoRaster == {}
Content(raster) == UNION raster
\* A correction writes to the raster it is given, if any; the decoder allocates one.
Recorded(raster, steps) == {content \cup steps : content \in raster}
\* Mutant of Recording: a raster nobody allocated yet records nothing.
RecordingIfAny(raster, steps) == Recorded(raster, steps)

Recording(raster, steps) == IF steps = {} THEN raster ELSE {Content(raster) \cup steps}

-----------------------------------------------------------------------------
(* The mosaic *)

Idle == [at |-> "idle"]
DecodeFrom(sources) ==
    /\ source \in sources
    /\ memo = {} /\ decode = Idle /\ lost = {} /\ applied = <<>>
DecodeInit == DecodeFrom(DngFiles)

Refused == decode' = [at |-> "refused"] /\ UNCHANGED <<source, memo, lost, applied>>

\* Coordinates of points and trims are the sensor's: then a half is made at the end.
Reduced(call, plan) == call.half /\ Has(plan.lists[3], {"point", "trim"})

\* The copy of the session's plan is extended by the lens of the file.
BeginDecode ==
    /\ decode.at \in {"idle", "done"}
    /\ memo' = IF memo = {} THEN {ReadPlan} ELSE memo
    /\ \E call \in Calls, read \in memo' :
         LET plan == WithLens(read)
             steps == plan.lists[1] \o (IF source.black THEN <<Other("black")>> ELSE <<>>) \o plan.lists[2]
             refused == read.refused \/ (call.highlight # "clip" /\ Has(plan.lists[3], {"point"}))
         IN  decode' = [at |-> IF refused THEN "refused" ELSE "mosaic", call |-> call,
                        plan |-> plan, todo |-> steps, halved |-> call.half /\ ~Reduced(call, plan),
                        log |-> IF steps = <<>> THEN NoRaster ELSE {{}},
                        masks |-> NoRaster, exclusion |-> NoRaster, untrusted |-> FALSE]
    /\ lost' = {} /\ applied' = <<>>
    /\ UNCHANGED source

\* A correction may clip; a repair replaces what it repairs, which is a loss, too.
CorrectMosaic ==
    /\ decode.at = "mosaic" /\ decode.todo # <<>>
    /\ LET step == Head(decode.todo)
       IN  IF step.kind = "repair" /\ source.layout # "bayer" THEN Refused
           ELSE \E clips \in {{}, {step}} :
             /\ decode' = [decode EXCEPT !.todo = Tail(@), !.log = Recorded(@, clips)]
             /\ lost' = lost \cup clips
             /\ applied' = Append(applied, step)
             /\ UNCHANGED <<source, memo>>

-----------------------------------------------------------------------------
(* The demosaic *)

\* The algorithm whose reach is known, when the choice is ours and there is a loss.
Algorithm(log) ==
    IF decode.call.auto /\ decode.call.highlight = "clip" /\ ~decode.halved /\ source.layout = "bayer"
         /\ Content(log) # {}
      THEN "AHD" ELSE decode.call.demosaic

\* Where it is known how far a sensel reaches.
Reach(algorithm) ==
    /\ decode.call.highlight # "reconstruct"
    /\ \/ source.layout = "planes"
       \/ source.layout = "bayer" /\ (decode.halved \/ algorithm = "AHD")

\* Balancing saturates on the way in, the decoder's integers on the way out.
Demosaic ==
    /\ decode.at = "mosaic" /\ decode.todo = <<>>
    /\ \E wb \in {{}, {Other("balance")}}, ceiling \in {{}, {Other("ceiling")}} :
         LET log == Recording(decode.log, wb)
             algorithm == Algorithm(log)
             local == Reach(algorithm)
             known == IF Content(log) = {} \/ ~local THEN NoRaster ELSE log
         IN  /\ decode' = [decode EXCEPT
                             !.at = "camera", !.todo = decode.plan.lists[3], !.log = NoRaster, !.call.demosaic = algorithm,
                             !.masks = Recording(known, ceiling),
                             !.untrusted = Content(log) # {} /\ ~local]
             /\ lost' = lost \cup wb \cup ceiling
    /\ UNCHANGED <<source, memo, applied>>

-----------------------------------------------------------------------------
(* The planes of the camera *)

\* Every correction but a trim allocates the mask it writes to.
CorrectCamera ==
    /\ decode.at = "camera" /\ decode.todo # <<>>
    /\ LET step == Head(decode.todo)
       IN  IF \/ Has(applied, {"trim"}) /\ step.kind # "trim"
              \/ step.kind \in {"trim", "point"} /\ ~source.square
             THEN Refused
           ELSE \E clips \in IF step.kind = "trim" THEN {{}} ELSE {{}, {step}} :
             /\ decode' = [decode EXCEPT !.todo = Tail(@), !.masks = IF step.kind = "trim" THEN @ ELSE {Content(@) \cup clips}]
             /\ lost' = lost \cup clips
             /\ applied' = Append(applied, step)
             /\ UNCHANGED <<source, memo>>

\* Full wells of the sensor take the same way as losses, but a repair of unknown
\* reach may have moved them.
EndDecode ==
    /\ decode.at = "camera" /\ decode.todo = <<>>
    /\ \E well \in {{}, {Other("well")}} :
         LET local == ~Has(decode.plan.lists[1], {"repair"}) /\ Reach(decode.call.demosaic)
         IN  /\ decode' = [decode EXCEPT !.at = "done",
                                         !.exclusion = IF well # {} /\ local THEN {well} ELSE NoRaster,
                                         !.untrusted = @ \/ (well # {} /\ ~local)]
             /\ lost' = lost \cup well
    /\ UNCHANGED <<source, memo, applied>>

DecodeNext == BeginDecode \/ CorrectMosaic \/ Demosaic \/ CorrectCamera \/ EndDecode
DecodeSpec == DecodeInit /\ [][DecodeNext]_decodeVars

-----------------------------------------------------------------------------
\* "Uncertified support returns no spatial mask and a global-conservative reason"
\* (decoder_loss.py): whatever was clipped on the way, by whichever correction, in
\* the decoder or in the sensor, is in a mask or the frame is not trusted.
LossesAccounted ==
    decode.at = "done" =>
      decode.untrusted \/ lost \subseteq Content(decode.masks) \cup Content(decode.exclusion)

\* "refuse unsupported required operations" (dng_opcodes.py): a frame that is
\* delivered, the first of its session or a later one, got every correction of its
\* file once and in order, but optional ones nobody knows and the stand-in of an
\* optional WarpRectilinear2 that was applied itself.
Omitted(i) ==
    \/ ~Op(i).supported /\ ~Op(i).required
    \/ /\ i > 1 /\ Op(i).kind = "warp" /\ Op(i - 1).stage = Op(i).stage
       /\ Op(i - 1).kind = "warp2" /\ Op(i - 1).supported /\ ~Op(i - 1).required
InPlace(steps) ==
    \A k, l \in DOMAIN steps : k < l /\ 0 \notin {steps[k].place, steps[l].place} => steps[k].place < steps[l].place
OpcodesHonoured ==
    decode.at = "done" =>
      LET own == Len(applied) - Len(LensSteps)
      IN  /\ SubSeq(applied, own + 1, Len(applied)) = LensSteps
          /\ {applied[k] : k \in 1..own} \ {Other("black")}
               = {Step(i) : i \in {i \in DOMAIN source.opcodes : ~Omitted(i)}}
          /\ InPlace(applied)

\* Every correction of the file is in the frame, every loss in its evidence.
CorrectionsAccounted == LossesAccounted /\ OpcodesHonoured
=============================================================================
