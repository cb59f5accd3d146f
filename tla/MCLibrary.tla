------------------------------ MODULE MCLibrary ------------------------------
(***************************************************************************)
(* The parts between the files of a user and the picture, each explored on *)
(* its own: the store of measurements, the groups of a package, the prior  *)
(* a file is analysed with, the load of a RAW, the corrections, the        *)
(* geometry and the evidence of its frame, the directories of its          *)
(* container and the facts read from them, the scope of measurements, the  *)
(* page's controls and its sessions, what previews reuse, the search for   *)
(* an exposure, a run of the command, Apple's decoder, the bands of a      *)
(* render, its plans, the analysis of a frame, the fits of a calibration,  *)
(* the packages of an HDR export, the balance of a scene and the anchors   *)
(* of its colours.                                                         *)
(***************************************************************************)
EXTENDS
    CalibrationStore, CollectGroups, PriorChoice, RawLoad, CorrectedDecode,
    FrameGeometry, SceneEvidence, IfdWalk, FileFacts, ReadoutScope, PageControls, PageFlow,
    FrameReuse, ExposureSearch, CommandRun, AppleDecode, BandedRender, RenderPlans,
    FrameAnalysis, CalibrationFit, GainmapPackage, BalanceWindows, TLC

VARIABLE part    \* which of them moves

libraryVars ==
    <<part, storeVars, groupVars, choiceVars, loadVars, decodeVars, geometryVars, evidenceVars,
      walkVars, factVars, scopeVars, controlVars, flowVars, reuseVars, searchVars, commandVars,
      appleVars, bandVars, planVars, analysisVars, fitVars, packageVars, windowVars, plateVars>>

-----------------------------------------------------------------------------
MCPackages == {<<"a">>, <<"a", "x", "b">>}

-----------------------------------------------------------------------------
(* Packages of up to five tables of two cameras *)

MCTable(kind, declared) == [kind |-> kind, declared |-> declared, iso |-> 100, copy |-> 0]
MCTableChoices ==
    {MCTable(kind, declared) :
       kind \in {"dark", "gain", "ptc"},
       declared \in {[camera |-> "k1"], [camera |-> "k1", shutter |-> "m"], [camera |-> "k1", shutter |-> "e"],
                     [camera |-> "k1", shutter |-> "m", body |-> "x"], [shutter |-> "m"],
                     [camera |-> "k1", shutter |-> "m", black |-> "512"], [camera |-> "k1", black |-> "512"]}}
MCTables == {{a, b, c} : a, b, c \in MCTableChoices}

-----------------------------------------------------------------------------
(* Files, and priors whose gain and dark were measured in two ways *)

View(s, r, d) == [shutter |-> s, readout |-> r, domain |-> d]
Prior(id, q, g, d, n) ==
    [id |-> id, quality |-> q, gain |-> g, dark |-> d, noise |-> n, mode |-> "ok", active |-> TRUE, stamp |-> 0]
Mechanical == View("m", "r1", "dn")
MCFiles ==
    [shutter : {None, "m", "e"}, readout : {None, "r1", "r2"}, storage : {"lossless"}, linear : {TRUE}]
      \cup {[shutter |-> "m", readout |-> "r1", storage |-> s, linear |-> FALSE] : s \in {"lossless", "lossy", None}}
MCMeasured ==
    {r \in {Prior("p", "good", g, d, n) :
              g \in {Mechanical, View("e", "r1", "dn"), View("m", None, "dn"), View("any", None, None), None},
              d \in {Mechanical, View(None, None, "dn"), None},
              n \in {"none", "measured", "unresolved"}} :
       /\ r.gain # None \/ r.dark # None
       /\ r.dark = None <=> r.noise = "none"
       /\ r.gain # None /\ r.dark # None => r.dark.shutter \in {r.gain.shutter, None}}
    \cup {Prior("p", "poor", Mechanical, Mechanical, "measured")}
Stamped(priors) == [i \in DOMAIN priors |-> [priors[i] EXCEPT !.id = <<"a", "b">>[i], !.stamp = i]]
MCSeconds ==
    {Prior("p", "good", Mechanical, Mechanical, "measured"), Prior("p", "good", Mechanical, Mechanical, "unresolved"),
     Prior("p", "good", None, Mechanical, "measured"), Prior("p", "good", View("m", None, "dn"), None, "none"),
     Prior("p", "good", View("e", "r1", "dn"), View("e", "r1", "dn"), "measured")}
MCUsers == {<<>>} \cup {Stamped(<<r>>) : r \in MCMeasured} \cup {Stamped(<<r, o>>) : r \in MCMeasured, o \in MCSeconds}
MCCurated == {<<>>, <<Prior("c", "good", View("m", None, None), None, "measured")>>}
MCPublic ==
    {<<>>} \cup {<<Prior("x", "good", View(s, r, "dn"), None, "none"), Prior("y", q, View("e", "r1", "dn"), None, "none")>> :
                   s \in {None, "m"}, r \in {None, "r1"}, q \in {"good"}}
MCBulk == {<<>>, <<Prior("z", "good", View(None, None, None), None, "measured")>>}
MCLookups ==
    {l \in [file : MCFiles, records : MCUsers, curated : MCCurated, public : MCPublic, bulk : MCBulk] :
       Cardinality({from \in {"records", "curated", "public", "bulk"} : l[from] # <<>>}) <= 2}

-----------------------------------------------------------------------------
(* Loads by both decoders, and what a file may offer to Apple's *)

Offer(major, bare) == [major |-> major, bare |-> bare]
MCLoadRequests ==
    [decoder : {"libraw"}, version : {AnyVersion}, pinned : {FALSE}, align : {FALSE}, kelvin : BOOLEAN]
      \cup [decoder : {"coreimage"}, version : {AnyVersion}, pinned : {FALSE}, align : BOOLEAN, kelvin : BOOLEAN]
      \cup [decoder : {"coreimage"}, version : {9, 8}, pinned : BOOLEAN, align : BOOLEAN, kelvin : {FALSE}]
MCOffers == {<<>>, <<Offer(8, FALSE), Offer(9, FALSE), Offer(9, TRUE)>>, <<Offer(8, TRUE)>>, <<Offer(5, TRUE)>>}

-----------------------------------------------------------------------------
(* Files with up to three opcodes *)

MCOpcode(kind, list, required, supported) ==
    [kind |-> kind, stage |-> list, required |-> required, supported |-> supported]
MCLate ==
    {MCOpcode("warp", 3, TRUE, TRUE), MCOpcode("warp", 3, FALSE, FALSE), MCOpcode("warp2", 3, FALSE, TRUE),
     MCOpcode("vignette", 3, FALSE, TRUE), MCOpcode("trim", 3, TRUE, TRUE)}
MCThrice == {o \in MCLate : o.kind \in {"warp", "warp2"}}
MCOpcodes ==
    MCLate \cup {MCOpcode("repair", 1, TRUE, TRUE), MCOpcode("gain", 2, TRUE, TRUE),
                MCOpcode("point", 2, TRUE, TRUE), MCOpcode("warp2", 2, TRUE, FALSE),
                MCOpcode("warp2", 3, TRUE, TRUE)}
MCLists(n) ==
    {list \in UNION {[1..k -> MCOpcodes] : k \in 0..n} : \A i \in 1..Len(list) - 1 : list[i].stage <= list[i + 1].stage}
MCDngFiles ==
    [opcodes : [1..3 -> MCThrice] \cup MCLists(2), lens : {FALSE}, layout : {"bayer"}, black : {FALSE}, square : {TRUE}]
      \cup [opcodes : MCLists(1), lens : {TRUE}, layout : {"bayer"}, black : {FALSE}, square : {TRUE}]
      \cup [opcodes : MCLists(1), lens : {FALSE}, layout : {"bayer", "xtrans", "planes"}, black : BOOLEAN, square : BOOLEAN]
MCCall(h, half, d, a) == [highlight |-> h, half |-> half, demosaic |-> d, auto |-> a]
MCCalls ==
    {MCCall("clip", TRUE, "DHT", TRUE), MCCall("clip", FALSE, "DHT", TRUE), MCCall("clip", FALSE, "AHD", FALSE),
     MCCall("reconstruct", TRUE, "DHT", FALSE), MCCall("blend", FALSE, "AHD", FALSE)}

-----------------------------------------------------------------------------
(* Sensors of up to five rows, every orientation, crops in halves of a sensel *)

MCCrops(side, starts, ends) ==
    {c \in [from : starts, length : 1..(2 * side + 1)] : c.from + c.length \in ends}
MCFrames ==
    UNION {{[h |-> h, w |-> 3, flip |-> flip, decode |-> way,
             crop |-> [y |-> rows.from, x |-> cols.from, h |-> rows.length, w |-> cols.length]] :
              flip \in 0..7, way \in {"full", "half", "reduced"},
              rows \in MCCrops(h, 0..3, 2 * h - 3..2 * h + 1), cols \in MCCrops(3, 0..2, {5, 6})} :
              h \in {4, 5}}

-----------------------------------------------------------------------------
(* Files of one pixel: with one or the other full well it clipped, came of a
   clipped one, is not to be trusted.  What is excluded differs between the wells,
   unless one is not trusted *)

MCCaptures ==
    {c \in [clip : [Wells -> SUBSET Pixels], exclusion : [Wells -> SUBSET Pixels],
            untrusted : [Wells -> BOOLEAN], losses : SUBSET Pixels, deferred : BOOLEAN] :
       LET doubtful == \E w \in Wells : c.untrusted[w] IN
       /\ (\E w \in Wells : ~c.untrusted[w]) /\ (c.deferred => c.losses = {} /\ c.clip = c.exclusion)
       /\ (doubtful => c.losses = {} /\ ~c.deferred /\ c.clip = c.exclusion)
       /\ (~doubtful => c.exclusion["loaded"] # c.exclusion["resolved"])
       /\ (c.losses # {} => \A w \in Wells : c.clip[w] = {})}

-----------------------------------------------------------------------------
(* Containers of four directories, pointing to each other at will *)

MCPointers == {<<>>, <<2>>, <<3>>, <<2, 3>>, <<3, 4>>, <<4, 2>>}
MCContainer(dng, subs, next, kinds, torn) ==
    [dng |-> dng, subs |-> subs, next |-> next, kind |-> kinds, torn |-> torn, exposure |-> {1, 3}, lens |-> {2}]
MCContainers ==
    {MCContainer(dng, <<a, b, c, <<>>>>, <<n, m, End, k>>, kinds, torn) :
       dng \in BOOLEAN, a \in MCPointers, b \in {<<>>, <<1>>, <<3>>, <<4>>}, c \in {<<>>, <<4>>},
       n \in {End, 2}, m \in {End, 3}, k \in {End, 1},
       kinds \in {<<"preview", "cfa", "cfa", "preview">>, <<"preview", "preview", "cfa", "linear">>,
                 <<"cfa", "preview", "preview", "cfa">>, <<"preview", "preview", "mask", "cfa">>},
       torn \in {{}, {4}}}

-----------------------------------------------------------------------------
(* What two readers saw in a file, and measurements that ask for some of it *)

MCSeen == {{}, {1}, {2}, {1, 2}, {1, Garbled}, {Garbled}}
MCFactFiles ==
    [seen : {[mode |-> m, body |-> b, time |-> t] : m \in {{}, {1}, {2}}, b, t \in MCSeen},
     strips : {{}, {"lossless"}, {"lossless", "lossy"}, {"lossless", "unreadable"}},
     raster : {"linear", "companded"}]
MCDeclarations == {<<>>, [mode |-> 1], [mode |-> 2], [body |-> 1]}
MCEntries ==
    [asks : {<<>>, [mode |-> {1}], [body |-> {1}], [time |-> {1, 2}], [mode |-> {1}, body |-> {1}, time |-> {1}]},
     domain : {NoValue, "dn", "units"}, issues : BOOLEAN]

-----------------------------------------------------------------------------
(* Packages whose tables agree, where both speak *)

MCSaid == [shutter : {Undeclared, "m", "any"}, body : {Undeclared, 1}]
MCScoped ==
    [tables : {m \in UNION {[T -> MCSaid] : T \in {{"gain"}, {"dark"}, {"gain", "dark"}}} :
                 \A t, u \in DOMAIN m : \A c \in {"shutter", "body"} : Undeclared \in {m[t][c], m[u][c]} \/ m[t][c] = m[u][c]},
     legacy : BOOLEAN]
MCShots == [shutter : {Undeclared, "m", "e"}, body : {Undeclared, 1, 2}]
MCWanted == {[shutter |-> s, body |-> b] : s \in {"m", "any"}, b \in {1, 2}}

-----------------------------------------------------------------------------
(* The dials of the page at their defaults, or with Apple's decoder *)

MCSettings == {DialDefaults, [DialDefaults EXCEPT !["decoder"] = 1]}

-----------------------------------------------------------------------------
(* Bodies below, at and above the reference, some beyond the top *)

MCBodies == {-1, 0, 3, 9}
Scenes == [body : MCBodies, core : {"agx", "other"}]

-----------------------------------------------------------------------------
(* Command lines with and without each product, names of every suffix, a link to
   the RAW among them *)

MCSource == <<"photo", "dng">>
MCLinks == {<<"link", "heic">>}
MCCommandLines ==
    {r \in [scan : BOOLEAN, out : {NoName, <<"d", "png">>}, image : {NoName} \cup ({"photo", "link", "a"} \X {"jpg", "heic", "dng"}),
            table : {NoName, <<"a", "csv">>, <<"photo", "dng">>}, format : OutputFormats, auto : BOOLEAN, dials : {{}, {"srgb"}, {"rho"}, {"scale"}},
            hdrReady : BOOLEAN] :
       (r.image = NoName => r.format = "sdr") /\ (~Hdr(r.format) => r.hdrReady) /\ (r.dials # {} => ~r.auto /\ ~r.scan)}

-----------------------------------------------------------------------------
(* Macs whose controls work, refuse, ignore or fail after the write *)

MCControl(write, reads, supported, before) ==
    [write |-> write, reads |-> reads, supported |-> supported, readsBefore |-> before]
MCWrites == {"applies", "appliesAndRaises", "raises", "ignores", "absent"}
MCGood == MCControl("applies", TRUE, Unknowable, TRUE)
MCControlSets ==
    {[baseline |-> MCControl(w, r, Unknowable, b), toneMap |-> MCGood, colorNoise |-> MCGood] :
       w \in MCWrites, r, b \in BOOLEAN}
      \cup {[baseline |-> MCGood, toneMap |-> MCControl(w, TRUE, s, TRUE), colorNoise |-> MCControl("applies", TRUE, FALSE, TRUE)] :
              w \in MCWrites, s \in {TRUE, FALSE, Unknowable}}
MCVersionOffers ==
    {<<>>, <<<<"8", "bare">>, <<"9", "bare">>>>, <<<<"9", "dng">>, <<"9", "bare">>, <<"7", "bare">>>>, <<<<"10", "bare">>>>}
MCHosts ==
    {h \in
    [quartz : {TRUE}, offered : MCVersionOffers, asked : {"auto", "9"}, takes : {{"7", "8", "9", "10"}, {"7", "8"}},
     control : MCControlSets, baseline : {("9" :> 1) @@ ("8" :> 0) @@ ("7" :> 2) @@ ("10" :> 1)}, fileBaseline : {0},
     apple : {0}, libraw : {1, 3}, mode : {"aligned", "unity"}, decodes : {TRUE}] :
       /\ h.libraw = 3 => h.mode = "aligned"
       /\ h.takes = {"7", "8"} => Len(h.offered) = 3}

-----------------------------------------------------------------------------
(* Frames of up to seven pixels cut in every way *)

MCJobs ==
    {j \in [pixels : {1, 5, 7}, chunk : {1, 2}, group : {2, 4}, workers : {1, 2, 3}, compiled : BOOLEAN, strict : {TRUE},
            cached : BOOLEAN, pair : BOOLEAN] : (j.pair => ~j.compiled /\ ~j.cached) /\ (j.compiled => ~j.cached)}

-----------------------------------------------------------------------------
(* Frames of three pixels, floored, gray, bright and beyond the top, with losses
   and exclusions; one frame with every slider on curves of four powers *)

MCCurve(open, hard) == 0 :> open @@ 1 :> -5 @@ 2 :> -2 @@ 3 :> hard
MCCurves == {MCCurve(-7, -1), MCCurve(Unmeasured, -1)}
MCFrame(decoder, losses, references, clipped, groups, noises, displays) ==
    {[f EXCEPT !.sparse = (f.ev[2] = -300)] : f \in
       [ev : {<<-300, 20, 70>>, <<70, 40, 95>>, <<-300, -300, 40>>}, lost : losses,
        cells : {<<FALSE, FALSE>>, <<TRUE, FALSE>>, <<FALSE, FALSE, FALSE, TRUE>>}, decoder : {decoder},
        untrusted : {FALSE}, reference : references, cellsClipped : clipped, sparse : {FALSE},
        groups : groups, noise : noises, display : displays,
        value : {2}, bias : {0}, offset : {0}, curve : {MCCurve(-7, -1)}]}
MCLibRaw == MCFrame("libraw", {<<0, 0, 0>>, <<0, 0, 1>>, <<2, 0, 2>>}, {Unmeasured}, {FALSE}, {"missing", "none", "some"}, {"none", "poor"}, {20, 40})
MCApple == MCFrame("coreimage", {<<0, 0, 0>>}, {Unmeasured, {}, {40}, {-300, 90}}, BOOLEAN, {"none", "some"}, {"none"}, {40})
MCPlainFrames ==
    MCLibRaw \cup MCApple \cup {[f EXCEPT !.untrusted = TRUE] : f \in {g \in MCApple : ~g.cellsClipped /\ g.groups = "none"}}
MCPlanFrames ==
    MCPlainFrames
      \cup {[f EXCEPT !.value = v, !.bias = b, !.offset = o, !.curve = c] :
              f \in {g \in MCLibRaw : g.lost = <<0, 0, 1>> /\ g.ev[2] = 40 /\ g.cells = <<TRUE, FALSE>>
                                /\ g.groups = "none" /\ g.noise = "poor" /\ g.display = 40},
              v \in {-3, 1, 2, 6}, b \in {-2, 0, 2}, o \in -2..2, c \in MCCurves}

-----------------------------------------------------------------------------
(* Two cells of codes under two white levels; calibrations that were measured, failed
   or are missing at each of four ISOs, with every file *)

MCCell(r, ga, gb, b) == [R |-> r, Ga |-> ga, Gb |-> gb, B |-> b]
MCPhases(r, ga, gb) == [R |-> r, Ga |-> ga, Gb |-> gb, B |-> "absent"]
MCCalibration ==
    [usable |-> TRUE, suspect |-> FALSE, iso |-> 3, reads |-> [i \in 1..4 |-> "measured"], jump |-> FALSE,
     scaled |-> TRUE, acquired |-> FALSE, spectrum |-> "flat", stored |-> "ok", phases |-> MCPhases("ok", "ok", "foreign")]
MCRecording ==
    [codes |-> <<MCCell(5, 19, 19, 7), MCCell(5, 20, 6, 7)>>, white |-> 20, frozen |-> TRUE, strict |-> FALSE, busy |-> FALSE,
     kind |-> "cfa", prior |-> MCCalibration, reduction |-> "none", profile |-> "declared"]
MCScans ==
    {[MCRecording EXCEPT !.codes = c, !.frozen = f, !.strict = s, !.busy = TRUE, !.prior = Missing] :
       c \in {<<MCCell(5, 19, 19, 7), MCCell(5, 20, 6, 7)>>, <<MCCell(12, 12, 12, 7), MCCell(12, 11, 11, 20)>>,
              <<MCCell(20, 20, 20, 20), MCCell(3, 3, 3, 4)>>},
       f \in BOOLEAN, s \in BOOLEAN}
MCReads ==
    {[MCCalibration EXCEPT !.reads = <<l, m, n, h>>, !.jump = j] :
       l, m, n, h \in {"measured", "failed", "absent"}, j \in {FALSE}}
      \cup {[MCCalibration EXCEPT !.reads[3] = "absent", !.jump = TRUE]}
MCOthers ==
    {[MCCalibration EXCEPT !.usable = u, !.scaled = s, !.acquired = a, !.spectrum = x, !.stored = v, !.phases = p] :
       u, s, a \in BOOLEAN, x \in {"imbalanced", "invalid", "none"}, v \in {"ok", "contradicts"},
       p \in {MCPhases("ok", "ok", "foreign"), MCPhases("foreign", "ok", "ok")}}
      \cup {Missing, [MCCalibration EXCEPT !.suspect = TRUE]}
MCFilesOfNoise ==
    ({"none"} \X {"absent", "of-rgb", "malformed", "declared"}) \cup ({"unreadable", "applied", "invalid"} \X {"declared"})
MCRecordings ==
    MCScans
      \cup {[MCRecording EXCEPT !.prior = p, !.reduction = f[1], !.profile = f[2]] :
              p \in MCOthers, f \in MCFilesOfNoise}
      \cup {[MCRecording EXCEPT !.prior = p, !.profile = f] : p \in MCReads, f \in {"absent", "declared"}}
      \cup {[MCRecording EXCEPT !.kind = "rgb"]}

-----------------------------------------------------------------------------
(* Ladders of up to five frames with up to two photon-transfer files, and files whose
   fits fail in every way with a plain ladder *)

MCBurst(label, time, late, isos) ==
    [label |-> label, time |-> time, late |-> late, isos |-> isos, clipped |-> {}, dim |-> {}]
MCWhole == <<MCBurst("a", 1, 0, 1..5)>>
MCLadders ==
    {<<>>, MCWhole, <<MCBurst("", 1, 5, {1, 2, 4, 5})>>, <<MCBurst("a", 1, 0, {1, 2}), MCBurst("b", 2, 3, {4, 5})>>,
     <<MCBurst("", 1, 0, {1, 2}), MCBurst("", 4, 3, {4}), MCBurst("", 3, 0, {5})>>,
     <<MCBurst("a", 1, 0, {1, 5}), MCBurst("b", 2, 0, {2, 4})>>,
     <<MCBurst("a", 1, 0, {1, 5}), MCBurst("b", 2, 0, {3})>>,
     <<MCBurst("", 1, 0, {1, 2}), MCBurst("", 2, 4, {2, 3, 5})>>,
     <<MCBurst("a", 1, 0, {1, 2}), MCBurst("a", 2, 0, {4})>>,
     <<MCBurst("", 1, 0, {1}), MCBurst("", 2, 0, {2}), MCBurst("", 3, 0, {3})>>,
     <<MCBurst("", 1, 0, {1}), MCBurst("", 2, 4, {2}), MCBurst("", 3, 0, {4})>>,
     <<[MCBurst("a", 1, 0, 1..5) EXCEPT !.clipped = {5}, !.dim = {1}]>>}
MCTransfer(iso, off) ==
    [iso |-> iso, off |-> off, span |-> 100, pairs |-> "whole", steady |-> 4, low |-> 4, mid |-> 2, top |-> 3,
     rising |-> TRUE, residual |-> FALSE, noisy |-> FALSE, plateau |-> TRUE, foreign |-> FALSE, marked |-> FALSE,
     other |-> "ok"]
MCTransfers ==
    {<<>>} \cup {<<MCTransfer(i, 0)>> : i \in 1..5}
      \cup {<<MCTransfer(x[1], 0), MCTransfer(x[2], o)>> : x \in {<<1, 5>>, <<1, 4>>, <<4, 2>>, <<3, 3>>, <<3, 5>>}, o \in {0, 4}}
MCSet ==
    [dark |-> [i \in 1..5 |-> [p \in Greens |-> "resolved"]], clip |-> "declared", named |-> TRUE, shared |-> FALSE,
     sizes |-> <<"s", "s">>, frames |-> MCWhole, protocol |-> "", files |-> <<>>, step |-> 9]
MCLadderSets ==
    {[MCSet EXCEPT !.frames = l, !.files = f, !.step = s] : l \in MCLadders, f \in MCTransfers, s \in {9, 3, 4}}
MCFitSets ==
    {[MCSet EXCEPT !.clip = c, !.files = <<[MCTransfer(2, 0) EXCEPT !.pairs = d[1], !.steady = d[2], !.low = n[1], !.mid = n[2],
        !.top = n[3], !.residual = r, !.rising = b]>>] :
       c \in {"declared", "undeclared", "invalid"}, d \in {<<"none", 0>>, <<"trimmed", 4>>, <<"whole", 3>>},
       n \in {<<4, 0, 2>>, <<2, 2, 3>>, <<4, 1, 0>>, <<3, 0, 4>>, <<4, 2, 3>>}, r, b \in BOOLEAN}
      \cup {[MCSet EXCEPT !.files = <<[MCTransfer(2, 0) EXCEPT !.plateau = b[1], !.foreign = b[2], !.marked = b[3], !.noisy = b[4],
               !.other = o], [MCTransfer(2, m) EXCEPT !.span = n, !.other = o]>>] :
             b \in {<<TRUE, FALSE, FALSE, FALSE>>, <<FALSE, FALSE, FALSE, FALSE>>, <<TRUE, TRUE, FALSE, FALSE>>,
                    <<TRUE, FALSE, TRUE, FALSE>>, <<TRUE, FALSE, FALSE, TRUE>>},
             o \in {"ok", "poor", "absent"}, m \in {0, 4}, n \in {100, 103}}
MCDarkSets ==
    {[MCSet EXCEPT !.dark = d, !.named = b[1], !.shared = b[2], !.protocol = q, !.sizes = z, !.files = <<MCTransfer(2, 0)>>] :
       d \in {[i \in D |-> [p \in Greens |-> IF p = "C01" THEN "resolved" ELSE s]] :
                D \in {{}, {1, 2, 4}}, s \in {"resolved", "floored"}},
       b \in BOOLEAN \X BOOLEAN, q \in {"", "auto-shutter"}, z \in {<<"s", Unstated>>, <<"s", "t">>}}
MCSets == MCLadderSets \cup MCFitSets \cup MCDarkSets

-----------------------------------------------------------------------------
(* Containers of up to six items, JPEGs of three shapes, every set of declarations *)

MCPicture(kind, data) == [kind |-> kind, data |-> data]
MCProps(size) == <<<<"hvcC", 1>>, <<"ispe", size>>, <<"colr", 0>>, <<"pixi", 8>>, <<"amve", 2>>>>
MCReference(type, from, to) == [type |-> type, from |-> from, to |-> to]
MCTone == MCReference("dimg", 3, <<1, 2>>)
MCHeifOf(items, props, refs) ==
    [form |-> "heif", primary |-> 1, plain |-> TRUE, items |-> items, props |-> props, refs |-> refs \cup {MCTone}]
MCSix(first, second, last) ==
    <<MCPicture(first, "a"), MCPicture(second, "g"), MCPicture("tmap", "t"), MCPicture("hvc1", "x"), MCPicture("hvc1", "y"), MCPicture(last, "z")>>
MCSixProps(extra) == [i \in 1..6 |-> IF i = 1 THEN MCProps(4) \o extra ELSE MCProps(IF i = 2 THEN 4 ELSE 2)]
MCHeifs ==
    {MCHeifOf(MCSix("hvc1", "hvc1", "exif"), MCSixProps(e), {MCReference("cdsc", 6, <<1>>)}) :
       e \in {<<>>, <<<<"irot", 1>>>>, <<<<"clap", 3>>>>}}
      \cup {MCHeifOf(MCSix("hvc1", "hvc1", k), MCSixProps(<<>>), {MCReference(t, 6, <<1>>)}) : k \in {"hvc1", "exif"}, t \in {"auxl", "thmb"}}
      \cup {MCHeifOf([MCSix("hvc1", "grid", "hvc1") EXCEPT ![6].data = "w"], MCSixProps(<<>>),
              {MCReference("auxl", 6, <<1>>), MCReference("dimg", 2, <<4, 5>>)})}
      \cup {MCHeifOf(MCSix("grid", "grid", "hvc1"), MCSixProps(<<>>), r) :
              r \in {{MCReference("dimg", 1, <<4, 5>>)}, {MCReference("dimg", 1, <<4, 5>>), MCReference("dimg", 2, <<5>>)},
                     {MCReference("dimg", 1, <<4, 5>>), MCReference("dimg", 5, <<1>>)},
                     {MCReference("dimg", 1, <<4>>), MCReference("auxl", 4, <<1>>)}}}
      \cup {MCHeifOf(MCSix("hvc1", "hvc1", "grid"), MCSixProps(<<>>),
              {MCReference("auxl", 6, <<1>>), MCReference("dimg", 6, t)}) : t \in {<<4, 5>>, <<5, 4>>}}
MCSegments ==
    {<<<<"app", 5>>, <<"table", 3>>, <<"mpf", 9>>, <<"table", 4>>>>, <<<<"table", 6>>, <<"mpf", 9>>, <<"app", 2>>>>, <<<<"app", 5>>>>}
MCJpeg(segments, length, wrong) ==
    [form |-> "jpeg", segments |-> segments, scan |-> length, size |-> 2 + Length(segments) + length + wrong,
     images |-> <<2 + Length(segments) + length, 9 + Length(segments) + length>>,
     offsets |-> IF \A k \in DOMAIN segments : segments[k][1] # "mpf" THEN <<0, 0>>
                 ELSE <<2 + Length(segments) + length - Origin(segments), 9 + Length(segments) + length - Origin(segments)>>]
MCPairs == {<<0, 0>>, <<1, 2>>, <<1, 3>>, <<2, 3>>, <<0, 2>>, <<-1, 2>>}
MCDerivations == {<<>>} \cup {<<a>> : a \in MCPairs} \cup {<<<<1, 2>>, <<1, n>>>> : n \in {2, 3}}
MCDeclared ==
    {d \in [form : {"headroom"}, listed : BOOLEAN, present : BOOLEAN, derivations : MCDerivations,
             auxiliary : [version : {"none", "1", "other"}, pair : MCPairs], legacy : {-1, 0, 1, 2}] :
       ~d.present => d.auxiliary = NotRead}
MCPixels ==
    [form : {"pixels"}, base : {"bytes", "float", "float-outside", "other"}, sized : BOOLEAN,
     peak : {"not-finite", "sdr", "within", "above"}, backend : {"none", "bytes", "full"},
     target : {"unknown", "jpeg", "heic", "heic-10"}, pixels : {"original"}, master : {Void}]
MCDeliveries ==
    MCHeifs \cup {MCJpeg(s, n, w) : s \in MCSegments, n \in {2, 7}, w \in {0, 1}}
      \cup MCDeclared \cup MCPixels
MCCodestreams == {<<3, 4>>, <<1, 9>>}
MCDonor(data, size, single) == [data |-> data, single |-> single, props |-> <<<<"hvcC", 3>>, <<"ispe", size>>, <<"colr", 0>>, <<"pixi", 8>>>>]
MCDonors == {MCDonor("p", 4, TRUE), MCDonor("q", 4, TRUE), MCDonor("r", 3, TRUE), MCDonor("s", 4, FALSE)}

-----------------------------------------------------------------------------
(* Scenes of both decoders with what is known of the colours, and files of anchors
   with one profile, two of one scope, none, and profiles that fall short *)

MCColours(xyz, cmatrix, dng, tags, table) ==
    [evidence |-> xyz, cmatrix |-> cmatrix, dng |-> dng, tags |-> tags, table |-> table,
     singular |-> {}, unphysical |-> {}, white |-> "asshot", daylight |-> "day"]
MCLibRawTake(colours) ==
    colours @@ [decoder |-> "libraw", camera |-> "fp", version |-> 0, core |-> Unmoved, policy |-> "aligned", lacks |-> {}]
MCAppleTake(camera, version, core, lacks) ==
    MCColours(TRUE, "none", TRUE, TRUE, FALSE)
      @@ [decoder |-> "coreimage", camera |-> camera, version |-> version, core |-> core, policy |-> "aligned", lacks |-> lacks]
MCTakes ==
    {MCLibRawTake(MCColours(e, c, dng, dng, table)) :
       e \in BOOLEAN, c \in {"none", "passes"}, dng \in BOOLEAN, table \in {FALSE}}
      \cup {MCLibRawTake(MCColours(FALSE, "fails", TRUE, FALSE, TRUE)),
            MCLibRawTake([MCColours(TRUE, "passes", TRUE, TRUE, FALSE) EXCEPT !.singular = {"cmatrix"}]),
            MCLibRawTake([MCColours(FALSE, "passes", TRUE, TRUE, FALSE) EXCEPT !.singular = {"cmatrix"}]),
            MCLibRawTake([MCColours(TRUE, "none", FALSE, FALSE, FALSE) EXCEPT !.singular = {"cam_xyz"}]),
            MCLibRawTake([MCColours(TRUE, "none", TRUE, TRUE, TRUE) EXCEPT !.unphysical = {"tags"}]),
            MCLibRawTake([MCColours(TRUE, "none", TRUE, TRUE, FALSE) EXCEPT !.white = "day"]),
            MCLibRawTake([MCColours(TRUE, "none", TRUE, TRUE, FALSE) EXCEPT !.daylight = Unmoved]),
            MCLibRawTake([MCColours(TRUE, "none", TRUE, TRUE, FALSE) EXCEPT !.white = "nonpositive"])}
      \cup {MCAppleTake("fp", 9, "id", {}), MCAppleTake("fp", 9, "id", {"no-fallback"}), MCAppleTake("fp", 8, "id", {}),
            MCAppleTake("fp", 9, Unmoved, {}), MCAppleTake("other", 9, "id", {}),
            [MCAppleTake("fp", 9, "id", {}) EXCEPT !.policy = "unity"],
            [MCAppleTake("fp", 9, "id", {}) EXCEPT !.white = "day"],
            [MCAppleTake("fp", 9, "id", {}) EXCEPT !.evidence = FALSE, !.tags = FALSE]}

MCRecord(frames, p95, ratio) ==
    [qualified |-> TRUE, frames |-> [train |-> 2, holdout |-> frames], median |-> 3, p95 |-> p95, ratio |-> ratio]
MCSplit(s) == [i \in 1..4 |-> [sha |-> i, split |-> s[i]]]
MCFourFrames == MCSplit(<<"train", "train", "holdout", "holdout">>)
MCEntry(id, global, skin) ==
    [id |-> id, qualified |-> TRUE, passed |-> TRUE, inputs |-> MCFourFrames, global |-> global,
     classes |-> [skin |-> skin, foliage |-> Unmoved],
     scope |-> [camera |-> "fp", configuration |-> <<"id", "aligned">>]]
MCAsset(id, profiles) == [id |-> id, current |-> TRUE, profiles |-> profiles]
MCGoodEntry == MCEntry("p", MCRecord(2, 6, 110), MCRecord(2, 6, 90))
MCAnchorAssets ==
    {MCAsset("one", <<MCGoodEntry>>),
     MCAsset("again", <<MCEntry("q", MCRecord(2, 6, 120), MCRecord(1, 6, 80))>>),
     MCAsset("two", <<MCGoodEntry, MCEntry("q", MCRecord(2, 6, 120), Unmoved)>>),
     MCAsset("short", <<[MCGoodEntry EXCEPT !.inputs = MCSplit(<<"train", "train", "train", "holdout">>)],
                       MCEntry("r", MCRecord(2, 7, 110), MCRecord(2, 6, 100))>>),
     [MCAsset("old", <<MCGoodEntry>>) EXCEPT !.current = FALSE]}

-----------------------------------------------------------------------------
(* Manifests of four photographs, and all that may be wrong with one *)

MCShows(libraw, coreimage) == "libraw" :> libraw @@ "coreimage" :> coreimage
MCScope(camera) == [camera |-> camera, configuration |-> <<"id", "aligned">>]
MCPhoto(path, split) ==
    [path |-> path, split |-> split, declared |-> Unmoved, shows |-> MCShows("pixels", "pixels"),
     scope |-> MCScope("fp"), flat |-> TRUE, near |-> {"skin"}]
MCPlate ==
    [verified |-> TRUE, ratio |-> 110, error |-> 3,
     frames |-> <<MCPhoto("t1", "train"), MCPhoto("t2", "train"), MCPhoto("h1", "holdout"), MCPhoto("h2", "holdout")>>]
MCPlates ==
    {MCPlate, [MCPlate EXCEPT !.verified = FALSE], [MCPlate EXCEPT !.ratio = 131], [MCPlate EXCEPT !.error = 4],
     [MCPlate EXCEPT !.frames[4].path = "h1"], [MCPlate EXCEPT !.frames[4].split = "train"],
     [MCPlate EXCEPT !.frames[1].declared = "t1", !.frames[3].near = {}],
     [MCPlate EXCEPT !.frames[2].scope = MCScope("other")], [MCPlate EXCEPT !.frames[1].scope = Unmoved],
     [MCPlate EXCEPT !.frames[3].shows = MCShows("pixels", "fallback")], [MCPlate EXCEPT !.frames[3].flat = FALSE]}

-----------------------------------------------------------------------------
\* A part that does not move starts as one of the ways it may.
AnyTables == {CHOOSE x \in Tables : TRUE}
AnyLookup == {CHOOSE x \in Lookups : TRUE}
AnyLoad == {CHOOSE x \in LoadRequests : TRUE}
AnyDng == {CHOOSE x \in DngFiles : TRUE}
AnyFrame == {CHOOSE x \in Frames : TRUE}
AnyCapture == {CHOOSE x \in Captures : TRUE}
AnyContainer == {CHOOSE x \in Containers : TRUE}
AnyFile == {CHOOSE x \in Files : TRUE}
AnyMeasured == {CHOOSE x \in Measured : TRUE}
AnyPage == {CHOOSE x \in Pages : TRUE}
AnySetting == {CHOOSE x \in Settings : TRUE}
AnyScene == {CHOOSE x \in Scenes : TRUE}
AnyCommandLine == {CHOOSE x \in CommandLines : TRUE}
AnyHost == {CHOOSE x \in Hosts : TRUE}
AnyJob == {CHOOSE x \in Jobs : TRUE}
AnyPlanFrame == {CHOOSE x \in PlanFrames : TRUE}
AnyRecording == {CHOOSE x \in Recordings : TRUE}
AnySet == {CHOOSE x \in Sets : TRUE}
AnyDelivery == {CHOOSE x \in Deliveries : TRUE}
AnyTake == {CHOOSE x \in Takes : TRUE}
AnyAsset == {CHOOSE x \in AnchorAssets : TRUE}
AnyPlate == {CHOOSE x \in Plates : TRUE}

Init ==
    /\ part \in {"store", "groups", "priors", "load", "decode", "geometry", "evidence", "walk", "facts",
                  "scope", "page", "flow", "reuse", "exposure", "command", "apple", "bands",
                  "plans", "analysis", "fit", "package", "windows", "anchors"}
    /\ StoreInit
    /\ GroupFrom(IF part = "groups" THEN Tables ELSE AnyTables)
    /\ ChoiceFrom(IF part = "priors" THEN Lookups ELSE AnyLookup)
    /\ LoadFrom(IF part = "load" THEN LoadRequests ELSE AnyLoad)
    /\ DecodeFrom(IF part = "decode" THEN DngFiles ELSE AnyDng)
    /\ GeometryFrom(IF part = "geometry" THEN Frames ELSE AnyFrame)
    /\ EvidenceFrom(IF part = "evidence" THEN Captures ELSE AnyCapture)
    /\ WalkFrom(IF part = "walk" THEN Containers ELSE AnyContainer)
    /\ FactsFrom(IF part = "facts" THEN Files ELSE AnyFile)
    /\ ScopeFrom(IF part = "scope" THEN Measured ELSE AnyMeasured)
    /\ ControlsFrom(IF part = "page" THEN Pages ELSE AnyPage)
    /\ FlowInit
    /\ ReuseFrom(IF part = "reuse" THEN Settings ELSE AnySetting)
    /\ SearchFrom(IF part = "exposure" THEN Scenes ELSE AnyScene)
    /\ CommandFrom(IF part = "command" THEN CommandLines ELSE AnyCommandLine)
    /\ AppleFrom(IF part = "apple" THEN Hosts ELSE AnyHost)
    /\ BandsFrom(IF part = "bands" THEN Jobs ELSE AnyJob)
    /\ PlansFrom(IF part = "plans" THEN PlanFrames ELSE AnyPlanFrame)
    /\ AnalysisFrom(IF part = "analysis" THEN Recordings ELSE AnyRecording)
    /\ CalibrationFrom(IF part = "fit" THEN Sets ELSE AnySet)
    /\ PackageFrom(IF part = "package" THEN Deliveries ELSE AnyDelivery)
    /\ WindowsFrom(IF part = "windows" THEN Takes ELSE AnyTake, IF part \in {"windows", "anchors"} THEN AnchorAssets ELSE AnyAsset)
    /\ PlatesFrom(IF part = "anchors" THEN Plates ELSE AnyPlate)

Next ==
    \/ part = "store" /\ StoreNext
         /\ UNCHANGED <<part, groupVars, choiceVars, loadVars, decodeVars, geometryVars, evidenceVars, walkVars,
                       factVars, scopeVars, controlVars, flowVars, reuseVars, searchVars,
                       commandVars, appleVars, bandVars, planVars, analysisVars, fitVars,
                       packageVars, windowVars, plateVars>>
    \/ part = "groups" /\ GroupNext
         /\ UNCHANGED <<part, storeVars, choiceVars, loadVars, decodeVars, geometryVars, evidenceVars, walkVars,
                       factVars, scopeVars, controlVars, flowVars, reuseVars, searchVars,
                       commandVars, appleVars, bandVars, planVars, analysisVars, fitVars,
                       packageVars, windowVars, plateVars>>
    \/ part = "priors" /\ ChoiceNext
         /\ UNCHANGED <<part, storeVars, groupVars, loadVars, decodeVars, geometryVars, evidenceVars, walkVars,
                       factVars, scopeVars, controlVars, flowVars, reuseVars, searchVars,
                       commandVars, appleVars, bandVars, planVars, analysisVars, fitVars,
                       packageVars, windowVars, plateVars>>
    \/ part = "load" /\ LoadNext
         /\ UNCHANGED <<part, storeVars, groupVars, choiceVars, decodeVars, geometryVars, evidenceVars, walkVars,
                       factVars, scopeVars, controlVars, flowVars, reuseVars, searchVars,
                       commandVars, appleVars, bandVars, planVars, analysisVars, fitVars,
                       packageVars, windowVars, plateVars>>
    \/ part = "decode" /\ DecodeNext
         /\ UNCHANGED <<part, storeVars, groupVars, choiceVars, loadVars, geometryVars, evidenceVars, walkVars,
                       factVars, scopeVars, controlVars, flowVars, reuseVars, searchVars,
                       commandVars, appleVars, bandVars, planVars, analysisVars, fitVars,
                       packageVars, windowVars, plateVars>>
    \/ part = "geometry" /\ GeometryNext
         /\ UNCHANGED <<part, storeVars, groupVars, choiceVars, loadVars, decodeVars, evidenceVars, walkVars,
                       factVars, scopeVars, controlVars, flowVars, reuseVars, searchVars,
                       commandVars, appleVars, bandVars, planVars, analysisVars, fitVars,
                       packageVars, windowVars, plateVars>>
    \/ part = "evidence" /\ EvidenceNext
         /\ UNCHANGED <<part, storeVars, groupVars, choiceVars, loadVars, decodeVars, geometryVars, walkVars,
                       factVars, scopeVars, controlVars, flowVars, reuseVars, searchVars,
                       commandVars, appleVars, bandVars, planVars, analysisVars, fitVars,
                       packageVars, windowVars, plateVars>>
    \/ part = "walk" /\ WalkNext
         /\ UNCHANGED <<part, storeVars, groupVars, choiceVars, loadVars, decodeVars, geometryVars, evidenceVars,
                       factVars, scopeVars, controlVars, flowVars, reuseVars, searchVars,
                       commandVars, appleVars, bandVars, planVars, analysisVars, fitVars,
                       packageVars, windowVars, plateVars>>
    \/ part = "facts" /\ FactsNext
         /\ UNCHANGED <<part, storeVars, groupVars, choiceVars, loadVars, decodeVars, geometryVars, evidenceVars,
                       walkVars, scopeVars, controlVars, flowVars, reuseVars, searchVars,
                       commandVars, appleVars, bandVars, planVars, analysisVars, fitVars,
                       packageVars, windowVars, plateVars>>
    \/ part = "scope" /\ ScopeNext
         /\ UNCHANGED <<part, storeVars, groupVars, choiceVars, loadVars, decodeVars, geometryVars, evidenceVars,
                       walkVars, factVars, controlVars, flowVars, reuseVars, searchVars,
                       commandVars, appleVars, bandVars, planVars, analysisVars, fitVars,
                       packageVars, windowVars, plateVars>>
    \/ part = "page" /\ ControlsNext
         /\ UNCHANGED <<part, storeVars, groupVars, choiceVars, loadVars, decodeVars, geometryVars, evidenceVars,
                       walkVars, factVars, scopeVars, flowVars, reuseVars, searchVars,
                       commandVars, appleVars, bandVars, planVars, analysisVars, fitVars,
                       packageVars, windowVars, plateVars>>
    \/ part = "flow" /\ FlowNext
         /\ UNCHANGED <<part, storeVars, groupVars, choiceVars, loadVars, decodeVars, geometryVars, evidenceVars,
                       walkVars, factVars, scopeVars, controlVars, reuseVars, searchVars,
                       commandVars, appleVars, bandVars, planVars, analysisVars, fitVars,
                       packageVars, windowVars, plateVars>>
    \/ part = "reuse" /\ ReuseNext
         /\ UNCHANGED <<part, storeVars, groupVars, choiceVars, loadVars, decodeVars, geometryVars, evidenceVars,
                       walkVars, factVars, scopeVars, controlVars, flowVars, searchVars,
                       commandVars, appleVars, bandVars, planVars, analysisVars, fitVars,
                       packageVars, windowVars, plateVars>>
    \/ part = "exposure" /\ SearchNext
         /\ UNCHANGED <<part, storeVars, groupVars, choiceVars, loadVars, decodeVars, geometryVars, evidenceVars,
                       walkVars, factVars, scopeVars, controlVars, flowVars, reuseVars,
                       commandVars, appleVars, bandVars, planVars, analysisVars, fitVars,
                       packageVars, windowVars, plateVars>>
    \/ part = "command" /\ CommandNext
         /\ UNCHANGED <<part, storeVars, groupVars, choiceVars, loadVars, decodeVars, geometryVars, evidenceVars,
                       walkVars, factVars, scopeVars, controlVars, flowVars, reuseVars,
                       searchVars, appleVars, bandVars, planVars, analysisVars, fitVars,
                       packageVars, windowVars, plateVars>>
    \/ part = "apple" /\ AppleNext
         /\ UNCHANGED <<part, storeVars, groupVars, choiceVars, loadVars, decodeVars, geometryVars, evidenceVars,
                       walkVars, factVars, scopeVars, controlVars, flowVars, reuseVars,
                       searchVars, commandVars, bandVars, planVars, analysisVars, fitVars,
                       packageVars, windowVars, plateVars>>
    \/ part = "bands" /\ BandsNext
         /\ UNCHANGED <<part, storeVars, groupVars, choiceVars, loadVars, decodeVars, geometryVars, evidenceVars,
                       walkVars, factVars, scopeVars, controlVars, flowVars, reuseVars,
                       searchVars, commandVars, appleVars, planVars, analysisVars, fitVars,
                       packageVars, windowVars, plateVars>>
    \/ part = "plans" /\ PlansNext
         /\ UNCHANGED <<part, storeVars, groupVars, choiceVars, loadVars, decodeVars, geometryVars, evidenceVars,
                       walkVars, factVars, scopeVars, controlVars, flowVars, reuseVars,
                       searchVars, commandVars, appleVars, bandVars, analysisVars, fitVars,
                       packageVars, windowVars, plateVars>>
    \/ part = "analysis" /\ AnalysisNext
         /\ UNCHANGED <<part, storeVars, groupVars, choiceVars, loadVars, decodeVars, geometryVars, evidenceVars,
                       walkVars, factVars, scopeVars, controlVars, flowVars, reuseVars,
                       searchVars, commandVars, appleVars, bandVars, planVars, fitVars,
                       packageVars, windowVars, plateVars>>
    \/ part = "fit" /\ FitNext
         /\ UNCHANGED <<part, storeVars, groupVars, choiceVars, loadVars, decodeVars, geometryVars, evidenceVars,
                       walkVars, factVars, scopeVars, controlVars, flowVars, reuseVars,
                       searchVars, commandVars, appleVars, bandVars, planVars, analysisVars,
                       packageVars, windowVars, plateVars>>
    \/ part = "package" /\ PackageNext
         /\ UNCHANGED <<part, storeVars, groupVars, choiceVars, loadVars, decodeVars, geometryVars, evidenceVars,
                       walkVars, factVars, scopeVars, controlVars, flowVars, reuseVars,
                       searchVars, commandVars, appleVars, bandVars, planVars, analysisVars,
                       fitVars, windowVars, plateVars>>
    \/ part = "windows" /\ WindowsNext
         /\ UNCHANGED <<part, storeVars, groupVars, choiceVars, loadVars, decodeVars, geometryVars,
                       evidenceVars, walkVars, factVars, scopeVars, controlVars, flowVars,
                       reuseVars, searchVars, commandVars, appleVars, bandVars, planVars,
                       analysisVars, fitVars, packageVars, plateVars>>
    \/ part = "anchors" /\ PlatesNext
         /\ UNCHANGED <<part, storeVars, groupVars, choiceVars, loadVars, decodeVars, geometryVars,
                       evidenceVars, walkVars, factVars, scopeVars, controlVars, flowVars,
                       reuseVars, searchVars, commandVars, appleVars, bandVars, planVars,
                       analysisVars, fitVars, packageVars>>

Spec == Init /\ [][Next]_libraryVars

-----------------------------------------------------------------------------
\* What a file, a table or a user did not say is made up nowhere: the frame is one
\* of the file's directories (metadata.py), its facts are what the observations
\* agree on (capture_facts.py) and the scope of a measurement is what its tables
\* and the user declare (calibration_capabilities.py).
FactsOfTheFile ==
    /\ part = "walk" => FrameOfTheFile
    /\ part = "facts" => FactsNeverInvented
    /\ part = "scope" => ScopeNarrowsOnly

\* What a picture, its exposure and its report are computed from is what was decoded
\* and measured: codes stay linear through Core Image (coreimage_decode.py), a frame
\* drawn in bands is the frame (render.py, hdr_agx.py), the plan of its tones answers
\* the evidence it has (tone.py, hdr_agx_plan.py), its noise and its clipping are of
\* the calibration and the white level of one look (analysis.py), a fit is of its own
\* channel and its own group (calibration.py), and the HDR package it is put in is
\* whole (heif_gainmap.py, jpeg_gainmap.py, gainmap_session.py), and the colours it is
\* worked in are found where the balance put them (raw_io.py, scene_transform.py) and the
\* decoder was measured to (calibrate_raw9_anchors.py).
PicturesTrue ==
    /\ part = "package" => PackagesWhole
    /\ part = "windows" => WindowsFollowPixels
    /\ part = "anchors" => AnchorsMeasured
    /\ part = "fit" => FitsHonest
    /\ part = "apple" => AppleLinear
    /\ part = "bands" => BandsAgree
    /\ part = "plans" => PlansEarned
    /\ part = "analysis" => AnalysisHonest
=============================================================================
