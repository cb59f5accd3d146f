---------------------------- MODULE PageControls ----------------------------
(***************************************************************************)
(* The coupled controls of the page (gui/page.py): the handlers that keep  *)
(* decoder, tone core, container, delivery profile and HEIF encoding       *)
(* together, the copy in localStorage, and the checks the service makes of *)
(* the payload they produce (gui/service.py, delivery.py).                 *)
(*                                                                         *)
(* "highlight" stands for highlight and demosaic, which the decoder locks  *)
(* together; "look" for the grade and the highlight fade, which HDR resets *)
(* together; "chroma" for chroma and quality, which a profile fixes        *)
(* together.                                                               *)
(***************************************************************************)
EXTENDS FiniteSets

NoStash == "-"
Formats == {"sdr", "sdr-heic", "ultrahdr", "ultrahdr-heic"}
Profiles == {"auto", "share-hq", "share", "archive"}
LocalChoices ==
    [decoder : {"libraw", "coreimage"}, highlight : {"clip", "blend"}, core : {"agx", "gated", "lum"},
     format : Formats, look : BOOLEAN, profile : Profiles, chroma : {"444", "422", "420"},
     encoder : {"auto", "apple"}, bits : {8, 10}]
Defaults ==
    [decoder |-> "libraw", highlight |-> "clip", core |-> "agx", format |-> "sdr", look |-> FALSE,
     profile |-> "auto", chroma |-> "422", encoder |-> "auto", bits |-> 10]
Unlocked == [locked |-> FALSE, highlightStash |-> NoStash, coreStash |-> NoStash, confirm |-> TRUE]

VARIABLES
    controls,    \* what the page shows
    remembered,      \* localStorage
    host,     \* whether Core Image is there, and the HDR backend; [apple, hdr]
    reported,    \* /hdr-status was answered
    wish         \* the last core and highlight asked for; observed only

controlVars == <<controls, remembered, host, reported, wish>>

-----------------------------------------------------------------------------
IsHdr(format) == format \in {"ultrahdr", "ultrahdr-heic"}
IsHeif(format) == format \in {"sdr-heic", "ultrahdr-heic"}

\* heifConfigurationProblem
HeifProblem(c) ==
    /\ c.format = "sdr-heic" /\ c.encoder = "apple"
    /\ c.profile # "share" \/ c.bits # 8 \/ c.chroma # "420"

\* updateToneCoreExportUi
ExportUi(c) == [c EXCEPT !.confirm = ~(IsHdr(c.format) /\ c.core # "agx") /\ ~HeifProblem(c)]

\* Mutant of Constrained: a profile fixes its encoding only when it is chosen.
ConstrainedLater(c) ==
    ExportUi([c EXCEPT !.profile = IF IsHeif(c.format) /\ c.profile = "share-hq" THEN "auto" ELSE c.profile])

\* applyDeliveryConstraints
Constrained(c) ==
    LET profile == IF IsHeif(c.format) /\ c.profile = "share-hq" THEN "auto" ELSE c.profile
        chroma == CASE profile = "archive" -> "444"
                    [] profile = "share-hq" -> "420"
                    [] profile = "auto" -> IF IsHeif(c.format) THEN "444" ELSE "422"
                    [] profile = "share" -> c.chroma
    IN ExportUi([c EXCEPT !.profile = profile, !.chroma = chroma])

\* updateFormatUi
FormatUi(c) == Constrained([c EXCEPT !.look = c.look /\ ~IsHdr(c.format)])

\* Mutant of DecoderUi: the value is set aside each time, locked or not.
DecoderUiTwice(c) ==
    CASE ~host.apple -> [c EXCEPT !.decoder = "libraw", !.locked = FALSE]
      [] host.apple /\ c.decoder = "coreimage" ->
           LET held == [c EXCEPT !.highlightStash = c.highlight, !.highlight = "reconstruct", !.locked = TRUE]
           IN IF c.core = "gated" THEN ExportUi([held EXCEPT !.core = "agx", !.coreStash = "gated"]) ELSE held
      [] OTHER ->
           LET back == [c EXCEPT !.locked = FALSE, !.highlightStash = NoStash,
                                 !.highlight = IF c.highlightStash = NoStash THEN @ ELSE c.highlightStash]
           IN IF c.coreStash = NoStash THEN back
              ELSE ExportUi([back EXCEPT !.core = c.coreStash, !.coreStash = NoStash])

\* updateDecoderUi: Apple RAW locks what it decides itself and sets the choices
\* for LibRaw aside; LibRaw takes them back.
DecoderUi(c) ==
    CASE ~host.apple -> [c EXCEPT !.decoder = "libraw", !.locked = FALSE]
      [] host.apple /\ c.decoder = "coreimage" ->
           LET held == [c EXCEPT !.highlightStash = IF c.locked THEN @ ELSE c.highlight,
                                 !.highlight = "reconstruct", !.locked = TRUE]
           IN IF c.core = "gated" THEN ExportUi([held EXCEPT !.core = "agx", !.coreStash = "gated"]) ELSE held
      [] OTHER ->
           LET back == [c EXCEPT !.locked = FALSE, !.highlightStash = NoStash,
                                 !.highlight = IF c.highlightStash = NoStash THEN @ ELSE c.highlightStash]
           IN IF c.coreStash = NoStash THEN back
              ELSE ExportUi([back EXCEPT !.core = c.coreStash, !.coreStash = NoStash])

\* saveSettings: what is set aside is what the user chose
Saved(c) ==
    [f \in DOMAIN Defaults |->
       CASE f = "highlight" /\ c.highlightStash # NoStash -> c.highlightStash
         [] f = "core" /\ c.coreStash # NoStash -> c.coreStash
         [] OTHER -> c[f]]

\* what an HDR format left in localStorage with a look becomes while it is read
Corrected(s) == [s EXCEPT !.look = s.look /\ ~IsHdr(s.format)]

\* The values of s over those of c.
LaidOver(s, c) == [f \in DOMAIN s \cup DOMAIN c |-> IF f \in DOMAIN s THEN s[f] ELSE c[f]]

\* restoreSettings over the served defaults
Restored(s) == DecoderUi(FormatUi(LaidOver(s, Unlocked)))

-----------------------------------------------------------------------------
\* What the service and the delivery refuse: reject_gated_coreimage,
\* resolve_delivery_profile, DeliveryProfile.__post_init__, the HDR refusals of
\* run_export, and save_sdr_heif on a machine with libheif.
Previewable(p) == ~(p.decoder = "coreimage" /\ p.core = "gated")
Deliverable(p) ==
    /\ Previewable(p)
    /\ IsHdr(p.format) => p.core = "agx" /\ ~p.look
    /\ p.profile = "archive" => p.chroma = "444"
    /\ p.profile = "share-hq" => p.chroma = "420" /\ ~IsHeif(p.format)
    /\ p.format = "sdr-heic" /\ p.encoder = "apple" => p.profile # "auto" /\ p.bits = 8 /\ p.chroma = "420"

-----------------------------------------------------------------------------
WishOf(s) == [highlight |-> s.highlight, core |-> s.core]

\* Any page of an older version may have left what localStorage holds
Pages == [memory : LocalChoices, host : [apple : BOOLEAN, hdr : BOOLEAN]]
ControlsFrom(pages) ==
    \E page \in pages :
      /\ host = page.host /\ reported = FALSE
      /\ remembered = Corrected(page.memory) /\ wish = WishOf(page.memory)
      /\ controls = Restored(page.memory)

\* The end of every handler
Handled(c) == controls' = c /\ remembered' = Saved(c) /\ UNCHANGED <<host, reported>>

ChooseDecoder ==
    /\ host.apple
    /\ \E d \in {"libraw", "coreimage"} : Handled(DecoderUi([controls EXCEPT !.decoder = d]))
    /\ UNCHANGED wish

ChooseHighlight ==
    /\ ~controls.locked
    /\ \E h \in {"clip", "blend"} :
         /\ Handled([controls EXCEPT !.highlight = h])
         /\ wish' = [wish EXCEPT !.highlight = h]

\* gated is greyed while Apple RAW decodes; a choice ends what was set aside
ChooseCore ==
    \E core \in {"agx", "gated", "lum"} :
      /\ ~(controls.locked /\ core = "gated")
      /\ Handled(ExportUi([controls EXCEPT !.core = core, !.coreStash = NoStash]))
      /\ wish' = [wish EXCEPT !.core = core]

\* The HDR options are greyed once the backend is known to be missing
ChooseFormat ==
    \E f \in Formats :
      /\ IsHdr(f) => ~reported \/ host.hdr
      /\ Handled(FormatUi([controls EXCEPT !.format = f]))
      /\ UNCHANGED wish

\* applyDeliveryDefaults: only the manual profile seeds its values
ChooseProfile ==
    \E p \in Profiles :
      /\ p = "share-hq" => ~IsHeif(controls.format)
      /\ Handled(Constrained([controls EXCEPT !.profile = p, !.chroma = IF p = "share" THEN "420" ELSE @]))
      /\ UNCHANGED wish

ChooseEncoding ==
    /\ \/ controls.profile = "share" /\ \E x \in {"444", "422", "420"} : Handled(Constrained([controls EXCEPT !.chroma = x]))
       \/ \E e \in {"auto", "apple"} : Handled(Constrained([controls EXCEPT !.encoder = e]))
       \/ \E b \in {8, 10} : Handled(Constrained([controls EXCEPT !.bits = b]))
    /\ UNCHANGED wish

ChooseLook ==
    /\ ~IsHdr(controls.format)
    /\ \E l \in BOOLEAN : Handled([controls EXCEPT !.look = l])
    /\ UNCHANGED wish

\* the handler of the white balance runs updateDecoderUi once more
ChooseWhiteBalance == Handled(DecoderUi(controls)) /\ UNCHANGED wish

\* resetToDefaults
ResetToDefaults ==
    /\ Handled(FormatUi(DecoderUi(LaidOver(Defaults, [controls EXCEPT !.coreStash = NoStash]))))
    /\ wish' = WishOf(remembered')

Reload ==
    /\ controls' = Restored(remembered) /\ remembered' = Corrected(remembered) /\ reported' = FALSE
    /\ UNCHANGED <<host, wish>>

\* checkHdrBackend
BackendReport ==
    /\ ~reported /\ reported' = TRUE
    /\ IF host.hdr \/ ~IsHdr(controls.format) THEN UNCHANGED <<controls, remembered>>
       ELSE controls' = FormatUi([controls EXCEPT !.format = "sdr"]) /\ remembered' = Saved(controls')
    /\ UNCHANGED <<host, wish>>

ControlsNext ==
    \/ ChooseDecoder \/ ChooseHighlight \/ ChooseCore \/ ChooseFormat \/ ChooseProfile \/ ChooseEncoding
    \/ ChooseLook \/ ChooseWhiteBalance \/ ResetToDefaults \/ Reload \/ BackendReport

ControlsInit == ControlsFrom(Pages)
ControlsSpec == ControlsInit /\ [][ControlsNext]_controlVars

-----------------------------------------------------------------------------
\* The export button is enabled exactly for the payloads the service accepts, no
\* preview is asked for that it refuses (page.py and service.py state the same
\* contract twice), and no path of decoder switches, resets of HDR and reloads
\* loses what the user chose for LibRaw.
PageKeepsContract ==
    /\ controls.confirm <=> Deliverable(controls)
    /\ Previewable(controls)
    /\ WishOf(Saved(controls)) = wish /\ WishOf(remembered) = wish
    /\ ~controls.locked => WishOf(controls) = wish

\* page.py:1047: one button returns every control to the page's initial state.
ResetMeansDefaults == [][ResetToDefaults => Saved(controls') = Defaults]_controlVars
=============================================================================
