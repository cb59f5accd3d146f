----------------------------- MODULE CommandRun -----------------------------
(***************************************************************************)
(* cli.py and export.py: one run of the command, from its arguments to its *)
(* exit code.  The run computes what its consumers will read, writes a     *)
(* dashboard, an image and a table, and says what it wrote.                *)
(*                                                                         *)
(* A name is a stem with a suffix; a file is whose work it is, in what     *)
(* container.  Photographers name outputs as they like.                    *)
(***************************************************************************)
EXTENDS Naturals

CONSTANTS
    CommandLines,   \* command lines
    Source,     \* the name of the RAW
    Links,    \* names that are links to it
    NoName

OutputFormats == {"sdr", "sdr-heic", "ultrahdr", "ultrahdr-heic"}
Heic(format) == format \in {"sdr-heic", "ultrahdr-heic"}
Hdr(format) == format \in {"ultrahdr", "ultrahdr-heic"}

ASSUME CommandLinesAssumption ==
    \A r \in CommandLines : r.format \in OutputFormats /\ {r.scan, r.auto, r.hdrReady} \subseteq BOOLEAN
ASSUME NoNameAssumption == NoName \notin {0, 1, 2}

VARIABLES
    request,
    at,         \* the statement main is at
    buffers,    \* what is in memory for the consumers
    disk,       \* [name, by, container] of the files
    said,       \* what the report and the table name
    exit        \* the exit code, or NoName

commandVars == <<request, at, buffers, disk, said, exit>>

\* Without another product the dashboard is the default.
Scans(r) == r.scan \/ r.out # NoName \/ (r.image = NoName /\ r.table = NoName)
Diagnostic(r) == Scans(r) \/ r.table # NoName
Dashboard(r) == IF r.out = NoName THEN <<Source[1], "png">> ELSE r.out

\* parse_args: a dial that would do nothing is an error, not a silence.
Malformed(r) ==
    \/ Hdr(r.format) /\ r.dials \cap {"grade", "fade", "core", "srgb"} # {}
    \/ ~Hdr(r.format) /\ r.dials \cap {"rho", "margin", "shoulder"} # {}
    \/ "gated" \in r.dials /\ "coreimage" \in r.dials
    \/ "scale" \in r.dials /\ "coreimage" \notin r.dials

CommandFrom(requests) ==
    /\ request \in requests
    /\ at = "arguments" /\ buffers = {} /\ said = {} /\ exit = NoName
    /\ disk = {[name |-> Source, by |-> "camera", container |-> "raw"]}
CommandInit == CommandFrom(CommandLines)

-----------------------------------------------------------------------------
(* Names *)

Suffixed(name, suffix) == <<name[1], suffix>>

\* final_image_destination: the container decides the suffix.
Destination(r) ==
    CASE Heic(r.format) /\ r.image[2] # "heic" -> Suffixed(r.image, "heic")
      [] r.format = "ultrahdr" /\ r.image[2] = "heic" -> Suffixed(r.image, "jpg")
      [] OTHER -> r.image

Protected == {Source} \cup Links
Outputs(r) ==
    (IF Scans(r) THEN {Dashboard(r)} ELSE {}) \cup (IF r.table # NoName THEN {r.table} ELSE {})
        \cup (IF r.image # NoName THEN {r.image, Destination(r)} ELSE {})

Write(name, by, container) ==
    disk' = {f \in disk : f.name # name} \cup {[name |-> name, by |-> by, container |-> container]}

-----------------------------------------------------------------------------
(* main *)

Stage(from, to) == at = from /\ at' = to /\ UNCHANGED <<request, exit>>

\* Anything may raise; what has been written stays.
Raise ==
    /\ at \notin {"done", "failed"}
    /\ at' = "failed" /\ exit' = 1
    /\ UNCHANGED <<request, buffers, disk, said>>

CheckArguments ==
    /\ at = "arguments"
    /\ IF Malformed(request) THEN at' = "failed" /\ exit' = 2
       ELSE (Hdr(request.format) => request.hdrReady) /\ at' = "preflight" /\ UNCHANGED exit
    /\ UNCHANGED <<request, buffers, disk, said>>

\* Mutant of Preflight: the name the image will get is not looked at.
PreflightAsAsked ==
    /\ at = "preflight"
    /\ IF Protected \cap (Outputs(request) \ {Destination(request)}) # {}
         THEN at' = "failed" /\ exit' = 1 ELSE at' = "decode" /\ UNCHANGED exit
    /\ UNCHANGED <<request, buffers, disk, said>>

\* OutputProtection.check, before a minute is spent.
Preflight ==
    /\ at = "preflight"
    /\ IF Protected \cap Outputs(request) # {} THEN at' = "failed" /\ exit' = 1
       ELSE at' = "decode" /\ UNCHANGED exit
    /\ UNCHANGED <<request, buffers, disk, said>>

\* load_raw keeps the colour planes for the dashboard only.
DecodeForRun ==
    /\ Stage("decode", "analyse")
    /\ buffers' = IF Scans(request) THEN {"scene", "xyz"} ELSE {"scene", "luminance"}
    /\ UNCHANGED <<disk, said>>

\* Mutant of AnalyseForRun: every gamut is measured for a dashboard only.
AnalyseForDashboard ==
    /\ Stage("analyse", "expose")
    /\ buffers' = buffers \cup {"analysis"}
                    \cup (IF Scans(request) THEN {"planes", "gamuts"} ELSE {})
    /\ UNCHANGED <<disk, said>>

AnalyseForRun ==
    /\ Stage("analyse", "expose")
    /\ buffers' = buffers \cup {"analysis"}
                    \cup (IF Scans(request) THEN {"planes"} ELSE {})
                    \cup (IF Diagnostic(request) THEN {"gamuts"} ELSE {})
    /\ UNCHANGED <<disk, said>>

\* resolve_export_ev: an automatic exposure compiles the plan of the image.
Expose ==
    /\ request.auto => request.image # NoName \/ Scans(request)
    /\ Stage("expose", "dashboard")
    /\ buffers' = buffers \cup (IF request.auto THEN {"plan"} ELSE {})
    /\ UNCHANGED <<disk, said>>

DrawDashboard ==
    /\ Stage("dashboard", "plan")
    /\ IF Scans(request) THEN Write(Dashboard(request), "dashboard", "png") ELSE UNCHANGED disk
    /\ UNCHANGED <<buffers, said>>

\* The plan of the exposure serves the image; the analysis of the decode has
\* been read for the last time.
Plan ==
    /\ Stage("plan", "export")
    /\ buffers' = IF request.image = NoName THEN buffers ELSE (buffers \ {"xyz", "luminance"}) \cup {"plan"}
    /\ UNCHANGED <<disk, said>>

\* export_jpeg: the name is checked again and the file replaced in one step.
Container(r) == IF Heic(r.format) THEN "heic" ELSE "jpg"
ExportImage ==
    /\ Stage("export", "table")
    /\ IF request.image = NoName THEN UNCHANGED disk
       ELSE Write(Destination(request), "image", Container(request))
    /\ UNCHANGED <<buffers, said>>

\* Mutant of Reported: the report keeps the name main renamed by itself.
ReportedAsRenamed(r) ==
    IF r.image = NoName THEN {}
    ELSE IF Heic(r.format) /\ r.image[2] = "jpg" THEN {Suffixed(r.image, "heic")} ELSE {r.image}

\* What the report and the table call the image: main follows the exporter.
Reported(r) == IF r.image = NoName THEN {} ELSE {Destination(r)}

WriteTable ==
    /\ Stage("table", "report")
    /\ IF request.table = NoName THEN UNCHANGED disk ELSE Write(request.table, "table", "csv")
    /\ UNCHANGED <<buffers, said>>

\* The files print_report lists.
Listed(r) ==
    Reported(r) \cup (IF Scans(r) THEN {Dashboard(r)} ELSE {}) \cup (IF r.table = NoName THEN {} ELSE {r.table})

Report ==
    /\ at = "report"
    /\ at' = "done" /\ exit' = 0 /\ said' = Listed(request)
    /\ UNCHANGED <<request, buffers, disk>>

CommandNext ==
    \/ CheckArguments \/ Preflight \/ DecodeForRun \/ AnalyseForRun \/ Expose \/ DrawDashboard \/ Plan
    \/ ExportImage \/ WriteTable \/ Report \/ Raise

CommandSpec == CommandInit /\ [][CommandNext]_commandVars

-----------------------------------------------------------------------------
\* plot_dashboard, export_jpeg and csv_row: what a consumer reads.
DashboardReads == {"xyz", "planes", "gamuts", "analysis"}
ImageReads == {"scene", "analysis", "plan"}
TableReads == {"analysis", "gamuts"}

\* Each consumer finds what it reads.
ReadsAreThere ==
    /\ at = "dashboard" /\ Scans(request) => DashboardReads \subseteq buffers
    /\ at = "export" /\ request.image # NoName => ImageReads \subseteq buffers
    /\ at = "table" /\ request.table # NoName => TableReads \subseteq buffers

\* Names of different products, none of them the RAW's.
Distinct(r) ==
    /\ Scans(r) /\ r.table # NoName => Dashboard(r) # r.table
    /\ r.image # NoName => Destination(r) \notin {Dashboard(r), r.table}

\* The report names files that exist; of an HDR image and a HEIF the
\* suffix tells the container; success means every product is there, a refusal that none is;
\* the RAW stays the camera's.
ReportTrue ==
    /\ \A f \in disk : f.name \in Protected => f.by = "camera"
    /\ \A f \in disk : f.by = "image" /\ request.format # "sdr" => (f.container = "heic" <=> f.name[2] = "heic")
    /\ exit = 2 => disk = {[name |-> Source, by |-> "camera", container |-> "raw"]}
    /\ exit = 0 /\ Distinct(request) =>
         /\ said \subseteq {f.name : f \in disk}
         /\ request.image # NoName => \E f \in disk : f.by = "image" /\ f.name \in said
         /\ Scans(request) => \E f \in disk : f.by = "dashboard"
         /\ request.table # NoName => \E f \in disk : f.by = "table"

\* A run reads what it has kept and says what it has done.
RunsHonest == ReadsAreThere /\ ReportTrue
=============================================================================
