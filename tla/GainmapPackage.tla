--------------------------- MODULE GainmapPackage ---------------------------
(***************************************************************************)
(* What an HDR export does to the bytes the encoders write.                *)
(*                                                                         *)
(* heif_gainmap.py installs another image in a HEIF delivered,             *)
(* jpeg_gainmap.py another primary in a JPEG with auxiliary images,        *)
(* gainmap_session.py tells whether two containers have the same primary,  *)
(* and gainmap.py reconciles what a file declares of its headroom and      *)
(* keeps one private copy of the pixels it encodes.                        *)
(***************************************************************************)
EXTENDS Integers, Sequences, FiniteSets, Functions

CONSTANTS
    Deliveries,     \* containers, declarations and pixels as they come
    Donors,         \* single images to install
    Codestreams,    \* <<bytes of its tables, bytes of its scan>> of an encoded primary
    MaxRewrites,    \* bound: of one delivered
    Void            \* no value

VARIABLES
    delivered,   \* as it came
    written,     \* as it is
    installed,   \* the donor of each image that was replaced
    gauged,      \* [identity, rendition] of the primary that was measured
    verdict,     \* of the headroom and of the master
    coded,       \* the pixels the candidates of an export were encoded from
    rewrites     \* so far

packageVars == <<delivered, written, installed, gauged, verdict, coded, rewrites>>

PackageFrom(packages) ==
    /\ delivered \in packages
    /\ written = delivered /\ installed = [i \in {} |-> Void] /\ gauged = Void
    /\ verdict = Void /\ coded = {} /\ rewrites = 0
PackageInit == PackageFrom(Deliveries)
Rewrite == rewrites < MaxRewrites /\ rewrites' = rewrites + 1

-----------------------------------------------------------------------------
(* HEIF containers: items with data and properties, and references between them *)

Items(f) == DOMAIN f.items
OfKind(f, kinds) == {i \in Items(f) : f.items[i].kind \in kinds}
Pieces(f, i) == UNION {Range(r.to) : r \in {s \in f.refs : s.type = "dimg" /\ s.from = i}}
Below(f, i) ==
    LET reach[n \in Nat] ==
            Pieces(f, i) \cup IF n = 0 THEN {} ELSE UNION {Pieces(f, j) : j \in reach[n - 1]}
    IN  reach[Cardinality(Items(f))]
Cyclic(f, i) == \E j \in Below(f, i) \cup {i} : j \in Below(f, j)

Values(props, kind) == {props[k][2] : k \in {n \in DOMAIN props : props[n][1] = kind}}
Count(props, kind) == Cardinality({n \in DOMAIN props : props[n][1] = kind})

\* The clean aperture is the size where there is one.
SizeOf(props) == IF Count(props, "clap") = 1 THEN Values(props, "clap") ELSE Values(props, "ispe")
Codec == {"hvcC", "ispe", "pixi", "colr", "clap", "irot", "imir"}
Upright(props) == Count(props, "imir") = 0 /\ Values(props, "irot") \subseteq {0}

\* Mutant of OwnTiles: tiles another image is made of go with the rest.
OwnTilesNever(f, i) == TRUE

\* The tiles of an image are its own.
OwnTiles(f, i) ==
    \A r \in f.refs : r.from # i /\ r.from \notin Below(f, i) => Range(r.to) \cap Below(f, i) = {}

Replaceable(f, i, d) ==
    /\ f.items[i].kind \in {"hvc1", "grid"} /\ d.single
    /\ Count(f.props[i], "ispe") = 1 /\ SizeOf(f.props[i]) = SizeOf(d.props)
    /\ OfKind(f, {"tmap"}) # {} /\ ~Cyclic(f, i) /\ OwnTiles(f, i) /\ Upright(f.props[i])

\* Mutant of Described: the new image is read with the properties of the old.
DescribedAsBefore(old, new) == old \o SelectSeq(new, LAMBDA p : p[1] = "hvcC")

\* replace_image_item: what says how to decode an image comes with it; the rest stays.
Described(old, new) == SelectSeq(old, LAMBDA p : p[1] \notin Codec) \o new

\* Mutant of Remaining: the references of the tiles stay.
RemainingAll(f, i) == f.refs
Remaining(f, i) == {r \in f.refs : r.from \notin Below(f, i) /\ ~(r.type = "dimg" /\ r.from = i)}

Replaced(f, i, d) ==
    [f EXCEPT !.items = [j \in Items(f) \ Below(f, i) |-> IF j = i THEN [kind |-> "hvc1", data |-> d.data] ELSE f.items[j]],
              !.props = [j \in Items(f) \ Below(f, i) |-> IF j = i THEN Described(f.props[i], d.props) ELSE f.props[j]],
              !.refs = Remaining(f, i)]

\* iso_gainmap_item: the second input of the only tone map, if it is what Apple writes.
ToneInputs(f) ==
    {r.to : r \in {s \in f.refs : s.type = "dimg" /\ s.from \in OfKind(f, {"tmap"})}}
GainmapItems(f) ==
    {i \in OfKind(f, {"hvc1", "grid"}) :
       /\ Cardinality(OfKind(f, {"tmap"})) = 1 /\ i # f.primary /\ ToneInputs(f) = {<<f.primary, i>>}
       /\ Values(f.props[i], "pixi") = {8} /\ Values(f.props[i], "colr") = {0}}

InstallDonor ==
    /\ delivered.form = "heif" /\ Rewrite
    /\ \E i \in {written.primary} \cup GainmapItems(written), d \in Donors :
         /\ Replaceable(written, i, d)
         /\ written' = Replaced(written, i, d)
         /\ installed' = [j \in (DOMAIN installed) \cup {i} |-> IF j = i THEN d ELSE installed[j]]
    /\ UNCHANGED <<delivered, gauged, verdict, coded>>

\* embed_primary_icc.
Profile == 7
EmbedIcc ==
    /\ delivered.form = "heif" /\ Rewrite
    /\ written' = [written EXCEPT !.props[written.primary] = SelectSeq(@, LAMBDA p : p[1] # "colr") \o <<<<"colr", Profile>>>>]
    /\ UNCHANGED <<delivered, installed, gauged, verdict, coded>>

-----------------------------------------------------------------------------
(* The identity of a primary *)

Digest(f, i) == <<f.items[i].kind, f.items[i].data, f.props[i]>>
TileList(f, i) == UNION {{r.to} : r \in {s \in f.refs : s.type = "dimg" /\ s.from = i}}
Tree(f, i) == <<Digest(f, i), {[k \in DOMAIN list |-> Digest(f, list[k])] : list \in TileList(f, i)}>>

\* Mutant of Auxiliaries: what only helps to show the primary does not count.
AuxiliariesNone(f) == {}

\* Alpha, depth and other images that go with the primary.
Auxiliaries(f) == {r.from : r \in {s \in f.refs : s.type = "auxl" /\ f.primary \in Range(s.to)}}
Captions(f) ==
    {r.from : r \in {s \in f.refs : s.type = "cdsc" /\ Range(s.to) \cap ({f.primary} \cup Auxiliaries(f)) # {}}}

\* The primary, its auxiliaries and their tiles.
Dependencies(f) == {f.primary} \cup UNION {{i} \cup Below(f, i) : i \in Auxiliaries(f)}

\* Every reference to one of them is of a kind the identity accounts for.
KnownReference(f, r) ==
    \/ r.type = "cdsc" /\ f.items[r.from].kind = "exif" /\ Range(r.to) \subseteq Dependencies(f) \cup OfKind(f, {"tmap"})
    \/ r.type = "dimg" /\ r.from \in OfKind(f, {"tmap"}) /\ Len(r.to) = 2 /\ r.to[1] = f.primary
         /\ r.to[2] \in OfKind(f, {"hvc1", "grid"}) \ Dependencies(f)
    \/ r.type = "auxl" /\ r.from \in OfKind(f, {"hvc1", "grid"}) /\ Range(r.to) \subseteq OfKind(f, {"tmap"}) \cup {f.primary}
    \/ r.type = "dimg" /\ f.primary \notin Range(r.to) /\ r.from \in Dependencies(f) \cap OfKind(f, {"grid"})
Recognised(f) ==
    /\ f.items[f.primary].kind = "hvc1" /\ f.plain
    /\ Count(f.props[f.primary], "hvcC") = 1 /\ Count(f.props[f.primary], "ispe") = 1
    /\ \A r \in f.refs :
         /\ r.from # f.primary
         /\ Range(r.to) \cap Dependencies(f) # {} => KnownReference(f, r)
    /\ \A i \in Dependencies(f) : Cardinality(TileList(f, i)) = IF f.items[i].kind = "grid" THEN 1 ELSE 0
    /\ \A i \in Auxiliaries(f) : ~Cyclic(f, i) /\ Below(f, i) \subseteq OfKind(f, {"hvc1", "grid"})

\* _primary_identity; the gain map itself is not part of it.
Identity(f) ==
    IF ~Recognised(f) THEN Void
    ELSE [primary |-> Tree(f, f.primary), auxiliaries |-> {Tree(f, i) : i \in Auxiliaries(f)},
          captions |-> {Digest(f, i) : i \in Captions(f)}, tone |-> {Digest(f, i) : i \in OfKind(f, {"tmap"})}]

\* What a reader without HDR shows.
Rendition(f) ==
    <<f.items[f.primary].data, f.props[f.primary], {<<f.items[i].data, f.props[i], {{f.items[j].data : j \in Below(f, i)}}>> :
        i \in {r.from : r \in {s \in f.refs : s.type \in {"auxl", "thmb"} /\ f.primary \in Range(s.to)}}}>>

\* metrics and remember_metrics: the same primary is read back once.
Cached == gauged # Void /\ Identity(written) # Void /\ Identity(written) = gauged.identity
Remember ==
    /\ delivered.form = "heif" /\ gauged = Void /\ Identity(written) # Void
    /\ gauged' = [identity |-> Identity(written), rendition |-> Rendition(written)]
    /\ UNCHANGED <<delivered, written, installed, verdict, coded, rewrites>>

\* The next candidate of the search.
Heifs == {p \in Deliveries : p.form = "heif"}
NextContainer ==
    /\ delivered \in Heifs /\ gauged # Void
    /\ \E p \in Heifs : delivered' = p /\ written' = p
    /\ installed' = [i \in {} |-> Void] /\ rewrites' = 0
    /\ UNCHANGED <<gauged, verdict, coded>>

-----------------------------------------------------------------------------
(* JPEG: segments, a scan, and auxiliary images behind it that an index of the file       *)
(* finds by their distance from itself                                                 *)

IsMetadata(segment) == segment[1] \in {"app", "mpf"}
Length(segments) == SumFunction([k \in DOMAIN segments |-> segments[k][2]])
Metadata(segments) == SelectSeq(segments, IsMetadata)
EndOfPrimary(f) == 2 + Length(f.segments) + f.scan
IndexAt(segments) == CHOOSE k \in DOMAIN segments : segments[k][1] = "mpf"
Origin(segments) == 2 + Length(SubSeq(segments, 1, IndexAt(segments) - 1)) + 8
Indexed(f) == Cardinality({k \in DOMAIN f.segments : f.segments[k][1] = "mpf"}) = 1

\* Mutant of Moved: the index itself has stayed where it was.
MovedFromOld(f, segments, shift, at) == at + shift

\* The image moves with the end of the primary, the index with the segments before it.
Moved(f, segments, shift, at) == at + Origin(f.segments) + shift - Origin(segments)

\* replace_primary: only of a file whose index is right about it.
ReplaceCodestream ==
    /\ delivered.form = "jpeg" /\ Rewrite
    /\ Indexed(written) /\ written.size = EndOfPrimary(written)
    /\ \A k \in DOMAIN written.offsets : written.offsets[k] + Origin(written.segments) >= EndOfPrimary(written)
    /\ \E c \in Codestreams :
         LET segments == Append(Metadata(written.segments), <<"table", c[1]>>)
             shift == 2 + Length(segments) + c[2] - EndOfPrimary(written)
         IN  written' = [written EXCEPT
               !.segments = segments, !.scan = c[2], !.size = EndOfPrimary(written) + shift,
               !.offsets = [k \in DOMAIN written.offsets |-> Moved(written, segments, shift, written.offsets[k])],
               !.images = [k \in DOMAIN written.images |-> written.images[k] + shift]]
    /\ UNCHANGED <<delivered, installed, gauged, verdict, coded>>

-----------------------------------------------------------------------------
(* What a file declares of its headroom: pairs <<base, alternate>>, 0 where a value is   *)
(* missing and -1 where it is none, with a version in the data of its gain map, in any   *)
(* number of derivations, and one value of the primary; 1 is SDR                         *)

NoHeadrooms == <<0, 0>>
NotRead == [version |-> "none", pair |-> NoHeadrooms]
SdrToHdr(pair) == pair = NoHeadrooms \/ (pair[1] = 1 /\ pair[2] > 1)

\* The alternates that are declared, in the order they are read; fields is what was read
\* of the auxiliary data.
Alternates(d, fields) ==
    LET pairs == SelectSeq(<<fields.pair>> \o d.derivations, LAMBDA pair : pair # NoHeadrooms)
    IN  [k \in DOMAIN pairs |-> pairs[k][2]] \o (IF d.legacy = 0 THEN <<>> ELSE <<d.legacy>>)

\* Mutant of Contradictory: the first declaration decides.
ContradictoryNever(d, fields, map) == FALSE

\* _declared_gainmap_headroom raises: a declaration is partial or unsound, two differ, or
\* a file with a map declares no headroom.
Contradictory(d, fields, map) ==
    \/ fields.version = "other"
    \/ \E pair \in {fields.pair} \cup Range(d.derivations) : ~SdrToHdr(pair)
    \/ d.legacy = -1
    \/ map /\ (d.legacy = 1 \/ Alternates(d, fields) = <<>>)
    \/ Cardinality(Range(Alternates(d, fields))) > 1

\* inspect_gainmap_file: the data of the map are not asked for where the properties list
\* the map and a derivation was found.
AuxiliaryRead(d) == ~d.listed \/ Range(d.derivations) \subseteq {NoHeadrooms}
FieldsRead(d) == IF AuxiliaryRead(d) THEN d.auxiliary ELSE NotRead
HasMap(d) == d.listed \/ (AuxiliaryRead(d) /\ d.present)

\* Declared at all, without the data of the map first; a file that declares nothing is SDR.
Inspect ==
    /\ delivered.form = "headroom" /\ verdict = Void
    /\ verdict' =
         IF Contradictory(delivered, NotRead, FALSE)
              \/ (AuxiliaryRead(delivered) /\ Contradictory(delivered, delivered.auxiliary, HasMap(delivered)))
         THEN -1
         ELSE IF Alternates(delivered, FieldsRead(delivered)) = <<>> THEN 1
         ELSE Alternates(delivered, FieldsRead(delivered))[1]
    /\ UNCHANGED <<delivered, written, installed, gauged, coded, rewrites>>

-----------------------------------------------------------------------------
(* One export's pixels *)

\* write_apple_gainmap_file: an encoder and a container there are, floats for 10 bits only.
Packable(d) == d.target # "unknown" /\ (d.base \in {"float", "float-outside"} => d.target = "heic-10")

\* _PreparedGainmapMaster: a base of three bytes or three floats within their range, an
\* alternate of its size that is finite, above white and within the headroom asked for,
\* and a system that can encode them.
Preparable(d) ==
    /\ d.base \in {"bytes", "float"} /\ d.sized /\ d.peak = "within"
    /\ d.backend = "full" \/ (d.backend = "bytes" /\ d.base = "bytes")

\* Checked and copied: the caller's array is the caller's; of a refusal nothing is kept.
PrepareMaster ==
    LET kept == Packable(delivered) /\ Preparable(delivered)
    IN  /\ delivered.form = "pixels" /\ verdict = Void
        /\ verdict' = IF kept THEN 0 ELSE -1
        /\ written' = [written EXCEPT !.master = IF kept THEN written.pixels ELSE Void]
        /\ UNCHANGED <<delivered, installed, gauged, coded, rewrites>>
EditPixels ==
    /\ delivered.form = "pixels" /\ Rewrite
    /\ written' = [written EXCEPT !.pixels = <<rewrites>>]
    /\ UNCHANGED <<delivered, installed, gauged, verdict, coded>>

\* Mutant of Encoded: the caller's array is borrowed.
EncodedBorrowed == written.pixels
Encoded == written.master

\* validate: of an open export, and of no other.
EncodeCandidate ==
    /\ delivered.form = "pixels" /\ verdict = 0 /\ written.master # Void
    /\ coded' = coded \cup {Encoded}
    /\ UNCHANGED <<delivered, written, installed, gauged, verdict, rewrites>>

\* The export ends, whichever way: every owner is released.
Close ==
    /\ delivered.form = "pixels" /\ verdict = 0
    /\ written' = [written EXCEPT !.master = Void] /\ verdict' = 1
    /\ UNCHANGED <<delivered, installed, gauged, coded, rewrites>>

PackageNext ==
    \/ InstallDonor \/ EmbedIcc \/ Remember \/ NextContainer
    \/ ReplaceCodestream \/ Inspect
    \/ PrepareMaster \/ EditPixels \/ EncodeCandidate \/ Close

PackageSpec == PackageInit /\ [][PackageNext]_packageVars

-----------------------------------------------------------------------------
(* Properties *)

\* After any rewrites a delivered is whole: its references resolve, its tone map is made
\* of the primary and a gain map, every image that was replaced is decoded with its own
\* properties and nothing else has changed or is lost (heif_gainmap.py).
ContainerWhole ==
    delivered.form = "heif" =>
      /\ \A r \in written.refs : r.from \in Items(written) /\ Range(r.to) \subseteq Items(written)
      /\ \A i \in Items(written) : \A kind \in {"hvcC", "ispe", "colr"} : Count(written.props[i], kind) <= 1
      /\ ToneInputs(written) = ToneInputs(delivered)
      /\ \A i \in Items(delivered) :
           IF i \in DOMAIN installed
           THEN /\ written.items[i].data = installed[i].data
                /\ \A kind \in Codec \ {"colr"} : Values(written.props[i], kind) = Values(installed[i].props, kind)
                /\ Values(delivered.props[i], "amve") \subseteq Values(written.props[i], "amve")
           ELSE \/ i \in Items(written) /\ written.items[i] = delivered.items[i]
                \/ \E j \in DOMAIN installed : i \in Below(delivered, j)

\* A measurement is reused only for a primary that shows the same (gainmap_session.py).
SamePictureMeasured == delivered.form = "heif" /\ Cached => Rendition(written) = gauged.rendition

\* The index of a JPEG finds its auxiliary images (jpeg_gainmap.py).
ImagesFound ==
    delivered.form = "jpeg" /\ Indexed(delivered) =>
      \A k \in DOMAIN written.offsets : written.offsets[k] + Origin(written.segments) = written.images[k]

\* A headroom that is reported is what every declaration of the file says that was read,
\* above SDR where there is a map, and a map has one; the pixels of an export are those it
\* was prepared with, whatever the caller does to its own (gainmap.py).
HeadroomDeclared ==
    delivered.form = "headroom" /\ verdict \notin {Void, -1} =>
      /\ \A pair \in {FieldsRead(delivered).pair} \cup Range(delivered.derivations) :
           pair # NoHeadrooms => pair[1] = 1 /\ pair[2] = verdict
      /\ delivered.legacy \in {0, verdict}
      /\ HasMap(delivered) => verdict > 1
OneMaster == Cardinality(coded) <= 1

PackagesWhole == ContainerWhole /\ SamePictureMeasured /\ ImagesFound /\ HeadroomDeclared /\ OneMaster
=============================================================================
