---------------------------- MODULE FrameGeometry ----------------------------
(***************************************************************************)
(* Which sensels a pixel of the scene comes from (raw_io.                  *)
(* _decode_corrected_libraw after its demosaic): the crop of the file, the *)
(* orientation, the box reduction of a preview; and the same way taken by  *)
(* the exclusion map of saturated sensels (decoder_loss.py) and the clip   *)
(* masks (dng_opcodes.align_sensor_loss).  An image gives each of its      *)
(* pixels the sensels it was made of.                                      *)
(***************************************************************************)
EXTENDS Integers, FiniteSets

CONSTANTS
    Frames,          \* [h, w, crop, flip, decode]: of the sensor, as stored
    Parts            \* of a sensel, in which a file may give its crop

\* read_opcodes: a crop begins on the sensor and has an extent; it may end beyond.
ASSUME FramesAssumption ==
    /\ Parts \in Nat \ {0}
    /\ \A f \in Frames : {f.h, f.w, f.crop.h, f.crop.w} \subseteq Nat \ {0} /\ {f.crop.y, f.crop.x} \subseteq Nat

VARIABLES
    frame,           \* what is decoded
    views            \* the scene and its maps, {} before

geometryVars == <<frame, views>>

-----------------------------------------------------------------------------
(* Rasters *)

Raster(h, w, Made(_, _)) ==
    [h |-> h, w |-> w, of |-> [p \in (0..h - 1) \X (0..w - 1) |-> Made(p[1], p[2])]]
At(image, y, x) == image.of[<<y, x>>]
\* The pixels of rows and columns, all of them together.
Joined(image, rows, cols) == UNION {At(image, y, x) : y \in rows \cap 0..image.h - 1, x \in cols \cap 0..image.w - 1}

\* Python's round of n / d: ties to the even number.
Round(n, d) ==
    LET q == (2 * n + d) \div (2 * d)
    IN  IF (2 * n + d) % (2 * d) = 0 /\ q % 2 = 1 THEN q - 1 ELSE q
Floor(n, d) == n \div d
Ceil(n, d) == -((-n) \div d)
Least(a, b) == IF a < b THEN a ELSE b

\* crop_image: [from, to) in pixels of an image that shows the whole sensor.
Window(start, length, pixels, sensels) ==
    [from |-> Round(start * pixels, Parts * sensels),
     to |-> Least(pixels, Round((start + length) * pixels, Parts * sensels))]
CropImage(image, crop, f) ==
    LET rows == Window(crop.y, crop.h, image.h, f.h)
        cols == Window(crop.x, crop.w, image.w, f.w)
    IN  Raster(rows.to - rows.from, cols.to - cols.from, LAMBDA y, x : At(image, rows.from + y, cols.from + x))

Bit(flip, b) == (flip \div b) % 2 = 1

\* _orient_like_libraw: mirrored by the last two bits, after the axes changed places.
Orient(image, flip) ==
    Raster(IF Bit(flip, 4) THEN image.w ELSE image.h, IF Bit(flip, 4) THEN image.h ELSE image.w,
           LAMBDA y, x :
             LET at == IF Bit(flip, 4) THEN <<x, y>> ELSE <<y, x>>
             IN  At(image, IF Bit(flip, 2) THEN image.h - 1 - at[1] ELSE at[1],
                           IF Bit(flip, 1) THEN image.w - 1 - at[2] ELSE at[2]))

\* A box of two by two; incomplete ones are dropped from images, kept in evidence.
Box(image) ==
    Raster(image.h \div 2, image.w \div 2, LAMBDA y, x : Joined(image, {2 * y, 2 * y + 1}, {2 * x, 2 * x + 1}))
Cells(image) ==
    Raster((image.h + 1) \div 2, (image.w + 1) \div 2,
           LAMBDA y, x : Joined(image, {2 * y, 2 * y + 1}, {2 * x, 2 * x + 1}))

-----------------------------------------------------------------------------
(* The scene *)

Sensor(f) == Raster(f.h, f.w, LAMBDA y, x : {<<y, x>>})
\* LibRaw's half size works on cells; else, a reduction is made at the very end.
Decoded(f) == IF f.decode = "half" THEN Cells(Sensor(f)) ELSE Sensor(f)
Reduction(f) == IF f.decode = "reduced" THEN 2 ELSE 1

Finished(f, oriented) == IF Reduction(f) = 2 THEN Box(oriented) ELSE oriented
Scene(f) == Finished(f, Orient(CropImage(Decoded(f), f.crop, f), f.flip))

\* noise_geometry: the crop in decoded pixels.
DecodedCrop(f) ==
    LET rows == Window(f.crop.y, f.crop.h, Decoded(f).h, f.h)
        cols == Window(f.crop.x, f.crop.w, Decoded(f).w, f.w)
    IN  [y |-> rows.from, x |-> cols.from, h |-> rows.to - rows.from, w |-> cols.to - cols.from]

\* Mutant of Kept: the last rows and columns are dropped, however it was turned.
KeptUnturned(f, c, s) ==
    LET h == 2 * (IF Bit(f.flip, 4) THEN s.w ELSE s.h)
        w == 2 * (IF Bit(f.flip, 4) THEN s.h ELSE s.w)
    IN  [y |-> c.y, x |-> c.x, h |-> h, w |-> w]

\* What the box keeps of it: the edge it drops may have been the first one.
Kept(f, c, s) ==
    LET h == 2 * (IF Bit(f.flip, 4) THEN s.w ELSE s.h)
        w == 2 * (IF Bit(f.flip, 4) THEN s.h ELSE s.w)
    IN  [y |-> c.y + (IF Bit(f.flip, 2) THEN c.h - h ELSE 0),
         x |-> c.x + (IF Bit(f.flip, 1) THEN c.w - w ELSE 0), h |-> h, w |-> w]

\* recipe.crop, of the sensor, as it is when the decode returns.
RecipeCrop(f) ==
    IF Reduction(f) = 2
      THEN LET kept == Kept(f, DecodedCrop(f), Scene(f))
           IN  [y |-> Parts * kept.y, x |-> Parts * kept.x, h |-> Parts * kept.h, w |-> Parts * kept.w]
      ELSE f.crop

-----------------------------------------------------------------------------
(* What goes the same way *)

\* source_reliability_exclusion: the support of the demosaic is left out.
Exclusion(f) ==
    Finished(f, Orient(CropImage(Decoded(f), RecipeCrop(f), f), f.flip))

\* _fractional_crop_loss: footprints of an image that shows the whole sensor, in
\* which the crop may begin and end within a pixel.
CropEnd(start, length, sensels) == Least(Parts * sensels, start + length)
Footprint(i, out, start, end, pixels, sensels) ==
    LET edge(k) == (start * (out - k) + end * k) * pixels
    IN  Floor(edge(i), out * Parts * sensels)..(Ceil(edge(i + 1), out * Parts * sensels) - 1)
OnGrid(start, length, pixels, sensels) ==
    /\ (start * pixels) % (Parts * sensels) = 0
    /\ (CropEnd(start, length, sensels) * pixels) % (Parts * sensels) = 0
Aligned(image, crop, f) == OnGrid(crop.y, crop.h, image.h, f.h) /\ OnGrid(crop.x, crop.w, image.w, f.w)
FractionalCrop(image, crop, f, h, w) ==
    Raster(h, w, LAMBDA y, x : Joined(image, Footprint(y, h, crop.y, CropEnd(crop.y, crop.h, f.h), image.h, f.h),
                                             Footprint(x, w, crop.x, CropEnd(crop.x, crop.w, f.w), image.w, f.w)))

\* build_clip_masks for a scene of given extent: cells of the mosaic, expanded to
\* sensels where the last ones are incomplete.
ClipMask(f, crop, s) ==
    LET h == IF Bit(f.flip, 4) THEN s.w ELSE s.h
        w == IF Bit(f.flip, 4) THEN s.h ELSE s.w
        cells == Cells(Sensor(f))
        whole == crop = [y |-> 0, x |-> 0, h |-> Parts * f.h, w |-> Parts * f.w]
        grid == IF (f.h % 2 = 1 \/ f.w % 2 = 1) /\ (~whole \/ cells.h # h \/ cells.w # w)
                  THEN Raster(f.h, f.w, LAMBDA y, x : At(cells, y \div 2, x \div 2)) ELSE cells
    IN  Orient(IF Aligned(grid, crop, f) THEN CropImage(grid, crop, f) ELSE FractionalCrop(grid, crop, f, h, w), f.flip)

GeometryFrom(frames) == frame \in frames /\ views = {}
GeometryInit == GeometryFrom(Frames)
\* A crop without a pixel is refused.
DecodeFrame ==
    /\ views = {}
    /\ DecodedCrop(frame).h > 0 /\ DecodedCrop(frame).w > 0
    /\ views' = {[scene |-> Scene(frame), exclusion |-> Exclusion(frame), masks |-> ClipMask(frame, RecipeCrop(frame), Scene(frame))]}
    /\ UNCHANGED frame
GeometryNext == DecodeFrame
GeometrySpec == GeometryInit /\ [][GeometryNext]_geometryVars

-----------------------------------------------------------------------------
\* "Masks, the Apple reference and the sampling ruler must all describe this same
\* retained window" (raw_io.py): however a frame is cropped, turned and reduced,
\* the exclusion map gives each pixel the sensels the scene made it of, and a clip
\* mask of the scene's extent has seen them all.
MapsFollowScene ==
    \A v \in views :
      /\ v.exclusion = v.scene
      /\ v.masks.h = v.scene.h /\ v.masks.w = v.scene.w =>
           \A p \in DOMAIN v.scene.of : v.scene.of[p] \subseteq v.masks.of[p]
==============================================================================
