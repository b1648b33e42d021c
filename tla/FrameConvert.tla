----------------------------- MODULE FrameConvert -----------------------------
(***************************************************************************)
(* The frame conversions of IvyUtil.cpp, the way onRawFrame of              *)
(* VideoEncode.cpp uses them: a frame of the camera is cropped to the size  *)
(* of the encoder and converted to I420 (the build without libyuv), or      *)
(* converted at its own size (the build with it).                           *)
(*                                                                         *)
(* A frame is its bytes, from 0.  A byte is where its value comes from: the *)
(* plane and the place in the scene before the camera, so that a picture    *)
(* put together wrongly shows it.  Sizes are even, as 4:2:0 needs them.     *)
(***************************************************************************)
EXTENDS Integers

CONSTANTS
    Widths,   \* widths of cameras and encoders
    Heights   \* heights of cameras and encoders

ASSUME SizeAssumption == \A n \in Widths \cup Heights : n \in Nat \ {0} /\ n % 2 = 0

VARIABLES
    camera,  \* format and size of the frame of the camera
    target,  \* size of the encoder: that of the camera until it is cropped
    fmt,     \* format of the frame now
    bytes    \* the frame now

frameVars == <<camera, target, fmt, bytes>>

Formats == {"NV21", "YV12", "I420"}

(* A byte of an allocated buffer that nothing was copied to. *)
Unset == <<"unset", 0, 0>>

FrameSize(w, h) == (w * h * 3) \div 2

(***************************************************************************)
(* Where a frame keeps each plane: the byte of a pixel, and of the chroma   *)
(* block in column i and row j.                                             *)
(***************************************************************************)
ByteOf(f, w, h, plane, i, j) ==
    LET ysize == w * h
        first == ysize + j * (w \div 2) + i
        second == first + ysize \div 4
        pair == ysize + j * w + 2 * i
    IN IF plane = "Y" THEN j * w + i
       ELSE IF f = "NV21" THEN (IF plane = "V" THEN pair ELSE pair + 1)
       ELSE IF (f = "I420") = (plane = "U") THEN first ELSE second

Places(w, h) ==
    ({"Y"} \X (0 .. w - 1) \X (0 .. h - 1))
        \cup ({"U", "V"} \X (0 .. w \div 2 - 1) \X (0 .. h \div 2 - 1))

(* What the camera delivers: each place of the scene at its byte. *)
Scene(f, w, h) ==
    [k \in 0 .. FrameSize(w, h) - 1 |->
        CHOOSE p \in Places(w, h) : ByteOf(f, w, h, p[1], p[2], p[3]) = k]

FrameInit ==
    /\ \E f \in Formats, w \in Widths, h \in Heights :
          /\ camera = [fmt |-> f, w |-> w, h |-> h]
          /\ bytes = Scene(f, w, h)
    /\ target = [w |-> camera.w, h |-> camera.h]
    /\ fmt = camera.fmt

-----------------------------------------------------------------------------
\* Slip of NV21toI420: the first byte of a pair is taken for U.
NV21toI420Swapped(src, w, h) ==
    LET ysize == w * h
        quarter == ysize \div 4
    IN [k \in 0 .. FrameSize(w, h) - 1 |->
          IF k < ysize THEN src[k]
          ELSE IF k < ysize + quarter THEN src[ysize + 2 * (k - ysize)]
          ELSE src[ysize + 2 * (k - ysize - quarter) + 1]]

NV21toI420(src, w, h) ==
    LET ysize == w * h
        quarter == ysize \div 4
    IN [k \in 0 .. FrameSize(w, h) - 1 |->
          IF k < ysize THEN src[k]
          ELSE IF k < ysize + quarter THEN src[ysize + 2 * (k - ysize) + 1]
          ELSE src[ysize + 2 * (k - ysize - quarter)]]

YV12toI420(src, w, h) ==
    LET ysize == w * h
        quarter == ysize \div 4
    IN [k \in 0 .. FrameSize(w, h) - 1 |->
          IF k < ysize THEN src[k]
          ELSE IF k < ysize + quarter THEN src[k + quarter]
          ELSE src[k - quarter]]

(* Line after line: the bytes of a plane, and where each comes from. *)
Line(k, from, stride, linesize) == from + (k \div linesize) * stride + (k % linesize)

\* Slip of CropYUVFrame: the window starts with the frame.
CropTopLeft(src, w, h, f, dst, dw, dh) ==
    LET ysize == w * h
        dst_ysize == dw * dh
        Index(k) == IF k < dst_ysize THEN Line(k, 0, w, dw) ELSE ysize + (k - dst_ysize)
    IN IF w = dw /\ h = dh THEN dst ELSE [k \in DOMAIN dst |-> src[Index(k)]]

(***************************************************************************)
(* dst is what the destination holds when CropYUVFrame is called.  Frames   *)
(* of one size are reported done with nothing copied.                       *)
(***************************************************************************)
CropYUVFrame(src, w, h, f, dst, dw, dh) ==
    LET crop_x == w - dw
        crop_y == h - dh
        ysize == w * h
        dst_ysize == dw * dh
        dst_quarter == dst_ysize \div 4
        luma == (crop_y \div 2) * w + crop_x \div 2
        pairs == ysize + (crop_y \div 4) * w + crop_x \div 2
        first == ysize + (crop_y \div 4) * (w \div 2) + crop_x \div 2
        second == first + ysize \div 4
    IN IF crop_x = 0 /\ crop_y = 0 THEN dst
       ELSE [k \in DOMAIN dst |->
          IF k < dst_ysize THEN src[Line(k, luma, w, dw)]
          ELSE IF f = "NV21" THEN src[Line(k - dst_ysize, pairs, w, dw)]
          ELSE IF k < dst_ysize + dst_quarter
          THEN src[Line(k - dst_ysize, first, w \div 2, dw \div 2)]
          ELSE src[Line(k - dst_ysize - dst_quarter, second, w \div 2, dw \div 2)]]

Blank == \A k \in DOMAIN bytes : bytes[k] = Unset

(***************************************************************************)
(* Into a new sample, once, before a conversion, and for a frame that is    *)
(* not smaller than the encoder wants it.                                   *)
(***************************************************************************)
Crop(w, h) ==
    /\ fmt = camera.fmt
    /\ target = [w |-> camera.w, h |-> camera.h] /\ ~Blank
    /\ camera.w >= w /\ camera.h >= h
    /\ target' = [w |-> w, h |-> h]
    /\ bytes' = CropYUVFrame(bytes, camera.w, camera.h, fmt,
                             [k \in 0 .. FrameSize(w, h) - 1 |-> Unset], w, h)
    /\ UNCHANGED <<camera, fmt>>

ConvertNV21 ==
    /\ fmt = "NV21"
    /\ bytes' = NV21toI420(bytes, target.w, target.h)
    /\ fmt' = "I420"
    /\ UNCHANGED <<camera, target>>

ConvertYV12 ==
    /\ fmt = "YV12"
    /\ bytes' = YV12toI420(bytes, target.w, target.h)
    /\ fmt' = "I420"
    /\ UNCHANGED <<camera, target>>

FrameNext ==
    \/ \E w \in Widths, h \in Heights : Crop(w, h)
    \/ ConvertNV21 \/ ConvertYV12

FrameSpec == FrameInit /\ [][FrameNext]_frameVars

-----------------------------------------------------------------------------
Shown(plane, i, j) == bytes[ByteOf(fmt, target.w, target.h, plane, i, j)]

Left == (camera.w - target.w) \div 2
Top == (camera.h - target.h) \div 2

(***************************************************************************)
(* A frame that was cropped, converted or both shows the pixels of the      *)
(* middle of the scene, each in its place, at every size; only a crop to    *)
(* the size of the camera leaves the sample without a picture.              *)
(***************************************************************************)
LumaIsWindow ==
    IF Blank THEN Left = 0 /\ Top = 0
    ELSE \A i \in 0 .. target.w - 1, j \in 0 .. target.h - 1 :
            Shown("Y", i, j) = <<"Y", Left + i, Top + j>>

(***************************************************************************)
(* The colour of a block is that of the pixels shown there, also after the  *)
(* conversion, for the widths at which the crop is right: in NV21 an even   *)
(* number of columns cut from the left, in the planar formats none, where   *)
(* the code takes a number of pixels for a number of blocks.  At every      *)
(* other width it is still a colour of the same line of blocks, and not one *)
(* of another line or of luma.                                              *)
(***************************************************************************)
ColourFollowsPixels ==
    ~Blank =>
        \A plane \in {"U", "V"}, i \in 0 .. target.w \div 2 - 1, j \in 0 .. target.h \div 2 - 1 :
            LET shown == Shown(plane, i, j)
                row == (Top + 2 * j) \div 2
            IN IF Left = 0 \/ (camera.fmt = "NV21" /\ Left % 2 = 0)
               THEN shown = <<plane, (Left + 2 * i) \div 2, row>>
               ELSE shown[1] # "Y" /\ shown[3] = row

=============================================================================
