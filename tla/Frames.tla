------------------------------- MODULE Frames -------------------------------
(***************************************************************************)
(* Sizes and offsets of picture buffers: scaling by the nearest pixel      *)
(* (preview/scale.go, output/v4l2.go resizeRGBA), conversion to the        *)
(* formats of the virtual camera and padding to the size its driver set    *)
(* (v4l2.go convertRGBA, rgbaToRGB24, rgbaToYUYV, padFrame).               *)
(*                                                                         *)
(* A picture is RGBA, row by row, four bytes a pixel; pixels and rows are  *)
(* counted from 0.                                                         *)
(***************************************************************************)
EXTENDS Integers

PixelFormats == {"yuyv", "rgb24", "other"}

\* The pixel of a source of s pixels that stands for pixel d of dn.
Scaled(d, dn, s) == (d * s) \div dn

RgbaSize(w, h) == w * h * 4
RgbaOffset(x, y, w) == (y * w + x) * 4

\* Where scaleRGBA and resizeRGBA read for the pixel (x, y) of a dw x dh picture.
ScaledOffset(x, y, dw, dh, sw, sh) == RgbaOffset(Scaled(x, dw, sw), Scaled(y, dh, sh), sw)

\* convertRGBA's frame before it is padded.
FrameSizeOf(pix) ==
  CASE pix.format = "yuyv" -> pix.width * pix.height * 2
    [] pix.format = "rgb24" -> pix.width * pix.height * 3
    [] OTHER -> pix.sizeimage

\* rgbaToYUYV takes two pixels at a time and writes four bytes for them, from here on.
YuyvOffset(x, y, w) == (y * w + x) * 2

\* Of an odd width it takes the last pixel of a row for a pair, too.  A write outside the
\* frame panics.
Overruns(pix) ==
  /\ pix.format = "yuyv"
  /\ \E x \in 0 .. pix.width - 1, y \in 0 .. pix.height - 1 :
       x % 2 = 0 /\ YuyvOffset(x, y, pix.width) + 4 > FrameSizeOf(pix)

PaddedSize_Longer(n, sizeimage) == IF sizeimage > n THEN sizeimage ELSE n
PaddedSize(n, sizeimage) == IF sizeimage > 0 THEN sizeimage ELSE n

ConvertedSize(pix) == PaddedSize(FrameSizeOf(pix), pix.sizeimage)
=============================================================================
