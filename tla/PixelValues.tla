----------------------------- MODULE PixelValues -----------------------------
(***************************************************************************)
(* What structure_driver.cpp does to the value of a pixel: grey levels and *)
(* depths in millimetres, in the integer types of the code.  FramePipeline *)
(* follows where a pixel comes from; this module follows its value.        *)
(***************************************************************************)
EXTENDS Integers

Bytes  == 0..255
Depths == 300..4000

Clamp(low, high, x) == IF x < low THEN low ELSE IF x > high THEN high ELSE x

(* rgbToMono8().                                                           *)
Grey(r, g, b) == (77 * r + 150 * g + 29 * b) \div 256

(* monoToPseudoDepth(): bright is near.                                    *)
PseudoDepth(v) == 300 + ((255 - v) * 3700) \div 255

(* generateDepthFrame(): mm is the whole part of a sum of sines.           *)
SyntheticDepth(mm) == Clamp(300, 4000, mm)

(* depthToMono8(): the difference is of type unsigned int.                 *)
Unsigned(x) == x % (2 ^ 32)

DepthGrey(mm, offset) == Clamp(0, 255, (Unsigned(mm - 300) \div 14) + offset)
==============================================================================
