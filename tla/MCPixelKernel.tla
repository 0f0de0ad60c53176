--------------------------- MODULE MCPixelKernel ---------------------------
(* PixelKernel on frames of two words of two lanes.                        *)
EXTENDS PixelKernel
MCLanes == 0 .. 1
=============================================================================
