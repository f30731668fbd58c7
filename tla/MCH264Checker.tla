--------------------------- MODULE MCH264Checker ---------------------------
(***************************************************************************)
(* H264Checker with a frame that is at every limit, frames that fail one   *)
(* test, that of the bit depths among them, one that fails two, and one    *)
(* with a wrong depth only, which passes all tests and is not decoded.     *)
(* MCFrameVerdict's assumption covers the limits of each test.             *)
(***************************************************************************)
EXTENDS H264Checker, MCFrameVerdict

Kinds ==
  {[Good EXCEPT !.size = 262144, !.level_idc = 51, !.pict_type = 1,
                !.mb_width = 120, !.mb_height = 68],
   [Good EXCEPT !.mb_width = 121],
   [Good EXCEPT !.bit_depth_luma = 10, !.bit_depth_chroma = 10],
   [Good EXCEPT !.size = 262145, !.pict_type = 3],
   [Good EXCEPT !.bit_depth_chroma = 10]}

\* Frames that differ in what is read from the packet only.
Packets == {Good, [Good EXCEPT !.size = 262145, !.pict_type = 3]}
=============================================================================
