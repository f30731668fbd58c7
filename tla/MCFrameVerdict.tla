--------------------------- MODULE MCFrameVerdict ---------------------------
(***************************************************************************)
(* FrameVerdict with frames on both sides of every limit checkFrame tests. *)
(***************************************************************************)
EXTENDS FrameVerdict

Good ==
  [size |-> 1000, profile_idc |-> 77, level_idc |-> 40,
   chroma_format_idc |-> 1, bit_depth_luma |-> 8, bit_depth_chroma |-> 8,
   scaling_matrix_present |-> 0, frame_mbs_only_flag |-> 1, pict_type |-> 2,
   slice_group_count |-> 1, ref_frame_count |-> 1,
   mb_width |-> 80, mb_height |-> 45]

\* Frames at the limits, which are allowed.
AtLimit ==
  {[Good EXCEPT !.size = 262144], [Good EXCEPT !.profile_idc = 66],
   [Good EXCEPT !.profile_idc = 100], [Good EXCEPT !.level_idc = 51],
   [Good EXCEPT !.pict_type = 1],
   [Good EXCEPT !.mb_width = 120, !.mb_height = 68]}

\* Frames that fail one test, and one that fails two.
OverLimit ==
  {[Good EXCEPT !.size = 262145], [Good EXCEPT !.profile_idc = 88],
   [Good EXCEPT !.level_idc = 52], [Good EXCEPT !.chroma_format_idc = 2],
   [Good EXCEPT !.bit_depth_luma = 10, !.bit_depth_chroma = 10],
   [Good EXCEPT !.scaling_matrix_present = 1],
   [Good EXCEPT !.frame_mbs_only_flag = 0], [Good EXCEPT !.pict_type = 3],
   [Good EXCEPT !.slice_group_count = 2], [Good EXCEPT !.ref_frame_count = 2],
   [Good EXCEPT !.mb_width = 121], [Good EXCEPT !.mb_height = 69],
   [Good EXCEPT !.level_idc = 52, !.pict_type = 0]}

\* Frames of streams the decoder rejects.
Undecodable ==
  {[Good EXCEPT !.bit_depth_luma = 10], [Good EXCEPT !.bit_depth_chroma = 10]}

(***************************************************************************)
(* On each of them the tests as they are coded agree with the standard.    *)
(***************************************************************************)
ASSUME TestsAreTheStandard ==
  /\ \A f \in {Good} \cup AtLimit : PassCount(f) = 11 /\ Conforms(f)
  /\ \A f \in OverLimit : Decodable(f) /\ PassCount(f) < 11 /\ ~ Conforms(f)
  /\ \A f \in Undecodable : ~ Decodable(f) /\ PassCount(f) = 11 /\ ~ Conforms(f)

FewFrames == {Good, [Good EXCEPT !.level_idc = 52],
              [Good EXCEPT !.size = 262145, !.pict_type = 3]}
Zeroed    == {0}
Garbage   == {0, 1, 11}
=============================================================================
