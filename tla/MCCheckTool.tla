---------------------------- MODULE MCCheckTool ----------------------------
(***************************************************************************)
(* CheckTool on files of a few frames and of AUDs alone, and on some that  *)
(* hold data without an AUD, with a pool of two buffers and a buffer of    *)
(* five symbols.  One kind of frame conforms and one does not.             *)
(***************************************************************************)
EXTENDS CheckTool

LOCAL INSTANCE SequencesExt

CONSTANTS
  MaxUnits,                  \* bounds of the model: pieces in a file of
  MaxOddUnits                \* frames, and in one with other data

H == "H"                     \* the symbols of FileReceiver
A == "A"
X == "X"

Usual == {<<H, A>>, <<H, H, A>>, <<H, X, H, A>>}
Odd   == Usual \cup {<<H, X, X>>}

FilesOf(pieces, n) ==
  {FlattenSeq(f) : f \in UNION {[1 .. k -> pieces] : k \in 0 .. n}}

MCFiles == FilesOf(Usual, MaxUnits) \cup FilesOf(Odd, MaxOddUnits)

Good ==
  [size |-> 1000, profile_idc |-> 77, level_idc |-> 40,
   chroma_format_idc |-> 1, bit_depth_luma |-> 8, bit_depth_chroma |-> 8,
   scaling_matrix_present |-> 0, frame_mbs_only_flag |-> 1, pict_type |-> 2,
   slice_group_count |-> 1, ref_frame_count |-> 1,
   mb_width |-> 80, mb_height |-> 45]

MCFrames    == {Good, [Good EXCEPT !.size = 262145]}
MCFrameLens == {AudLen, AudLen + 1}
MCExitCodes == {0, 2, 139}
Zeroed      == {0}
=============================================================================
