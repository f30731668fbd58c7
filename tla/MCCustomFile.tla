---------------------------- MODULE MCCustomFile ----------------------------
(***************************************************************************)
(* Custom-H264 files of every order of a few units, and some that hold     *)
(* AUDs, empty or long units, or do not begin with a start code.           *)
(***************************************************************************)
EXTENDS CustomFile

CONSTANTS
  MaxUnits,                  \* bounds of the model: units in a file of
  MaxOddUnits                \* common kinds, and in one with odd ones

Common == {<<H, SPS>>, <<H, PPS>>, <<H, SEI>>, <<H, X>>}
Odd    == Common \cup {<<H>>, <<H, A>>, <<H, X, X>>, <<X>>}

FilesOf(parts, n) ==
  {FlattenSeq(f) : f \in UNION {[1 .. k -> parts] : k \in 0 .. n}}

MCInputs == FilesOf(Common, MaxUnits) \cup FilesOf(Odd, MaxOddUnits)
Zeroed   == {0}
=============================================================================
