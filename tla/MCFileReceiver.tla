--------------------------- MODULE MCFileReceiver ---------------------------
(***************************************************************************)
(* FileReceiver on every file up to a length, with a buffer of a few       *)
(* symbols, so that a file takes several reads and an AUD falls on every   *)
(* position of the buffer.                                                 *)
(***************************************************************************)
EXTENDS FileReceiver

CONSTANT MaxFileSize         \* bound of the model: symbols in a file

MCFiles  == UNION {[1 .. n -> Symbols] : n \in 0 .. MaxFileSize}
Zeroed   == {0}
=============================================================================
