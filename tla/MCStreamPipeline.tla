-------------------------- MODULE MCStreamPipeline --------------------------
(***************************************************************************)
(* StreamPipeline on small instances.  The lengths 6 and 7 are the two     *)
(* sides of the test mFilledLen <= 6.                                      *)
(***************************************************************************)
EXTENDS StreamPipeline

MCFrameLens == {AudLen, AudLen + 1}
MCExitCodes == {0, 1}
=============================================================================
