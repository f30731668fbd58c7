----------------------------- MODULE MCStartup -----------------------------
(***************************************************************************)
(* Startup with every command line.                                        *)
(***************************************************************************)
EXTENDS Startup

MCOptions == [mode : {"udp", "file", "none"},
              type : {"DJI-H264", "Custom-H264", "invalid"},
              filename : BOOLEAN]
Zeroed    == {Null}
=============================================================================
