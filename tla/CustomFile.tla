----------------------------- MODULE CustomFile -----------------------------
(***************************************************************************)
(* A Custom-H264 file from the command line to the frames handed to the    *)
(* checker (chk_strm_entry.cpp:343-346): AudInserter writes tmp.h264, and  *)
(* FileReceiver reads it while it is still open for writing.               *)
(***************************************************************************)
EXTENDS AudInserter, SequencesExt

CONSTANTS
  BufferSize, StreamMaxSize, InitialFound,     \* those of FileReceiver
  StdioBuffer                \* symbols fwrite may hold back

ASSUME BufferSizeAssumption == BufferSize \in Nat /\ BufferSize > 2
ASSUME StreamMaxSizeAssumption == StreamMaxSize \in 1 .. BufferSize
ASSUME InitialFoundAssumption == InitialFound \subseteq Nat
ASSUME StdioBufferAssumption == StdioBuffer \in Nat

VARIABLES file, filePos, mTmpBuffer, mFoundBegin, mFoundEnd, pc, delivered,
          exit

receiverVars == <<file, filePos, mTmpBuffer, mFoundBegin, mFoundEnd, pc,
                  delivered, exit>>
customVars   == <<insertVars, receiverVars>>

Receiver == INSTANCE FileReceiver WITH Files <- Seq({H, A, X})

NotBuilt == "not built"

(***************************************************************************)
(* To FileReceiver only start codes and AUDs are different from the rest.  *)
(***************************************************************************)
Bytes(s) == [i \in DOMAIN s |-> IF s[i] \in {H, A} THEN s[i] ELSE X]

Flatten == FlattenSeq(tmp)

CustomInit ==
  /\ Init
  /\ file = << >>
  /\ filePos = 0
  /\ mTmpBuffer = << >>
  /\ mFoundBegin = 0
  /\ mFoundEnd \in InitialFound
  /\ pc = "loop"
  /\ delivered = << >>
  /\ exit = NotBuilt

Insert == Next /\ UNCHANGED receiverVars

(***************************************************************************)
(* fpFileOut is neither flushed nor closed: what its buffer still holds is *)
(* not in the file FileReceiver opens, and does not come until exit.       *)
(***************************************************************************)
\* Mutant: tmp.h264 is opened before it is written.
OpenTmpFirst ==
  /\ phase = "write"
  /\ exit = NotBuilt
  /\ file' = Bytes(Flatten)
  /\ exit' = Receiver!Running
  /\ UNCHANGED <<insertVars, filePos, mTmpBuffer, mFoundBegin, mFoundEnd, pc,
                 delivered>>

OpenTmp ==
  /\ phase = "written"
  /\ exit = NotBuilt
  /\ \E held \in 0 .. StdioBuffer :
       file' = SubSeq(Bytes(Flatten), 1, Len(Flatten) - held)
  /\ exit' = Receiver!Running
  /\ UNCHANGED <<insertVars, filePos, mTmpBuffer, mFoundBegin, mFoundEnd, pc,
                 delivered>>

Receive == Receiver!Next /\ UNCHANGED insertVars

CustomNext == Insert \/ OpenTmp \/ Receive

CustomSpec == CustomInit /\ [][CustomNext]_customVars

-----------------------------------------------------------------------------
(***************************************************************************)
(* The frames the checker is given are the access units of the file given  *)
(* on the command line, in order and exact, with an AUD behind each.       *)
(***************************************************************************)
NoAudInside == \A i \in DOMAIN input : input[i] # A

CustomFramesFaithful ==
  Regular /\ NoAudInside =>
    \A n \in 1 .. Len(delivered) :
      delivered[n] = Bytes(AccessUnit(NthFrame(n)) \o S_frameAudInfo)

(***************************************************************************)
(* When the process ends at the end of tmp.h264, the access units not      *)
(* handed over are the last of the file, what exceeds the table, and what  *)
(* ends in the last bytes of tmp.h264: a buffer of stdio's and one of      *)
(* FileReceiver's.                                                         *)
(***************************************************************************)
CustomTailBounded ==
  exit \in {Receiver!Passed, Receiver!Ended} =>
    \A k \in 1 .. Len(tmp) :
      Len(FlattenSeq(SubSeq(tmp, 1, k))) <= Len(Flatten) - StdioBuffer - BufferSize
        => Len(delivered) >= k

=============================================================================
