------------------------------ MODULE CheckTool ------------------------------
(***************************************************************************)
(* The tool on a file (main's MODE_FILE_READER, chk_strm_entry.cpp:334-    *)
(* 349): FileReceiver is the recvStream of StreamPipeline's receiver       *)
(* thread, H264Checker the checkStream of its checker thread.  What one    *)
(* thread does in its virtual call and what the other does meanwhile are   *)
(* interleaved, step by step.                                              *)
(***************************************************************************)
EXTENDS StreamPipeline, FiniteSets

CONSTANTS
  Files, BufferSize, StreamMaxSize, InitialFound,      \* of FileReceiver
  Frames, Modulus, InitialCounts, Delay, MayFail, MayDrop
                                                       \* of H264Checker

VARIABLES
  file, filePos, mTmpBuffer, mFoundBegin, mFoundEnd, filePc, delivered,
  fileExit,                  \* the state of FileReceiver
  frameCount, totalCount, framePassedCount, verdict, history,
  decoderPc, packets, mPktValid, inPkt, bufferFrame, has_b_frames,
  delayedPic, judged, rejected, dropped,
  decoderExit,               \* the state of H264Checker
  data,                      \* what a JBuffer's mData points to (mData, in
                             \* StreamPipeline, is only a number for it)
  parsed                     \* what av_parser_parse2 was given, in order

File == INSTANCE FileReceiver WITH pc <- filePc, exit <- fileExit

Decoder == INSTANCE H264Checker WITH pc <- decoderPc, exit <- decoderExit

ASSUME FilesAssumption == Files \subseteq Seq(File!Symbols)
ASSUME BufferSizeAssumption == BufferSize \in Nat /\ BufferSize > File!SizeofAud
ASSUME StreamMaxSizeAssumption == StreamMaxSize \in 1 .. BufferSize
ASSUME InitialFoundAssumption == InitialFound \subseteq Nat
ASSUME FramesAssumption == Frames \subseteq Decoder!FrameRecord
ASSUME ModulusAssumption == Modulus \in Nat /\ Modulus > 1
ASSUME InitialCountsAssumption == InitialCounts \subseteq 0 .. Modulus - 1
ASSUME DelayAssumption == Delay \in Nat
ASSUME MayFailAssumption == MayFail \in BOOLEAN
ASSUME MayDropAssumption == MayDrop \in BOOLEAN

fileVars    == <<file, filePos, mTmpBuffer, mFoundBegin, mFoundEnd, filePc,
                 delivered, fileExit>>
decoderVars == <<frameCount, totalCount, framePassedCount, verdict, history,
                 decoderPc, packets, mPktValid, inPkt, bufferFrame,
                 has_b_frames, delayedPic, judged, rejected, dropped,
                 decoderExit>>
toolVars    == <<vars, fileVars, decoderVars, data, parsed>>

ToolInit ==
  /\ Init
  /\ File!Init
  /\ Decoder!CheckerInit
  /\ data = [b \in JBuffers |-> << >>]
  /\ parsed = << >>

(***************************************************************************)
(* What the threads do outside their virtual calls.                        *)
(***************************************************************************)
PoolStep ==
  /\ \/ \E t \in Threads : Lock(t)
     \/ ReceiverGetsEmpty
     \/ ReceiverPutsFilled
     \/ ReceiverPutsEmpty
     \/ CheckerGetsFilled
     \/ CheckerPutsEmpty
  /\ UNCHANGED <<fileVars, decoderVars, data, parsed>>

(***************************************************************************)
(* recvStream reads and searches on ...                                    *)
(***************************************************************************)
RecvRuns ==
  /\ process = Running
  /\ pc[Recv] = "recvStream"
  /\ File!Next
  /\ delivered' = delivered
  /\ fileExit' = fileExit
  /\ UNCHANGED <<vars, decoderVars, data, parsed>>

(***************************************************************************)
(* ... until it copies a frame into the buffer and returns.  Only an AUD   *)
(* alone is no longer than an AUD.                                         *)
(***************************************************************************)
RecvReturns ==
  /\ File!SearchSucceeds
  /\ fileExit' = fileExit
  /\ RecvStream
  /\ LET frame == delivered'[Len(delivered')]
         b     == buffer[Recv]
     IN /\ mFilledLen'[b] > AudLen <=> Len(frame) > File!SizeofAud
        /\ data' = [data EXCEPT ![b] = frame]
  /\ UNCHANGED <<decoderVars, parsed>>

(***************************************************************************)
(* ... or ends the process: with exit(0) at the end of the file, exit(2)   *)
(* when the stream is given up, and by a signal when memmove crashes.      *)
(***************************************************************************)
RecvEnds ==
  /\ File!Next
  /\ RecvExit
  /\ \/ fileExit' \in {File!Passed, File!Ended} /\ process' = 0
     \/ fileExit' \in {File!NoAud, File!TooLong} /\ process' = 2
     \/ fileExit' = File!Crashed /\ process' = 139
  /\ UNCHANGED <<decoderVars, data, parsed>>

(***************************************************************************)
(* checkStream parses what is in the buffer.  Which values checkFrame is   *)
(* to read of it is left open: they come from it and from the parameter    *)
(* sets before it.                                                         *)
(***************************************************************************)
CheckStarts ==
  /\ process = Running
  /\ pc[Check] = "checkStream"
  /\ \E f \in Frames : Decoder!CheckStream(f)
  /\ parsed' = Append(parsed, data[buffer[Check]])
  /\ UNCHANGED <<vars, fileVars, data>>

(***************************************************************************)
(* decode runs.  When it returns so does checkStream, and exit(1) would    *)
(* end the process.  That decode resets mFilledLen as well, before         *)
(* threadRun does, nothing notices.                                        *)
(***************************************************************************)
\* Mutant: the buffer is not given back.
CheckRunsKeeps ==
  /\ process = Running
  /\ Decoder!SendPacket \/ Decoder!ReceiveFrame \/ Decoder!ReceiveNothing
  /\ IF decoderPc' = "idle"
       THEN Goto(Check, "getFilled") /\ UNCHANGED <<poolVars, buffer, dataVars, process>>
       ELSE UNCHANGED vars
  /\ UNCHANGED <<fileVars, data, parsed>>

CheckRuns ==
  /\ process = Running
  /\ Decoder!SendPacket \/ Decoder!ReceiveFrame \/ Decoder!ReceiveNothing
  /\ IF decoderPc' = "idle"
       THEN CheckStream
       ELSE /\ process' = IF decoderExit' THEN 1 ELSE process
            /\ UNCHANGED <<poolVars, threadVars, dataVars>>
  /\ UNCHANGED <<fileVars, data, parsed>>

ToolNext ==
  \/ PoolStep
  \/ RecvRuns
  \/ RecvReturns
  \/ RecvEnds
  \/ CheckStarts
  \/ CheckRuns

ToolSpec == ToolInit /\ [][ToolNext]_toolVars

(***************************************************************************)
(* The fairness of StreamPipeline's threads, and that of the two virtual   *)
(* calls: reading a file does not block.                                   *)
(***************************************************************************)
ToolFairSpec ==
  /\ ToolSpec
  /\ \A t \in Threads : SF_toolVars(Lock(t) /\ PoolStep)
  /\ WF_toolVars(ReceiverGetsEmpty /\ PoolStep)
  /\ WF_toolVars(ReceiverPutsFilled /\ PoolStep)
  /\ WF_toolVars(ReceiverPutsEmpty /\ PoolStep)
  /\ WF_toolVars(CheckerGetsFilled /\ PoolStep)
  /\ WF_toolVars(CheckerPutsEmpty /\ PoolStep)
  /\ WF_toolVars(RecvRuns \/ RecvReturns \/ RecvEnds)
  /\ WF_toolVars(CheckStarts \/ CheckRuns)

-----------------------------------------------------------------------------
(***************************************************************************)
(* The frames of the file, those among the first m that are more than an   *)
(* AUD, by their numbers, and those that are to be checked, in order.      *)
(***************************************************************************)
AllFrames ==
  [n \in 1 .. Cardinality(File!Cuts(file)) |->
     File!FrameEndingAt(file, File!NthCut(file, n))]

LongOnes(frames, m) ==
  {n \in DOMAIN frames : n <= m /\ Len(frames[n]) > File!SizeofAud}

FramesToCheck ==
  LET all == AllFrames
  IN [k \in 1 .. Cardinality(LongOnes(all, Len(all))) |->
        all[CHOOSE n \in LongOnes(all, Len(all)) :
              Cardinality(LongOnes(all, n)) = k]]

(***************************************************************************)
(* From fread to av_parser_parse2: what the checker parses are the frames  *)
(* of the file that are more than an AUD, every one of them, in order and  *)
(* exact, although the buffers they come in are used again and filled      *)
(* while others are being checked.                                         *)
(***************************************************************************)
ParsesTheFile ==
  /\ Len(parsed) <= Len(FramesToCheck)
  /\ parsed = SubSeq(FramesToCheck, 1, Len(parsed))

(***************************************************************************)
(* How many frames end before the last buffer of the file.                 *)
(***************************************************************************)
Due ==
  Cardinality(LongOnes(AllFrames,
    Cardinality(File!CutsUpTo(file, Len(file) - BufferSize))))

(***************************************************************************)
(* exit(0) comes while frames are waiting: those in the pool, of which one *)
(* buffer is the receiver's, and those in the last buffer of the file are  *)
(* all that has not been checked.                                          *)
(***************************************************************************)
FewUnchecked == process = 0 => Due - Len(checked) < BufferNumber

(***************************************************************************)
(* What "all frames has passed" as the last verdict at exit(0) is worth,   *)
(* for a stream without reordering in which the decoder rejected nothing:  *)
(* all frames of the file conform but for the last ones.  With a verdict   *)
(* printed the exit is that of line 115, which adds nothing to it.         *)
(***************************************************************************)
Plain == has_b_frames = 0 /\ rejected = {} /\ dropped = {}

PassedCoversFile ==
  process = 0 /\ verdict = Decoder!Passed /\ Plain =>
    \A k \in 1 .. Due - (BufferNumber - 1) :
      parsed[k] = FramesToCheck[k] /\ Decoder!Conforms(packets[k])

(***************************************************************************)
(* The composition does nothing its parts do not do alone.                 *)
(***************************************************************************)
ImplementsParts == Spec /\ File!Spec /\ Decoder!CheckerSpec

(***************************************************************************)
(* The tool ends, whatever the file.                                       *)
(***************************************************************************)
ToolEnds == <>(process # Running)

=============================================================================
