---------------------------- MODULE FileReceiver ----------------------------
(***************************************************************************)
(* FileReceiver (file_receiver.cpp): reads a file through mTmpBuffer and   *)
(* cuts it into frames, each of which ends with an access unit delimiter.  *)
(*                                                                         *)
(* A file is a sequence of symbols, each standing for some bytes: H for    *)
(* the start code 00 00 00 01, A for the 09 10 that makes the start code   *)
(* before it an AUD, and X for anything else.  Sizes, offsets and sizeof   *)
(* count symbols, so a read may end between the two halves of an AUD.      *)
(*                                                                         *)
(* One call of recvStream is one or more steps: a step for each read and   *)
(* one for each search, in the order of its loop.  The calls follow one    *)
(* another; what threadRun does between two of them does not touch the     *)
(* state of the receiver.                                                  *)
(***************************************************************************)
EXTENDS Integers, Sequences, FiniteSets

CONSTANTS
  Files,                     \* the files the tool may be given
  BufferSize,                \* mBufferSize, kBufferSize: 1 MiB
  StreamMaxSize,             \* kStreamMaxSize, MAX_J_STEAM_SIZE: 1 MiB
  InitialFound               \* what mFoundEnd holds before the first search

H == "H"
A == "A"
X == "X"
Symbols    == {H, A, X}
KAudHex2   == <<H, A>>
SizeofAud    == 2
SizeofHeader == 1

ASSUME FilesAssumption == Files \subseteq Seq(Symbols)
ASSUME BufferSizeAssumption == BufferSize \in Nat /\ BufferSize > SizeofAud
ASSUME StreamMaxSizeAssumption == StreamMaxSize \in 1 .. BufferSize
ASSUME InitialFoundAssumption == InitialFound \subseteq Nat

VARIABLES
  file,                      \* the contents of the file
  filePos,                   \* how much of it fread has consumed
  mTmpBuffer,                \* its first mFilledSize symbols
  mFoundBegin, mFoundEnd,    \* the limits of the frame found last
  pc,                        \* where recvStream is: loop, parse or refill
  delivered,                 \* the frames recvStream has returned
  exit                       \* Running, or how the process ended

vars == <<file, filePos, mTmpBuffer, mFoundBegin, mFoundEnd, pc,
          delivered, exit>>

Running    == "running"
Passed     == "passed"       \* exit(0) of line 96, "stream TEST PASSED"
Ended      == "ended"        \* exit(0) of line 115, which says nothing
NoAud      == "no AUD"       \* exit(2) of line 106
TooLong    == "too long"     \* exit(2) of line 123
Crashed    == "crashed"      \* memmove with a wrapped size

mFilledSize == Len(mTmpBuffer)

AudAt(s, i)    == SubSeq(s, i, i + SizeofAud - 1) = KAudHex2
HeaderAt(s, i) == s[i] = H
First(S)       == CHOOSE i \in S : \A j \in S : i <= j

Init ==
  /\ file \in Files
  /\ filePos = 0
  /\ mTmpBuffer = << >>
  /\ mFoundBegin = 0
  /\ mFoundEnd \in InitialFound
  /\ pc = "loop"
  /\ delivered = << >>
  /\ exit = Running

(***************************************************************************)
(* readStreamFromFile: fill the buffer up, or fail on a short read, whose  *)
(* data is consumed from the file but not counted in mFilledSize.          *)
(***************************************************************************)
\* Mutant: what fread returns is compared with mBufferSize.
ShortReadOfBuffer == Len(file) - filePos < BufferSize \/ mFilledSize > 0

ShortRead == Len(file) - filePos < BufferSize - mFilledSize

\* Mutant: readSize is mBufferSize.
ReadStreamFromFileWhole(onSuccess, onFailure) ==
  IF Len(file) - filePos < BufferSize
    THEN /\ filePos' = Len(file)
         /\ exit' = onFailure
         /\ UNCHANGED <<mTmpBuffer, pc>>
    ELSE /\ filePos' = filePos + BufferSize
         /\ mTmpBuffer' = mTmpBuffer \o SubSeq(file, filePos + 1, filePos')
         /\ pc' = onSuccess
         /\ UNCHANGED exit

ReadStreamFromFile(onSuccess, onFailure) ==
  IF ShortRead
    THEN /\ filePos' = Len(file)
         /\ exit' = onFailure
         /\ UNCHANGED <<mTmpBuffer, pc>>
    ELSE /\ filePos' = filePos + (BufferSize - mFilledSize)
         /\ mTmpBuffer' = mTmpBuffer \o SubSeq(file, filePos + 1, filePos')
         /\ pc' = onSuccess
         /\ UNCHANGED exit

(***************************************************************************)
(* getOneFrameStream: the offsets its first loop visits stop one short of  *)
(* the last place an AUD fits.  Found(e) says that the search leaves       *)
(* mFoundEnd = e, BeginOf(e) what it then leaves in mFoundBegin.           *)
(***************************************************************************)
\* Mutant: the loop stops one offset earlier.
AudOffsetsShort == {i \in 0 .. mFilledSize - SizeofAud - 2 :
                      AudAt(mTmpBuffer, i + 1)}

AudOffsets == {i \in 0 .. mFilledSize - SizeofAud - 1 :
                 AudAt(mTmpBuffer, i + 1)}

EndFound == IF AudOffsets # {} THEN First(AudOffsets) + SizeofAud
                               ELSE mFoundEnd

HeaderOffsets(e) == {i \in 0 .. e - SizeofHeader - 1 :
                       i < mFilledSize /\ HeaderAt(mTmpBuffer, i + 1)}

BeginOf(e) == IF HeaderOffsets(e) # {} THEN First(HeaderOffsets(e))
                                       ELSE mFoundBegin

GotOneFrame == mFilledSize > SizeofAud /\ EndFound # 0

(***************************************************************************)
(* Lines 89-98: with nothing in mTmpBuffer, read first; a short read ends  *)
(* the process with the message that the test has passed.  A search leaves *)
(* something in the buffer behind each frame it finds, so this is the      *)
(* first read only.                                                        *)
(***************************************************************************)
ReadFirst ==
  /\ exit = Running
  /\ pc = "loop"
  /\ mFilledSize = 0
  /\ ReadStreamFromFile("parse", Passed)
  /\ UNCHANGED <<file, mFoundBegin, mFoundEnd, delivered>>

AboutToParse == pc = "parse" \/ (pc = "loop" /\ mFilledSize # 0)

(***************************************************************************)
(* Lines 101-107: no frame in the buffer.                                  *)
(***************************************************************************)
\* Mutant: the limit of line 103 is not tested.
SearchFailsNoLimit ==
  /\ exit = Running
  /\ AboutToParse
  /\ ~ GotOneFrame
  /\ pc' = "refill"
  /\ UNCHANGED <<file, filePos, mTmpBuffer, mFoundBegin, mFoundEnd,
                 delivered, exit>>

SearchFails ==
  /\ exit = Running
  /\ AboutToParse
  /\ ~ GotOneFrame
  /\ IF mFilledSize >= StreamMaxSize
       THEN exit' = NoAud /\ UNCHANGED pc
       ELSE pc' = "refill" /\ UNCHANGED exit
  /\ UNCHANGED <<file, filePos, mTmpBuffer, mFoundBegin, mFoundEnd, delivered>>

(***************************************************************************)
(* Lines 109-118: read on, and start over with the longer buffer.  A short *)
(* read ends the process without a message: the one of line 114 is         *)
(* commented out.                                                          *)
(***************************************************************************)
Refill ==
  /\ exit = Running
  /\ pc = "refill"
  /\ ReadStreamFromFile("loop", Ended)
  /\ UNCHANGED <<file, mFoundBegin, mFoundEnd, delivered>>

(***************************************************************************)
(* moveTmpBuffer: the rest of the buffer is moved to its front.            *)
(***************************************************************************)
\* Mutant: mFoundEnd keeps its value.
MoveTmpBufferKeepsEnd(end) ==
  /\ mTmpBuffer' = SubSeq(mTmpBuffer, end + 1, mFilledSize)
  /\ mFoundBegin' = 0
  /\ mFoundEnd' = end

MoveTmpBuffer(end) ==
  /\ mTmpBuffer' = SubSeq(mTmpBuffer, end + 1, mFilledSize)
  /\ mFoundBegin' = 0
  /\ mFoundEnd' = 0

(***************************************************************************)
(* Lines 120-131 with fillStreamBuffer: the frame is copied out.           *)
(***************************************************************************)
SearchSucceeds ==
  /\ exit = Running
  /\ AboutToParse
  /\ GotOneFrame
  /\ LET end   == EndFound
         begin == BeginOf(end)
     IN IF end - begin >= StreamMaxSize \/ begin > end \/ end > mFilledSize
          THEN /\ exit' = IF end - begin >= StreamMaxSize \/ begin > end
                            THEN TooLong ELSE Crashed
               /\ mFoundBegin' = begin
               /\ mFoundEnd' = end
               /\ UNCHANGED <<mTmpBuffer, delivered, pc>>
          ELSE /\ delivered' = Append(delivered,
                                      SubSeq(mTmpBuffer, begin + 1, end))
               /\ MoveTmpBuffer(end)
               /\ pc' = "loop"
               /\ UNCHANGED exit
  /\ UNCHANGED <<file, filePos>>

Next == ReadFirst \/ SearchFails \/ Refill \/ SearchSucceeds

Spec == Init /\ [][Next]_vars

FairSpec == Spec /\ WF_vars(Next)

-----------------------------------------------------------------------------
(***************************************************************************)
(* The reference: the frames of a file.  Cuts are the ends of its AUDs; a  *)
(* frame runs from the first start code after the previous cut to a cut.   *)
(***************************************************************************)
Cuts(s) == {i + 1 : i \in {j \in 1 .. Len(s) - 1 : AudAt(s, j)}}

CutsUpTo(s, e) == {c \in Cuts(s) : c <= e}

FrameEndingAt(s, e) ==
  LET prev  == CHOOSE p \in {0} \cup Cuts(s) :
                 p < e /\ \A c \in Cuts(s) : c < e => c <= p
      begin == First({i \in prev + 1 .. e : HeaderAt(s, i)})
  IN SubSeq(s, begin, e)

NthCut(s, n) == CHOOSE c \in Cuts(s) : Cardinality(CutsUpTo(s, c)) = n

ConsumedTo == filePos - mFilledSize

(***************************************************************************)
(* The variables have their types; mTmpBuffer is not filled beyond its     *)
(* size, and the limits of the frame found last lie in it, but for a       *)
(* mFoundEnd that still has the value it was not initialised with.         *)
(***************************************************************************)
TypeOK ==
  /\ file \in Files
  /\ filePos \in 0 .. Len(file)
  /\ mTmpBuffer \in Seq(Symbols)
  /\ mFilledSize <= BufferSize
  /\ mFoundBegin \in 0 .. mFilledSize
  /\ mFoundEnd \in (0 .. mFilledSize) \cup InitialFound
  /\ pc \in {"loop", "parse", "refill"}
  /\ delivered \in Seq(Seq(Symbols))
  /\ exit \in {Running, Passed, Ended, NoAud, TooLong, Crashed}

(***************************************************************************)
(* The comment of line 204: mTmpBuffer always is the part of the file that *)
(* follows the frames delivered, without a gap or a repetition, until the  *)
(* process ends.                                                           *)
(***************************************************************************)
BufferIsFilePart ==
  exit = Running => mTmpBuffer = SubSeq(file, ConsumedTo + 1, filePos)

(***************************************************************************)
(* The frames delivered are the first frames of the file, each of them     *)
(* exact, wherever the reads happened to split it: in front of an AUD, in  *)
(* the middle of one, or with an AUD at the very end of the buffer, which  *)
(* the search does not see until more is read.                             *)
(***************************************************************************)
FramesFaithful ==
  \A n \in 1 .. Len(delivered) :
    /\ n <= Cardinality(Cuts(file))
    /\ delivered[n] = FrameEndingAt(file, NthCut(file, n))

(***************************************************************************)
(* exit(2) never meets a frame shorter than StreamMaxSize: no such frame   *)
(* follows what has been consumed, wherever the reads have split the file. *)
(* A frame of exactly StreamMaxSize is rejected, as line 103 has it: see   *)
(* RejectionAsStated.                                                      *)
(***************************************************************************)
RejectionJustified ==
  exit \in {NoAud, TooLong} =>
    ~ \E c \in Cuts(file) : c - ConsumedTo \in 1 .. StreamMaxSize - 1

(***************************************************************************)
(* What the message before exit(2) says (lines 104-105): "Stream size      *)
(* should not more than %d bytes", with kStreamMaxSize for the number.     *)
(* Then a frame of exactly that size is not given up.                      *)
(***************************************************************************)
RejectionAsStated ==
  exit \in {NoAud, TooLong} =>
    ~ \E c \in Cuts(file) : c - ConsumedTo \in 1 .. StreamMaxSize

(***************************************************************************)
(* When the process ends at the end of the file, less than one buffer of   *)
(* the file has not been delivered.                                        *)
(***************************************************************************)
LostTailBounded ==
  exit \in {Passed, Ended} =>
    Len(delivered) >= Cardinality(CutsUpTo(file, Len(file) - BufferSize))

(***************************************************************************)
(* Every file comes to an end.                                             *)
(***************************************************************************)
Terminates == <>(exit # Running)

(***************************************************************************)
(* The message of line 95, "Read stream end, stream TEST PASSED": when it  *)
(* is printed every frame of the file has been handed to the checker.      *)
(***************************************************************************)
PassedMeansWholeFile ==
  exit = Passed => Len(delivered) = Cardinality(Cuts(file))

=============================================================================
