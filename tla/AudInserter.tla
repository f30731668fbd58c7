---------------------------- MODULE AudInserter ----------------------------
(***************************************************************************)
(* addAudInfoForCustomH264 (chk_strm_entry.cpp:96-270): before it builds   *)
(* the receiver, main cuts a Custom-H264 file into NAL units, groups them  *)
(* into frames by adding up lengths, and copies the frames to tmp.h264,    *)
(* an access unit delimiter behind each.                                   *)
(*                                                                         *)
(* A file is a sequence of symbols, each standing for some bytes: H for    *)
(* the start code 00 00 00 01; SEI, SPS and PPS for the header of such a   *)
(* NAL unit; A for the 09 10 of an AUD; X for any other header and for     *)
(* payload.  Lengths and positions count symbols.                          *)
(***************************************************************************)
EXTENDS Integers, Sequences, FiniteSets

CONSTANTS
  Inputs,                    \* the files that may be given
  FrameMaxCount              \* VIDEO_FRAME_MAX_COUNT: 18000

H   == "H"
A   == "A"
X   == "X"
SEI == "SEI"
SPS == "SPS"
PPS == "PPS"
Zero    == "0"               \* what calloc fills a buffer with
Symbols == {H, A, X, SEI, SPS, PPS}
S_frameAudInfo == <<H, A>>

ASSUME InputsAssumption == Inputs \subseteq Seq(Symbols)
ASSUME FrameMaxCountAssumption == FrameMaxCount \in Nat \ {0}

VARIABLES
  input,                     \* the file; a missing one is read like an empty
  fpFile,                    \* whether it could be opened with "rb+"
  position,                  \* where getH264Nalu has left the file
  seiLen, spsLen, ppsLen,
  addSlice, addSeiSlice,
  frameInfo,                 \* the table of frames, frameInfo[0] first
  frameCount,
  tmp,                       \* what each fwrite has put into tmp.h264
  phase                      \* open, parse, write, written, exited, crashed

units      == <<position, seiLen, spsLen, ppsLen, addSlice, addSeiSlice>>
table      == <<frameInfo, frameCount>>
insertVars == <<input, fpFile, units, table, tmp, phase>>

Init ==
  /\ input \in Inputs
  /\ fpFile = FALSE
  /\ position = 0
  /\ seiLen = 0 /\ spsLen = 0 /\ ppsLen = 0
  /\ addSlice = FALSE /\ addSeiSlice = FALSE
  /\ frameInfo = << >>
  /\ frameCount = 0
  /\ tmp = << >>
  /\ phase = "open"

(***************************************************************************)
(* Both files are opened.  Without tmp.h264, or without memory for the     *)
(* table, the process ends; without fpFile it goes on.                     *)
(***************************************************************************)
OpenFiles ==
  /\ phase = "open"
  /\ fpFile' \in BOOLEAN
  /\ phase' \in {"parse", "exited"}
  /\ UNCHANGED <<input, units, table, tmp>>

(***************************************************************************)
(* getH264Nalu from position p: a unit reaches to the next start code, or  *)
(* to the end of the file.  There its length comes out two too large, one  *)
(* for the EOF that is stored and one because pos is already past it.      *)
(***************************************************************************)
NextStart(p) == {q \in p + 2 .. Len(input) : input[q] = H}

NaluFound(p) == p < Len(input) /\ input[p + 1] = H

NaluEnd(p) ==
  IF NextStart(p) = {} THEN Len(input)
  ELSE (CHOOSE q \in NextStart(p) : \A r \in NextStart(p) : q <= r) - 1

\* Mutant: len is pos where it should be pos + 1.
NaluLenOffByOne(p) ==
  IF NextStart(p) = {} THEN Len(input) - p + 1 ELSE NaluEnd(p) - p - 1

NaluLen(p) ==
  IF NextStart(p) = {} THEN Len(input) - p + 2 ELSE NaluEnd(p) - p

NaluType(p) == IF NaluEnd(p) > p + 1 THEN input[p + 2] ELSE X

(***************************************************************************)
(* One turn of the loop of getFrameInfoOfVideoFile.  A unit that is no     *)
(* parameter set and no SEI is a frame, and begins as far before its end   *)
(* as its own length and the lengths remembered add up to.  The frame is   *)
(* entered into the table before the table is found to be full.            *)
(***************************************************************************)
FrameLen(len) ==
  IF addSlice THEN len + spsLen + ppsLen + (IF addSeiSlice THEN seiLen ELSE 0)
              ELSE len

\* Mutant: addSlice is not reset.
FlagsAfterFrameKept == UNCHANGED <<addSlice, addSeiSlice>>

FlagsAfterFrame ==
  /\ addSlice' = FALSE
  /\ addSeiSlice' = IF addSlice THEN FALSE ELSE addSeiSlice

\* Mutant: the number of frames for the index of the last one.
EnterFrameCounted(end, size) ==
  /\ frameInfo' = Append(frameInfo, [positionInFile |-> end - size,
                                     size |-> size])
  /\ frameCount' = Len(frameInfo')
  /\ phase' = IF Len(frameInfo) >= FrameMaxCount THEN "write" ELSE phase

\* Mutant: the table has room for one more.
EnterFrameOffByOne(end, size) ==
  /\ frameInfo' = Append(frameInfo, [positionInFile |-> end - size,
                                     size |-> size])
  /\ frameCount' = Len(frameInfo)
  /\ phase' = IF Len(frameInfo) > FrameMaxCount THEN "write" ELSE phase

EnterFrame(end, size) ==
  /\ frameInfo' = Append(frameInfo, [positionInFile |-> end - size,
                                     size |-> size])
  /\ frameCount' = Len(frameInfo)
  /\ phase' = IF Len(frameInfo) >= FrameMaxCount THEN "write" ELSE phase

ParseNalu ==
  /\ phase = "parse"
  /\ NaluFound(position)
  /\ LET len  == NaluLen(position)
         type == NaluType(position)
     IN /\ position' = NaluEnd(position)
        /\ seiLen' = IF type = SEI THEN len ELSE seiLen
        /\ spsLen' = IF type = SPS THEN len ELSE spsLen
        /\ ppsLen' = IF type = PPS THEN len ELSE ppsLen
        /\ IF type \in {SEI, SPS, PPS}
             THEN /\ addSlice' = (addSlice \/ type = PPS)
                  /\ addSeiSlice' = (addSeiSlice \/ type = SEI)
                  /\ UNCHANGED <<table, phase>>
             ELSE /\ EnterFrame(position', FrameLen(len))
                  /\ FlagsAfterFrame
  /\ UNCHANGED <<input, fpFile, tmp>>

ParseEnds ==
  /\ phase = "parse"
  /\ ~ NaluFound(position)
  /\ phase' = "write"
  /\ UNCHANGED <<input, fpFile, units, table, tmp>>

(***************************************************************************)
(* The loop of addAudInfoForCustomH264: calloc, fseek, fread, and fwrite   *)
(* of as much as was read and the length of an AUD more.                   *)
(***************************************************************************)
Read(info) ==
  SubSeq(input, info.positionInFile + 1,
         IF info.positionInFile + info.size < Len(input)
           THEN info.positionInFile + info.size ELSE Len(input))

DataBuffer(info) ==
  Read(info) \o [j \in 1 .. info.size - Len(Read(info)) |-> Zero]
    \o S_frameAudInfo

Writing == phase = "write" /\ Len(tmp) < frameCount

\* Mutant: the length of the AUD is not added.
WriteFrameNoAud ==
  /\ Writing
  /\ fpFile
  /\ LET info == frameInfo[Len(tmp) + 1]
     IN tmp' = Append(tmp, SubSeq(DataBuffer(info), 1, Len(Read(info))))
  /\ UNCHANGED <<input, fpFile, units, table, phase>>

WriteFrame ==
  /\ Writing
  /\ fpFile
  /\ LET info == frameInfo[Len(tmp) + 1]
     IN tmp' = Append(tmp, SubSeq(DataBuffer(info), 1, Len(Read(info)) + 2))
  /\ UNCHANGED <<input, fpFile, units, table, phase>>

(***************************************************************************)
(* A file that could not be opened is reported, and used all the same.     *)
(***************************************************************************)
WriteCrashes ==
  /\ Writing
  /\ ~ fpFile
  /\ phase' = "crashed"
  /\ UNCHANGED <<input, fpFile, units, table, tmp>>

WriteEnds ==
  /\ phase = "write"
  /\ ~ Writing
  /\ phase' = "written"
  /\ UNCHANGED <<input, fpFile, units, table, tmp>>

Next ==
  \/ OpenFiles
  \/ ParseNalu \/ ParseEnds
  \/ WriteFrame \/ WriteCrashes \/ WriteEnds

Spec == Init /\ [][Next]_insertVars

-----------------------------------------------------------------------------
TypeOK ==
  /\ input \in Seq(Symbols)
  /\ fpFile \in BOOLEAN
  /\ position \in 0 .. Len(input)
  /\ {seiLen, spsLen, ppsLen} \subseteq 0 .. Len(input) + 2
  /\ {addSlice, addSeiSlice} \subseteq BOOLEAN
  /\ frameInfo \in Seq([positionInFile : Int, size : Nat])
  /\ Len(frameInfo) <= FrameMaxCount + 1
  /\ frameCount \in 0 .. FrameMaxCount
  /\ tmp \in Seq(Seq(Symbols \cup {Zero}))
  /\ Len(tmp) <= frameCount
  /\ phase \in {"open", "parse", "write", "written", "exited", "crashed"}

(***************************************************************************)
(* A frame that is copied lies within the file: its position has not       *)
(* wrapped below 0, and fread returns all of it.  The length of the last   *)
(* unit, too large by two, would break this; but frameCount is the index   *)
(* of the last frame, which is therefore never copied.                     *)
(***************************************************************************)
ReadsWithinFile ==
  \A k \in 1 .. frameCount :
    /\ frameInfo[k].positionInFile >= 0
    /\ frameInfo[k].positionInFile + frameInfo[k].size <= Len(input)

(***************************************************************************)
(* The reference.  Units are named by the index of their start code; Lead  *)
(* are those between a frame and the frame before it.  An access unit is a *)
(* frame with its Lead.  A file is Regular if no parameter set or SEI is   *)
(* repeated before a frame, or given without the others it belongs to.     *)
(***************************************************************************)
Starts == IF input # << >> /\ input[1] = H
            THEN {p \in 1 .. Len(input) : input[p] = H} ELSE {}

Kind(p)     == NaluType(p - 1)
FrameStarts == {p \in Starts : Kind(p) \notin {SEI, SPS, PPS}}
Lead(p)     == {q \in Starts : q < p /\ ~ \E r \in FrameStarts : r \in q .. p - 1}

AccessUnit(p) ==
  LET begin == CHOOSE q \in Lead(p) \cup {p} : \A r \in Lead(p) : q <= r
  IN SubSeq(input, begin, NaluEnd(p - 1))

NthFrame(n) == CHOOSE p \in FrameStarts :
                 Cardinality({q \in FrameStarts : q <= p}) = n

Regular ==
  \A p \in FrameStarts :
    LET kinds == {Kind(q) : q \in Lead(p)}
    IN /\ kinds \in {{}, {SPS, PPS}, {SPS, PPS, SEI}}
       /\ Cardinality(Lead(p)) = Cardinality(kinds)

(***************************************************************************)
(* Each frame of a regular file is copied with its parameter sets and SEI  *)
(* and nothing else, and an AUD behind it: adding up the lengths of the    *)
(* units leads to the place where the access unit begins, whatever lengths *)
(* have been left over from units before.                                  *)
(***************************************************************************)
WritesAccessUnits ==
  Regular =>
    \A k \in 1 .. Len(tmp) : tmp[k] = AccessUnit(NthFrame(k)) \o S_frameAudInfo

(***************************************************************************)
(* Whatever the file holds, its frames are copied one by one and in order, *)
(* each one to its end and with an AUD behind it, except for the last one  *)
(* and for what is more than the table has room for.                       *)
(***************************************************************************)
EndsWith(s, t) ==
  Len(t) <= Len(s) /\ t = SubSeq(s, Len(s) - Len(t) + 1, Len(s))

EveryFrameWritten ==
  /\ \A k \in 1 .. Len(tmp) :
       LET p == NthFrame(k)
       IN EndsWith(tmp[k], SubSeq(input, p, NaluEnd(p - 1)) \o S_frameAudInfo)
  /\ phase = "written" =>
       LET n == Cardinality(FrameStarts)
       IN Len(tmp) = IF n = 0 THEN 0
                     ELSE IF n - 1 < FrameMaxCount THEN n - 1
                     ELSE FrameMaxCount

=============================================================================
