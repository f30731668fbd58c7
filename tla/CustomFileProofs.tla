-------------------------- MODULE CustomFileProofs --------------------------
(***************************************************************************)
(* Theorems about AudInserter, for every file and every capacity of the    *)
(* table of frames; and about CustomFile: what is proved of the two        *)
(* programs on either side of tmp.h264, put together, for every file       *)
(* given, every size of the buffers and every number of symbols that stdio *)
(* holds back.                                                             *)
(***************************************************************************)
EXTENDS CustomFile, SequenceLemmas, FiniteSetTheorems

FrameInfos == [positionInFile : Int, size : Nat]

LEMMA InputFacts ==
  ASSUME TypeOK
  PROVE  input \in Seq(Symbols) /\ Len(input) \in Nat /\ FrameMaxCount \in Nat \ {0}
  BY FrameMaxCountAssumption DEF TypeOK

(***************************************************************************)
(* A unit is not empty and ends within the file; its length is right for   *)
(* all but the last, which is the one that reaches to the end of the file. *)
(***************************************************************************)
LEMMA UnitFacts ==
  ASSUME TypeOK, position < Len(input)
  PROVE  /\ NaluEnd(position) \in position + 1 .. Len(input)
         /\ NaluLen(position) \in Nat
         /\ NaluEnd(position) < Len(input)
              => NaluLen(position) = NaluEnd(position) - position
         /\ NaluLen(position) <= Len(input) + 2
  <1> DEFINE n == Len(input)
             p == position
  <1>1. n \in Nat /\ p \in 0 .. n /\ p < n
    BY InputFacts DEF TypeOK
  <1>2. NextStart(p) \in SUBSET (p + 2 .. n)
    BY DEF NextStart
  <1>3. CASE NextStart(p) = {}
    <2>1. NaluEnd(p) = n /\ NaluLen(p) = n - p + 2
      BY <1>3 DEF NaluEnd, NaluLen
    <2> HIDE DEF n, p
    <2>2. /\ NaluEnd(p) \in p + 1 .. n
          /\ NaluLen(p) \in Nat
          /\ ~ (NaluEnd(p) < n)
          /\ NaluLen(p) <= n + 2
      BY ONLY <1>1, <2>1
    <2> QED
      BY ONLY <2>2 DEF n, p
  <1>4. CASE NextStart(p) # {}
    <2>1. NextStart(p) \in SUBSET Nat
      BY ONLY <1>1, <1>2
    <2>2. PICK q \in NextStart(p) : NaluEnd(p) = q - 1
      BY <1>4, <2>1, LeastExists DEF NaluEnd
    <2>3. NaluLen(p) = NaluEnd(p) - p
      BY <1>4 DEF NaluLen
    <2>4. q \in p + 2 .. n
      BY ONLY <1>2, <2>2
    <2> HIDE DEF n, p
    <2>5. /\ NaluEnd(p) \in p + 1 .. n
          /\ NaluLen(p) \in Nat
          /\ NaluLen(p) <= n + 2
      BY ONLY <1>1, <2>2, <2>3, <2>4
    <2> QED
      BY ONLY <2>3, <2>5 DEF n, p
  <1> QED
    BY <1>3, <1>4

(***************************************************************************)
(* The inductive invariant.  SPS, PPS and SEI remembered are different     *)
(* units before position, so their lengths never exceed it, nor does the   *)
(* size of a frame that ends there; but for the last unit of the file,     *)
(* after which nothing is parsed.  Its frame is the last of the table.     *)
(***************************************************************************)
Fits(info) ==
  info.positionInFile >= 0 /\ info.positionInFile + info.size <= Len(input)

Before ==
  position < Len(input) => seiLen + spsLen + ppsLen <= position

Table ==
  /\ frameCount = IF Len(frameInfo) = 0 THEN 0 ELSE Len(frameInfo) - 1
  /\ phase \in {"open", "parse", "exited"} => Len(frameInfo) <= FrameMaxCount
  /\ \A k \in 1 .. Len(frameInfo) :
       k < Len(frameInfo) \/ position < Len(input) => Fits(frameInfo[k])

Sound == TypeOK /\ Before /\ Table

LEMMA SoundInit == Init => Sound
  <1> SUFFICES ASSUME Init PROVE Sound
    OBVIOUS
  <1>1. input \in Seq(Symbols) /\ FrameMaxCount \in Nat \ {0}
    BY InputsAssumption, FrameMaxCountAssumption DEF Init
  <1>2. Len(input) \in Nat
    BY ONLY <1>1
  <1>3. frameInfo = << >> /\ tmp = << >>
    BY DEF Init
  <1>4. /\ frameInfo \in Seq(FrameInfos) /\ Len(frameInfo) = 0
        /\ tmp \in Seq(Seq(Symbols \cup {Zero})) /\ Len(tmp) = 0
    BY ONLY <1>3
  <1>5. /\ fpFile = FALSE /\ position = 0 /\ frameCount = 0 /\ phase = "open"
        /\ seiLen = 0 /\ spsLen = 0 /\ ppsLen = 0
        /\ addSlice = FALSE /\ addSeiSlice = FALSE
    BY DEF Init
  <1>6. TypeOK
    <2>1. frameInfo \in Seq([positionInFile : Int, size : Nat])
      BY ONLY <1>4 DEF FrameInfos
    <2>2. /\ position \in 0 .. Len(input)
          /\ {seiLen, spsLen, ppsLen} \subseteq 0 .. Len(input) + 2
          /\ {addSlice, addSeiSlice} \subseteq BOOLEAN
          /\ frameCount \in 0 .. FrameMaxCount
      <3>1. FrameMaxCount \in Nat
        BY ONLY <1>1
      <3>2. /\ 0 \in 0 .. Len(input) /\ 0 \in 0 .. Len(input) + 2
            /\ 0 \in 0 .. FrameMaxCount
        BY ONLY <1>2, <3>1
      <3> QED
        BY ONLY <1>5, <3>2
    <2>3. Len(frameInfo) <= FrameMaxCount + 1 /\ Len(tmp) <= frameCount
      BY ONLY <1>1, <1>4, <1>5
    <2>4. input \in Seq(Symbols) /\ tmp \in Seq(Seq(Symbols \cup {Zero}))
      BY ONLY <1>1, <1>4
    <2>5. /\ fpFile \in BOOLEAN
          /\ phase \in {"open", "parse", "write", "written", "exited", "crashed"}
      BY ONLY <1>5
    <2> QED
      BY ONLY <2>1, <2>2, <2>3, <2>4, <2>5 DEF TypeOK
  <1> QED
    BY ONLY <1>1, <1>4, <1>5, <1>6 DEF Sound, Before, Table

(***************************************************************************)
(* The frame that is entered.                                              *)
(***************************************************************************)
LEMMA FrameFits ==
  ASSUME Sound, position < Len(input)
  PROVE  LET end  == NaluEnd(position)
             size == FrameLen(NaluLen(position))
         IN /\ size \in Nat
            /\ end < Len(input)
                 => Fits([positionInFile |-> end - size, size |-> size])
  <1> DEFINE end  == NaluEnd(position)
             len  == NaluLen(position)
             size == FrameLen(len)
  <1>1. /\ end \in position + 1 .. Len(input) /\ len \in Nat
        /\ end < Len(input) => len = end - position
    BY UnitFacts DEF Sound
  <1>2. /\ Len(input) \in Nat /\ position \in 0 .. Len(input)
        /\ seiLen \in Nat /\ spsLen \in Nat /\ ppsLen \in Nat
    BY InputFacts DEF Sound, TypeOK
  <1>3. seiLen + spsLen + ppsLen <= position
    BY DEF Sound, Before
  <1> HIDE DEF end, len
  <1>4. size \in Nat /\ size <= len + spsLen + ppsLen + seiLen
    BY ONLY <1>1, <1>2 DEF FrameLen
  <1> HIDE DEF size
  <1>5. ASSUME end < Len(input)
        PROVE  Fits([positionInFile |-> end - size, size |-> size])
    <2>1. end - size >= 0 /\ (end - size) + size <= Len(input)
      BY ONLY <1>1, <1>2, <1>3, <1>4, <1>5
    <2> QED
      BY ONLY <2>1 DEF Fits
  <1> QED
    BY ONLY <1>4, <1>5 DEF end, len, size

LEMMA RowAppended ==
  ASSUME NEW t \in Seq(FrameInfos), NEW row \in FrameInfos
  PROVE  /\ Append(t, row) \in Seq(FrameInfos)
         /\ Len(Append(t, row)) = Len(t) + 1
         /\ \A k \in 1 .. Len(t) : Append(t, row)[k] = t[k]
         /\ Append(t, row)[Len(t) + 1] = row
  OBVIOUS

LEMMA ParseKeepsSound == ASSUME Sound, ParseNalu PROVE Sound'
  <1> DEFINE end  == NaluEnd(position)
             len  == NaluLen(position)
             type == NaluType(position)
             size == FrameLen(len)
             row  == [positionInFile |-> end - size, size |-> size]
  <1>1. /\ phase = "parse" /\ position < Len(input)
        /\ input' = input /\ fpFile' = fpFile /\ tmp' = tmp
        /\ position' = end
        /\ seiLen' = (IF type = SEI THEN len ELSE seiLen)
        /\ spsLen' = (IF type = SPS THEN len ELSE spsLen)
        /\ ppsLen' = (IF type = PPS THEN len ELSE ppsLen)
    BY DEF ParseNalu, NaluFound
  <1>2. /\ end \in position + 1 .. Len(input) /\ len \in Nat
        /\ end < Len(input) => len = end - position
        /\ len <= Len(input) + 2
    BY <1>1, UnitFacts DEF Sound
  <1>3. /\ size \in Nat
        /\ end < Len(input) => Fits(row)
    BY <1>1, FrameFits
  <1>4. /\ Len(input) \in Nat /\ position \in 0 .. Len(input)
        /\ seiLen \in 0 .. Len(input) + 2 /\ spsLen \in 0 .. Len(input) + 2
        /\ ppsLen \in 0 .. Len(input) + 2 /\ FrameMaxCount \in Nat \ {0}
        /\ frameCount \in 0 .. FrameMaxCount
    BY InputFacts DEF Sound, TypeOK
  <1>5. /\ frameInfo \in Seq(FrameInfos) /\ Len(frameInfo) \in Nat
        /\ input \in Seq(Symbols)
        /\ tmp \in Seq(Seq(Symbols \cup {Zero})) /\ Len(tmp) \in Nat
        /\ Len(tmp) <= frameCount /\ fpFile \in BOOLEAN
    BY DEF Sound, TypeOK, FrameInfos
  <1>6. /\ frameCount = IF Len(frameInfo) = 0 THEN 0 ELSE Len(frameInfo) - 1
        /\ Len(frameInfo) <= FrameMaxCount
        /\ \A k \in 1 .. Len(frameInfo) : Fits(frameInfo[k])
        /\ seiLen + spsLen + ppsLen <= position
    BY <1>1 DEF Sound, Table, Before
  <1>b. addSlice \in BOOLEAN /\ addSeiSlice \in BOOLEAN
    BY DEF Sound, TypeOK
  <1>c. \/ /\ type \in {SEI, SPS, PPS}
           /\ addSlice' = (addSlice \/ type = PPS)
           /\ addSeiSlice' = (addSeiSlice \/ type = SEI)
           /\ UNCHANGED <<frameInfo, frameCount, phase>>
        \/ /\ frameInfo' = Append(frameInfo, row)
           /\ frameCount' = Len(frameInfo)
           /\ phase' = IF Len(frameInfo) >= FrameMaxCount THEN "write" ELSE phase
           /\ FlagsAfterFrame
    BY <1>1 DEF ParseNalu, EnterFrame, table
  <1>d. addSlice' \in BOOLEAN /\ addSeiSlice' \in BOOLEAN
    BY ONLY <1>b, <1>c DEF FlagsAfterFrame
  <1>f. \A info : Fits(info)' = Fits(info)
    BY <1>1 DEF Fits
  <1> HIDE DEF end, len, type, size
  <1>7. /\ seiLen' \in 0 .. Len(input) + 2 /\ spsLen' \in 0 .. Len(input) + 2
        /\ ppsLen' \in 0 .. Len(input) + 2
        /\ position' \in 0 .. Len(input)
    BY ONLY <1>1, <1>2, <1>4
  <1>8. Before'
    <2>1. SEI # SPS /\ SEI # PPS /\ SPS # PPS
      BY ONLY TRUE DEF SEI, SPS, PPS
    <2>2. ASSUME end < Len(input)
          PROVE  seiLen' + spsLen' + ppsLen' <= end
      BY ONLY <1>1, <1>2, <1>4, <1>6, <2>1, <2>2
    <2> QED
      BY ONLY <1>1, <2>2 DEF Before
  <1>9. ASSUME NEW t \in Seq(FrameInfos), NEW c \in 0 .. FrameMaxCount,
               Len(t) <= FrameMaxCount + 1, Len(tmp) <= c,
               frameInfo' = t, frameCount' = c,
               phase' \in {"parse", "write"}
        PROVE  TypeOK'
    <2>1. frameInfo' \in Seq([positionInFile : Int, size : Nat])
      BY ONLY <1>9 DEF FrameInfos
    <2>2. /\ position' \in 0 .. Len(input')
          /\ {seiLen', spsLen', ppsLen'} \subseteq 0 .. Len(input') + 2
          /\ {addSlice', addSeiSlice'} \subseteq BOOLEAN
          /\ frameCount' \in 0 .. FrameMaxCount
          /\ fpFile' \in BOOLEAN
          /\ phase' \in {"open", "parse", "write", "written", "exited", "crashed"}
      BY ONLY <1>1, <1>5, <1>7, <1>9, <1>d
    <2>3. Len(frameInfo') <= FrameMaxCount + 1 /\ Len(tmp') <= frameCount'
      BY ONLY <1>1, <1>9
    <2>4. input' \in Seq(Symbols) /\ tmp' \in Seq(Seq(Symbols \cup {Zero}))
      BY ONLY <1>1, <1>5
    <2> QED
      BY ONLY <2>1, <2>2, <2>3, <2>4 DEF TypeOK
  <1>10. CASE /\ type \in {SEI, SPS, PPS}
              /\ UNCHANGED <<frameInfo, frameCount, phase>>
    <2>1. TypeOK'
      <3>1. Len(frameInfo) <= FrameMaxCount + 1
        BY ONLY <1>4, <1>5, <1>6
      <3>2. frameInfo' = frameInfo /\ frameCount' = frameCount /\ phase' = "parse"
        BY ONLY <1>1, <1>10
      <3> QED
        BY ONLY <1>4, <1>5, <1>9, <3>1, <3>2
    <2>2. Table'
      BY ONLY <1>1, <1>6, <1>10, <1>f DEF Table
    <2> QED
      BY ONLY <1>8, <2>1, <2>2 DEF Sound
  <1>11. CASE /\ frameInfo' = Append(frameInfo, row)
              /\ frameCount' = Len(frameInfo)
              /\ phase' = IF Len(frameInfo) >= FrameMaxCount THEN "write" ELSE phase
    <2>1. row \in FrameInfos
      BY ONLY <1>2, <1>3, <1>4 DEF FrameInfos
    <2> HIDE DEF row
    <2>2. /\ frameInfo' \in Seq(FrameInfos)
          /\ Len(frameInfo') = Len(frameInfo) + 1
          /\ \A k \in 1 .. Len(frameInfo) : frameInfo'[k] = frameInfo[k]
          /\ frameInfo'[Len(frameInfo) + 1] = row
      BY ONLY <1>5, <1>11, <2>1, RowAppended
    <2>3. TypeOK'
      <3>1. /\ Len(frameInfo) \in 0 .. FrameMaxCount
            /\ Len(frameInfo') <= FrameMaxCount + 1
            /\ Len(tmp) <= Len(frameInfo)
        BY ONLY <1>4, <1>5, <1>6, <2>2
      <3>2. phase' \in {"parse", "write"}
        BY ONLY <1>1, <1>11
      <3> QED
        BY ONLY <1>9, <1>11, <2>2, <3>1, <3>2
    <2>4. Table'
      <3>1. frameCount' = IF Len(frameInfo') = 0 THEN 0 ELSE Len(frameInfo') - 1
        BY ONLY <1>5, <1>11, <2>2
      <3>2. phase' \in {"open", "parse", "exited"}
              => Len(frameInfo') <= FrameMaxCount
        BY ONLY <1>4, <1>5, <1>11, <2>2
      <3>3. ASSUME NEW k \in 1 .. Len(frameInfo'),
                   k < Len(frameInfo') \/ position' < Len(input')
            PROVE  Fits(frameInfo'[k])
        <4>1. CASE k \in 1 .. Len(frameInfo)
          BY ONLY <1>6, <2>2, <4>1
        <4>2. CASE k = Len(frameInfo) + 1
          <5>1. end < Len(input)
            BY ONLY <1>1, <1>5, <2>2, <3>3, <4>2
          <5> QED
            BY ONLY <1>3, <2>2, <4>2, <5>1
        <4> QED
          BY ONLY <1>5, <2>2, <4>1, <4>2, k \in 1 .. Len(frameInfo')
      <3> QED
        BY ONLY <1>f, <3>1, <3>2, <3>3 DEF Table
    <2> QED
      BY ONLY <1>8, <2>3, <2>4 DEF Sound
  <1> QED
    BY ONLY <1>c, <1>10, <1>11

(***************************************************************************)
(* A frame that is copied is one of those that fit.                        *)
(***************************************************************************)
LEMMA CopiedFits ==
  ASSUME Sound
  PROVE  \A k \in 1 .. frameCount : Fits(frameInfo[k]) /\ frameInfo[k] \in FrameInfos
  <1>1. frameInfo \in Seq(FrameInfos) /\ Len(frameInfo) \in Nat
    BY DEF Sound, TypeOK, FrameInfos
  <1>2. /\ frameCount = IF Len(frameInfo) = 0 THEN 0 ELSE Len(frameInfo) - 1
        /\ \A k \in 1 .. Len(frameInfo) :
             k < Len(frameInfo) => Fits(frameInfo[k])
    BY DEF Sound, Table
  <1>3. \A k \in 1 .. frameCount :
          k \in 1 .. Len(frameInfo) /\ k < Len(frameInfo)
    BY ONLY <1>1, <1>2
  <1> QED
    BY ONLY <1>1, <1>2, <1>3

LEMMA ReadFacts ==
  ASSUME NEW s \in Seq(Symbols), NEW p \in Nat, NEW n \in Nat, p + n <= Len(s)
  PROVE  SubSeq(s, p + 1, p + n) \in Seq(Symbols)
         /\ Len(SubSeq(s, p + 1, p + n)) = n
  OBVIOUS

LEMMA WriteIs ==
  ASSUME Sound, WriteFrame
  PROVE  \E info, w :
           /\ info = frameInfo[Len(tmp) + 1] /\ Fits(info) /\ info \in FrameInfos
           /\ w = SubSeq(input, info.positionInFile + 1,
                         info.positionInFile + info.size) \o S_frameAudInfo
           /\ w \in Seq(Symbols) /\ Len(w) = info.size + 2
           /\ tmp' = Append(tmp, w)
  <1>1. PICK info : info = frameInfo[Len(tmp) + 1]
    OBVIOUS
  <1>2. /\ Len(tmp) < frameCount
        /\ tmp' = Append(tmp, SubSeq(DataBuffer(info), 1, Len(Read(info)) + 2))
    BY <1>1 DEF WriteFrame, Writing
  <1>3. Len(tmp) \in Nat /\ frameCount \in Nat /\ input \in Seq(Symbols)
        /\ Len(input) \in Nat
    BY InputFacts DEF Sound, TypeOK
  <1>4. Fits(info) /\ info \in FrameInfos
    <2>1. Len(tmp) + 1 \in 1 .. frameCount
      BY ONLY <1>2, <1>3
    <2> QED
      BY <1>1, <2>1, CopiedFits
  <1>5. /\ info.positionInFile \in Nat /\ info.size \in Nat
        /\ info.positionInFile + info.size <= Len(input)
    <2>1. /\ info.positionInFile \in Int /\ info.size \in Nat
          /\ info.positionInFile >= 0
          /\ info.positionInFile + info.size <= Len(input)
      BY ONLY <1>4 DEF Fits, FrameInfos
    <2> QED
      BY ONLY <2>1
  <1>6. PICK r : r = SubSeq(input, info.positionInFile + 1,
                            info.positionInFile + info.size)
    OBVIOUS
  <1>7. Read(info) = r
    <2>1. (IF info.positionInFile + info.size < Len(input)
             THEN info.positionInFile + info.size ELSE Len(input))
            = info.positionInFile + info.size
      BY ONLY <1>3, <1>5
    <2> QED
      BY ONLY <1>6, <2>1 DEF Read
  <1>8. r \in Seq(Symbols) /\ Len(r) = info.size
    BY ONLY <1>3, <1>5, <1>6, ReadFacts
  <1>9. S_frameAudInfo \in Seq(Symbols) /\ Len(S_frameAudInfo) = 2
    BY DEF S_frameAudInfo, Symbols
  <1>10. PICK a : a = S_frameAudInfo
    OBVIOUS
  <1>11. PICK w : w = r \o a
    OBVIOUS
  <1>12. w \in Seq(Symbols) /\ Len(w) = info.size + 2
    <2>1. a \in Seq(Symbols) /\ Len(a) = 2
      BY ONLY <1>9, <1>10
    <2>2. r \o a \in Seq(Symbols) /\ Len(r \o a) = Len(r) + Len(a)
      BY ONLY <1>8, <2>1, ConcatProperties, Zenon
    <2> QED
      BY ONLY <1>8, <1>11, <2>1, <2>2
  <1>13. DataBuffer(info) = w
    <2>1. [j \in 1 .. info.size - Len(r) |-> Zero] = << >>
      <3>1. 1 .. info.size - Len(r) = {}
        BY ONLY <1>5, <1>8
      <3> QED
        BY ONLY <3>1
    <2>2. r \o << >> = r
      BY ONLY <1>8, ConcatEmptySeq
    <2> QED
      BY ONLY <1>7, <1>10, <1>11, <2>1, <2>2 DEF DataBuffer
  <1>14. SubSeq(w, 1, Len(r) + 2) = w
    <2>1. Len(r) + 2 = Len(w)
      BY ONLY <1>8, <1>12
    <2> QED
      BY ONLY <1>12, <2>1, SubSeqFull
  <1>15. tmp' = Append(tmp, w)
    BY ONLY <1>2, <1>7, <1>13, <1>14
  <1> QED
    BY ONLY <1>1, <1>4, <1>6, <1>10, <1>11, <1>12, <1>15

LEMMA WriteKeepsSound == ASSUME Sound, WriteFrame PROVE Sound'
  <1> DEFINE S == Symbols \cup {Zero}
  <1>1. /\ UNCHANGED <<input, fpFile, position, seiLen, spsLen, ppsLen, addSlice,
                       addSeiSlice, frameInfo, frameCount, phase>>
        /\ Len(tmp) < frameCount
    BY DEF WriteFrame, Writing, units, table
  <1>2. PICK w \in Seq(Symbols) : tmp' = Append(tmp, w)
    BY WriteIs
  <1>3. tmp \in Seq(Seq(S)) /\ Len(tmp) \in Nat /\ frameCount \in Nat
    BY DEF Sound, TypeOK
  <1>4. w \in Seq(S)
    <2>1. Symbols \subseteq S
      OBVIOUS
    <2> HIDE DEF S
    <2> QED
      BY ONLY <2>1, w \in Seq(Symbols)
  <1>5. tmp' \in Seq(Seq(S)) /\ Len(tmp') <= frameCount
    <2> HIDE DEF S
    <2> QED
      BY ONLY <1>1, <1>2, <1>3, <1>4
  <1>6. TypeOK'
    BY <1>1, <1>5 DEF Sound, TypeOK
  <1>7. Before' /\ Table'
    BY <1>1 DEF Sound, Before, Table, Fits
  <1> QED
    BY ONLY <1>6, <1>7 DEF Sound

LEMMA SoundStep == Sound /\ [Next]_insertVars => Sound'
  <1> SUFFICES ASSUME Sound, [Next]_insertVars PROVE Sound'
    OBVIOUS
  <1>1. CASE ParseNalu
    BY <1>1, ParseKeepsSound
  <1>2. CASE WriteFrame
    BY <1>2, WriteKeepsSound
  <1>3. CASE OpenFiles \/ ParseEnds \/ WriteCrashes \/ WriteEnds
    <2>1. /\ UNCHANGED <<input, units, table, tmp>>
          /\ fpFile' \in BOOLEAN
          /\ \/ phase = "open" /\ phase' \in {"parse", "exited"}
             \/ phase' \in {"write", "written", "crashed"}
      BY <1>3 DEF OpenFiles, ParseEnds, WriteCrashes, WriteEnds, Sound, TypeOK
    <2>2. TypeOK'
      BY <2>1 DEF Sound, TypeOK, units, table
    <2>3. Before' /\ Table'
      BY <2>1 DEF Sound, Before, Table, Fits, units, table
    <2> QED
      BY ONLY <2>2, <2>3 DEF Sound
  <1>4. CASE UNCHANGED insertVars
    BY <1>4 DEF insertVars, units, table, Sound, TypeOK, Before, Table, Fits
  <1> QED
    BY <1>1, <1>2, <1>3, <1>4 DEF Next

(***************************************************************************)
(* For every file and every capacity of the table, the variables keep      *)
(* their types: the table is overrun by one entry at most, and frameCount  *)
(* stays within its capacity.                                              *)
(***************************************************************************)
THEOREM TypeCorrect == Spec => []TypeOK
  <1>1. Sound => TypeOK
    BY DEF Sound
  <1> QED
    BY SoundInit, SoundStep, <1>1, PTL DEF Spec

(***************************************************************************)
(* For every file, regular or not, no frame that is copied begins before   *)
(* the file or reaches beyond its end.                                     *)
(***************************************************************************)
THEOREM FramesLieInFile == Spec => []ReadsWithinFile
  <1>1. Sound => ReadsWithinFile
    BY CopiedFits DEF ReadsWithinFile, Fits
  <1> QED
    BY SoundInit, SoundStep, <1>1, PTL DEF Spec

-----------------------------------------------------------------------------
(***************************************************************************)
(* Counting the members of a finite set of numbers up to one of them.      *)
(***************************************************************************)
UpTo(F, n) == {q \in F : q <= n}

LEMMA CountFacts ==
  ASSUME NEW N \in Nat, NEW F \in SUBSET (1 .. N)
  PROVE  /\ IsFiniteSet(F) /\ Cardinality(F) \in Nat /\ UpTo(F, N) = F
         /\ \A n \in Nat : /\ IsFiniteSet(UpTo(F, n))
                           /\ Cardinality(UpTo(F, n)) \in Nat
                           /\ Cardinality(UpTo(F, n)) <= Cardinality(F)
  <1>1. IsFiniteSet(1 .. N)
    BY FS_Interval
  <1>2. IsFiniteSet(F)
    BY ONLY <1>1, F \in SUBSET (1 .. N), FS_Subset
  <1>3. \A n \in Nat : UpTo(F, n) \in SUBSET F
    BY DEF UpTo
  <1>4. UpTo(F, N) = F
    <2>1. \A q \in F : q <= N
      OBVIOUS
    <2> QED
      BY ONLY <2>1 DEF UpTo
  <1>5. Cardinality(F) \in Nat
    BY ONLY <1>2, FS_CardinalityType
  <1>6. ASSUME NEW n \in Nat
        PROVE  /\ IsFiniteSet(UpTo(F, n))
               /\ Cardinality(UpTo(F, n)) \in Nat
               /\ Cardinality(UpTo(F, n)) <= Cardinality(F)
    <2>1. UpTo(F, n) \in SUBSET F
      BY <1>3
    <2>2. /\ IsFiniteSet(UpTo(F, n))
          /\ Cardinality(UpTo(F, n)) <= Cardinality(F)
      BY ONLY <1>2, <2>1, FS_Subset
    <2> QED
      BY ONLY <2>2, FS_CardinalityType
  <1> QED
    BY ONLY <1>2, <1>4, <1>5, <1>6

LEMMA CountMonotonic ==
  ASSUME NEW N \in Nat, NEW F \in SUBSET (1 .. N), NEW m \in Nat, NEW n \in Nat,
         m <= n
  PROVE  /\ IsFiniteSet(UpTo(F, m))
         /\ Cardinality(UpTo(F, m)) \in Nat /\ Cardinality(UpTo(F, n)) \in Nat
         /\ Cardinality(UpTo(F, m)) <= Cardinality(UpTo(F, n))
         /\ Cardinality(UpTo(F, m)) = Cardinality(UpTo(F, n))
              => UpTo(F, m) = UpTo(F, n)
         /\ (\A q \in F : q <= n => q <= m) => UpTo(F, n) = UpTo(F, m)
  <1>1. /\ IsFiniteSet(UpTo(F, m)) /\ IsFiniteSet(UpTo(F, n))
        /\ Cardinality(UpTo(F, m)) \in Nat /\ Cardinality(UpTo(F, n)) \in Nat
    BY ONLY CountFacts, N \in Nat, F \in SUBSET (1 .. N), m \in Nat, n \in Nat,
            Zenon
  <1>2. \A q \in F : q \in Nat
    OBVIOUS
  <1>3. UpTo(F, m) \in SUBSET UpTo(F, n)
    <2>1. \A q \in F : q <= m => q <= n
      BY ONLY <1>2, m \in Nat, n \in Nat, m <= n
    <2> QED
      BY ONLY <2>1 DEF UpTo
  <1>4. /\ Cardinality(UpTo(F, m)) <= Cardinality(UpTo(F, n))
        /\ Cardinality(UpTo(F, m)) = Cardinality(UpTo(F, n)) => UpTo(F, m) = UpTo(F, n)
    BY ONLY <1>1, <1>3, FS_Subset
  <1>5. ASSUME \A q \in F : q <= n => q <= m
        PROVE  UpTo(F, n) = UpTo(F, m)
    <2>1. \A q \in F : q <= n <=> q <= m
      BY ONLY <1>2, <1>5, m \in Nat, n \in Nat, m <= n
    <2> QED
      BY ONLY <2>1 DEF UpTo
  <1> QED
    BY ONLY <1>1, <1>4, <1>5

LEMMA CountNext ==
  ASSUME NEW N \in Nat, NEW F \in SUBSET (1 .. N), NEW m \in Nat, NEW n \in Nat,
         NEW p \in F, m < p, p <= n
  PROVE  /\ Cardinality(UpTo(F, m)) < Cardinality(UpTo(F, n))
         /\ (\A q \in F : q <= n => q <= m \/ q = p)
              => Cardinality(UpTo(F, n)) = Cardinality(UpTo(F, m)) + 1
  <1>1. \A q \in F : q \in Nat
    OBVIOUS
  <1>2. m <= n /\ p \in Nat
    BY ONLY <1>1, m \in Nat, n \in Nat, m < p, p <= n, p \in F
  <1>3. /\ IsFiniteSet(UpTo(F, m))
        /\ Cardinality(UpTo(F, m)) \in Nat /\ Cardinality(UpTo(F, n)) \in Nat
        /\ Cardinality(UpTo(F, m)) <= Cardinality(UpTo(F, n))
        /\ Cardinality(UpTo(F, m)) = Cardinality(UpTo(F, n))
             => UpTo(F, m) = UpTo(F, n)
    BY ONLY <1>2, CountMonotonic, N \in Nat, F \in SUBSET (1 .. N), m \in Nat,
            n \in Nat, Zenon
  <1>4. p \in UpTo(F, n) /\ p \notin UpTo(F, m)
    BY <1>2 DEF UpTo
  <1>5. Cardinality(UpTo(F, m)) < Cardinality(UpTo(F, n))
    <2>1. Cardinality(UpTo(F, m)) # Cardinality(UpTo(F, n))
      BY ONLY <1>3, <1>4
    <2> QED
      BY ONLY <1>3, <2>1
  <1>6. ASSUME \A q \in F : q <= n => q <= m \/ q = p
        PROVE  Cardinality(UpTo(F, n)) = Cardinality(UpTo(F, m)) + 1
    <2>1. \A q \in F : q <= n <=> q <= m \/ q = p
      BY ONLY <1>1, <1>2, <1>6, m \in Nat, n \in Nat, p <= n
    <2>2. UpTo(F, n) = UpTo(F, m) \cup {p}
      BY ONLY <2>1, p \in F DEF UpTo
    <2> QED
      BY ONLY <1>3, <1>4, <2>2, FS_AddElement
  <1> QED
    BY ONLY <1>5, <1>6

LEMMA CountIsIndex ==
  ASSUME NEW N \in Nat, NEW F \in SUBSET (1 .. N), NEW p \in F, NEW r \in F,
         Cardinality(UpTo(F, p)) = Cardinality(UpTo(F, r))
  PROVE  p = r
  <1>1. p \in Nat /\ r \in Nat
    OBVIOUS
  <1>2. Cardinality(UpTo(F, p)) \in Nat
    BY ONLY <1>1, CountFacts, N \in Nat, F \in SUBSET (1 .. N)
  <1>3. ASSUME NEW a \in F, NEW b \in F, a < b,
               Cardinality(UpTo(F, a)) = Cardinality(UpTo(F, b)),
               Cardinality(UpTo(F, a)) \in Nat
        PROVE  FALSE
    <2>1. a \in Nat /\ b \in Nat /\ a < b /\ b <= b
      BY <1>3
    <2>2. Cardinality(UpTo(F, a)) < Cardinality(UpTo(F, b))
      BY ONLY <2>1, CountNext, N \in Nat, F \in SUBSET (1 .. N), b \in F, Zenon
    <2> QED
      BY ONLY <1>3, <2>2
  <1>4. ~ (p < r) /\ ~ (r < p)
    BY <1>2, <1>3
  <1> QED
    BY ONLY <1>1, <1>4

-----------------------------------------------------------------------------
(***************************************************************************)
(* The units of the file and its frames.                                   *)
(***************************************************************************)
LEMMA StartsFacts ==
  ASSUME TypeOK
  PROVE  /\ Starts \in SUBSET (1 .. Len(input)) /\ FrameStarts \in SUBSET Starts
         /\ FrameStarts \in SUBSET (1 .. Len(input)) /\ Len(input) \in Nat
         /\ \A p \in Starts : input[p] = H /\ input[1] = H
         /\ \A p \in 1 .. Len(input) :
              input[p] = H /\ input[1] = H => p \in Starts
  <1>1. input \in Seq(Symbols) /\ Len(input) \in Nat
    BY InputFacts
  <1>2. \A p \in 1 .. Len(input) : input # << >>
    BY <1>1
  <1> QED
    BY <1>1, <1>2 DEF Starts, FrameStarts

LEMMA InputFixed ==
  ASSUME input' = input
  PROVE  /\ Starts' = Starts /\ FrameStarts' = FrameStarts /\ Regular' = Regular
         /\ \A p : /\ Kind(p)' = Kind(p)
                   /\ NaluEnd(p)' = NaluEnd(p)
                   /\ Lead(p)' = Lead(p)
  <1>1. \A p : NaluEnd(p)' = NaluEnd(p) /\ NaluType(p)' = NaluType(p)
    BY DEF NaluEnd, NaluType, NextStart
  <1>2. Starts' = Starts
    BY DEF Starts
  <1>3. \A p : Kind(p)' = Kind(p)
    BY ONLY <1>1 DEF Kind
  <1>4. FrameStarts' = FrameStarts
    BY ONLY <1>2, <1>3 DEF FrameStarts
  <1>5. \A p : Lead(p)' = Lead(p)
    BY ONLY <1>2, <1>4 DEF Lead
  <1>6. Regular' = Regular
    <2>1. \A p : {Kind(q) : q \in Lead(p)}' = {Kind(q) : q \in Lead(p)}
      BY ONLY <1>3, <1>5
    <2> QED
      BY ONLY <1>4, <1>5, <2>1 DEF Regular
  <1> QED
    BY <1>1, <1>2, <1>3, <1>4, <1>5, <1>6

Scanned ==
  /\ position = 0 \/ input[1] = H
  /\ position = 0 \/ position = Len(input) \/ input[position + 1] = H
  /\ Len(frameInfo) = Cardinality(UpTo(FrameStarts, position))

(***************************************************************************)
(* The unit that is parsed next.                                           *)
(***************************************************************************)
LEMMA UnitFound ==
  ASSUME TypeOK, Scanned, NaluFound(position)
  PROVE  LET p == position + 1
             e == NaluEnd(position)
         IN /\ p \in Starts /\ Kind(p) = NaluType(position)
            /\ NaluEnd(p - 1) = e /\ e \in p .. Len(input)
            /\ e = Len(input) \/ (e + 1 \in Starts /\ input[e + 1] = H)
            /\ \A q \in Starts : q <= e => q <= position \/ q = p
            /\ input[1] = H
  <1> DEFINE n == Len(input)
  <1>1. /\ position < n /\ input[position + 1] = H
    BY DEF NaluFound
  <1>2. n \in Nat /\ position \in 0 .. n
    BY InputFacts DEF TypeOK
  <1>3. PICK e \in position + 1 .. n : e = NaluEnd(position)
    BY <1>1, UnitFacts
  <1>5. input[1] = H
    <2>1. position = 0 => position + 1 = 1
      BY ONLY <1>2
    <2> QED
      BY <2>1, <1>1 DEF Scanned
  <1>6. position + 1 \in 1 .. n
    BY ONLY <1>1, <1>2
  <1>7. position + 1 \in Starts
    BY <1>1, <1>5, <1>6, StartsFacts
  <1>8. /\ e = n \/ (e + 1 \in 1 .. n /\ input[e + 1] = H)
        /\ \A q \in 1 .. n : input[q] = H /\ q <= e => q <= position \/ q = position + 1
    <2>1. \A q : q \in NextStart(position) <=> q \in position + 2 .. n /\ input[q] = H
      BY DEF NextStart
    <2>2. CASE NextStart(position) = {}
      <3>1. e = n
        BY <1>3, <2>2 DEF NaluEnd
      <3>2. \A q \in 1 .. n : input[q] = H => ~ (q \in position + 2 .. n)
        BY ONLY <2>1, <2>2
      <3> HIDE DEF n
      <3>3. \A q \in 1 .. n : q \in position + 2 .. n \/ q <= position \/ q = position + 1
        BY ONLY <1>2
      <3> QED
        BY ONLY <3>1, <3>2, <3>3
    <2>3. CASE NextStart(position) # {}
      <3>1. NextStart(position) \in SUBSET Nat
        BY ONLY <1>2, <2>1
      <3>2. PICK s \in NextStart(position) :
               NaluEnd(position) = s - 1 /\ \A k \in NextStart(position) : s <= k
        BY <2>3, <3>1, LeastExists DEF NaluEnd
      <3>3. s \in position + 2 .. n /\ input[s] = H
        BY ONLY <2>1, <3>2
      <3>4. \A q \in 1 .. n : input[q] = H /\ q \in position + 2 .. n => s <= q
        BY ONLY <2>1, <3>2
      <3> HIDE DEF n
      <3>5. e = s - 1
        BY ONLY <1>3, <3>2
      <3>6. e + 1 = s /\ s \in 1 .. n
        BY ONLY <1>2, <3>3, <3>5
      <3>7. \A q \in 1 .. n :
              (q \in position + 2 .. n => s <= q) /\ q <= e
                => q <= position \/ q = position + 1
        BY ONLY <1>2, <3>5, <3>6
      <3> QED
        BY ONLY <3>3, <3>4, <3>6, <3>7
    <2> QED
      BY <2>2, <2>3
  <1>9. e = n \/ (e + 1 \in Starts /\ input[e + 1] = H)
    BY <1>5, <1>8, StartsFacts
  <1>10. \A q \in Starts : q <= e => q <= position \/ q = position + 1
    <2>1. \A q \in Starts : q \in 1 .. n /\ input[q] = H
      BY StartsFacts
    <2> QED
      BY ONLY <2>1, <1>8
  <1>11. PICK p : p = position + 1
    OBVIOUS
  <1>12. Kind(p) = NaluType(position) /\ NaluEnd(p - 1) = e
    <2>1. p - 1 = position
      BY ONLY <1>2, <1>11
    <2>2. Kind(p) = NaluType(p - 1)
      BY DEF Kind
    <2> QED
      BY ONLY <1>3, <2>1, <2>2
  <1> QED
    BY ONLY <1>3, <1>5, <1>7, <1>9, <1>10, <1>11, <1>12

LEMMA NthFrameIs ==
  ASSUME TypeOK, NEW p \in FrameStarts
  PROVE  NthFrame(Cardinality(UpTo(FrameStarts, p))) = p
  <1>1. PICK F : F = FrameStarts
    OBVIOUS
  <1>2. F \in SUBSET (1 .. Len(input)) /\ Len(input) \in Nat
    BY <1>1, StartsFacts
  <1>3. PICK k : k = Cardinality(UpTo(F, p))
    OBVIOUS
  <1>4. \A r \in F : Cardinality({q \in F : q <= r}) = k => r = p
    BY ONLY <1>1, <1>2, <1>3, CountIsIndex, p \in FrameStarts DEF UpTo
  <1>5. Cardinality({q \in F : q <= p}) = k
    BY ONLY <1>3 DEF UpTo
  <1>6. (CHOOSE r \in F : Cardinality({q \in F : q <= r}) = k) = p
    BY ONLY <1>1, <1>4, <1>5, p \in FrameStarts
  <1> QED
    BY ONLY <1>1, <1>3, <1>6 DEF NthFrame

-----------------------------------------------------------------------------
(***************************************************************************)
(* One turn of the parser: the unit that starts at p and ends at e.        *)
(***************************************************************************)
Row(e, size) == [positionInFile |-> e - size, size |-> size]

Parses(p, e, len) ==
  /\ p = position + 1 /\ p \in Starts /\ e \in p .. Len(input)
  /\ NaluEnd(p - 1) = e /\ input[1] = H
  /\ len \in Nat /\ len >= e - position
  /\ e < Len(input) => len = e - position
  /\ \A q \in Starts : q <= e => q <= position \/ q = p
  /\ e = Len(input) \/ input[e + 1] = H
  /\ phase = "parse" /\ input' = input /\ position' = e /\ tmp' = tmp
  /\ seiLen' = IF Kind(p) = SEI THEN len ELSE seiLen
  /\ spsLen' = IF Kind(p) = SPS THEN len ELSE spsLen
  /\ ppsLen' = IF Kind(p) = PPS THEN len ELSE ppsLen

Passes(p) ==
  /\ Kind(p) \in {SEI, SPS, PPS}
  /\ addSlice' = (addSlice \/ Kind(p) = PPS)
  /\ addSeiSlice' = (addSeiSlice \/ Kind(p) = SEI)
  /\ frameInfo' = frameInfo /\ frameCount' = frameCount /\ phase' = phase

Enters(p, e, len) ==
  /\ Kind(p) \notin {SEI, SPS, PPS}
  /\ frameInfo' = Append(frameInfo, Row(e, FrameLen(len)))
  /\ FlagsAfterFrame
  /\ phase' = IF Len(frameInfo) >= FrameMaxCount THEN "write" ELSE phase

LEMMA ParseIs ==
  ASSUME TypeOK, Scanned, ParseNalu
  PROVE  \E p, e, len : Parses(p, e, len) /\ (Passes(p) \/ Enters(p, e, len))
  <1>1. PICK len : len = NaluLen(position)
    OBVIOUS
  <1>2. PICK e : e = NaluEnd(position)
    OBVIOUS
  <1>3. PICK p : p = position + 1
    OBVIOUS
  <1>4. NaluFound(position) /\ position < Len(input) /\ phase = "parse"
    BY DEF ParseNalu, NaluFound
  <1>5. /\ p \in Starts /\ Kind(p) = NaluType(position)
        /\ NaluEnd(p - 1) = e /\ e \in p .. Len(input)
        /\ e = Len(input) \/ (e + 1 \in Starts /\ input[e + 1] = H)
        /\ \A q \in Starts : q <= e => q <= position \/ q = p
        /\ input[1] = H
    BY <1>2, <1>3, <1>4, UnitFound
  <1>6. len \in Nat /\ (e < Len(input) => len = e - position)
    BY <1>1, <1>2, <1>4, UnitFacts
  <1>7. len >= e - position
    <2>1. Len(input) \in Nat /\ position \in 0 .. Len(input)
      BY InputFacts DEF TypeOK
    <2>2. len = Len(input) - position + 2 \/ len = e - position
      BY <1>1, <1>2 DEF NaluLen
    <2> QED
      BY ONLY <2>1, <2>2, <1>3, <1>5
  <1>8. /\ input' = input /\ tmp' = tmp /\ position' = e
        /\ seiLen' = (IF Kind(p) = SEI THEN len ELSE seiLen)
        /\ spsLen' = (IF Kind(p) = SPS THEN len ELSE spsLen)
        /\ ppsLen' = (IF Kind(p) = PPS THEN len ELSE ppsLen)
    BY <1>1, <1>2, <1>5 DEF ParseNalu
  <1>9. \/ /\ Kind(p) \in {SEI, SPS, PPS}
           /\ addSlice' = (addSlice \/ Kind(p) = PPS)
           /\ addSeiSlice' = (addSeiSlice \/ Kind(p) = SEI)
           /\ UNCHANGED <<frameInfo, frameCount, phase>>
        \/ /\ Kind(p) \notin {SEI, SPS, PPS}
           /\ EnterFrame(position', FrameLen(len))
           /\ FlagsAfterFrame
    BY <1>1, <1>5 DEF ParseNalu, table
  <1>10. Parses(p, e, len)
    BY ONLY <1>3, <1>4, <1>5, <1>6, <1>7, <1>8 DEF Parses
  <1>11. Passes(p) \/ Enters(p, e, len)
    BY ONLY <1>8, <1>9 DEF Passes, Enters, EnterFrame, Row
  <1> QED
    BY ONLY <1>10, <1>11

LEMMA ParseScans ==
  ASSUME TypeOK, Scanned, NEW p, NEW e, NEW len, Parses(p, e, len),
         Passes(p) \/ Enters(p, e, len)
  PROVE  /\ Scanned'
         /\ p \notin FrameStarts => Passes(p)
         /\ p \in FrameStarts =>
              /\ Enters(p, e, len)
              /\ Cardinality(UpTo(FrameStarts, p)) = Len(frameInfo) + 1
  <1>1. PICK F : F = FrameStarts
    OBVIOUS
  <1>2. PICK n \in Nat : n = Len(input)
    BY StartsFacts
  <1>3. PICK m : m = position
    OBVIOUS
  <1>4. /\ F \in SUBSET (1 .. n) /\ m \in 0 .. n
        /\ \A q \in F : q \in Starts
    BY <1>1, <1>2, <1>3, StartsFacts DEF TypeOK
  <1>5. /\ p = m + 1 /\ p \in Starts /\ e \in p .. n
        /\ \A q \in Starts : q <= e => q <= m \/ q = p
        /\ position' = e /\ input' = input
    BY ONLY <1>2, <1>3, Parses(p, e, len) DEF Parses
  <1>6. /\ Len(frameInfo) = Cardinality(UpTo(F, m))
        /\ FrameStarts' = F
    BY <1>1, <1>3, <1>5, InputFixed DEF Scanned
  <1>7. /\ e \in Nat /\ m \in Nat /\ m <= e /\ m < p /\ p <= e /\ p \in Nat /\ m <= p
    BY ONLY <1>4, <1>5
  <1>8. \A q \in F : q <= e => q <= m \/ q = p
    BY ONLY <1>4, <1>5
  <1>9. (position = 0 \/ input[1] = H)'
        /\ (position = 0 \/ position = Len(input) \/ input[position + 1] = H)'
    BY DEF Parses
  <1>10. p \in F <=> Kind(p) \notin {SEI, SPS, PPS}
    BY <1>1, <1>5 DEF FrameStarts
  <1>11. CASE p \notin F
    <2>1. Passes(p)
      BY <1>10, <1>11 DEF Enters
    <2>2. \A q \in F : q <= e => q <= m
      BY ONLY <1>8, <1>11
    <2>3. Cardinality(UpTo(F, e)) = Cardinality(UpTo(F, m))
      BY ONLY <1>4, <1>7, <2>2, CountMonotonic, n \in Nat, Zenon
    <2>4. frameInfo' = frameInfo
      BY <2>1 DEF Passes
    <2>5. (Len(frameInfo) = Cardinality(UpTo(FrameStarts, position)))'
      BY ONLY <1>5, <1>6, <2>3, <2>4
    <2> QED
      BY ONLY <1>1, <1>9, <1>11, <2>1, <2>5 DEF Scanned
  <1>12. CASE p \in F
    <2>1. Enters(p, e, len)
      BY <1>10, <1>12 DEF Passes
    <2>2. /\ Cardinality(UpTo(F, e)) = Cardinality(UpTo(F, m)) + 1
      BY ONLY <1>4, <1>7, <1>8, <1>12, CountNext, n \in Nat, Zenon
    <2>3. \A q \in F : q <= p => q <= m \/ q = p
      <3>1. \A q \in F : q \in Nat
        BY ONLY <1>4
      <3> QED
        BY ONLY <3>1, <1>7, <1>8
    <2>4. Cardinality(UpTo(F, p)) = Cardinality(UpTo(F, m)) + 1
      <3>1. p <= p
        BY ONLY <1>7
      <3> QED
        BY ONLY <3>1, <1>4, <1>7, <1>12, <2>3, CountNext, n \in Nat, Zenon
    <2>5. Len(frameInfo') = Len(frameInfo) + 1
      <3>1. frameInfo' = Append(frameInfo, Row(e, FrameLen(len)))
        BY <2>1 DEF Enters
      <3>2. frameInfo \in Seq(FrameInfos)
        BY DEF TypeOK, FrameInfos
      <3> HIDE DEF Row, FrameLen, FrameInfos
      <3> QED
        BY ONLY <3>1, <3>2
    <2>6. (Len(frameInfo) = Cardinality(UpTo(FrameStarts, position)))'
      BY ONLY <1>5, <1>6, <2>2, <2>5
    <2> QED
      BY ONLY <1>1, <1>6, <1>9, <1>12, <2>1, <2>4, <2>6 DEF Scanned
  <1> QED
    BY ONLY <1>11, <1>12

-----------------------------------------------------------------------------
(***************************************************************************)
(* The table of frames: its k-th row is that of the k-th frame of the      *)
(* file, ends where that frame ends and holds the whole of it.             *)
(***************************************************************************)
RowOf(info, k, p) ==
  /\ Cardinality(UpTo(FrameStarts, p)) = k
  /\ p <= position /\ p <= NaluEnd(p - 1)
  /\ info.positionInFile + info.size = NaluEnd(p - 1)
  /\ info.size >= NaluEnd(p - 1) - p + 1

Rows ==
  \A k \in 1 .. Len(frameInfo) : \E p \in FrameStarts : RowOf(frameInfo[k], k, p)

LEMMA ParseKeepsRows ==
  ASSUME TypeOK, Scanned, Rows, NEW p, NEW e, NEW len, Parses(p, e, len),
         Passes(p) \/ Enters(p, e, len)
  PROVE  Rows'
  <1>1. /\ FrameStarts' = FrameStarts
        /\ \A q : NaluEnd(q)' = NaluEnd(q)
    BY InputFixed DEF Parses
  <1>2. /\ p \in Nat /\ e \in Nat /\ position \in Nat /\ position' = e
        /\ p = position + 1 /\ p <= e /\ position <= e /\ NaluEnd(p - 1) = e
        /\ len \in Nat /\ len >= e - position
        /\ seiLen \in Nat /\ spsLen \in Nat /\ ppsLen \in Nat
        /\ p \in Starts
    <2>1. Len(input) \in Nat /\ position \in 0 .. Len(input)
      BY InputFacts DEF TypeOK
    <2>2. seiLen \in Nat /\ spsLen \in Nat /\ ppsLen \in Nat
      BY <2>1 DEF TypeOK
    <2>3. /\ p = position + 1 /\ e \in p .. Len(input) /\ position' = e
          /\ NaluEnd(p - 1) = e
          /\ len \in Nat /\ len >= e - position
          /\ p \in Starts
      BY DEF Parses
    <2> QED
      BY ONLY <2>1, <2>2, <2>3
  <1>3. \A q \in FrameStarts : q \in Nat
    BY StartsFacts
  <1>4. ASSUME NEW k \in 1 .. Len(frameInfo)
        PROVE  \E q \in FrameStarts : RowOf(frameInfo[k], k, q) /\ q <= e
    <2>1. PICK q \in FrameStarts : RowOf(frameInfo[k], k, q)
      BY <1>4 DEF Rows
    <2>2. q <= e
      BY ONLY <1>2, <1>3, <2>1 DEF RowOf
    <2> QED
      BY ONLY <2>1, <2>2
  <1>5. CASE p \notin FrameStarts
    <2>1. frameInfo' = frameInfo
      BY <1>5, ParseScans DEF Passes
    <2>2. ASSUME NEW k \in 1 .. Len(frameInfo')
          PROVE  \E q \in FrameStarts' : RowOf(frameInfo[k], k, q)'
      <3>1. PICK q \in FrameStarts : RowOf(frameInfo[k], k, q) /\ q <= e
        BY ONLY <1>4, <2>1, k \in 1 .. Len(frameInfo')
      <3>2. RowOf(frameInfo[k], k, q)'
        BY ONLY <1>1, <1>2, <2>1, <3>1 DEF RowOf
      <3> QED
        BY ONLY <1>1, <3>2, q \in FrameStarts
    <2> QED
      BY ONLY <2>2 DEF Rows
  <1>6. CASE p \in FrameStarts
    <2>1. /\ Enters(p, e, len)
          /\ Cardinality(UpTo(FrameStarts, p)) = Len(frameInfo) + 1
      BY <1>6, ParseScans
    <2>2. PICK size : size = FrameLen(len)
      OBVIOUS
    <2>3. size \in Nat /\ size >= len
      <3>1. \/ size = len
            \/ size = len + spsLen + ppsLen + seiLen
            \/ size = len + spsLen + ppsLen + 0
        BY <2>2 DEF FrameLen
      <3> QED
        BY ONLY <1>2, <3>1
    <2>4. PICK row : row = Row(e, size)
      OBVIOUS
    <2>5. /\ row \in FrameInfos /\ row.positionInFile + row.size = e
          /\ row.size >= e - p + 1
      <3>1. row.positionInFile = e - size /\ row.size = size
        BY ONLY <2>4 DEF Row
      <3>2. e - size \in Int /\ e - size + size = e /\ size >= e - p + 1
        BY ONLY <1>2, <2>3
      <3>3. row \in FrameInfos
        BY ONLY <2>3, <2>4, <3>2 DEF Row, FrameInfos
      <3> QED
        BY ONLY <3>1, <3>2, <3>3
    <2>6. frameInfo \in Seq(FrameInfos) /\ frameInfo' = Append(frameInfo, row)
      BY <2>1, <2>2, <2>4 DEF TypeOK, FrameInfos, Enters
    <2>7. /\ Len(frameInfo') = Len(frameInfo) + 1 /\ Len(frameInfo) \in Nat
          /\ \A k \in 1 .. Len(frameInfo) : frameInfo'[k] = frameInfo[k]
          /\ frameInfo'[Len(frameInfo) + 1] = row
      <3> HIDE DEF FrameInfos
      <3> QED
        BY ONLY <2>5, <2>6, RowAppended
    <2>8. ASSUME NEW k \in 1 .. Len(frameInfo')
          PROVE  \E q \in FrameStarts' : RowOf(frameInfo[k], k, q)'
      <3>1. CASE k \in 1 .. Len(frameInfo)
        <4>1. PICK q \in FrameStarts : RowOf(frameInfo[k], k, q) /\ q <= e
          BY ONLY <1>4, <3>1
        <4>2. frameInfo'[k] = frameInfo[k]
          BY ONLY <2>7, <3>1
        <4>3. RowOf(frameInfo[k], k, q)'
          BY ONLY <1>1, <1>2, <4>1, <4>2 DEF RowOf
        <4> QED
          BY ONLY <1>1, <4>3, q \in FrameStarts
      <3>2. CASE k = Len(frameInfo) + 1
        <4>1. frameInfo'[k] = row
          BY ONLY <2>7, <3>2
        <4>2. RowOf(frameInfo[k], k, p)'
          BY ONLY <1>1, <1>2, <2>1, <2>5, <3>2, <4>1 DEF RowOf
        <4> QED
          BY ONLY <1>1, <4>2, <1>6
      <3> QED
        BY ONLY <2>7, <3>1, <3>2, k \in 1 .. Len(frameInfo')
    <2> QED
      BY ONLY <2>8 DEF Rows
  <1> QED
    BY <1>5, <1>6

-----------------------------------------------------------------------------
(***************************************************************************)
(* The units since the last frame.  Their kinds are remembered, and if     *)
(* they are different, so is the sum of their lengths.                     *)
(***************************************************************************)
Cur(n) == {q \in Starts : q <= n /\ ~ \E r \in FrameStarts : r \in q .. n}

Kinds(S)    == {Kind(q) : q \in S}
Distinct(S) == \A q, r \in S : Kind(q) = Kind(r) => q = r

Remembered(K) ==
  (IF SPS \in K THEN spsLen ELSE 0) + (IF PPS \in K THEN ppsLen ELSE 0)
    + (IF SEI \in K THEN seiLen ELSE 0)

LeadFrom(b) ==
  /\ Cur(position) = {q \in Starts : b < q /\ q <= position}
  /\ b = position \/ b + 1 \in Starts
  /\ Distinct(Cur(position)) /\ position < Len(input)
       => position - b = Remembered(Kinds(Cur(position)))

LeadKept ==
  Regular =>
    /\ \E b \in 0 .. position : LeadFrom(b)
    /\ addSlice <=> PPS \in Kinds(Cur(position))
    /\ addSeiSlice <=> SEI \in Kinds(Cur(position))

LEMMA CurGrows ==
  ASSUME TypeOK, NEW p, NEW e, NEW len, Parses(p, e, len)
  PROVE  /\ p \notin FrameStarts => Cur(e) = Cur(position) \cup {p}
         /\ p \in FrameStarts => Cur(e) = {}
         /\ Lead(p) = Cur(position)
  <1>1. PICK m : m = position
    OBVIOUS
  <1>2. /\ m \in Nat /\ e \in Nat /\ p = m + 1 /\ p <= e /\ p \in Starts
        /\ \A q \in Starts : q <= e => q <= m \/ q = p
    <2>1. Len(input) \in Nat /\ m \in 0 .. Len(input)
      BY <1>1, InputFacts DEF TypeOK
    <2>2. /\ p = m + 1 /\ e \in p .. Len(input) /\ p \in Starts
          /\ \A q \in Starts : q <= e => q <= m \/ q = p
      BY <1>1 DEF Parses
    <2> QED
      BY ONLY <2>1, <2>2
  <1>3. /\ \A q \in Starts : q \in Nat
        /\ \A q \in FrameStarts : q \in Starts
    BY StartsFacts
  <1>4. Lead(p) = Cur(m)
    <2>1. p - 1 = m /\ \A q \in Starts : q < p <=> q <= m
      BY ONLY <1>2, <1>3
    <2> QED
      BY ONLY <2>1 DEF Lead, Cur
  <1>5. ASSUME p \notin FrameStarts PROVE Cur(e) = Cur(m) \cup {p}
    <2>1. ASSUME NEW q \in Starts
          PROVE  q \in Cur(e) <=> q \in Cur(m) \/ q = p
      <3>1. \A r \in FrameStarts : r \in q .. e <=> r \in q .. m
        BY ONLY <1>2, <1>3, <1>5, q \in Starts
      <3>2. q <= e <=> q <= m \/ q = p
        BY ONLY <1>2, <1>3, q \in Starts
      <3>3. q = p => ~ \E r \in FrameStarts : r \in q .. m
        BY ONLY <1>2, <1>3
      <3> QED
        BY ONLY <3>1, <3>2, <3>3, q \in Starts DEF Cur
    <2>2. \A n : Cur(n) \subseteq Starts
      BY DEF Cur
    <2> QED
      BY ONLY <2>1, <2>2, <1>2
  <1>6. ASSUME p \in FrameStarts PROVE Cur(e) = {}
    <2>1. ASSUME NEW q \in Starts, q <= e PROVE p \in q .. e
      BY ONLY <1>2, <1>3, <2>1
    <2> QED
      BY ONLY <1>6, <2>1 DEF Cur
  <1> QED
    BY ONLY <1>1, <1>4, <1>5, <1>6

LEMMA KindsAre == SEI # SPS /\ SEI # PPS /\ SPS # PPS
  BY DEF SEI, SPS, PPS

LEMMA LeadRegular ==
  ASSUME TypeOK, Regular, NEW p \in FrameStarts
  PROVE  /\ Distinct(Lead(p))
         /\ Kinds(Lead(p)) \in {{}, {SPS, PPS}, {SPS, PPS, SEI}}
  <1>1. PICK L : L = Lead(p)
    OBVIOUS
  <1>2. PICK K : K = Kinds(L)
    OBVIOUS
  <1>3. K \in {{}, {SPS, PPS}, {SPS, PPS, SEI}} /\ Cardinality(L) = Cardinality(K)
    BY <1>1, <1>2 DEF Regular, Kinds
  <1>4. IsFiniteSet(L)
    <2>1. Starts \in SUBSET (1 .. Len(input)) /\ Len(input) \in Nat
      BY StartsFacts
    <2>2. IsFiniteSet(1 .. Len(input))
      BY <2>1, FS_Interval
    <2>3. L \in SUBSET (1 .. Len(input))
      BY <1>1, <2>1 DEF Lead
    <2> QED
      BY ONLY <2>2, <2>3, FS_Subset
  <1>5. PICK f : f = [q \in L |-> Kind(q)]
    OBVIOUS
  <1>6. f \in Surjection(L, K)
    BY ONLY <1>2, <1>5 DEF Surjection, Kinds
  <1>7. f \in Injection(L, K)
    BY ONLY <1>3, <1>4, <1>6, FS_SurjSameCardinalityImpliesInj
  <1>8. Distinct(L)
    BY ONLY <1>5, <1>7 DEF Injection, IsInjective, Distinct
  <1> QED
    BY ONLY <1>1, <1>2, <1>3, <1>8

LEMMA PassKeepsLead ==
  ASSUME TypeOK, LeadKept, NEW p, NEW e, NEW len, Parses(p, e, len), Passes(p)
  PROVE  LeadKept'
  <1> SUFFICES ASSUME Regular'
               PROVE  /\ \E b \in 0 .. position' : LeadFrom(b)'
                      /\ (addSlice <=> PPS \in Kinds(Cur(position)))'
                      /\ (addSeiSlice <=> SEI \in Kinds(Cur(position)))'
    BY DEF LeadKept
  <1>1. /\ input' = input /\ Regular /\ Starts' = Starts /\ FrameStarts' = FrameStarts
        /\ \A q : Kind(q)' = Kind(q)
    BY InputFixed DEF Parses
  <1>2. /\ \A n : Cur(n)' = Cur(n)
        /\ \A S : Kinds(S)' = Kinds(S)
        /\ \A S : Distinct(S)' = Distinct(S)
    BY <1>1 DEF Cur, Kinds, Distinct
  <1>3. PICK m : m = position
    OBVIOUS
  <1>4. /\ m \in Nat /\ e \in Nat /\ p = m + 1 /\ p <= e /\ p \in Starts
        /\ position' = e /\ m < Len(input) /\ Len(input) \in Nat
        /\ len \in Nat /\ (e < Len(input) => len = e - m)
        /\ \A q \in Starts : q \in Nat /\ (q <= e => q <= m \/ q = p)
    <2>1. Len(input) \in Nat /\ m \in 0 .. Len(input) /\ \A q \in Starts : q \in Nat
      BY <1>3, InputFacts, StartsFacts DEF TypeOK
    <2>2. /\ p = m + 1 /\ e \in p .. Len(input) /\ p \in Starts /\ position' = e
          /\ len \in Nat /\ (e < Len(input) => len = e - m)
          /\ \A q \in Starts : q <= e => q <= m \/ q = p
      BY <1>3 DEF Parses
    <2> QED
      BY ONLY <2>1, <2>2
  <1>5. PICK C : C = Cur(m)
    OBVIOUS
  <1>6. Cur(e) = C \cup {p}
    BY <1>3, <1>5, CurGrows DEF Passes, FrameStarts
  <1>7. PICK b \in 0 .. m : LeadFrom(b)
    BY <1>1, <1>3 DEF LeadKept
  <1>8. PICK K : K = Kinds(C)
    OBVIOUS
  <1>18. PICK k : k = Kind(p)
    OBVIOUS
  <1>9. Kinds(C \cup {p}) = K \cup {k}
    BY ONLY <1>8, <1>18 DEF Kinds
  <1>10. /\ C = {q \in Starts : b < q /\ q <= m}
         /\ b = m \/ b + 1 \in Starts
         /\ Distinct(C) /\ m < Len(input) => m - b = Remembered(K)
    BY ONLY <1>3, <1>5, <1>7, <1>8 DEF LeadFrom
  <1>11. Cur(e) = {q \in Starts : b < q /\ q <= e}
    <2>1. \A q \in Starts : b < q /\ q <= e <=> (b < q /\ q <= m) \/ q = p
      BY ONLY <1>4, b \in 0 .. m
    <2> QED
      BY ONLY <1>4, <1>6, <1>10, <2>1
  <1>12. b + 1 \in Starts
    BY ONLY <1>4, <1>10
  <1>13. ASSUME Distinct(C \cup {p}), e < Len(input)
         PROVE  e - b = Remembered(K \cup {k})'
    <2>1. p \notin C
      BY ONLY <1>4, <1>10
    <2>2. k \notin K /\ Distinct(C)
      BY ONLY <1>8, <1>18, <1>13, <2>1 DEF Distinct, Kinds
    <2>3. m - b = Remembered(K)
      BY ONLY <1>4, <1>10, <2>2
    <2>5. /\ k \in {SEI, SPS, PPS}
          /\ seiLen' = (IF k = SEI THEN len ELSE seiLen)
          /\ spsLen' = (IF k = SPS THEN len ELSE spsLen)
          /\ ppsLen' = (IF k = PPS THEN len ELSE ppsLen)
      BY <1>18 DEF Parses, Passes
    <2>6. seiLen \in Nat /\ spsLen \in Nat /\ ppsLen \in Nat
      <3>1. Len(input) \in Nat
        BY InputFacts
      <3> QED
        BY <3>1 DEF TypeOK
    <2>7. PICK r \in Nat : r = Remembered(K)
      BY ONLY <2>6 DEF Remembered
    <2>8. Remembered(K \cup {k})' = len + r
      <3>1. CASE k = SEI
        BY ONLY <1>4, <2>2, <1>18, <2>5, <2>6, <2>7, <3>1, KindsAre DEF Remembered
      <3>2. CASE k = SPS
        BY ONLY <1>4, <2>2, <1>18, <2>5, <2>6, <2>7, <3>2, KindsAre DEF Remembered
      <3>3. CASE k = PPS
        BY ONLY <1>4, <2>2, <1>18, <2>5, <2>6, <2>7, <3>3, KindsAre DEF Remembered
      <3> QED
        BY ONLY <2>5, <3>1, <3>2, <3>3
    <2>9. len + r = e - b
      BY ONLY <1>4, <1>13, <2>3, <2>7, b \in 0 .. m
    <2> QED
      BY ONLY <2>8, <2>9
  <1>14. LeadFrom(b)'
    BY ONLY <1>1, <1>2, <1>4, <1>6, <1>9, <1>11, <1>12, <1>13 DEF LeadFrom
  <1>15. b \in 0 .. position'
    BY ONLY <1>4, b \in 0 .. m
  <1>16. /\ addSlice <=> PPS \in K
         /\ addSeiSlice <=> SEI \in K
    BY <1>1, <1>3, <1>5, <1>8 DEF LeadKept
  <1>17. /\ (addSlice <=> PPS \in Kinds(Cur(position)))'
         /\ (addSeiSlice <=> SEI \in Kinds(Cur(position)))'
    <2>1. /\ addSlice' = (addSlice \/ Kind(p) = PPS)
          /\ addSeiSlice' = (addSeiSlice \/ Kind(p) = SEI)
      BY DEF Passes
    <2>2. /\ addSlice' <=> PPS \in K \cup {k}
          /\ addSeiSlice' <=> SEI \in K \cup {k}
      BY ONLY <1>16, <1>18, <2>1
    <2> QED
      BY ONLY <1>2, <1>4, <1>6, <1>9, <2>2
  <1> QED
    BY ONLY <1>14, <1>15, <1>17

LEMMA EnterKeepsLead ==
  ASSUME TypeOK, LeadKept, NEW p, NEW e, NEW len, Parses(p, e, len),
         Enters(p, e, len)
  PROVE  LeadKept'
  <1> SUFFICES ASSUME Regular'
               PROVE  /\ \E b \in 0 .. position' : LeadFrom(b)'
                      /\ (addSlice <=> PPS \in Kinds(Cur(position)))'
                      /\ (addSeiSlice <=> SEI \in Kinds(Cur(position)))'
    BY DEF LeadKept
  <1>1. /\ input' = input /\ Regular /\ Starts' = Starts /\ FrameStarts' = FrameStarts
        /\ \A q : Kind(q)' = Kind(q)
    BY InputFixed DEF Parses
  <1>2. /\ \A n : Cur(n)' = Cur(n)
        /\ \A S : Kinds(S)' = Kinds(S)
    BY <1>1 DEF Cur, Kinds
  <1>3. p \in FrameStarts
    BY DEF Enters, Parses, FrameStarts
  <1>4. position' = e /\ e \in Nat /\ \A q \in Starts : q \in Nat
    BY StartsFacts, InputFacts DEF Parses
  <1>5. Cur(e) = {} /\ Lead(p) = Cur(position)
    BY <1>3, CurGrows
  <1>6. Kinds({}) = {}
    BY DEF Kinds
  <1>7. LeadFrom(e)'
    <2>1. {q \in Starts : e < q /\ q <= e} = {}
      BY ONLY <1>4
    <2>2. Remembered({})' = 0
      BY ONLY TRUE DEF Remembered
    <2>3. e - e = 0
      BY ONLY <1>4
    <2> QED
      BY ONLY <1>1, <1>2, <1>4, <1>5, <1>6, <2>1, <2>2, <2>3 DEF LeadFrom
  <1>8. addSlice' = FALSE /\ addSeiSlice' = FALSE
    <2>1. PICK K : K = Kinds(Lead(p))
      OBVIOUS
    <2>2. K \in {{}, {SPS, PPS}, {SPS, PPS, SEI}}
      BY <1>1, <1>3, <2>1, LeadRegular
    <2>3. /\ addSlice <=> PPS \in K
          /\ addSeiSlice <=> SEI \in K
      BY <1>1, <1>5, <2>1 DEF LeadKept
    <2>4. addSlice \in BOOLEAN /\ addSeiSlice \in BOOLEAN
      BY DEF TypeOK
    <2>5. SEI \in K => PPS \in K
      BY ONLY <2>2
    <2>6. addSlice' = FALSE /\ addSeiSlice' = IF addSlice THEN FALSE ELSE addSeiSlice
      BY DEF Enters, FlagsAfterFrame
    <2>7. ~ addSlice => addSeiSlice = FALSE
      BY ONLY <2>3, <2>4, <2>5
    <2> QED
      BY ONLY <2>6, <2>7
  <1>9. /\ (addSlice <=> PPS \in Kinds(Cur(position)))'
        /\ (addSeiSlice <=> SEI \in Kinds(Cur(position)))'
    BY ONLY <1>2, <1>4, <1>5, <1>6, <1>8
  <1>10. e \in 0 .. position'
    BY ONLY <1>4
  <1> QED
    BY ONLY <1>7, <1>9, <1>10

-----------------------------------------------------------------------------
(***************************************************************************)
(* Where an access unit begins, and that the row of its frame begins there *)
(* too, but for a row made with the length of the last unit.               *)
(***************************************************************************)
UnitBegin(p) == CHOOSE q \in Lead(p) \cup {p} : \A r \in Lead(p) : q <= r

LEMMA UnitBeginIs ==
  ASSUME TypeOK, NEW p \in Starts, NEW b \in 0 .. p - 1,
         Lead(p) = {q \in Starts : b < q /\ q <= p - 1},
         b = p - 1 \/ b + 1 \in Starts
  PROVE  UnitBegin(p) = b + 1
  <1>1. PICK L : L = Lead(p)
    OBVIOUS
  <1>2. /\ p \in Nat /\ b \in Nat
        /\ \A q : q \in L <=> q \in Starts /\ b < q /\ q <= p - 1
        /\ \A q \in L : q \in Nat
    <2>1. \A q \in Starts : q \in Nat
      BY StartsFacts
    <2>2. \A q : q \in L <=> q \in Starts /\ b < q /\ q <= p - 1
      BY ONLY <1>1, Lead(p) = {q \in Starts : b < q /\ q <= p - 1}
    <2>3. p \in Nat
      BY <2>1
    <2>4. b \in Nat
      BY ONLY <2>3, b \in 0 .. p - 1
    <2>5. \A q \in L : q \in Nat
      BY ONLY <2>1, <2>2
    <2> QED
      BY ONLY <2>2, <2>3, <2>4, <2>5
  <1>3. \A r \in L : b + 1 <= r
    BY ONLY <1>2
  <1>4. b + 1 \in L \cup {p}
    <2>1. CASE b = p - 1
      BY ONLY <1>2, <2>1
    <2>2. CASE b # p - 1
      <3>1. b + 1 \in Starts
        BY <2>2
      <3>2. b < b + 1 /\ b + 1 <= p - 1
        BY ONLY <1>2, <2>2, b \in 0 .. p - 1
      <3> QED
        BY ONLY <1>2, <3>1, <3>2
    <2> QED
      BY <2>1, <2>2
  <1>5. ASSUME NEW q \in L \cup {p}, \A r \in L : q <= r
        PROVE  q = b + 1
    <2>1. CASE b + 1 \in L
      <3>1. q <= b + 1
        BY ONLY <1>5, <2>1
      <3>2. q \in L \/ (q = p /\ b + 1 <= p - 1)
        BY ONLY <1>2, <2>1, q \in L \cup {p}
      <3> QED
        BY ONLY <1>2, <1>3, <3>1, <3>2
    <2>2. CASE b + 1 \notin L
      <3>1. b + 1 = p
        BY ONLY <1>4, <2>2
      <3>2. q \notin L
        BY ONLY <1>2, <3>1
      <3> QED
        BY ONLY <3>1, <3>2, q \in L \cup {p}
    <2> QED
      BY ONLY <2>1, <2>2
  <1>6. (CHOOSE q \in L \cup {p} : \A r \in L : q <= r) = b + 1
    BY ONLY <1>3, <1>4, <1>5
  <1> QED
    BY ONLY <1>1, <1>6 DEF UnitBegin

Aligned ==
  Regular =>
    \A k \in 1 .. Len(frameInfo) :
      k < Len(frameInfo) \/ position < Len(input) =>
        frameInfo[k].positionInFile + 1 = UnitBegin(NthFrame(k))

LEMMA MoreFixed ==
  ASSUME input' = input
  PROVE  \A k : UnitBegin(k)' = UnitBegin(k) /\ NthFrame(k)' = NthFrame(k)
  <1>1. FrameStarts' = FrameStarts /\ \A k : Lead(k)' = Lead(k)
    BY InputFixed
  <1> QED
    BY ONLY <1>1 DEF UnitBegin, NthFrame

LEMMA NewRowAligned ==
  ASSUME TypeOK, LeadKept, Regular, NEW p, NEW e, NEW len, Parses(p, e, len),
         Enters(p, e, len), e < Len(input)
  PROVE  e - FrameLen(len) + 1 = UnitBegin(p)
  <1>1. p \in FrameStarts
    BY DEF Enters, Parses, FrameStarts
  <1>2. PICK m : m = position
    OBVIOUS
  <1>3. /\ m \in Nat /\ e \in Nat /\ p = m + 1 /\ p \in Starts
        /\ m < Len(input) /\ len = e - m /\ m = p - 1 /\ len \in Nat
    <2>1. Len(input) \in Nat /\ m \in 0 .. Len(input)
      BY <1>2, InputFacts DEF TypeOK
    <2>2. p = m + 1 /\ e \in p .. Len(input) /\ p \in Starts /\ len = e - m
          /\ len \in Nat
      BY <1>2 DEF Parses
    <2> QED
      BY ONLY <2>1, <2>2
  <1>4. Lead(p) = Cur(m)
    BY <1>2, CurGrows
  <1>5. PICK b \in 0 .. m : LeadFrom(b)
    BY <1>2 DEF LeadKept
  <1>6. PICK K : K = Kinds(Lead(p))
    OBVIOUS
  <1>7. Distinct(Lead(p)) /\ K \in {{}, {SPS, PPS}, {SPS, PPS, SEI}}
    BY <1>1, <1>6, LeadRegular
  <1>8. /\ Lead(p) = {q \in Starts : b < q /\ q <= m}
        /\ b = m \/ b + 1 \in Starts
        /\ m - b = Remembered(K)
    BY ONLY <1>2, <1>3, <1>4, <1>5, <1>6, <1>7 DEF LeadFrom
  <1>9. UnitBegin(p) = b + 1
    <2>1. Lead(p) = {q \in Starts : b < q /\ q <= p - 1}
      BY ONLY <1>3, <1>8
    <2>2. (b = p - 1 \/ b + 1 \in Starts) /\ b \in 0 .. p - 1 /\ p \in Starts
      BY ONLY <1>3, <1>8, b \in 0 .. m
    <2> QED
      BY ONLY <2>1, <2>2, TypeOK, UnitBeginIs
  <1>10. /\ addSlice <=> PPS \in K
         /\ addSeiSlice <=> SEI \in K
    BY <1>2, <1>4, <1>6 DEF LeadKept
  <1>11. seiLen \in Nat /\ spsLen \in Nat /\ ppsLen \in Nat
    <2>1. Len(input) \in Nat
      BY InputFacts
    <2> QED
      BY <2>1 DEF TypeOK
  <1>12. FrameLen(len) = len + Remembered(K)
    <2>1. CASE K = {}
      <3>1. ~ addSlice /\ Remembered(K) = 0
        BY ONLY <1>10, <2>1 DEF Remembered
      <3> QED
        BY ONLY <1>3, <3>1 DEF FrameLen
    <2>2. CASE K = {SPS, PPS}
      <3>1. addSlice /\ ~ addSeiSlice /\ Remembered(K) = spsLen + ppsLen + 0
        BY ONLY <1>10, <2>2, KindsAre DEF Remembered
      <3> QED
        BY ONLY <1>3, <1>11, <3>1 DEF FrameLen
    <2>3. CASE K = {SPS, PPS, SEI}
      <3>1. addSlice /\ addSeiSlice /\ Remembered(K) = spsLen + ppsLen + seiLen
        BY ONLY <1>10, <2>3 DEF Remembered
      <3> QED
        BY ONLY <1>3, <1>11, <3>1 DEF FrameLen
    <2> QED
      BY ONLY <1>7, <2>1, <2>2, <2>3
  <1>13. e - (len + (m - b)) + 1 = b + 1
    BY ONLY <1>3, b \in 0 .. m
  <1> QED
    BY ONLY <1>8, <1>9, <1>12, <1>13

LEMMA ParseKeepsAligned ==
  ASSUME TypeOK, Scanned, LeadKept, Aligned, NEW p, NEW e, NEW len,
         Parses(p, e, len), Passes(p) \/ Enters(p, e, len)
  PROVE  Aligned'
  <1> SUFFICES ASSUME Regular', NEW k \in 1 .. Len(frameInfo'),
                      k < Len(frameInfo') \/ position' < Len(input')
               PROVE  frameInfo'[k].positionInFile + 1 = UnitBegin(NthFrame(k))'
    BY DEF Aligned
  <1>1. /\ input' = input /\ Regular /\ position' = e /\ position < Len(input)
        /\ e <= Len(input) /\ Len(input) \in Nat /\ e \in Nat
    <2>1. /\ input' = input /\ position' = e /\ p = position + 1 /\ e \in p .. Len(input)
      BY DEF Parses
    <2>2. Len(input) \in Nat /\ position \in 0 .. Len(input)
      BY InputFacts DEF TypeOK
    <2>3. Regular
      BY <2>1, InputFixed
    <2> QED
      BY ONLY <2>1, <2>2, <2>3
  <1>2. UnitBegin(NthFrame(k))' = UnitBegin(NthFrame(k))
    BY ONLY <1>1, MoreFixed
  <1>3. \A j \in 1 .. Len(frameInfo) :
          frameInfo[j].positionInFile + 1 = UnitBegin(NthFrame(j))
    BY <1>1 DEF Aligned
  <1>4. CASE p \notin FrameStarts
    <2>1. frameInfo' = frameInfo
      BY <1>4, ParseScans DEF Passes
    <2> QED
      BY ONLY <1>2, <1>3, <2>1, k \in 1 .. Len(frameInfo')
  <1>5. CASE p \in FrameStarts
    <2>1. /\ Enters(p, e, len)
          /\ Cardinality(UpTo(FrameStarts, p)) = Len(frameInfo) + 1
      BY <1>5, ParseScans
    <2>2. PICK row : row = Row(e, FrameLen(len))
      OBVIOUS
    <2>3. row \in FrameInfos /\ row.positionInFile = e - FrameLen(len)
      <3>1. FrameLen(len) \in Nat
        <4>1. len \in Nat /\ Len(input) \in Nat
          BY InputFacts DEF Parses
        <4>2. seiLen \in Nat /\ spsLen \in Nat /\ ppsLen \in Nat
          BY <4>1 DEF TypeOK
        <4> QED
          BY ONLY <4>1, <4>2 DEF FrameLen
      <3> QED
        BY ONLY <1>1, <2>2, <3>1 DEF Row, FrameInfos
    <2>4. frameInfo \in Seq(FrameInfos) /\ frameInfo' = Append(frameInfo, row)
      BY <2>1, <2>2 DEF TypeOK, FrameInfos, Enters
    <2>5. /\ Len(frameInfo') = Len(frameInfo) + 1 /\ Len(frameInfo) \in Nat
          /\ \A j \in 1 .. Len(frameInfo) : frameInfo'[j] = frameInfo[j]
          /\ frameInfo'[Len(frameInfo) + 1] = row
      <3> HIDE DEF FrameInfos
      <3> QED
        BY ONLY <2>3, <2>4, RowAppended
    <2>6. CASE k \in 1 .. Len(frameInfo)
      BY ONLY <1>2, <1>3, <2>5, <2>6
    <2>7. CASE k = Len(frameInfo) + 1
      <3>1. e < Len(input)
        BY ONLY <1>1, <2>5, <2>7, k < Len(frameInfo') \/ position' < Len(input')
      <3>2. NthFrame(k) = p
        BY <1>5, <2>1, <2>7, NthFrameIs
      <3>3. e - FrameLen(len) + 1 = UnitBegin(p)
        BY <1>1, <2>1, <3>1, NewRowAligned
      <3> QED
        BY ONLY <1>2, <2>3, <2>5, <2>7, <3>2, <3>3
    <2> QED
      BY ONLY <2>5, <2>6, <2>7, k \in 1 .. Len(frameInfo')
  <1> QED
    BY <1>4, <1>5

-----------------------------------------------------------------------------
(***************************************************************************)
(* What has been written is what the rows of the table say, and the table  *)
(* is written only once the file has been parsed to its end or the table   *)
(* is full.                                                                *)
(***************************************************************************)
Copied ==
  /\ phase \in {"open", "parse"} => tmp = << >>
  /\ \A k \in 1 .. Len(tmp) :
       tmp[k] = SubSeq(input, frameInfo[k].positionInFile + 1,
                       frameInfo[k].positionInFile + frameInfo[k].size)
                  \o S_frameAudInfo

Ending ==
  /\ phase \in {"write", "written", "crashed"} =>
       Len(frameInfo) = Cardinality(FrameStarts) \/ Len(frameInfo) = FrameMaxCount + 1
  /\ phase = "written" => Len(tmp) = frameCount

Faithful == Sound /\ Scanned /\ Rows /\ LeadKept /\ Aligned /\ Copied /\ Ending

LEMMA FaithfulInit == Init => Faithful
  <1> SUFFICES ASSUME Init PROVE Faithful
    OBVIOUS
  <1>1. Sound
    BY SoundInit
  <1>2. /\ position = 0 /\ frameInfo = << >> /\ tmp = << >> /\ phase = "open"
        /\ addSlice = FALSE /\ addSeiSlice = FALSE
    BY DEF Init
  <1>3. Len(frameInfo) = 0 /\ Len(tmp) = 0
    BY ONLY <1>2
  <1>4. \A q \in Starts : q \in Nat \ {0}
    BY <1>1, StartsFacts DEF Sound
  <1>5. UpTo(FrameStarts, 0) = {}
    BY ONLY <1>4 DEF UpTo, FrameStarts
  <1>6. Scanned
    BY ONLY <1>2, <1>3, <1>5, FS_EmptySet DEF Scanned
  <1>7. Rows /\ Aligned /\ Copied
    BY ONLY <1>2, <1>3 DEF Rows, Aligned, Copied
  <1>8. Cur(0) = {} /\ Kinds({}) = {}
    BY ONLY <1>4 DEF Cur, Kinds
  <1>9. LeadFrom(0)
    <2>1. {q \in Starts : 0 < q /\ q <= 0} = {}
      BY ONLY <1>4
    <2>2. Remembered({}) = 0
      BY ONLY TRUE DEF Remembered
    <2>3. /\ Cur(position) = {q \in Starts : 0 < q /\ q <= position}
          /\ position - 0 = Remembered(Kinds(Cur(position)))
      <3>1. position = 0 /\ 0 - 0 = 0
        BY <1>2
      <3> QED
        BY ONLY <1>8, <2>1, <2>2, <3>1
    <2>4. position = 0
      BY <1>2
    <2> QED
      BY ONLY <2>3, <2>4 DEF LeadFrom
  <1>10. LeadKept
    BY ONLY <1>2, <1>8, <1>9 DEF LeadKept
  <1>11. Ending
    BY ONLY <1>2 DEF Ending
  <1> QED
    BY ONLY <1>1, <1>6, <1>7, <1>10, <1>11 DEF Faithful

(***************************************************************************)
(* What the parser keeps, the other actions do not touch.                  *)
(***************************************************************************)
LEMMA Untouched ==
  ASSUME UNCHANGED <<input, units, frameInfo>>, Scanned, Rows, LeadKept, Aligned
  PROVE  Scanned' /\ Rows' /\ LeadKept' /\ Aligned'
  <1>1. /\ input' = input /\ position' = position /\ frameInfo' = frameInfo
        /\ seiLen' = seiLen /\ spsLen' = spsLen /\ ppsLen' = ppsLen
        /\ addSlice' = addSlice /\ addSeiSlice' = addSeiSlice
    BY DEF units
  <1>2. /\ Starts' = Starts /\ FrameStarts' = FrameStarts /\ Regular' = Regular
        /\ \A p : Kind(p)' = Kind(p) /\ NaluEnd(p)' = NaluEnd(p)
        /\ \A k : UnitBegin(k)' = UnitBegin(k) /\ NthFrame(k)' = NthFrame(k)
    BY ONLY <1>1, InputFixed, MoreFixed
  <1>3. Scanned'
    BY <1>1, <1>2 DEF Scanned
  <1>4. Rows'
    <2>1. \A info, k, p : RowOf(info, k, p)' <=> RowOf(info, k, p)
      BY ONLY <1>1, <1>2 DEF RowOf
    <2> QED
      BY <1>1, <1>2, <2>1 DEF Rows
  <1>5. /\ \A n : Cur(n)' = Cur(n)
        /\ \A S : Kinds(S)' = Kinds(S)
        /\ \A S : Distinct(S)' = Distinct(S)
        /\ \A S : Remembered(S)' = Remembered(S)
    BY ONLY <1>1, <1>2 DEF Cur, Kinds, Distinct, Remembered
  <1>6. \A b : LeadFrom(b)' = LeadFrom(b)
    BY ONLY <1>1, <1>2, <1>5 DEF LeadFrom
  <1>7. LeadKept'
    BY <1>1, <1>2, <1>5, <1>6 DEF LeadKept
  <1>8. Aligned'
    BY <1>1, <1>2 DEF Aligned
  <1> QED
    BY ONLY <1>3, <1>4, <1>7, <1>8

LEMMA ParseKeepsFaithful == ASSUME Faithful, ParseNalu PROVE Faithful'
  <1>1. Sound' /\ TypeOK
    BY ParseKeepsSound DEF Faithful, Sound
  <1>2. PICK p, e, len : Parses(p, e, len) /\ (Passes(p) \/ Enters(p, e, len))
    BY <1>1, ParseIs DEF Faithful
  <1>3. Scanned'
    BY <1>1, <1>2, ParseScans DEF Faithful
  <1>4. Rows'
    BY <1>1, <1>2, ParseKeepsRows DEF Faithful
  <1>5. LeadKept'
    BY <1>1, <1>2, PassKeepsLead, EnterKeepsLead DEF Faithful
  <1>6. Aligned'
    BY <1>1, <1>2, ParseKeepsAligned DEF Faithful
  <1>7. tmp = << >> /\ tmp' = << >>
    BY <1>2 DEF Parses, Faithful, Copied
  <1>8. Copied'
    BY ONLY <1>7 DEF Copied
  <1>9. Ending'
    <2>1. phase = "parse" /\ FrameMaxCount \in Nat
      BY <1>2, FrameMaxCountAssumption DEF Parses
    <2>2. Len(frameInfo) <= FrameMaxCount /\ Len(frameInfo) \in Nat
      BY <2>1 DEF Faithful, Sound, Table, TypeOK
    <2>3. \/ phase' = "parse"
          \/ phase' = "write" /\ Len(frameInfo) >= FrameMaxCount
               /\ Len(frameInfo') = Len(frameInfo) + 1
      <3>1. CASE Passes(p)
        BY <2>1, <3>1 DEF Passes
      <3>2. CASE Enters(p, e, len)
        <4>1. frameInfo \in Seq(FrameInfos)
          BY <1>1 DEF TypeOK, FrameInfos
        <4>2. PICK row : frameInfo' = Append(frameInfo, row)
          BY <3>2 DEF Enters
        <4>3. Len(frameInfo') = Len(frameInfo) + 1
          <5> HIDE DEF FrameInfos
          <5> QED
            BY ONLY <4>1, <4>2
        <4> QED
          BY <2>1, <3>2, <4>3 DEF Enters
      <3> QED
        BY <1>2, <3>1, <3>2
    <2>4. Len(frameInfo) >= FrameMaxCount => Len(frameInfo) + 1 = FrameMaxCount + 1
      BY ONLY <2>1, <2>2
    <2> QED
      BY ONLY <2>3, <2>4 DEF Ending
  <1> QED
    BY ONLY <1>1, <1>3, <1>4, <1>5, <1>6, <1>8, <1>9 DEF Faithful

LEMMA WriteKeepsFaithful == ASSUME Faithful, WriteFrame PROVE Faithful'
  <1>1. Sound /\ Sound'
    BY WriteKeepsSound DEF Faithful
  <1>2. UNCHANGED <<input, units, frameInfo, frameCount>>
        /\ phase = "write" /\ phase' = "write"
    BY DEF WriteFrame, Writing, table
  <1>3. Scanned' /\ Rows' /\ LeadKept' /\ Aligned'
    BY <1>2, Untouched DEF Faithful
  <1>4. PICK info, w :
           /\ info = frameInfo[Len(tmp) + 1]
           /\ w = SubSeq(input, info.positionInFile + 1,
                         info.positionInFile + info.size) \o S_frameAudInfo
           /\ tmp' = Append(tmp, w)
    BY <1>1, WriteIs
  <1>5. PICK T : tmp \in Seq(T) /\ w \in T
    <2>1. PICK i2, w2 : w2 \in Seq(Symbols) /\ tmp' = Append(tmp, w2)
      BY <1>1, WriteIs
    <2>2. tmp \in Seq(Seq(Symbols \cup {Zero}))
      BY <1>1 DEF Sound, TypeOK
    <2>3. PICK T : T = Seq(Symbols \cup {Zero}) \cup {w}
      OBVIOUS
    <2>4. tmp \in Seq(T)
      <3>1. PICK U : U = Seq(Symbols \cup {Zero})
        OBVIOUS
      <3> QED
        BY ONLY <2>2, <2>3, <3>1
    <2> QED
      BY ONLY <2>3, <2>4
  <1>6. /\ Len(tmp') = Len(tmp) + 1 /\ Len(tmp) \in Nat
        /\ \A k \in 1 .. Len(tmp) : tmp'[k] = tmp[k]
        /\ tmp'[Len(tmp) + 1] = w
    <2>1. tmp' = Append(tmp, w)
      BY <1>4
    <2>2. PICK s : s = tmp
      OBVIOUS
    <2>3. s \in Seq(T) /\ w \in T
      BY ONLY <1>5, <2>2
    <2>4. /\ Len(Append(s, w)) = Len(s) + 1 /\ Len(s) \in Nat
          /\ \A k \in 1 .. Len(s) : Append(s, w)[k] = s[k]
          /\ Append(s, w)[Len(s) + 1] = w
      BY ONLY <2>3
    <2> QED
      BY ONLY <2>1, <2>2, <2>4
  <1>7. ASSUME NEW k \in 1 .. Len(tmp')
        PROVE  tmp'[k] = SubSeq(input, frameInfo[k].positionInFile + 1,
                                frameInfo[k].positionInFile + frameInfo[k].size)
                           \o S_frameAudInfo
    <2>1. CASE k \in 1 .. Len(tmp)
      BY <1>6, <2>1 DEF Faithful, Copied
    <2>2. CASE k = Len(tmp) + 1
      BY ONLY <1>4, <1>6, <2>2
    <2>3. k \in 1 .. Len(tmp) \/ k = Len(tmp) + 1
      BY ONLY <1>6, k \in 1 .. Len(tmp')
    <2> QED
      BY ONLY <2>1, <2>2, <2>3
  <1>8. Copied'
    BY ONLY <1>2, <1>7 DEF Copied
  <1>9. Ending'
    <2>1. FrameStarts' = FrameStarts
      BY <1>2, InputFixed
    <2> QED
      BY <1>2, <2>1 DEF Ending, Faithful
  <1> QED
    BY ONLY <1>1, <1>3, <1>8, <1>9 DEF Faithful

LEMMA ScannedAll ==
  ASSUME TypeOK, Scanned, ~ NaluFound(position)
  PROVE  Len(frameInfo) = Cardinality(FrameStarts)
  <1>1. Len(input) \in Nat /\ position \in 0 .. Len(input)
    BY InputFacts DEF TypeOK
  <1>2. /\ FrameStarts \in SUBSET (1 .. Len(input))
        /\ Len(frameInfo) = Cardinality(UpTo(FrameStarts, position))
    BY StartsFacts DEF Scanned
  <1>3. CASE position = Len(input)
    <2>1. UpTo(FrameStarts, Len(input)) = FrameStarts
      BY ONLY <1>1, <1>2, CountFacts
    <2> QED
      BY ONLY <1>2, <1>3, <2>1
  <1>4. CASE position # Len(input)
    <2>1. position < Len(input) /\ input[position + 1] # H
      BY ONLY <1>1, <1>4, ~ NaluFound(position) DEF NaluFound
    <2>2. position = 0 /\ input[1] # H
      <3>1. position = 0
        BY <1>4, <2>1 DEF Scanned
      <3> QED
        BY ONLY <2>1, <3>1
    <2>3. Starts = {}
      BY ONLY <2>2 DEF Starts
    <2>4. FrameStarts = {} /\ UpTo(FrameStarts, position) = {}
      BY ONLY <2>3 DEF FrameStarts, UpTo
    <2> QED
      BY ONLY <1>2, <2>4
  <1> QED
    BY ONLY <1>3, <1>4

LEMMA FaithfulStep == Faithful /\ [Next]_insertVars => Faithful'
  <1> SUFFICES ASSUME Faithful, [Next]_insertVars PROVE Faithful'
    OBVIOUS
  <1>1. CASE ParseNalu
    BY <1>1, ParseKeepsFaithful
  <1>2. CASE WriteFrame
    BY <1>2, WriteKeepsFaithful
  <1>3. CASE OpenFiles \/ ParseEnds \/ WriteCrashes \/ WriteEnds \/ UNCHANGED insertVars
    <2>1. UNCHANGED <<input, units, frameInfo, frameCount, tmp>>
      BY <1>3 DEF OpenFiles, ParseEnds, WriteCrashes, WriteEnds, table, insertVars
    <2>2. Sound /\ Sound'
      BY SoundStep DEF Faithful
    <2>3. Scanned' /\ Rows' /\ LeadKept' /\ Aligned'
      BY <2>1, Untouched DEF Faithful
    <2>4. \/ phase = "open" /\ phase' \in {"parse", "exited"}
          \/ phase = "parse" /\ phase' = "write" /\ ~ NaluFound(position)
          \/ phase = "write" /\ phase' = "crashed"
          \/ phase = "write" /\ phase' = "written" /\ ~ (Len(tmp) < frameCount)
          \/ phase' = phase
      BY <1>3 DEF OpenFiles, ParseEnds, WriteCrashes, WriteEnds, Writing, insertVars
    <2>5. Copied'
      BY <2>1, <2>4 DEF Faithful, Copied
    <2>6. FrameStarts' = FrameStarts
      BY <2>1, InputFixed
    <2>7. ~ NaluFound(position) => Len(frameInfo) = Cardinality(FrameStarts)
      BY ScannedAll DEF Faithful, Sound
    <2>8. ~ (Len(tmp) < frameCount) => Len(tmp) = frameCount
      <3>1. Len(tmp) \in Nat /\ frameCount \in Nat /\ Len(tmp) <= frameCount
        BY <2>2 DEF Sound, TypeOK
      <3> QED
        BY ONLY <3>1
    <2>9. Ending'
      <3>1. Ending
        BY DEF Faithful
      <3> QED
        BY ONLY <2>1, <2>4, <2>6, <2>7, <2>8, <3>1 DEF Ending
    <2> QED
      BY ONLY <2>2, <2>3, <2>5, <2>9 DEF Faithful
  <1> QED
    BY <1>1, <1>2, <1>3 DEF Next

LEMMA TailOf ==
  ASSUME NEW T, NEW s \in Seq(T), NEW a \in Seq(T), NEW b \in Nat, NEW p \in Nat,
         NEW c \in Nat, b < p, p <= c, c <= Len(s)
  PROVE  EndsWith(SubSeq(s, b + 1, c) \o a, SubSeq(s, p, c) \o a)
  <1>1. PICK x : x = SubSeq(s, b + 1, c)
    OBVIOUS
  <1>2. PICK y : y = SubSeq(s, p, c)
    OBVIOUS
  <1>3. /\ x \in Seq(T) /\ Len(x) = c - b
        /\ y \in Seq(T) /\ Len(y) = c - p + 1
        /\ \A i \in 1 .. Len(y) : y[i] = x[i + (p - b - 1)]
    <2>1. /\ x \in Seq(T) /\ Len(x) = c - b
          /\ \A i \in 1 .. c - b : x[i] = s[i + b]
      BY <1>1
    <2>2. /\ y \in Seq(T) /\ Len(y) = c - p + 1
          /\ \A i \in 1 .. c - p + 1 : y[i] = s[i + p - 1]
      BY <1>2
    <2>3. ASSUME NEW i \in 1 .. Len(y) PROVE y[i] = x[i + (p - b - 1)]
      <3>1. PICK j : j = i + (p - b - 1)
        OBVIOUS
      <3>2. j \in 1 .. c - b /\ j + b = i + p - 1 /\ i \in 1 .. c - p + 1
        BY ONLY <2>2, <2>3, <3>1, b \in Nat, p \in Nat, c \in Nat, b < p, p <= c
      <3>3. x[j] = s[j + b] /\ y[i] = s[i + p - 1]
        BY ONLY <2>1, <2>2, <3>2
      <3> QED
        BY ONLY <3>1, <3>2, <3>3
    <2> QED
      BY ONLY <2>1, <2>2, <2>3
  <1>4. PICK u : u = x \o a
    OBVIOUS
  <1>5. PICK v : v = y \o a
    OBVIOUS
  <1>6. /\ u \in Seq(T) /\ Len(u) = Len(x) + Len(a)
        /\ \A i \in 1 .. Len(x) + Len(a) :
             u[i] = IF i <= Len(x) THEN x[i] ELSE a[i - Len(x)]
    BY ONLY <1>3, <1>4, ConcatProperties, a \in Seq(T), Zenon
  <1>7. /\ v \in Seq(T) /\ Len(v) = Len(y) + Len(a)
        /\ \A i \in 1 .. Len(y) + Len(a) :
             v[i] = IF i <= Len(y) THEN y[i] ELSE a[i - Len(y)]
    BY ONLY <1>3, <1>5, ConcatProperties, a \in Seq(T), Zenon
  <1>8. PICK d \in Nat : d = p - b - 1
    OBVIOUS
  <1>9. Len(a) \in Nat
    OBVIOUS
  <1>10. /\ Len(x) = Len(y) + d /\ Len(y) \in Nat
         /\ Len(u) = Len(v) + d /\ Len(v) \in Nat
    BY ONLY <1>3, <1>6, <1>7, <1>8, <1>9, b \in Nat, p \in Nat, c \in Nat, b < p,
            p <= c
  <1>11. PICK z : z = SubSeq(u, Len(u) - Len(v) + 1, Len(u))
    OBVIOUS
  <1>12. /\ z \in Seq(T) /\ Len(z) = Len(v)
         /\ \A i \in 1 .. Len(v) : z[i] = u[i + d]
    <2>1. Len(u) - Len(v) + 1 = d + 1 /\ Len(u) = Len(v) + d
      BY ONLY <1>10
    <2>2. z = SubSeq(u, d + 1, Len(v) + d)
      BY ONLY <1>11, <2>1
    <2> QED
      BY ONLY <1>6, <1>10, <2>2
  <1>13. ASSUME NEW i \in 1 .. Len(v) PROVE v[i] = z[i]
    <2>1. z[i] = u[i + d]
      BY ONLY <1>12, <1>13
    <2>2. CASE i <= Len(y)
      <3>1. i \in 1 .. Len(y) /\ v[i] = y[i]
        BY ONLY <1>7, <1>9, <1>10, <2>2, i \in 1 .. Len(v)
      <3>2. y[i] = x[i + d]
        BY ONLY <1>3, <1>8, <3>1
      <3>3. i + d \in 1 .. Len(x) + Len(a) /\ i + d <= Len(x)
        BY ONLY <1>9, <1>10, <3>1
      <3>4. u[i + d] = x[i + d]
        BY ONLY <1>6, <3>3
      <3> QED
        BY ONLY <2>1, <3>1, <3>2, <3>4
    <2>3. CASE ~ (i <= Len(y))
      <3>1. v[i] = a[i - Len(y)]
        BY ONLY <1>7, <2>3, i \in 1 .. Len(v)
      <3>2. /\ i + d \in 1 .. Len(x) + Len(a) /\ ~ (i + d <= Len(x))
            /\ i + d - Len(x) = i - Len(y)
        BY ONLY <1>7, <1>9, <1>10, <2>3, i \in 1 .. Len(v)
      <3>3. u[i + d] = a[i + d - Len(x)]
        BY ONLY <1>6, <3>2
      <3> QED
        BY ONLY <2>1, <3>1, <3>2, <3>3
    <2> QED
      BY ONLY <2>2, <2>3
  <1>14. v = z
    BY ONLY <1>7, <1>12, <1>13, SeqEqual
  <1>15. Len(v) <= Len(u)
    BY ONLY <1>10
  <1> QED
    BY ONLY <1>1, <1>2, <1>4, <1>5, <1>11, <1>14, <1>15 DEF EndsWith

LEMMA CopyFacts ==
  ASSUME Faithful, NEW k \in 1 .. Len(tmp)
  PROVE  \E p \in FrameStarts, b \in Nat :
           /\ NthFrame(k) = p /\ p \in Nat
           /\ b < p /\ p <= NaluEnd(p - 1) /\ NaluEnd(p - 1) <= Len(input)
           /\ NaluEnd(p - 1) \in Nat
           /\ tmp[k] = SubSeq(input, b + 1, NaluEnd(p - 1)) \o S_frameAudInfo
           /\ Regular => b + 1 = UnitBegin(p)
  <1>1. Sound /\ TypeOK
    BY DEF Faithful, Sound
  <1>2. /\ k \in 1 .. frameCount /\ k \in 1 .. Len(frameInfo) /\ k < Len(frameInfo)
    <2>1. /\ Len(tmp) \in Nat /\ frameCount \in Nat /\ Len(tmp) <= frameCount
          /\ Len(frameInfo) \in Nat
      BY <1>1 DEF TypeOK
    <2>2. frameCount = IF Len(frameInfo) = 0 THEN 0 ELSE Len(frameInfo) - 1
      BY <1>1 DEF Sound, Table
    <2> QED
      BY ONLY <2>1, <2>2, k \in 1 .. Len(tmp)
  <1>3. PICK p \in FrameStarts : RowOf(frameInfo[k], k, p)
    BY <1>2 DEF Faithful, Rows
  <1>4. NthFrame(k) = p
    BY <1>1, <1>3, NthFrameIs DEF RowOf
  <1>5. Fits(frameInfo[k]) /\ frameInfo[k] \in FrameInfos
    BY <1>1, <1>2, CopiedFits
  <1>6. PICK b : b = frameInfo[k].positionInFile
    OBVIOUS
  <1>7. PICK n : n = frameInfo[k].size
    OBVIOUS
  <1>8. PICK e : e = NaluEnd(p - 1)
    OBVIOUS
  <1>9. /\ b \in Nat /\ n \in Nat /\ b + n <= Len(input) /\ p \in Nat
        /\ b + n = e /\ n >= e - p + 1 /\ p <= e /\ Len(input) \in Nat
    <2>1. /\ b \in Int /\ n \in Nat /\ b >= 0 /\ b + n <= Len(input)
      BY ONLY <1>5, <1>6, <1>7 DEF Fits, FrameInfos
    <2>2. b + n = e /\ n >= e - p + 1 /\ p <= e
      BY ONLY <1>3, <1>6, <1>7, <1>8 DEF RowOf
    <2>3. p \in Nat /\ Len(input) \in Nat
      BY <1>1, StartsFacts
    <2> QED
      BY ONLY <2>1, <2>2, <2>3
  <1>10. e \in Nat /\ b < p /\ e <= Len(input)
    BY ONLY <1>9
  <1>11. tmp[k] = SubSeq(input, b + 1, b + n) \o S_frameAudInfo
    BY <1>6, <1>7 DEF Faithful, Copied
  <1>12. Regular => b + 1 = UnitBegin(p)
    BY <1>2, <1>4, <1>6 DEF Faithful, Aligned
  <1> QED
    BY ONLY <1>4, <1>8, <1>9, <1>10, <1>11, <1>12, p \in FrameStarts

(***************************************************************************)
(* For every file and every capacity of the table: whatever the order of   *)
(* the units, the frames of the file are written to tmp.h264 in order,     *)
(* each to its end and with an AUD behind it, and of n frames n - 1 or as  *)
(* many as the table has room for.                                         *)
(***************************************************************************)
THEOREM EveryFrameIsWritten == Spec => []EveryFrameWritten
  <1>1. ASSUME Faithful PROVE EveryFrameWritten
    <2>1. ASSUME NEW k \in 1 .. Len(tmp)
          PROVE  EndsWith(tmp[k], SubSeq(input, NthFrame(k), NaluEnd(NthFrame(k) - 1))
                                    \o S_frameAudInfo)
      <3>1. PICK p \in FrameStarts, b \in Nat :
              /\ NthFrame(k) = p /\ p \in Nat
              /\ b < p /\ p <= NaluEnd(p - 1) /\ NaluEnd(p - 1) <= Len(input)
              /\ NaluEnd(p - 1) \in Nat
              /\ tmp[k] = SubSeq(input, b + 1, NaluEnd(p - 1)) \o S_frameAudInfo
        BY <1>1, CopyFacts
      <3>2. input \in Seq(Symbols) /\ S_frameAudInfo \in Seq(Symbols)
        BY <1>1 DEF Faithful, Sound, TypeOK, S_frameAudInfo, Symbols
      <3>3. EndsWith(SubSeq(input, b + 1, NaluEnd(p - 1)) \o S_frameAudInfo,
                     SubSeq(input, p, NaluEnd(p - 1)) \o S_frameAudInfo)
        BY ONLY <3>1, <3>2, TailOf, b \in Nat
      <3> QED
        BY ONLY <3>1, <3>3
    <2>2. ASSUME phase = "written"
          PROVE  Len(tmp) = IF Cardinality(FrameStarts) = 0 THEN 0
                            ELSE IF Cardinality(FrameStarts) - 1 < FrameMaxCount
                                   THEN Cardinality(FrameStarts) - 1
                            ELSE FrameMaxCount
      <3>1. PICK n : n = Cardinality(FrameStarts)
        OBVIOUS
      <3>2. PICK t : t = Len(frameInfo)
        OBVIOUS
      <3>3. /\ t = n \/ t = FrameMaxCount + 1
            /\ Len(tmp) = IF t = 0 THEN 0 ELSE t - 1
        BY <1>1, <2>2, <3>1, <3>2 DEF Faithful, Ending, Sound, Table
      <3>4. t \in Nat /\ t <= FrameMaxCount + 1 /\ FrameMaxCount \in Nat \ {0}
        BY <1>1, <3>2, FrameMaxCountAssumption DEF Faithful, Sound, TypeOK
      <3>5. n \in Nat /\ t <= n
        <4>1. position \in Nat /\ Len(input) \in Nat
              /\ FrameStarts \in SUBSET (1 .. Len(input))
          BY <1>1, StartsFacts DEF Faithful, Sound, TypeOK
        <4>2. t = Cardinality(UpTo(FrameStarts, position))
          BY <1>1, <3>2 DEF Faithful, Scanned
        <4> QED
          BY ONLY <3>1, <4>1, <4>2, CountFacts
      <3> QED
        BY ONLY <3>1, <3>3, <3>4, <3>5
    <2> QED
      BY ONLY <2>1, <2>2 DEF EveryFrameWritten
  <1> QED
    BY FaithfulInit, FaithfulStep, <1>1, PTL DEF Spec

LEMMA UnitsCopied == ASSUME Faithful PROVE WritesAccessUnits
  <1>1. ASSUME Regular, NEW k \in 1 .. Len(tmp)
        PROVE  tmp[k] = AccessUnit(NthFrame(k)) \o S_frameAudInfo
    <2>1. PICK p \in FrameStarts, b \in Nat :
            /\ NthFrame(k) = p
            /\ tmp[k] = SubSeq(input, b + 1, NaluEnd(p - 1)) \o S_frameAudInfo
            /\ Regular => b + 1 = UnitBegin(p)
      BY CopyFacts
    <2>2. AccessUnit(p) = SubSeq(input, UnitBegin(p), NaluEnd(p - 1))
      BY DEF AccessUnit, UnitBegin
    <2> QED
      BY ONLY <1>1, <2>1, <2>2
  <1> QED
    BY ONLY <1>1 DEF WritesAccessUnits

(***************************************************************************)
(* For every regular file and every capacity of the table: what is written *)
(* for a frame is its access unit, from the first of its parameter sets    *)
(* and SEI on, and an AUD.                                                 *)
(***************************************************************************)
THEOREM AccessUnitsAreWritten == Spec => []WritesAccessUnits
  <1>1. Faithful => WritesAccessUnits
    BY UnitsCopied
  <1> QED
    BY FaithfulInit, FaithfulStep, <1>1, PTL DEF Spec

-----------------------------------------------------------------------------
(***************************************************************************)
(* What is proved of FileReceiver holds of it here: its assumptions are    *)
(* those made here, and its files are what Bytes makes of tmp.             *)
(***************************************************************************)
Reader == INSTANCE FileReceiverProofs WITH Files <- Seq({H, A, X})

LEMMA ReaderAssumptions ==
  /\ Seq({H, A, X}) \subseteq Seq(Reader!Symbols)
  /\ BufferSize \in Nat /\ BufferSize > Reader!SizeofAud
  /\ StreamMaxSize \in 1 .. BufferSize
  /\ InitialFound \subseteq Nat
  BY BufferSizeAssumption, StreamMaxSizeAssumption, InitialFoundAssumption
     DEF Reader!Symbols, H, A, X, Reader!H, Reader!A, Reader!X, Reader!SizeofAud

LEMMA ReceiverIsReader ==
  /\ Receiver!Next => Reader!Next
  /\ receiverVars = Reader!vars
  /\ Receiver!Running = Reader!Running
  /\ Receiver!Passed = Reader!Passed
  /\ Receiver!Ended = Reader!Ended
  /\ Receiver!Next => exit # NotBuilt
  <1>1. Receiver!Next => Reader!Next
    BY DEF Receiver!Next, Reader!Next, Receiver!ReadFirst, Reader!ReadFirst,
           Receiver!SearchFails, Reader!SearchFails, Receiver!Refill,
           Reader!Refill, Receiver!SearchSucceeds, Reader!SearchSucceeds,
           Receiver!ReadStreamFromFile, Reader!ReadStreamFromFile,
           Receiver!AboutToParse, Reader!AboutToParse, Receiver!GotOneFrame,
           Reader!GotOneFrame, Receiver!mFilledSize, Reader!mFilledSize,
           Receiver!ShortRead, Reader!ShortRead, Receiver!EndFound,
           Reader!EndFound, Receiver!BeginOf, Reader!BeginOf,
           Receiver!AudOffsets, Reader!AudOffsets, Receiver!HeaderOffsets,
           Reader!HeaderOffsets, Receiver!AudAt, Reader!AudAt,
           Receiver!HeaderAt, Reader!HeaderAt, Receiver!First, Reader!First,
           Receiver!MoveTmpBuffer, Reader!MoveTmpBuffer, Receiver!SizeofAud,
           Reader!SizeofAud, Receiver!SizeofHeader, Reader!SizeofHeader,
           Receiver!KAudHex2, Reader!KAudHex2, Receiver!H, Reader!H,
           Receiver!A, Reader!A, Receiver!Passed, Reader!Passed,
           Receiver!Ended, Reader!Ended, Receiver!NoAud, Reader!NoAud,
           Receiver!TooLong, Reader!TooLong, Receiver!Running,
           Reader!Running, Receiver!Crashed, Reader!Crashed
  <1>2. receiverVars = Reader!vars
    BY DEF receiverVars, Reader!vars
  <1>3. /\ Receiver!Running = Reader!Running
        /\ Receiver!Passed = Reader!Passed
        /\ Receiver!Ended = Reader!Ended
        /\ Receiver!Running # NotBuilt
    BY DEF Receiver!Running, Reader!Running, Receiver!Passed, Reader!Passed,
           Receiver!Ended, Reader!Ended, NotBuilt
  <1>4. Receiver!Next => exit = Receiver!Running
    BY DEF Receiver!Next, Receiver!ReadFirst, Receiver!SearchFails,
           Receiver!Refill, Receiver!SearchSucceeds
  <1> QED
    BY ONLY <1>1, <1>2, <1>3, <1>4

ReaderInv == Reader!Placed /\ Reader!Progress

LEMMA ReaderInit == InitialFound = {0} /\ Reader!Init => ReaderInv
  <1>1. Reader!Init => Reader!Placed
    BY ReaderAssumptions, Reader!PlacedInit
  <1>2. InitialFound = {0} /\ Reader!Init => Reader!Progress
    BY ReaderAssumptions, Reader!ProgressInit
  <1> QED
    BY ONLY <1>1, <1>2 DEF ReaderInv

LEMMA ReaderStep == ReaderInv /\ [Reader!Next]_(Reader!vars) => ReaderInv'
  <1>1. Reader!Placed /\ [Reader!Next]_(Reader!vars) => Reader!Placed'
    BY ReaderAssumptions, Reader!PlacedStep
  <1>2. Reader!Placed /\ Reader!Progress /\ [Reader!Next]_(Reader!vars) => Reader!Progress'
    BY ReaderAssumptions, Reader!ProgressStep
  <1> QED
    BY ONLY <1>1, <1>2 DEF ReaderInv

LEMMA ReaderStarts == (InitialFound = {0} /\ Reader!Init)' => ReaderInv'
  BY ReaderInit, PTL

(***************************************************************************)
(* The values of a strictly increasing function are as many as its         *)
(* arguments.                                                              *)
(***************************************************************************)
LEMMA CountImage ==
  ASSUME NEW M \in Nat, NEW E \in [0 .. M -> Nat],
         \A m, n \in 0 .. M : m < n => E[m] < E[n],
         NEW n \in 0 .. M
  PROVE  /\ IsFiniteSet({E[j] : j \in 1 .. n})
         /\ Cardinality({E[j] : j \in 1 .. n}) = n
  <1>1. PICK S : S = {E[j] : j \in 1 .. n}
    OBVIOUS
  <1>2. PICK f : f = [j \in 1 .. n |-> E[j]]
    OBVIOUS
  <1>3. ASSUME NEW i \in 1 .. n, NEW j \in 1 .. n, E[i] = E[j] PROVE i = j
    <2>1. /\ i \in 0 .. M /\ j \in 0 .. M
          /\ E[i] \in Nat /\ E[j] \in Nat /\ i \in Nat /\ j \in Nat
      OBVIOUS
    <2>2. ~ (i < j)
      <3>1. i < j => E[i] < E[j]
        BY ONLY <2>1, \A m, k \in 0 .. M : m < k => E[m] < E[k]
      <3> QED
        BY ONLY <3>1, <2>1, <1>3
    <2>3. ~ (j < i)
      <3>1. j < i => E[j] < E[i]
        BY ONLY <2>1, \A m, k \in 0 .. M : m < k => E[m] < E[k]
      <3> QED
        BY ONLY <3>1, <2>1, <1>3
    <2> QED
      BY ONLY <2>1, <2>2, <2>3
  <1>4. /\ f \in [1 .. n -> S]
        /\ \A i, j \in 1 .. n : f[i] = f[j] => i = j
        /\ \A s \in S : \E i \in 1 .. n : f[i] = s
    <2>1. f \in [1 .. n -> S]
      BY ONLY <1>1, <1>2
    <2>2. \A i \in 1 .. n : f[i] = E[i]
      BY ONLY <1>2
    <2>3. \A i, j \in 1 .. n : f[i] = f[j] => i = j
      BY ONLY <2>2, <1>3
    <2>4. \A s \in S : \E i \in 1 .. n : f[i] = s
      BY ONLY <2>2, <1>1
    <2> QED
      BY ONLY <2>1, <2>3, <2>4
  <1>5. f \in Bijection(1 .. n, S)
    <2>1. DOMAIN f = 1 .. n
      BY ONLY <1>2
    <2> QED
      BY ONLY <1>4, <2>1 DEF Bijection, Injection, Surjection, IsInjective
  <1>6. ExistsBijection(1 .. n, S)
    BY ONLY <1>5 DEF ExistsBijection
  <1>7. n \in Nat
    OBVIOUS
  <1>8. IsFiniteSet(1 .. n)
    BY <1>7, FS_Interval
  <1>9. IsFiniteSet(S)
    BY ONLY <1>6, <1>8, FS_Bijection
  <1>10. Cardinality(S) = n
    BY ONLY <1>6, <1>7, FS_CountingElements
  <1> QED
    BY ONLY <1>1, <1>9, <1>10

(***************************************************************************)
(* The file FileReceiver opens.                                            *)
(***************************************************************************)
LEMMA BytesFacts ==
  ASSUME NEW T, NEW s \in Seq(T)
  PROVE  /\ Bytes(s) \in Seq({H, A, X}) /\ Len(Bytes(s)) = Len(s)
         /\ \A i \in 1 .. Len(s) :
              /\ Bytes(s)[i] = H <=> s[i] = H
              /\ Bytes(s)[i] = A <=> s[i] = A
  <1>1. DOMAIN s = 1 .. Len(s) /\ Len(s) \in Nat
    OBVIOUS
  <1>2. H # A /\ H # X /\ A # X
    BY DEF H, A, X
  <1>3. \A i \in 1 .. Len(s) :
          Bytes(s)[i] = IF s[i] \in {H, A} THEN s[i] ELSE X
    BY <1>1 DEF Bytes
  <1>4. PICK b : b = Bytes(s)
    OBVIOUS
  <1>5. b \in [1 .. Len(s) -> {H, A, X}]
    BY <1>1, <1>4 DEF Bytes
  <1>6. b \in Seq({H, A, X}) /\ Len(b) = Len(s)
    BY ONLY <1>1, <1>5
  <1> QED
    BY ONLY <1>2, <1>3, <1>4, <1>6

LEMMA BytesAt ==
  ASSUME NEW s, NEW t, NEW i \in DOMAIN s, NEW j \in DOMAIN t, s[i] = t[j]
  PROVE  Bytes(s)[i] = Bytes(t)[j]
  BY DEF Bytes

LessOf(w, held, f) == f = SubSeq(Bytes(w), 1, Len(w) - held)

LEMMA FileIs ==
  ASSUME NEW T, NEW w \in Seq(T), NEW held \in Nat, NEW f, LessOf(w, held, f)
  PROVE  /\ f \in Seq({H, A, X}) /\ f \in Seq(Reader!Symbols)
         /\ Len(f) \in Nat /\ Len(f) <= Len(w) /\ Len(f) >= Len(w) - held
         /\ \A i \in 1 .. Len(f) :
              f[i] = Bytes(w)[i] /\ (f[i] = H <=> w[i] = H) /\ (f[i] = A <=> w[i] = A)
  <1>1. PICK b : b = Bytes(w)
    OBVIOUS
  <1>2. PICK n \in Nat : n = Len(w)
    OBVIOUS
  <1>3. /\ b \in Seq({H, A, X}) /\ Len(b) = n
        /\ \A i \in 1 .. n :  (b[i] = H <=> w[i] = H) /\ (b[i] = A <=> w[i] = A)
    BY <1>1, <1>2, BytesFacts
  <1>4. f \in Seq({H, A, X})
        /\ Len(f) \in Nat /\ Len(f) <= n /\ Len(f) >= n - held
        /\ \A i \in 1 .. Len(f) : f[i] = b[i]
    <2>1. CASE held <= n
      <3>1. PICK m \in Nat : m = n - held
        BY ONLY <2>1, n \in Nat, held \in Nat
      <3>2. m <= Len(b) /\ f = SubSeq(b, 1, m)
        BY ONLY <1>1, <1>2, <1>3, <3>1, LessOf(w, held, f),
                n \in Nat, held \in Nat DEF LessOf
      <3>3. /\ f \in Seq({H, A, X}) /\ Len(f) = m
            /\ \A i \in 1 .. m : f[i] = b[i]
        <4>1. PICK U : U = {H, A, X}
          OBVIOUS
        <4>2. b \in Seq(U)
          BY ONLY <1>3, <4>1
        <4>3. f \in Seq(U) /\ Len(f) = m /\ \A i \in 1 .. m : f[i] = b[i]
          BY ONLY <3>2, <4>2, m \in Nat
        <4> QED
          BY ONLY <4>1, <4>3
      <3> QED
        BY ONLY <3>1, <3>3, <1>3, n \in Nat, held \in Nat
    <2>2. CASE ~ (held <= n)
      <3>1. n - held \in Int /\ n - held < 1
        BY ONLY <2>2, n \in Nat, held \in Nat
      <3>2. f = << >>
        BY ONLY <3>1, <1>2, SubSeqEmpty, LessOf(w, held, f) DEF LessOf
      <3> QED
        BY ONLY <3>1, <3>2, n \in Nat
    <2> QED
      BY ONLY <2>1, <2>2
  <1>5. f \in Seq(Reader!Symbols)
    BY ONLY <1>4, ReaderAssumptions
  <1>6. ASSUME NEW i \in 1 .. Len(f)
        PROVE f[i] = Bytes(w)[i] /\ (f[i] = H <=> w[i] = H) /\ (f[i] = A <=> w[i] = A)
    <2>1. i \in 1 .. n
      BY ONLY <1>4, i \in 1 .. Len(f), n \in Nat
    <2> QED
      BY ONLY <2>1, <1>1, <1>3, <1>4, i \in 1 .. Len(f)
  <1> QED
    BY ONLY <1>2, <1>4, <1>5, <1>6

(***************************************************************************)
(* An access unit begins with a start code.                                *)
(***************************************************************************)
LEMMA BeginIsStart ==
  ASSUME TypeOK, NEW p \in FrameStarts
  PROVE  UnitBegin(p) \in Starts
  <1>1. Lead(p) \cup {p} \in SUBSET Starts
    BY DEF Lead, FrameStarts
  <1>2. Lead(p) \cup {p} \in SUBSET Nat
    BY <1>1, StartsFacts
  <1>3. PICK m \in Lead(p) \cup {p} : \A k \in Lead(p) \cup {p} : m <= k
    <2>1. Lead(p) \cup {p} # {}
      OBVIOUS
    <2> QED
      BY ONLY <1>2, <2>1, LeastExists
  <1>4. UnitBegin(p) \in Lead(p) \cup {p}
    BY ONLY <1>3 DEF UnitBegin
  <1> QED
    BY ONLY <1>1, <1>4

(***************************************************************************)
(* Each piece of tmp.h264 ends with an AUD.  There is no other in it if    *)
(* the file given has none, and it starts with a start code if the file is *)
(* regular.                                                                *)
(***************************************************************************)
Piece(w) ==
  /\ Len(w) \in Nat /\ Len(w) > 2
  /\ w[Len(w) - 1] = H /\ w[Len(w)] = A
  /\ NoAudInside => \A i \in 1 .. Len(w) - 1 : w[i] # A
  /\ Regular => w[1] = H

LEMMA PieceIs ==
  ASSUME Faithful, NEW k \in 1 .. Len(tmp)
  PROVE  Piece(tmp[k])
  <1>1. PICK p \in FrameStarts, b \in Nat :
          /\ p \in Nat
          /\ b < p /\ p <= NaluEnd(p - 1) /\ NaluEnd(p - 1) <= Len(input)
          /\ NaluEnd(p - 1) \in Nat
          /\ tmp[k] = SubSeq(input, b + 1, NaluEnd(p - 1)) \o S_frameAudInfo
          /\ Regular => b + 1 = UnitBegin(p)
    BY CopyFacts
  <1>2. PICK e : e = NaluEnd(p - 1)
    OBVIOUS
  <1>3. PICK r : r = SubSeq(input, b + 1, e)
    OBVIOUS
  <1>4. PICK w : w = tmp[k]
    OBVIOUS
  <1>5. TypeOK /\ input \in Seq(Symbols) /\ Len(input) \in Nat
    BY InputFacts DEF Faithful, Sound
  <1>6. e \in Nat /\ b < e /\ e <= Len(input)
    BY ONLY <1>1, <1>2, b \in Nat
  <1>7. /\ r \in Seq(Symbols) /\ Len(r) = e - b
        /\ \A i \in 1 .. e - b : r[i] = input[b + i]
    <2>1. /\ SubSeq(input, b + 1, e) \in Seq(Symbols)
          /\ Len(SubSeq(input, b + 1, e)) = IF b + 1 <= e THEN e - (b + 1) + 1 ELSE 0
          /\ \A i \in 1 .. Len(SubSeq(input, b + 1, e)) :
               SubSeq(input, b + 1, e)[i] = input[b + 1 + i - 1]
      <3>1. b + 1 \in Nat \ {0}
        OBVIOUS
      <3> QED
        BY ONLY <3>1, <1>5, <1>6, SubSeqFacts
    <2>2. Len(r) = e - b
      BY ONLY <2>1, <1>3, <1>6, b \in Nat
    <2>3. \A i \in 1 .. e - b : r[i] = input[b + 1 + i - 1] /\ b + 1 + i - 1 = b + i
      BY ONLY <2>1, <2>2, <1>3, <1>6, b \in Nat
    <2> QED
      BY ONLY <2>1, <2>2, <2>3, <1>3
  <1>8. /\ S_frameAudInfo \in Seq(Symbols) /\ Len(S_frameAudInfo) = 2
        /\ S_frameAudInfo[1] = H /\ S_frameAudInfo[2] = A
    BY DEF S_frameAudInfo, Symbols
  <1>9. PICK n \in Nat : n = e - b
    BY <1>6
  <1>10. /\ Len(w) = n + 2
         /\ \A i \in 1 .. n : w[i] = input[b + i]
         /\ w[n + 1] = H /\ w[n + 2] = A
    <2>1. PICK a : a = S_frameAudInfo
      OBVIOUS
    <2>2. w = r \o a
      BY ONLY <1>1, <1>2, <1>3, <1>4, <2>1
    <2>3. a \in Seq(Symbols) /\ Len(a) = 2 /\ a[1] = H /\ a[2] = A
      BY ONLY <1>8, <2>1
    <2>4. /\ Len(w) = Len(r) + Len(a)
          /\ \A i \in 1 .. Len(r) : w[i] = r[i]
          /\ \A i \in 1 .. Len(a) : w[Len(r) + i] = a[i]
      <3>1. r \in Seq(Symbols) /\ a \in Seq(Symbols)
        BY ONLY <1>7, <2>3
      <3>2. /\ Len(r \o a) = Len(r) + Len(a)
            /\ \A i \in 1 .. Len(r) : (r \o a)[i] = r[i]
            /\ \A i \in 1 .. Len(a) : (r \o a)[Len(r) + i] = a[i]
        <4>1. PICK U : U = Symbols
          OBVIOUS
        <4>2. r \in Seq(U) /\ a \in Seq(U)
          BY ONLY <3>1, <4>1
        <4> QED
          BY ONLY <4>2, ConcatFacts
      <3> QED
        BY ONLY <2>2, <3>2, Zenon
    <2>5. w[Len(r) + 1] = a[1] /\ w[Len(r) + 2] = a[2]
      BY ONLY <2>3, <2>4
    <2> QED
      BY ONLY <1>7, <1>9, <2>3, <2>4, <2>5
  <1>11. n >= 1
    BY ONLY <1>6, <1>9, b \in Nat
  <1>12. ASSUME NoAudInside, NEW i \in 1 .. Len(w) - 1 PROVE w[i] # A
    <2>1. CASE i \in 1 .. n
      <3>1. b + i \in 1 .. Len(input)
        BY ONLY <1>5, <1>6, <1>9, <2>1, b \in Nat
      <3>2. DOMAIN input = 1 .. Len(input)
        BY <1>5
      <3>3. input[b + i] # A
        BY ONLY <3>1, <3>2, <1>12 DEF NoAudInside
      <3> QED
        BY ONLY <3>3, <1>10, <2>1
    <2>2. CASE i = n + 1
      <3>1. H # A
        BY DEF H, A
      <3> QED
        BY ONLY <3>1, <1>10, <2>2
    <2>3. i \in 1 .. n \/ i = n + 1
      BY ONLY <1>10, i \in 1 .. Len(w) - 1, n \in Nat
    <2> QED
      BY ONLY <2>1, <2>2, <2>3
  <1>13. ASSUME Regular PROVE w[1] = H
    <2>1. b + 1 \in Starts
      BY <1>1, <1>5, <1>13, BeginIsStart
    <2>2. input[b + 1] = H
      BY <1>5, <2>1, StartsFacts
    <2> QED
      BY ONLY <1>10, <1>11, <2>2, n \in Nat
  <1>14. Len(w) \in Nat /\ Len(w) > 2 /\ w[Len(w) - 1] = H /\ w[Len(w)] = A
    <2>1. Len(w) - 1 = n + 1
      BY ONLY <1>10, n \in Nat
    <2> QED
      BY ONLY <2>1, <1>10, <1>11, n \in Nat
  <1>15. Piece(w)
    BY ONLY <1>12, <1>13, <1>14 DEF Piece
  <1> QED
    BY ONLY <1>4, <1>15

(***************************************************************************)
(* Where the pieces end in tmp.h264, of which file may hold less.          *)
(***************************************************************************)
Opened ==
  \E held \in 0 .. StdioBuffer : LessOf(Flatten, held, file)

Ends == [j \in 0 .. Len(tmp) |-> Len(Prefix(tmp, j))]

LEMMA TmpFacts ==
  ASSUME Faithful
  PROVE  \E T : tmp \in Seq(Seq(T)) /\ Flatten \in Seq(T)
  <1>1. PICK T : T = Symbols \cup {Zero}
    OBVIOUS
  <1>2. tmp \in Seq(Seq(T))
    BY <1>1 DEF Faithful, Sound, TypeOK
  <1> QED
    BY <1>2, FlattenType DEF Flatten

LEMMA OpenedFacts ==
  ASSUME Faithful, Opened
  PROVE  /\ file \in Seq({H, A, X}) /\ file \in Seq(Reader!Symbols)
         /\ Len(Flatten) \in Nat /\ Len(file) \in Nat
         /\ Len(file) <= Len(Flatten)
         /\ Len(file) >= Len(Flatten) - StdioBuffer
         /\ \A i \in 1 .. Len(file) :
              /\ file[i] = Bytes(Flatten)[i]
              /\ file[i] = H <=> Flatten[i] = H
              /\ file[i] = A <=> Flatten[i] = A
  <1>1. PICK T : Flatten \in Seq(T)
    BY TmpFacts
  <1>2. PICK held \in 0 .. StdioBuffer : LessOf(Flatten, held, file)
    BY DEF Opened
  <1>3. held \in Nat /\ StdioBuffer \in Nat /\ held <= StdioBuffer
    BY StdioBufferAssumption
  <1>4. /\ file \in Seq({H, A, X}) /\ file \in Seq(Reader!Symbols)
        /\ Len(file) \in Nat /\ Len(file) <= Len(Flatten)
        /\ Len(file) >= Len(Flatten) - held
        /\ \A i \in 1 .. Len(file) :
             /\ file[i] = Bytes(Flatten)[i]
             /\ file[i] = H <=> Flatten[i] = H
             /\ file[i] = A <=> Flatten[i] = A
    <2>1. PICK w : w = Flatten
      OBVIOUS
    <2>2. w \in Seq(T) /\ LessOf(w, held, file) /\ held \in Nat
      BY ONLY <1>1, <1>2, <1>3, <2>1
    <2>3. /\ file \in Seq({H, A, X}) /\ file \in Seq(Reader!Symbols)
          /\ Len(file) \in Nat /\ Len(file) <= Len(w) /\ Len(file) >= Len(w) - held
          /\ \A i \in 1 .. Len(file) :
               file[i] = Bytes(w)[i] /\ (file[i] = H <=> w[i] = H)
                 /\ (file[i] = A <=> w[i] = A)
      BY ONLY <2>2, FileIs, Zenon
    <2> QED
      BY ONLY <2>1, <2>3
  <1>5. Len(Flatten) \in Nat
    BY <1>1
  <1>6. Len(file) >= Len(Flatten) - StdioBuffer
    BY ONLY <1>3, <1>4, <1>5
  <1> QED
    BY ONLY <1>4, <1>5, <1>6

LEMMA EndsFacts ==
  ASSUME Faithful
  PROVE  /\ Len(tmp) \in Nat /\ Ends \in [0 .. Len(tmp) -> Nat] /\ Ends[0] = 0
         /\ \A m, n \in 0 .. Len(tmp) : m < n => Ends[m] < Ends[n]
         /\ \A n \in 1 .. Len(tmp) :
              /\ n - 1 \in 0 .. Len(tmp) /\ n \in 0 .. Len(tmp)
              /\ Ends[n] = Ends[n - 1] + Len(tmp[n])
              /\ Ends[n] <= Len(Flatten)
              /\ \A i \in 1 .. Len(tmp[n]) : Flatten[Ends[n - 1] + i] = tmp[n][i]
         /\ \A i \in 1 .. Len(Flatten) : \E n \in 1 .. Len(tmp) :
              Ends[n - 1] < i /\ i <= Ends[n]
  <1>1. PICK T : tmp \in Seq(Seq(T))
    BY TmpFacts
  <1>2. Len(tmp) \in Nat
    BY <1>1
  <1>3. \A k \in 1 .. Len(tmp) : Len(tmp[k]) > 0
    <2>1. \A k \in 1 .. Len(tmp) : Len(tmp[k]) \in Nat /\ Len(tmp[k]) > 2
      BY PieceIs DEF Piece
    <2> QED
      BY ONLY <2>1
  <1>4. /\ \A m \in 0 .. Len(tmp) : Len(Prefix(tmp, m)) \in Nat
        /\ \A m, n \in 0 .. Len(tmp) :
             m < n => Len(Prefix(tmp, m)) < Len(Prefix(tmp, n))
    BY ONLY <1>1, <1>3, PrefixLengths
  <1>5. \A m \in 0 .. Len(tmp) : Ends[m] = Len(Prefix(tmp, m))
    BY ONLY TRUE DEF Ends
  <1>6. Ends \in [0 .. Len(tmp) -> Nat]
    BY ONLY <1>4 DEF Ends
  <1>7. \A m, n \in 0 .. Len(tmp) : m < n => Ends[m] < Ends[n]
    BY ONLY <1>4, <1>5
  <1>8. Ends[0] = 0
    <2>1. Len(Prefix(tmp, 0)) = 0
      <3>1. Prefix(tmp, 0) = << >>
        BY ONLY <1>1, PrefixFacts
      <3> QED
        BY ONLY <3>1
    <2>2. 0 \in 0 .. Len(tmp)
      BY ONLY <1>2
    <2> QED
      BY ONLY <1>5, <2>1, <2>2
  <1>9. ASSUME NEW n \in 1 .. Len(tmp)
        PROVE  /\ n - 1 \in 0 .. Len(tmp) /\ n \in 0 .. Len(tmp)
               /\ Ends[n] = Ends[n - 1] + Len(tmp[n])
               /\ Ends[n] <= Len(Flatten)
               /\ \A i \in 1 .. Len(tmp[n]) :
                    Flatten[Ends[n - 1] + i] = tmp[n][i]
    <2>1. PICK m \in 0 .. Len(tmp) - 1 : n = m + 1 /\ n - 1 = m
      <3>1. n - 1 \in 0 .. Len(tmp) - 1 /\ n = n - 1 + 1
        BY ONLY <1>2, n \in 1 .. Len(tmp)
      <3> QED
        BY ONLY <3>1
    <2>2. m \in 0 .. Len(tmp) /\ m + 1 \in 0 .. Len(tmp)
      BY ONLY <1>2, m \in 0 .. Len(tmp) - 1
    <2>3. /\ Len(Prefix(tmp, m + 1)) = Len(Prefix(tmp, m)) + Len(tmp[m + 1])
          /\ Len(Prefix(tmp, m + 1)) <= Len(Flatten)
          /\ \A i \in 1 .. Len(tmp[m + 1]) :
               Flatten[Len(Prefix(tmp, m)) + i] = tmp[m + 1][i]
      BY ONLY <1>1, PrefixGrows, m \in 0 .. Len(tmp) - 1, Zenon DEF Flatten
    <2>4. Ends[m + 1] = Len(Prefix(tmp, m + 1)) /\ Ends[m] = Len(Prefix(tmp, m))
      BY ONLY <1>5, <2>2
    <2> QED
      BY ONLY <2>1, <2>2, <2>3, <2>4
  <1>10. ASSUME NEW i \in 1 .. Len(Flatten)
         PROVE  \E n \in 1 .. Len(tmp) : Ends[n - 1] < i /\ i <= Ends[n]
    <2>1. PICK m \in 0 .. Len(tmp) - 1 :
            Len(Prefix(tmp, m)) < i /\ i <= Len(Prefix(tmp, m + 1))
      BY ONLY <1>1, ElementAt, i \in 1 .. Len(Flatten), Zenon DEF Flatten
    <2>2. /\ m \in 0 .. Len(tmp) /\ m + 1 \in 0 .. Len(tmp)
          /\ m + 1 \in 1 .. Len(tmp) /\ m + 1 - 1 = m
      BY ONLY <1>2, m \in 0 .. Len(tmp) - 1
    <2>3. Ends[m] < i /\ i <= Ends[m + 1]
      BY ONLY <1>5, <2>1, <2>2
    <2> QED
      BY ONLY <2>2, <2>3
  <1> QED
    BY ONLY <1>2, <1>6, <1>7, <1>8, <1>9, <1>10

(***************************************************************************)
(* The ends of the pieces are cuts of the file, and the only ones if the   *)
(* file given holds no AUD.                                                *)
(***************************************************************************)
LEMMA EndIsCut ==
  ASSUME Faithful, Opened, NEW n \in 1 .. Len(tmp), Ends[n] <= Len(file)
  PROVE  Ends[n] \in Reader!Cuts(file)
  <1>1. PICK c : c = Ends[n]
    OBVIOUS
  <1>2. PICK w : w = tmp[n]
    OBVIOUS
  <1>3. PICK b : b = Ends[n - 1]
    OBVIOUS
  <1>4. /\ b \in Nat /\ c \in Nat /\ c = b + Len(w) /\ c <= Len(Flatten)
        /\ \A i \in 1 .. Len(w) : Flatten[b + i] = w[i]
    BY <1>1, <1>2, <1>3, EndsFacts
  <1>5. Len(w) \in Nat /\ Len(w) > 2 /\ w[Len(w) - 1] = H /\ w[Len(w)] = A
    BY <1>2, PieceIs DEF Piece
  <1>6. Len(file) \in Nat
    BY OpenedFacts
  <1>7. /\ c - 1 = b + (Len(w) - 1) /\ Len(w) - 1 \in 1 .. Len(w)
        /\ Len(w) \in 1 .. Len(w) /\ c \in 1 .. Len(file)
        /\ c - 1 \in 1 .. Len(file) /\ c \in 2 .. Len(file)
    <2>1. c <= Len(file)
      BY <1>1
    <2> QED
      BY ONLY <1>4, <1>5, <1>6, <2>1
  <1>8. Flatten[c - 1] = H /\ Flatten[c] = A
    BY ONLY <1>4, <1>5, <1>7
  <1>9. file[c - 1] = H /\ file[c] = A
    BY <1>7, <1>8, OpenedFacts
  <1>10. Reader!H = H /\ Reader!A = A
    BY DEF Reader!H, Reader!A, H, A
  <1>11. \A d : d \in Reader!Cuts(file)
                <=> /\ d \in 2 .. Len(file)
                    /\ file[d - 1] = Reader!H /\ file[d] = Reader!A
    BY ReaderAssumptions, OpenedFacts, Reader!CutsAre
  <1> QED
    BY ONLY <1>1, <1>7, <1>9, <1>10, <1>11

LEMMA CutIsEnd ==
  ASSUME Faithful, Opened, NoAudInside, NEW c \in Reader!Cuts(file)
  PROVE  \E n \in 1 .. Len(tmp) : c = Ends[n]
  <1>1. Reader!H = H /\ Reader!A = A
    BY DEF Reader!H, Reader!A, H, A
  <1>2. \A d : d \in Reader!Cuts(file)
               <=> /\ d \in 2 .. Len(file)
                   /\ file[d - 1] = Reader!H /\ file[d] = Reader!A
    BY ReaderAssumptions, OpenedFacts, Reader!CutsAre
  <1>3. c \in 2 .. Len(file) /\ file[c] = A
    BY ONLY <1>1, <1>2, c \in Reader!Cuts(file)
  <1>4. Len(file) \in Nat /\ Len(Flatten) \in Nat /\ Len(file) <= Len(Flatten)
    BY OpenedFacts
  <1>5. c \in 1 .. Len(file) /\ c \in 1 .. Len(Flatten) /\ c \in Nat
    BY ONLY <1>3, <1>4
  <1>6. Flatten[c] = A
    BY <1>3, <1>5, OpenedFacts
  <1>7. PICK n \in 1 .. Len(tmp) : Ends[n - 1] < c /\ c <= Ends[n]
    BY <1>5, EndsFacts
  <1>8. PICK w : w = tmp[n]
    OBVIOUS
  <1>9. PICK b : b = Ends[n - 1]
    OBVIOUS
  <1>10. /\ b \in Nat /\ Ends[n] = b + Len(w)
         /\ \A i \in 1 .. Len(w) : Flatten[b + i] = w[i]
    BY <1>8, <1>9, EndsFacts
  <1>11. Len(w) \in Nat /\ \A i \in 1 .. Len(w) - 1 : w[i] # A
    BY <1>8, PieceIs DEF Piece
  <1>12. PICK i : i = c - b
    OBVIOUS
  <1>13. i \in 1 .. Len(w) /\ b + i = c
    BY ONLY <1>5, <1>7, <1>9, <1>10, <1>11, <1>12
  <1>14. w[i] = A
    BY ONLY <1>6, <1>10, <1>13
  <1>15. i = Len(w)
    <2>1. ~ (i \in 1 .. Len(w) - 1)
      BY ONLY <1>11, <1>14
    <2> QED
      BY ONLY <1>11, <1>13, <2>1
  <1> QED
    BY ONLY <1>10, <1>13, <1>15, n \in 1 .. Len(tmp)

(***************************************************************************)
(* The cuts of a file, counted.                                            *)
(***************************************************************************)
LEMMA ReaderCounts ==
  /\ \A S : Reader!IsFiniteSet(S) <=> IsFiniteSet(S)
  /\ \A S : Reader!Cardinality(S) = Cardinality(S)
  <1>1. ASSUME NEW S PROVE Reader!IsFiniteSet(S) <=> IsFiniteSet(S)
    BY DEF Reader!IsFiniteSet, IsFiniteSet
  <1>2. ASSUME NEW S PROVE Reader!Cardinality(S) = Cardinality(S)
    BY DEF Reader!Cardinality, Cardinality
  <1> QED
    BY <1>1, <1>2

LEMMA CutsFacts ==
  ASSUME NEW s \in Seq(Reader!Symbols), NEW d \in Int
  PROVE  /\ Reader!Cuts(s) \in SUBSET Nat
         /\ IsFiniteSet(Reader!CutsUpTo(s, d))
         /\ Cardinality(Reader!CutsUpTo(s, d)) \in Nat
         /\ Cardinality(Reader!Cuts(s)) \in Nat
         /\ \A c : c \in Reader!CutsUpTo(s, d) <=> c \in Reader!Cuts(s) /\ c <= d
  <1>1. d <= d
    OBVIOUS
  <1>2. /\ IsFiniteSet(Reader!CutsUpTo(s, d))
        /\ Cardinality(Reader!CutsUpTo(s, d)) \in Nat
        /\ Cardinality(Reader!Cuts(s)) \in Nat
    <2>1. /\ Reader!IsFiniteSet(Reader!CutsUpTo(s, d))
          /\ Reader!Cardinality(Reader!CutsUpTo(s, d)) \in Nat
          /\ Reader!Cardinality(Reader!Cuts(s)) \in Nat
      BY <1>1, ReaderAssumptions, Reader!CutsCount
    <2> QED
      BY ONLY <2>1, ReaderCounts
  <1>3. Reader!Cuts(s) \in SUBSET Nat
    BY ReaderAssumptions, Reader!CutsAre
  <1> QED
    BY <1>2, <1>3 DEF Reader!CutsUpTo

(***************************************************************************)
(* The first n pieces are n cuts of the file.                              *)
(***************************************************************************)
FirstEnds(n) == {Ends[j] : j \in 1 .. n}

LEMMA FirstEndsCount ==
  ASSUME Faithful, NEW n \in 0 .. Len(tmp)
  PROVE  IsFiniteSet(FirstEnds(n)) /\ Cardinality(FirstEnds(n)) = n
  <1>1. PICK E : E = Ends
    OBVIOUS
  <1>2. PICK M : M = Len(tmp)
    OBVIOUS
  <1>3. /\ M \in Nat /\ E \in [0 .. M -> Nat]
        /\ \A m, k \in 0 .. M : m < k => E[m] < E[k]
    BY <1>1, <1>2, EndsFacts
  <1>4. n \in 0 .. M
    BY <1>2
  <1>5. /\ IsFiniteSet({E[j] : j \in 1 .. n})
        /\ Cardinality({E[j] : j \in 1 .. n}) = n
    BY ONLY <1>3, <1>4, CountImage
  <1> QED
    BY ONLY <1>1, <1>5 DEF FirstEnds

LEMMA FirstEndsAreCuts ==
  ASSUME Faithful, Opened, NEW n \in 1 .. Len(tmp), NEW d \in Int,
         Ends[n] <= d, d <= Len(file)
  PROVE  FirstEnds(n) \in SUBSET Reader!CutsUpTo(file, d)
  <1>1. Len(file) \in Nat /\ file \in Seq(Reader!Symbols)
    BY OpenedFacts
  <1>2. ASSUME NEW j \in 1 .. n PROVE Ends[j] \in Reader!CutsUpTo(file, d)
    <2>1. j \in 1 .. Len(tmp) /\ j \in 0 .. Len(tmp) /\ n \in 0 .. Len(tmp)
          /\ (j = n \/ j < n)
      <3>1. Len(tmp) \in Nat
        BY EndsFacts
      <3> QED
        BY ONLY <3>1, n \in 1 .. Len(tmp), j \in 1 .. n
    <2>2. Ends[j] \in Nat /\ Ends[n] \in Nat
      BY <2>1, EndsFacts
    <2>3. j < n => Ends[j] < Ends[n]
      BY <2>1, EndsFacts
    <2>4. Ends[j] <= d /\ Ends[j] <= Len(file)
      BY ONLY <2>1, <2>2, <2>3, <1>1, Ends[n] <= d, d <= Len(file), d \in Int
    <2>5. Ends[j] \in Reader!Cuts(file)
      BY <2>1, <2>4, EndIsCut
    <2> QED
      BY ONLY <1>1, <2>4, <2>5, CutsFacts, d \in Int
  <1> QED
    BY ONLY <1>2 DEF FirstEnds

LEMMA TailBounded ==
  ASSUME Faithful, Opened, ReaderInv
  PROVE  CustomTailBounded
  <1> SUFFICES ASSUME exit \in {Receiver!Passed, Receiver!Ended},
                      NEW k \in 1 .. Len(tmp),
                      Len(FlattenSeq(SubSeq(tmp, 1, k)))
                        <= Len(Flatten) - StdioBuffer - BufferSize
               PROVE  Len(delivered) >= k
    BY DEF CustomTailBounded
  <1>1. /\ Len(file) \in Nat /\ Len(Flatten) \in Nat /\ StdioBuffer \in Nat
        /\ BufferSize \in Nat /\ file \in Seq(Reader!Symbols)
        /\ Len(file) >= Len(Flatten) - StdioBuffer
    BY OpenedFacts, StdioBufferAssumption, BufferSizeAssumption
  <1>2. PICK d \in Int : d = Len(file) - BufferSize
    <2>1. Len(file) - BufferSize \in Int
      BY ONLY <1>1
    <2> QED
      BY ONLY <2>1
  <1>3. Len(delivered) >= Cardinality(Reader!CutsUpTo(file, d))
    <2>1. exit \in {Reader!Passed, Reader!Ended}
      BY ReceiverIsReader
    <2>2. Reader!LostTailBounded
      BY DEF ReaderInv, Reader!Progress
    <2>3. Len(delivered)
            >= Reader!Cardinality(Reader!CutsUpTo(file, Len(file) - BufferSize))
      BY ONLY <2>1, <2>2 DEF Reader!LostTailBounded
    <2> QED
      BY ONLY <1>2, <2>3, ReaderCounts
  <1>4. Len(tmp) \in Nat /\ k \in 0 .. Len(tmp) /\ Ends[k] \in Nat
    <2>1. Len(tmp) \in Nat
      BY EndsFacts
    <2>2. k \in 0 .. Len(tmp)
      BY ONLY <2>1, k \in 1 .. Len(tmp)
    <2> QED
      BY <2>1, <2>2, EndsFacts
  <1>5. Ends[k] <= d /\ d <= Len(file)
    <2>1. Ends[k] = Len(FlattenSeq(SubSeq(tmp, 1, k)))
      BY <1>4 DEF Ends, Prefix
    <2>2. Ends[k] <= Len(Flatten) - StdioBuffer - BufferSize
      BY <2>1
    <2> QED
      BY ONLY <2>2, <1>1, <1>2, <1>4
  <1>6. FirstEnds(k) \in SUBSET Reader!CutsUpTo(file, d)
    BY <1>5, FirstEndsAreCuts
  <1>7. /\ IsFiniteSet(Reader!CutsUpTo(file, d))
        /\ Cardinality(Reader!CutsUpTo(file, d)) \in Nat
    BY ONLY <1>1, d \in Int, CutsFacts
  <1>8. Cardinality(FirstEnds(k)) <= Cardinality(Reader!CutsUpTo(file, d))
    BY ONLY <1>6, <1>7, FS_Subset
  <1>9. Cardinality(FirstEnds(k)) = k
    BY <1>4, FirstEndsCount
  <1>10. Len(delivered) \in Nat
    <2>1. delivered \in Seq(Seq(Reader!Symbols))
      BY DEF ReaderInv, Reader!Placed, Reader!TypeOK
    <2> QED
      BY ONLY <2>1
  <1> QED
    BY ONLY <1>3, <1>7, <1>8, <1>9, <1>10, k \in 1 .. Len(tmp)

(***************************************************************************)
(* If the file given holds no AUD, the n-th cut of the file FileReceiver   *)
(* opens is the end of the n-th piece.                                     *)
(***************************************************************************)
LEMMA CutHasPiece ==
  ASSUME Faithful, Opened, NoAudInside, NEW n \in Nat \ {0},
         n <= Cardinality(Reader!Cuts(file))
  PROVE  n \in 1 .. Len(tmp) /\ Ends[n] <= Len(file)
  <1> SUFFICES ASSUME ~ (n \in 1 .. Len(tmp) /\ Ends[n] <= Len(file)) PROVE FALSE
    OBVIOUS
  <1>1. /\ Len(tmp) \in Nat /\ Len(file) \in Nat /\ file \in Seq(Reader!Symbols)
        /\ Ends \in [0 .. Len(tmp) -> Nat]
    BY EndsFacts, OpenedFacts
  <1>2. PICK m \in Nat : m = n - 1
    OBVIOUS
  <1>3. PICK l \in 0 .. Len(tmp) : l = IF m <= Len(tmp) THEN m ELSE Len(tmp)
    BY <1>1
  <1>4. ASSUME NEW c \in Reader!Cuts(file) PROVE c \in FirstEnds(l)
    <2>1. PICK j \in 1 .. Len(tmp) : c = Ends[j]
      BY CutIsEnd
    <2>2. c <= Len(file)
      <3>1. c \in 2 .. Len(file)
        BY <1>1, ReaderAssumptions, Reader!CutsAre
      <3> QED
        BY ONLY <3>1
    <2>3. CASE n <= j
      <3>1. n \in 1 .. Len(tmp) /\ n \in 0 .. Len(tmp) /\ j \in 0 .. Len(tmp)
            /\ (n = j \/ n < j)
        BY ONLY <1>1, <2>3, n \in Nat \ {0}, j \in 1 .. Len(tmp)
      <3>2. n < j => Ends[n] < Ends[j]
        BY <3>1, EndsFacts
      <3>3. Ends[n] \in Nat /\ Ends[j] \in Nat
        BY ONLY <1>1, <3>1
      <3>4. Ends[n] <= Len(file)
        BY ONLY <1>1, <2>1, <2>2, <3>1, <3>2, <3>3
      <3> QED
        BY <3>1, <3>4
    <2>4. CASE ~ (n <= j)
      <3>1. j \in 1 .. l
        BY ONLY <1>1, <1>2, <1>3, <2>4, n \in Nat \ {0}, j \in 1 .. Len(tmp)
      <3> QED
        BY ONLY <2>1, <3>1 DEF FirstEnds
    <2> QED
      BY ONLY <2>3, <2>4
  <1>5. IsFiniteSet(FirstEnds(l)) /\ Cardinality(FirstEnds(l)) = l
    BY FirstEndsCount
  <1>6. Cardinality(Reader!Cuts(file)) <= l
    <2>1. Reader!Cuts(file) \in SUBSET FirstEnds(l)
      BY ONLY <1>4
    <2> QED
      BY ONLY <1>5, <2>1, FS_Subset
  <1>7. Cardinality(Reader!Cuts(file)) \in Nat
    <2>1. Len(file) \in Int
      BY ONLY <1>1
    <2> QED
      BY ONLY <1>1, <2>1, CutsFacts
  <1> QED
    BY ONLY <1>1, <1>2, <1>3, <1>6, <1>7, n \in Nat \ {0},
            n <= Cardinality(Reader!Cuts(file))

LEMMA NthCutIs ==
  ASSUME Faithful, Opened, NoAudInside, NEW n \in 1 .. Len(tmp),
         Ends[n] <= Len(file)
  PROVE  /\ Ends[n] \in Reader!Cuts(file)
         /\ Ends[n - 1] \in {0} \cup Reader!Cuts(file)
         /\ Ends[n - 1] < Ends[n] /\ Ends[n - 1] \in Nat
         /\ \A k \in Reader!Cuts(file) : k < Ends[n] => k <= Ends[n - 1]
         /\ Reader!NthCut(file, n) = Ends[n]
  <1>1. /\ Len(tmp) \in Nat /\ Len(file) \in Nat /\ file \in Seq(Reader!Symbols)
        /\ Ends \in [0 .. Len(tmp) -> Nat] /\ Ends[0] = 0
    BY EndsFacts, OpenedFacts
  <1>2. PICK m \in 0 .. Len(tmp) : n = m + 1 /\ n - 1 = m
    BY <1>1
  <1>3. n \in 0 .. Len(tmp) /\ m < n /\ m \in Nat /\ n \in Nat
    BY ONLY <1>1, <1>2, n \in 1 .. Len(tmp)
  <1>4. PICK c : c = Ends[m]
    OBVIOUS
  <1>5. PICK d : d = Ends[n]
    OBVIOUS
  <1>6. c < d /\ c \in Nat /\ d \in Nat /\ d <= Len(file)
    BY <1>1, <1>3, <1>4, <1>5, EndsFacts
  <1>7. d \in Reader!Cuts(file)
    BY <1>5, EndIsCut
  <1>8. m # 0 => m \in 1 .. Len(tmp)
    BY ONLY <1>2, <1>3
  <1>9. c \in {0} \cup Reader!Cuts(file)
    <2>1. CASE m = 0
      BY ONLY <1>1, <1>4, <2>1
    <2>2. CASE m # 0
      <3>1. Ends[m] <= Len(file)
        BY ONLY <1>1, <1>4, <1>6
      <3> QED
        BY <3>1, <2>2, <1>4, <1>8, EndIsCut
    <2> QED
      BY ONLY <2>1, <2>2
  <1>10. ASSUME NEW k \in Reader!Cuts(file), k < d PROVE k <= c
    <2>1. PICK j \in 1 .. Len(tmp) : k = Ends[j]
      BY CutIsEnd
    <2>2. j \in 0 .. Len(tmp) /\ (j <= m \/ n <= j) /\ j \in Nat
      BY ONLY <1>1, <1>2, <1>3, j \in 1 .. Len(tmp)
    <2>3. Ends[j] \in Nat
      BY ONLY <1>1, <2>2
    <2>4. n < j => Ends[n] < Ends[j]
      BY <1>3, <2>2, EndsFacts
    <2>5. ~ (n <= j)
      BY ONLY <1>3, <1>5, <1>6, <1>10, <2>1, <2>2, <2>3, <2>4
    <2>6. j < m => Ends[j] < Ends[m]
      BY <1>3, <2>2, EndsFacts
    <2> QED
      BY ONLY <1>3, <1>4, <1>6, <2>1, <2>2, <2>3, <2>5, <2>6
  <1>11. Cardinality(Reader!CutsUpTo(file, c)) = m
    <2>1. c \in Int /\ c <= Len(file)
      BY ONLY <1>1, <1>6
    <2>2. \A k : k \in Reader!CutsUpTo(file, c) <=> k \in Reader!Cuts(file) /\ k <= c
      BY ONLY <1>1, <2>1, CutsFacts
    <2>3. ASSUME NEW k \in Reader!CutsUpTo(file, c) PROVE k \in FirstEnds(m)
      <3>1. k \in Reader!Cuts(file) /\ k <= c
        BY ONLY <2>2, <2>3
      <3>2. PICK j \in 1 .. Len(tmp) : k = Ends[j]
        BY <3>1, CutIsEnd
      <3>3. j \in 0 .. Len(tmp) /\ j \in Nat /\ j >= 1
        BY ONLY <1>1, j \in 1 .. Len(tmp)
      <3>4. m < j => Ends[m] < Ends[j]
        BY <3>3, EndsFacts
      <3>5. Ends[j] \in Nat
        BY ONLY <1>1, <3>3
      <3>6. j \in 1 .. m
        BY ONLY <1>3, <1>4, <1>6, <3>1, <3>2, <3>3, <3>4, <3>5
      <3> QED
        BY ONLY <3>2, <3>6 DEF FirstEnds
    <2>4. FirstEnds(m) \in SUBSET Reader!CutsUpTo(file, c)
      <3>1. CASE m = 0
        <4>1. FirstEnds(m) = {}
          BY ONLY <3>1 DEF FirstEnds
        <4> QED
          BY ONLY <4>1
      <3>2. CASE m # 0
        <4>1. Ends[m] <= c
          BY ONLY <1>4, <1>6
        <4> QED
          BY <1>8, <2>1, <3>2, <4>1, FirstEndsAreCuts
      <3> QED
        BY ONLY <3>1, <3>2
    <2>5. Reader!CutsUpTo(file, c) = FirstEnds(m)
      BY ONLY <2>3, <2>4
    <2> QED
      BY <2>5, FirstEndsCount
  <1>12. Reader!NthCut(file, m + 1) = d
    <2>1. Reader!NthCut(file, Reader!Cardinality(Reader!CutsUpTo(file, c)) + 1) = d
      BY <1>1, <1>6, <1>7, <1>10, ReaderAssumptions, Reader!NextCut
    <2> QED
      BY ONLY <1>11, <2>1, ReaderCounts
  <1> QED
    BY ONLY <1>2, <1>4, <1>5, <1>6, <1>7, <1>9, <1>10, <1>12

(***************************************************************************)
(* Of a regular file, the frame FileReceiver finds at the end of a piece   *)
(* is the piece, whole.                                                    *)
(***************************************************************************)
LEMMA PieceIsFrame ==
  ASSUME Faithful, Opened, Regular, NoAudInside, NEW n \in 1 .. Len(tmp),
         Ends[n] <= Len(file)
  PROVE  Reader!FrameEndingAt(file, Ends[n]) = Bytes(tmp[n])
  <1>1. PICK c : c = Ends[n - 1]
    OBVIOUS
  <1>2. PICK d : d = Ends[n]
    OBVIOUS
  <1>3. PICK w : w = tmp[n]
    OBVIOUS
  <1>4. /\ Len(file) \in Nat /\ file \in Seq(Reader!Symbols)
        /\ file \in Seq({H, A, X}) /\ Len(Flatten) \in Nat
        /\ Len(file) <= Len(Flatten)
    BY OpenedFacts
  <1>5. /\ c \in Nat /\ d \in Nat /\ d = c + Len(w) /\ c < d /\ d <= Len(file)
        /\ \A i \in 1 .. Len(w) : Flatten[c + i] = w[i]
    BY <1>1, <1>2, <1>3, EndsFacts
  <1>6. Len(w) \in Nat /\ Len(w) > 2 /\ w[1] = H
    BY <1>3, PieceIs DEF Piece
  <1>7. /\ d \in Reader!Cuts(file) /\ c \in {0} \cup Reader!Cuts(file)
        /\ \A k \in Reader!Cuts(file) : k < d => k <= c
    BY <1>1, <1>2, NthCutIs
  <1>8. PICK S : S = {i \in c + 1 .. d : Reader!HeaderAt(file, i)}
    OBVIOUS
  <1>9. Reader!FrameEndingAt(file, d) = SubSeq(file, Reader!First(S), d)
    BY <1>4, <1>5, <1>7, <1>8, ReaderAssumptions, Reader!FrameAfter
  <1>10. /\ c + 1 \in 1 .. Len(file) /\ c + 1 \in c + 1 .. d /\ 1 \in 1 .. Len(w)
         /\ c + 1 \in Nat \ {0} /\ c + 1 <= d
    BY ONLY <1>4, <1>5, <1>6
  <1>11. file[c + 1] = H
    <2>1. Flatten[c + 1] = H
      BY ONLY <1>5, <1>6, <1>10
    <2> QED
      BY <1>10, <2>1, OpenedFacts
  <1>12. Reader!First(S) = c + 1
    <2>1. c + 1 \in S
      <3>1. Reader!HeaderAt(file, c + 1)
        BY ONLY <1>11 DEF Reader!HeaderAt, Reader!H, H
      <3> QED
        BY ONLY <1>8, <1>10, <3>1
    <2>2. S \in SUBSET Nat /\ \A k \in S : c + 1 <= k
      BY ONLY <1>5, <1>8
    <2> QED
      BY ONLY <2>1, <2>2, ReaderAssumptions, Reader!FirstIs
  <1>13. PICK f : f = SubSeq(file, c + 1, d)
    OBVIOUS
  <1>14. PICK U : U = {H, A, X}
    OBVIOUS
  <1>15. /\ f \in Seq(U) /\ Len(f) = Len(w)
         /\ \A i \in 1 .. Len(w) : f[i] = file[c + i]
    <2>1. file \in Seq(U)
      BY ONLY <1>4, <1>14
    <2>2. /\ f \in Seq(U) /\ Len(f) = IF c + 1 <= d THEN d - (c + 1) + 1 ELSE 0
          /\ \A i \in 1 .. Len(f) : f[i] = file[c + 1 + i - 1]
      <3>1. c + 1 \in Nat \ {0} /\ d \in Nat /\ d <= Len(file)
        BY ONLY <1>5, <1>10
      <3> QED
        BY ONLY <2>1, <3>1, <1>13, SubSeqFacts
    <2>3. Len(f) = Len(w)
      BY ONLY <1>5, <1>6, <1>10, <2>2
    <2>4. \A i \in 1 .. Len(w) : c + 1 + i - 1 = c + i
      BY ONLY <1>5, <1>6
    <2> QED
      BY ONLY <2>2, <2>3, <2>4
  <1>16. PICK T : tmp \in Seq(Seq(T)) /\ Flatten \in Seq(T)
    BY TmpFacts
  <1>17. w \in Seq(T)
    BY ONLY <1>3, <1>16, n \in 1 .. Len(tmp)
  <1>18. Bytes(w) \in Seq(U) /\ Len(Bytes(w)) = Len(w)
    BY ONLY <1>14, <1>17, BytesFacts
  <1>19. ASSUME NEW i \in 1 .. Len(w) PROVE f[i] = Bytes(w)[i]
    <2>1. /\ c + i \in 1 .. Len(file) /\ c + i \in 1 .. Len(Flatten)
      BY ONLY <1>4, <1>5, <1>6, i \in 1 .. Len(w)
    <2>2. file[c + i] = Bytes(Flatten)[c + i]
      BY <2>1, OpenedFacts
    <2>3. Flatten[c + i] = w[i] /\ i \in DOMAIN w /\ c + i \in DOMAIN Flatten
      BY ONLY <1>5, <1>16, <1>17, <2>1, i \in 1 .. Len(w)
    <2>4. Bytes(w)[i] = Bytes(Flatten)[c + i]
      <3>1. PICK j : j = c + i
        OBVIOUS
      <3> QED
        BY ONLY <2>3, <3>1, BytesAt
    <2> QED
      BY ONLY <1>15, <2>2, <2>4
  <1>20. f = Bytes(w)
    BY ONLY <1>15, <1>18, <1>19, SeqEqual
  <1> QED
    BY ONLY <1>2, <1>3, <1>9, <1>12, <1>13, <1>20

LEMMA FramesAreUnits ==
  ASSUME Faithful, Opened, ReaderInv
  PROVE  CustomFramesFaithful
  <1> SUFFICES ASSUME Regular, NoAudInside, NEW n \in 1 .. Len(delivered)
               PROVE  delivered[n]
                        = Bytes(AccessUnit(NthFrame(n)) \o S_frameAudInfo)
    BY DEF CustomFramesFaithful
  <1>1. /\ n <= Cardinality(Reader!Cuts(file))
        /\ delivered[n] = Reader!FrameEndingAt(file, Reader!NthCut(file, n))
    <2>1. Reader!FramesFaithful
      BY DEF ReaderInv, Reader!Progress
    <2>2. /\ n <= Reader!Cardinality(Reader!Cuts(file))
          /\ delivered[n] = Reader!FrameEndingAt(file, Reader!NthCut(file, n))
      BY ONLY <2>1, n \in 1 .. Len(delivered) DEF Reader!FramesFaithful
    <2> QED
      BY ONLY <2>2, ReaderCounts
  <1>2. n \in Nat \ {0}
    <2>1. delivered \in Seq(Seq(Reader!Symbols))
      BY DEF ReaderInv, Reader!Placed, Reader!TypeOK
    <2>2. Len(delivered) \in Nat
      BY ONLY <2>1
    <2> QED
      BY ONLY <2>2, n \in 1 .. Len(delivered)
  <1>3. n \in 1 .. Len(tmp) /\ Ends[n] <= Len(file)
    BY <1>1, <1>2, CutHasPiece
  <1>4. Reader!NthCut(file, n) = Ends[n]
    BY <1>3, NthCutIs
  <1>5. delivered[n] = Bytes(tmp[n])
    BY <1>1, <1>3, <1>4, PieceIsFrame
  <1>6. tmp[n] = AccessUnit(NthFrame(n)) \o S_frameAudInfo
    BY <1>3, UnitsCopied DEF WritesAccessUnits
  <1> QED
    BY ONLY <1>5, <1>6

(***************************************************************************)
(* The inductive invariant of the composition: Faithful of AudInserter at  *)
(* all times, and FileReceiver's own once it has opened tmp.h264, which it *)
(* does only when all that can be written has been.                        *)
(***************************************************************************)
Waiting ==
  exit = NotBuilt =>
    /\ filePos = 0 /\ mTmpBuffer = << >> /\ mFoundBegin = 0
    /\ mFoundEnd \in InitialFound /\ pc = "loop" /\ delivered = << >>

Reading ==
  exit # NotBuilt => phase = "written" /\ Opened /\ ReaderInv

Composed == InitialFound = {0} /\ Faithful /\ Waiting /\ Reading

LEMMA ComposedInit == InitialFound = {0} /\ CustomInit => Composed
  <1> SUFFICES ASSUME InitialFound = {0}, CustomInit PROVE Composed
    OBVIOUS
  <1>1. Faithful
    BY FaithfulInit DEF CustomInit
  <1>2. Waiting /\ Reading
    BY DEF CustomInit, Waiting, Reading
  <1> QED
    BY ONLY InitialFound = {0}, <1>1, <1>2 DEF Composed

LEMMA ComposedStep ==
  Composed /\ [CustomNext]_customVars => Composed'
  <1> SUFFICES ASSUME Composed, [CustomNext]_customVars PROVE Composed'
    OBVIOUS
  <1>0. InitialFound = {0}
    BY DEF Composed
  <1>1. CASE Insert
    <2>1. Next /\ UNCHANGED receiverVars
      BY <1>1 DEF Insert
    <2>2. Faithful'
      BY <2>1, FaithfulStep DEF Composed
    <2>3. phase # "written"
      BY <2>1 DEF Next, OpenFiles, ParseNalu, ParseEnds, WriteFrame,
                  WriteCrashes, WriteEnds, Writing
    <2>4. exit = NotBuilt
      BY <2>3 DEF Composed, Reading
    <2>5. Waiting' /\ Reading'
      BY <2>1, <2>4 DEF Composed, Waiting, Reading, receiverVars
    <2> QED
      BY ONLY <1>0, <2>2, <2>5 DEF Composed
  <1>2. CASE OpenTmp
    <2>1. /\ phase = "written" /\ exit = NotBuilt /\ exit' = Receiver!Running
          /\ \E held \in 0 .. StdioBuffer : LessOf(Flatten, held, file')
          /\ UNCHANGED <<insertVars, filePos, mTmpBuffer, mFoundBegin, mFoundEnd,
                         pc, delivered>>
      BY <1>2 DEF OpenTmp, LessOf
    <2>2. Faithful'
      BY <2>1, FaithfulStep DEF Composed
    <2>3. tmp' = tmp /\ phase' = phase
      BY <2>1 DEF insertVars
    <2>4. Flatten' = Flatten
      BY <2>3 DEF Flatten
    <2>5. Opened'
      <3>1. \E held \in 0 .. StdioBuffer : LessOf(Flatten', held, file')
        BY ONLY <2>1, <2>4
      <3> QED
        BY ONLY <3>1 DEF Opened, LessOf, Bytes
    <2>6. file' \in Seq({H, A, X})
      <3>1. PICK T : Flatten \in Seq(T)
        BY TmpFacts DEF Composed
      <3>2. PICK held \in 0 .. StdioBuffer : LessOf(Flatten, held, file')
        BY <2>1
      <3>3. held \in Nat
        BY StdioBufferAssumption
      <3> QED
        BY ONLY <3>1, <3>2, <3>3, FileIs
    <2>7. Reader!Init'
      BY <2>1, <2>6 DEF Composed, Waiting, Reader!Init, Receiver!Running,
                        Reader!Running
    <2>8. ReaderInv'
      BY <1>0, <2>7, ReaderStarts
    <2>9. Waiting' /\ Reading'
      BY <2>1, <2>3, <2>5, <2>8 DEF Waiting, Reading, NotBuilt, Receiver!Running
    <2> QED
      BY ONLY <1>0, <2>2, <2>9 DEF Composed
  <1>3. CASE Receive
    <2>1. Receiver!Next /\ UNCHANGED insertVars
      BY <1>3 DEF Receive
    <2>2. Reader!Next /\ exit # NotBuilt
      BY <2>1, ReceiverIsReader
    <2>3. Faithful'
      BY <2>1, FaithfulStep DEF Composed
    <2>4. ReaderInv'
      BY <2>2, ReaderStep DEF Composed, Reading
    <2>5. file' = file /\ tmp' = tmp /\ phase' = phase
      BY <2>1, <2>2 DEF insertVars, Reader!Next, Reader!ReadFirst,
         Reader!SearchFails, Reader!Refill, Reader!SearchSucceeds
    <2>6. Opened'
      BY <2>2, <2>5 DEF Composed, Reading, Opened, LessOf, Flatten, Bytes
    <2>7. exit' # NotBuilt
      <3>1. exit' \in {Reader!Running, Reader!Passed, Reader!Ended, Reader!NoAud,
                       Reader!TooLong, Reader!Crashed}
        BY <2>4 DEF ReaderInv, Reader!Placed, Reader!TypeOK
      <3> QED
        BY ONLY <3>1 DEF NotBuilt, Reader!Running, Reader!Passed, Reader!Ended,
                         Reader!NoAud, Reader!TooLong, Reader!Crashed
    <2>8. Waiting' /\ Reading'
      BY <2>2, <2>4, <2>5, <2>6, <2>7 DEF Composed, Waiting, Reading
    <2> QED
      BY ONLY <1>0, <2>3, <2>8 DEF Composed
  <1>4. CASE UNCHANGED customVars
    <2>1. UNCHANGED insertVars /\ UNCHANGED receiverVars
      BY <1>4 DEF customVars
    <2>2. Faithful'
      BY <2>1, FaithfulStep DEF Composed
    <2>3. exit # NotBuilt => ReaderInv'
      <3>1. UNCHANGED Reader!vars
        BY ONLY <2>1 DEF receiverVars, Reader!vars
      <3> QED
        BY <3>1, ReaderStep DEF Composed, Reading
    <2>4. file' = file /\ tmp' = tmp /\ phase' = phase /\ exit' = exit
      BY <2>1 DEF insertVars, receiverVars
    <2>5. Opened => Opened'
      BY <2>4 DEF Opened, LessOf, Flatten, Bytes
    <2>6. Waiting' /\ Reading'
      BY <2>1, <2>3, <2>4, <2>5 DEF Composed, Waiting, Reading, receiverVars
    <2> QED
      BY ONLY <1>0, <2>2, <2>6 DEF Composed
  <1> QED
    BY <1>1, <1>2, <1>3, <1>4 DEF CustomNext

(***************************************************************************)
(* addAudInfoForCustomH264 runs in the composition as it does alone, so    *)
(* what is proved of it holds there too.                                   *)
(***************************************************************************)
THEOREM CustomInserts == CustomSpec => Spec
  <1>1. CustomInit => Init
    BY DEF CustomInit
  <1>2. [CustomNext]_customVars => [Next]_insertVars
    BY DEF CustomNext, Insert, OpenTmp, Receive, customVars
  <1> QED
    BY <1>1, <1>2, PTL DEF CustomSpec, Spec

(***************************************************************************)
(* For every regular file without an AUD, every size of the buffers and    *)
(* every number of symbols that stdio holds back: the frames the checker   *)
(* is given are the first access units of the file, in order, each exact   *)
(* and with an AUD behind it, if mFoundEnd was 0 to begin with.            *)
(***************************************************************************)
THEOREM CustomFramesAreUnits ==
  InitialFound = {0} /\ CustomSpec => []CustomFramesFaithful
  <1>1. Composed => CustomFramesFaithful
    <2> SUFFICES ASSUME Composed PROVE CustomFramesFaithful
      OBVIOUS
    <2>1. CASE exit = NotBuilt
      <3>1. delivered = << >>
        BY <2>1 DEF Composed, Waiting
      <3>2. 1 .. Len(delivered) = {}
        BY ONLY <3>1
      <3> QED
        BY ONLY <3>2 DEF CustomFramesFaithful
    <2>2. CASE exit # NotBuilt
      BY <2>2, FramesAreUnits DEF Composed, Reading
    <2> QED
      BY <2>1, <2>2
  <1> QED
    BY ComposedInit, ComposedStep, <1>1, PTL DEF CustomSpec

(***************************************************************************)
(* For every file, regular or not, and every size of the buffers: at the   *)
(* end of tmp.h264 a frame is lost only if it ends in the last bytes of    *)
(* it, a buffer of stdio's and one of FileReceiver's, if mFoundEnd was 0   *)
(* to begin with.                                                          *)
(***************************************************************************)
THEOREM CustomTailIsBounded ==
  InitialFound = {0} /\ CustomSpec => []CustomTailBounded
  <1>1. Composed => CustomTailBounded
    <2> SUFFICES ASSUME Composed PROVE CustomTailBounded
      OBVIOUS
    <2>1. CASE exit = NotBuilt
      <3>1. ~ (exit \in {Receiver!Passed, Receiver!Ended})
        BY ONLY <2>1 DEF NotBuilt, Receiver!Passed, Receiver!Ended
      <3> QED
        BY ONLY <3>1 DEF CustomTailBounded
    <2>2. CASE exit # NotBuilt
      BY <2>2, TailBounded DEF Composed, Reading
    <2> QED
      BY <2>1, <2>2
  <1> QED
    BY ComposedInit, ComposedStep, <1>1, PTL DEF CustomSpec

=============================================================================
