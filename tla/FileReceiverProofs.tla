------------------------- MODULE FileReceiverProofs -------------------------
(***************************************************************************)
(* Theorems about FileReceiver, for every file and every size of the       *)
(* buffer and of a frame.                                                  *)
(***************************************************************************)
EXTENDS FileReceiver, FiniteSetTheorems, SequenceTheorems,
        WellFoundedInduction, TLAPS

USE DEF SizeofAud, SizeofHeader

(***************************************************************************)
(* Facts about sequences.                                                  *)
(***************************************************************************)
LEMMA SubSeqFacts ==
  ASSUME NEW T, NEW s \in Seq(T), NEW a \in Nat \ {0}, NEW b \in Nat,
         b <= Len(s)
  PROVE  /\ SubSeq(s, a, b) \in Seq(T)
         /\ Len(SubSeq(s, a, b)) = IF a <= b THEN b - a + 1 ELSE 0
         /\ \A i \in 1 .. Len(SubSeq(s, a, b)) :
              SubSeq(s, a, b)[i] = s[a + i - 1]
  OBVIOUS

LEMMA SubSeqJoined ==
  ASSUME NEW T, NEW s \in Seq(T), NEW a \in Nat \ {0}, NEW b \in Nat,
         NEW c \in Nat, a <= b + 1, b <= c, c <= Len(s)
  PROVE  SubSeq(s, a, b) \o SubSeq(s, b + 1, c) = SubSeq(s, a, c)
  OBVIOUS

LEMMA SubSeqNested ==
  ASSUME NEW T, NEW s \in Seq(T), NEW a \in Nat \ {0}, NEW b \in Nat,
         NEW x \in Nat \ {0}, NEW y \in Nat,
         a <= b + 1, b <= Len(s), y <= b - a + 1
  PROVE  SubSeq(SubSeq(s, a, b), x, y) = SubSeq(s, a + x - 1, a + y - 1)
  OBVIOUS

LEMMA ConcatFacts ==
  ASSUME NEW T, NEW s \in Seq(T), NEW t \in Seq(T)
  PROVE  s \o t \in Seq(T) /\ Len(s \o t) = Len(s) + Len(t)
  OBVIOUS

LEMMA AppendFacts ==
  ASSUME NEW T, NEW s \in Seq(T), NEW e
  PROVE  /\ Len(Append(s, e)) = Len(s) + 1
         /\ \A i \in 1 .. Len(s) : Append(s, e)[i] = s[i]
         /\ Append(s, e)[Len(s) + 1] = e
  OBVIOUS

(***************************************************************************)
(* First returns the least element.                                        *)
(***************************************************************************)
LEMMA FirstFacts ==
  ASSUME NEW S \in SUBSET Nat, S # {}
  PROVE  First(S) \in S /\ \A k \in S : First(S) <= k
  <1>1. PICK m \in S : \A k \in S : ~ (<<k, m>> \in OpToRel(<, Nat))
    BY ONLY WFMin, NatLessThanWellFounded, S \in SUBSET Nat, S # {}
  <1>2. \A k \in S : k \in Nat /\ ~ (k < m)
    BY <1>1 DEF OpToRel
  <1>3. m \in Nat
    BY <1>1
  <1>4. \A k \in S : m <= k
    BY ONLY <1>2, <1>3
  <1> QED
    BY <1>1, <1>4 DEF First

LEMMA FirstIs ==
  ASSUME NEW S \in SUBSET Nat, NEW m \in S, \A k \in S : m <= k
  PROVE  First(S) = m
  <1>1. First(S) \in S /\ First(S) <= m
    BY FirstFacts
  <1>2. m <= First(S) /\ First(S) \in Nat /\ m \in Nat
    BY <1>1
  <1> QED
    BY ONLY <1>1, <1>2

(***************************************************************************)
(* AUDs and the cuts behind them.                                          *)
(***************************************************************************)
LEMMA PairIs ==
  ASSUME NEW T, NEW t \in Seq(T), Len(t) = 2, NEW a \in T, NEW b \in T
  PROVE  t = <<a, b>> <=> t[1] = a /\ t[2] = b
  <1>1. /\ <<a, b>> \in Seq(T) /\ Len(<<a, b>>) = 2
        /\ <<a, b>>[1] = a /\ <<a, b>>[2] = b
    OBVIOUS
  <1>2. ASSUME t[1] = a, t[2] = b PROVE t = <<a, b>>
    <2>1. \A i \in 1 .. Len(t) : t[i] = <<a, b>>[i]
      BY ONLY <1>1, <1>2, Len(t) = 2
    <2> QED
      BY <1>1, <2>1, SeqEqual
  <1> QED
    BY <1>1, <1>2

LEMMA AudIs ==
  ASSUME NEW s \in Seq(Symbols), NEW i \in Nat \ {0}, i < Len(s)
  PROVE  AudAt(s, i) <=> s[i] = H /\ s[i + 1] = A
  <1> DEFINE t == SubSeq(s, i, i + 1)
  <1>1. Len(t) = 2 /\ t[1] = s[i] /\ t[2] = s[i + 1] /\ t \in Seq(Symbols)
    BY SubSeqFacts
  <1>2. t = <<H, A>> <=> t[1] = H /\ t[2] = A
    <2>1. H \in Symbols /\ A \in Symbols
      BY DEF Symbols
    <2> HIDE DEF t
    <2> QED
      BY ONLY <1>1, <2>1, PairIs
  <1>3. AudAt(s, i) <=> t = <<H, A>>
    BY DEF AudAt, KAudHex2
  <1> QED
    BY ONLY <1>1, <1>2, <1>3

LEMMA CutsAre ==
  ASSUME NEW s \in Seq(Symbols)
  PROVE  /\ Cuts(s) \in SUBSET Nat
         /\ \A c : c \in Cuts(s)
                     <=> c \in 2 .. Len(s) /\ s[c - 1] = H /\ s[c] = A
  <1>1. ASSUME NEW c, c \in Cuts(s)
        PROVE  c \in 2 .. Len(s) /\ s[c - 1] = H /\ s[c] = A
    <2>1. PICK i \in 1 .. Len(s) - 1 : AudAt(s, i) /\ c = i + 1
      BY <1>1 DEF Cuts
    <2>2. s[i] = H /\ s[i + 1] = A
      BY <2>1, AudIs
    <2> QED
      BY <2>1, <2>2
  <1>2. ASSUME NEW c \in 2 .. Len(s), s[c - 1] = H, s[c] = A
        PROVE  c \in Cuts(s)
    <2>1. c - 1 \in 1 .. Len(s) - 1 /\ (c - 1) + 1 = c
      OBVIOUS
    <2>2. AudAt(s, c - 1)
      BY <1>2, <2>1, AudIs
    <2> QED
      BY <2>1, <2>2 DEF Cuts
  <1> QED
    BY <1>1, <1>2

LEMMA CutsCount ==
  ASSUME NEW s \in Seq(Symbols), NEW c \in Int, NEW d \in Int, c <= d
  PROVE  /\ CutsUpTo(s, c) \subseteq CutsUpTo(s, d)
         /\ IsFiniteSet(CutsUpTo(s, c))
         /\ Cardinality(CutsUpTo(s, c)) \in Nat
         /\ Cardinality(CutsUpTo(s, d)) \in Nat
         /\ Cardinality(Cuts(s)) \in Nat
         /\ Cardinality(CutsUpTo(s, c)) <= Cardinality(CutsUpTo(s, d))
         /\ Cardinality(CutsUpTo(s, d)) <= Cardinality(Cuts(s))
  <1>1. IsFiniteSet(Cuts(s))
    <2>1. IsFiniteSet(2 .. Len(s))
      BY FS_Interval
    <2>2. Cuts(s) \subseteq 2 .. Len(s)
      BY CutsAre
    <2> QED
      BY <2>1, <2>2, FS_Subset
  <1>2. CutsUpTo(s, c) \subseteq CutsUpTo(s, d)
    BY CutsAre DEF CutsUpTo
  <1>3. CutsUpTo(s, d) \subseteq Cuts(s)
    BY DEF CutsUpTo
  <1> QED
    BY <1>1, <1>2, <1>3, FS_Subset, FS_CardinalityType

(***************************************************************************)
(* The next cut after a position is the one with the next number, and the  *)
(* frame it ends begins at the first start code after that position.       *)
(***************************************************************************)
LEMMA NextCut ==
  ASSUME NEW s \in Seq(Symbols), NEW c \in Nat, NEW d \in Cuts(s),
         c < d, \A k \in Cuts(s) : k < d => k <= c
  PROVE  LET n == Cardinality(CutsUpTo(s, c)) + 1
         IN /\ Cardinality(CutsUpTo(s, d)) = n
            /\ n <= Cardinality(Cuts(s))
            /\ NthCut(s, n) = d
  <1> DEFINE n == Cardinality(CutsUpTo(s, c)) + 1
  <1>0. d \in Nat
    BY CutsAre
  <1>1. IsFiniteSet(CutsUpTo(s, c)) /\ n \in Nat
    BY CutsCount
  <1>2. CutsUpTo(s, d) = CutsUpTo(s, c) \cup {d} /\ d \notin CutsUpTo(s, c)
    BY <1>0, CutsAre DEF CutsUpTo
  <1>3. Cardinality(CutsUpTo(s, d)) = n
    BY <1>1, <1>2, FS_AddElement
  <1>4. n <= Cardinality(Cuts(s))
    BY <1>0, <1>3, CutsCount
  <1>5. ASSUME NEW k \in Cuts(s), Cardinality(CutsUpTo(s, k)) = n, k # d
        PROVE  FALSE
    <2>0. k \in Nat
      BY CutsAre
    <2>1. CASE k < d
      <3>1. k <= c
        BY <2>1
      <3>2. Cardinality(CutsUpTo(s, k)) <= Cardinality(CutsUpTo(s, c))
        BY <2>0, <3>1, CutsCount
      <3>3. Cardinality(CutsUpTo(s, c)) \in Nat
        BY CutsCount
      <3> QED
        BY <1>5, <3>2, <3>3
    <2>2. CASE d < k
      <3>1. CutsUpTo(s, d) \subseteq CutsUpTo(s, k)
        BY <1>0, <2>0, <2>2, CutsCount
      <3>2. k \in CutsUpTo(s, k) /\ k \notin CutsUpTo(s, d)
        BY <1>0, <2>0, <2>2 DEF CutsUpTo
      <3>3. IsFiniteSet(CutsUpTo(s, k))
        BY <2>0, CutsCount
      <3>4. CutsUpTo(s, d) = CutsUpTo(s, k)
        BY <1>3, <1>5, <3>1, <3>3, FS_Subset
      <3> QED
        BY <3>2, <3>4
    <2> QED
      BY <1>0, <1>5, <2>0, <2>1, <2>2
  <1>6. NthCut(s, n) = d
    BY <1>3, <1>5 DEF NthCut
  <1> QED
    BY <1>3, <1>4, <1>6

LEMMA FrameAfter ==
  ASSUME NEW s \in Seq(Symbols), NEW c \in {0} \cup Cuts(s), NEW d \in Cuts(s),
         c < d, \A k \in Cuts(s) : k < d => k <= c
  PROVE  FrameEndingAt(s, d)
           = SubSeq(s, First({i \in c + 1 .. d : HeaderAt(s, i)}), d)
  <1>1. /\ c \in Nat
        /\ \A k \in Cuts(s) : k \in Nat
    BY CutsAre
  <1>2. ASSUME NEW p \in {0} \cup Cuts(s), p < d,
               \A k \in Cuts(s) : k < d => k <= p
        PROVE  p = c
    BY <1>1, <1>2
  <1>3. (CHOOSE p \in {0} \cup Cuts(s) :
           p < d /\ \A k \in Cuts(s) : k < d => k <= p) = c
    BY <1>2
  <1> QED
    BY <1>3 DEF FrameEndingAt

-----------------------------------------------------------------------------
(***************************************************************************)
(* What the two loops of getOneFrameStream find.                           *)
(***************************************************************************)
LEMMA FoundFacts ==
  ASSUME TypeOK
  PROVE  mFilledSize \in Nat /\ mFoundBegin \in Nat /\ mFoundEnd \in Nat
  <1>1. mFilledSize \in Nat
    BY DEF TypeOK, mFilledSize
  <1> QED
    BY <1>1, InitialFoundAssumption DEF TypeOK

LEMMA SearchFinds ==
  ASSUME TypeOK
  PROVE  /\ EndFound \in Nat
         /\ AudOffsets # {} => /\ EndFound - 2 \in AudOffsets
                              /\ \A i \in AudOffsets : EndFound - 2 <= i
         /\ AudOffsets = {} => EndFound = mFoundEnd
         /\ \A e \in Nat :
              /\ BeginOf(e) \in Nat
              /\ HeaderOffsets(e) # {} =>
                   /\ BeginOf(e) \in HeaderOffsets(e)
                   /\ \A i \in HeaderOffsets(e) : BeginOf(e) <= i
  <1>1. AudOffsets \in SUBSET Nat
    BY DEF AudOffsets
  <1>2. ASSUME AudOffsets # {}
        PROVE  /\ EndFound \in Nat
               /\ EndFound - 2 \in AudOffsets
               /\ \A i \in AudOffsets : EndFound - 2 <= i
    <2>1. EndFound = First(AudOffsets) + 2
      BY <1>2 DEF EndFound
    <2>2. /\ First(AudOffsets) \in AudOffsets
          /\ \A k \in AudOffsets : First(AudOffsets) <= k
      BY ONLY <1>1, <1>2, FirstFacts
    <2>3. First(AudOffsets) \in Nat
      BY ONLY <1>1, <2>2
    <2>4. EndFound \in Nat /\ EndFound - 2 = First(AudOffsets)
      BY ONLY <2>1, <2>3
    <2> QED
      BY ONLY <2>2, <2>4
  <1>3. ASSUME AudOffsets = {}
        PROVE  EndFound = mFoundEnd /\ EndFound \in Nat
    BY <1>3, FoundFacts DEF EndFound
  <1>4. ASSUME NEW e \in Nat
        PROVE  /\ BeginOf(e) \in Nat
               /\ HeaderOffsets(e) # {} =>
                    /\ BeginOf(e) \in HeaderOffsets(e)
                    /\ \A i \in HeaderOffsets(e) : BeginOf(e) <= i
    <2>1. HeaderOffsets(e) \in SUBSET Nat
      BY DEF HeaderOffsets
    <2>2. CASE HeaderOffsets(e) # {}
      <3>1. BeginOf(e) = First(HeaderOffsets(e))
        BY <2>2 DEF BeginOf
      <3> QED
        BY ONLY <2>1, <2>2, <3>1, FirstFacts
    <2>3. CASE HeaderOffsets(e) = {}
      BY <2>3, FoundFacts DEF BeginOf
    <2> QED
      BY <2>2, <2>3
  <1>5. /\ EndFound \in Nat
        /\ AudOffsets # {} => /\ EndFound - 2 \in AudOffsets
                             /\ \A i \in AudOffsets : EndFound - 2 <= i
        /\ AudOffsets = {} => EndFound = mFoundEnd
    BY <1>2, <1>3
  <1> QED
    BY ONLY <1>4, <1>5

LEMMA SearchStays ==
  ASSUME TypeOK
  PROVE  /\ EndFound \in (0 .. mFilledSize) \cup InitialFound
         /\ \A e \in Nat : BeginOf(e) \in 0 .. mFilledSize
  <1>1. mFilledSize \in Nat
    BY FoundFacts
  <1>2. EndFound \in (0 .. mFilledSize) \cup InitialFound
    <2>1. CASE AudOffsets # {}
      <3>1. EndFound \in Nat /\ EndFound - 2 \in 0 .. mFilledSize - 2 - 1
        BY <2>1, SearchFinds DEF AudOffsets
      <3> QED
        BY ONLY <1>1, <3>1
    <2>2. CASE AudOffsets = {}
      BY <2>2, SearchFinds DEF TypeOK
    <2> QED
      BY <2>1, <2>2
  <1>3. ASSUME NEW e \in Nat
        PROVE  BeginOf(e) \in 0 .. mFilledSize
    <2>1. CASE HeaderOffsets(e) # {}
      <3>1. BeginOf(e) \in Nat /\ BeginOf(e) < mFilledSize
        BY <2>1, SearchFinds DEF HeaderOffsets
      <3> QED
        BY ONLY <1>1, <3>1
    <2>2. CASE HeaderOffsets(e) = {}
      BY <2>2 DEF BeginOf, TypeOK
    <2> QED
      BY <2>1, <2>2
  <1> QED
    BY <1>2, <1>3

(***************************************************************************)
(* TypeOK and BufferIsFilePart are inductive together.  Neither is alone:  *)
(* that the buffer does not grow beyond its size depends on nothing else,  *)
(* but what it holds are symbols because they come from the file.          *)
(***************************************************************************)
Placed ==
  /\ TypeOK
  /\ BufferIsFilePart
  /\ exit = Running => mFilledSize <= filePos

LEMMA FileFacts ==
  ASSUME file \in Files
  PROVE  /\ file \in Seq(Symbols)
         /\ Len(file) \in Nat
         /\ BufferSize \in Nat
         /\ StreamMaxSize \in 1 .. BufferSize
  BY FilesAssumption, BufferSizeAssumption, StreamMaxSizeAssumption

LEMMA PlacedInit == Init => Placed
  <1> SUFFICES ASSUME Init PROVE Placed
    OBVIOUS
  <1>1. file \in Seq(Symbols) /\ Len(file) \in Nat /\ BufferSize \in Nat
    BY FileFacts DEF Init
  <1>2. mTmpBuffer = << >> /\ delivered = << >> /\ filePos = 0
    BY DEF Init
  <1>3. mTmpBuffer \in Seq(Symbols) /\ mFilledSize = 0 /\ Len(delivered) = 0
    BY ONLY <1>2 DEF mFilledSize
  <1>4. SubSeq(file, 1, 0) = << >>
    BY ONLY SubSeqEmpty
  <1>5. ConsumedTo = 0
    BY ONLY <1>2, <1>3 DEF ConsumedTo
  <1>6. BufferIsFilePart
    BY ONLY <1>2, <1>4, <1>5 DEF BufferIsFilePart
  <1>7. mFoundEnd \in (0 .. mFilledSize) \cup InitialFound
    BY DEF Init
  <1>8. /\ file \in Files /\ mFoundBegin = 0
        /\ pc = "loop" /\ exit = Running
    BY DEF Init
  <1> QED
    BY ONLY <1>1, <1>2, <1>3, <1>6, <1>7, <1>8 DEF Placed, TypeOK

LEMMA ReadKeepsPlaced ==
  ASSUME Placed, exit = Running,
         NEW next \in {"loop", "parse"}, NEW last \in {Passed, Ended},
         ReadStreamFromFile(next, last),
         UNCHANGED <<file, mFoundBegin, mFoundEnd, delivered>>
  PROVE  Placed' /\ (exit' = Running => ConsumedTo' = ConsumedTo)
  <1>1. /\ file \in Seq(Symbols) /\ Len(file) \in Nat /\ BufferSize \in Nat
        /\ mTmpBuffer \in Seq(Symbols) /\ Len(mTmpBuffer) \in Nat
        /\ filePos \in 0 .. Len(file) /\ Len(mTmpBuffer) <= BufferSize
        /\ Len(mTmpBuffer) <= filePos
        /\ mTmpBuffer = SubSeq(file, filePos - Len(mTmpBuffer) + 1, filePos)
    BY FileFacts DEF Placed, TypeOK, mFilledSize, BufferIsFilePart, ConsumedTo
  <1>0. /\ Len(file) \in Nat /\ BufferSize \in Nat /\ Len(mTmpBuffer) \in Nat
        /\ filePos \in 0 .. Len(file) /\ Len(mTmpBuffer) <= BufferSize
        /\ Len(mTmpBuffer) <= filePos
    BY ONLY <1>1
  <1>2. CASE ShortRead
    <2>1. /\ UNCHANGED <<file, mTmpBuffer, mFoundBegin, mFoundEnd, pc,
                         delivered>>
          /\ filePos' = Len(file)
          /\ exit' = last
      BY <1>2 DEF ReadStreamFromFile
    <2>2. exit' # Running
      BY <2>1 DEF Passed, Ended, Running
    <2>3. filePos' \in 0 .. Len(file')
      BY ONLY <1>1, <2>1
    <2>4. TypeOK'
      BY <2>1, <2>3 DEF Placed, TypeOK, mFilledSize
    <2> QED
      BY ONLY <2>2, <2>4 DEF Placed, BufferIsFilePart
  <1>3. CASE ~ ShortRead
    <2>1. /\ UNCHANGED <<file, mFoundBegin, mFoundEnd, delivered, exit>>
          /\ filePos' = filePos + (BufferSize - Len(mTmpBuffer))
          /\ mTmpBuffer' = mTmpBuffer \o SubSeq(file, filePos + 1, filePos')
          /\ pc' = next
      BY <1>3 DEF ReadStreamFromFile, mFilledSize
    <2>0. filePos' = filePos + (BufferSize - Len(mTmpBuffer))
      BY ONLY <2>1
    <2>2. filePos' <= Len(file) /\ filePos' \in Nat /\ filePos <= filePos'
      BY ONLY <1>0, <1>3, <2>0 DEF ShortRead, mFilledSize
    <2>3. mTmpBuffer'
            = SubSeq(file, filePos - Len(mTmpBuffer) + 1, filePos')
      <3> DEFINE a == filePos - Len(mTmpBuffer) + 1
      <3>1. a \in Nat \ {0} /\ a <= filePos + 1 /\ filePos \in Nat
        BY ONLY <1>1
      <3>2. SubSeq(file, a, filePos) \o SubSeq(file, filePos + 1, filePos')
              = SubSeq(file, a, filePos')
        <4> HIDE DEF a
        <4> QED
          BY ONLY <1>1, <2>2, <3>1, SubSeqJoined
      <3> QED
        BY ONLY <1>1, <2>1, <3>2
    <2>4. /\ mTmpBuffer' \in Seq(Symbols)
          /\ Len(mTmpBuffer') = BufferSize
      <3> DEFINE a == filePos - Len(mTmpBuffer) + 1
      <3>0. a \in Nat \ {0}
        BY ONLY <1>0
      <3>f. file \in Seq(Symbols)
        BY ONLY <1>1
      <3>1. /\ SubSeq(file, a, filePos') \in Seq(Symbols)
            /\ Len(SubSeq(file, a, filePos'))
                 = IF a <= filePos' THEN filePos' - a + 1 ELSE 0
        <4> HIDE DEF a
        <4> QED
          BY ONLY <3>f, <2>2, <3>0, SubSeqFacts
      <3>2. (IF a <= filePos' THEN filePos' - a + 1 ELSE 0) = BufferSize
        BY ONLY <1>0, <2>0, <2>2, <3>0
      <3> QED
        BY ONLY <2>3, <3>1, <3>2
    <2>5. filePos' - Len(mTmpBuffer') = filePos - Len(mTmpBuffer)
      BY ONLY <1>0, <2>0, <2>4
    <2>6. BufferIsFilePart'
      BY ONLY <2>1, <2>3, <2>5 DEF BufferIsFilePart, ConsumedTo, mFilledSize
    <2>7. TypeOK'
      <3>1. /\ filePos' \in 0 .. Len(file')
            /\ mTmpBuffer' \in Seq(Symbols)
            /\ Len(mTmpBuffer') <= BufferSize
        BY ONLY <1>1, <2>1, <2>2, <2>4
      <3>2. 0 .. Len(mTmpBuffer) \subseteq 0 .. Len(mTmpBuffer')
        BY ONLY <1>0, <2>4
      <3>3. /\ mFoundBegin' \in 0 .. Len(mTmpBuffer')
            /\ mFoundEnd' \in (0 .. Len(mTmpBuffer')) \cup InitialFound
        BY <2>1, <3>2 DEF Placed, TypeOK, mFilledSize
      <3> QED
        BY <2>1, <3>1, <3>3 DEF Placed, TypeOK, mFilledSize
    <2>8. Len(mTmpBuffer') <= filePos'
      BY ONLY <1>0, <2>0, <2>4
    <2>9. ConsumedTo' = ConsumedTo
      BY ONLY <2>5 DEF ConsumedTo, mFilledSize
    <2> QED
      BY ONLY <2>6, <2>7, <2>8, <2>9 DEF Placed, mFilledSize
  <1> QED
    BY <1>2, <1>3

(***************************************************************************)
(* A successful search, in one place: the frame lies in the buffer.        *)
(***************************************************************************)
Deliver(begin, end) ==
  /\ begin \in Nat /\ end \in Nat
  /\ begin <= end /\ end <= mFilledSize
  /\ delivered' = Append(delivered, SubSeq(mTmpBuffer, begin + 1, end))
  /\ mTmpBuffer' = SubSeq(mTmpBuffer, end + 1, mFilledSize)
  /\ mFoundBegin' = 0
  /\ mFoundEnd' = 0
  /\ pc' = "loop"
  /\ UNCHANGED <<file, filePos, exit>>

Reject(begin, end) ==
  /\ begin \in 0 .. mFilledSize
  /\ end \in (0 .. mFilledSize) \cup InitialFound
  /\ \/ exit' = TooLong /\ (end - begin >= StreamMaxSize \/ begin > end)
     \/ exit' = Crashed
  /\ mFoundBegin' = begin
  /\ mFoundEnd' = end
  /\ UNCHANGED <<file, filePos, mTmpBuffer, pc, delivered>>

LEMMA SearchOutcome ==
  ASSUME TypeOK, SearchSucceeds
  PROVE  LET end   == EndFound
             begin == BeginOf(end)
         IN Deliver(begin, end) \/ Reject(begin, end)
  <1> DEFINE end   == EndFound
             begin == BeginOf(end)
  <1>1. /\ begin \in 0 .. mFilledSize
        /\ end \in (0 .. mFilledSize) \cup InitialFound
        /\ begin \in Nat /\ end \in Nat
    BY SearchFinds, SearchStays
  <1>2. mFilledSize \in Nat
    BY FoundFacts
  <1>3. CASE end - begin >= StreamMaxSize \/ begin > end \/ end > mFilledSize
    <2>1. Reject(begin, end)
      BY <1>1, <1>3 DEF SearchSucceeds, Reject
    <2> QED
      BY <2>1
  <1>4. CASE ~ (end - begin >= StreamMaxSize \/ begin > end
                  \/ end > mFilledSize)
    <2>1. begin <= end /\ end <= mFilledSize
      BY <1>1, <1>2, <1>4
    <2>2. Deliver(begin, end)
      BY <1>1, <1>4, <2>1 DEF SearchSucceeds, Deliver, MoveTmpBuffer
    <2> QED
      BY <2>2
  <1> QED
    BY <1>3, <1>4

LEMMA DeliverKeepsPlaced ==
  ASSUME Placed, exit = Running, NEW begin, NEW end, Deliver(begin, end)
  PROVE  Placed' /\ ConsumedTo' = ConsumedTo + end
  <1>1. file \in Seq(Symbols) /\ mTmpBuffer \in Seq(Symbols)
    BY FileFacts DEF Placed, TypeOK
  <1>2. /\ Len(file) \in Nat /\ BufferSize \in Nat /\ Len(mTmpBuffer) \in Nat
        /\ filePos \in 0 .. Len(file) /\ Len(mTmpBuffer) <= BufferSize
        /\ Len(mTmpBuffer) <= filePos
    BY FileFacts DEF Placed, TypeOK, mFilledSize
  <1>3. mTmpBuffer = SubSeq(file, filePos - Len(mTmpBuffer) + 1, filePos)
    BY DEF Placed, BufferIsFilePart, ConsumedTo, mFilledSize
  <1>4. /\ begin \in Nat /\ end \in Nat
        /\ begin <= end /\ end <= Len(mTmpBuffer)
    BY DEF Deliver, mFilledSize
  <1>5. mTmpBuffer' = SubSeq(mTmpBuffer, end + 1, Len(mTmpBuffer))
    BY DEF Deliver, mFilledSize
  <1>6. end + 1 \in Nat \ {0} /\ begin + 1 \in Nat \ {0}
    BY ONLY <1>4
  <1>7. /\ mTmpBuffer' \in Seq(Symbols)
        /\ Len(mTmpBuffer') = Len(mTmpBuffer) - end
    <2> DEFINE a == end + 1
    <2>1. /\ SubSeq(mTmpBuffer, a, Len(mTmpBuffer)) \in Seq(Symbols)
          /\ Len(SubSeq(mTmpBuffer, a, Len(mTmpBuffer)))
               = IF a <= Len(mTmpBuffer) THEN Len(mTmpBuffer) - a + 1 ELSE 0
      <3>1. a \in Nat \ {0} /\ Len(mTmpBuffer) <= Len(mTmpBuffer)
        BY ONLY <1>2, <1>6
      <3> HIDE DEF a
      <3> QED
        BY ONLY <1>1, <1>2, <3>1, SubSeqFacts
    <2>2. (IF a <= Len(mTmpBuffer) THEN Len(mTmpBuffer) - a + 1 ELSE 0)
            = Len(mTmpBuffer) - end
      BY ONLY <1>2, <1>4
    <2> QED
      BY ONLY <1>5, <2>1, <2>2
  <1>8. SubSeq(mTmpBuffer, begin + 1, end) \in Seq(Symbols)
    <2> DEFINE b == begin + 1
    <2>1. b \in Nat \ {0}
      BY ONLY <1>6
    <2> HIDE DEF b
    <2>2. SubSeq(mTmpBuffer, b, end) \in Seq(Symbols)
      BY ONLY <1>1, <1>4, <2>1, SubSeqFacts
    <2> QED
      BY <2>2 DEF b
  <1>9. delivered' \in Seq(Seq(Symbols))
    <2>1. delivered \in Seq(Seq(Symbols))
      BY DEF Placed, TypeOK
    <2>2. delivered' = Append(delivered, SubSeq(mTmpBuffer, begin + 1, end))
      BY DEF Deliver
    <2> QED
      BY ONLY <1>8, <2>1, <2>2, AppendFacts
  <1>10. TypeOK'
    <2>1. UNCHANGED <<file, filePos, exit>> /\ pc' = "loop"
          /\ mFoundBegin' = 0 /\ mFoundEnd' = 0
      BY DEF Deliver
    <2>2. file \in Files /\ exit = Running
      BY DEF Placed, TypeOK
    <2>3. Len(mTmpBuffer') <= BufferSize /\ 0 \in 0 .. Len(mTmpBuffer')
      BY ONLY <1>2, <1>4, <1>7
    <2> QED
      BY ONLY <1>2, <1>7, <1>9, <2>1, <2>2, <2>3 DEF TypeOK, mFilledSize
  <1>11. mTmpBuffer' = SubSeq(file, filePos - Len(mTmpBuffer) + end + 1, filePos)
    <2> DEFINE a == filePos - Len(mTmpBuffer) + 1
               x == end + 1
    <2>1. /\ a \in Nat \ {0} /\ x \in Nat \ {0} /\ filePos \in Nat
          /\ a <= filePos + 1 /\ filePos <= Len(file)
          /\ Len(mTmpBuffer) <= filePos - a + 1
          /\ a + x - 1 = filePos - Len(mTmpBuffer) + end + 1
          /\ a + Len(mTmpBuffer) - 1 = filePos
      BY ONLY <1>2, <1>4
    <2>2. mTmpBuffer = SubSeq(file, a, filePos)
      BY ONLY <1>3
    <2>3. mTmpBuffer' = SubSeq(mTmpBuffer, x, Len(mTmpBuffer))
      BY ONLY <1>5
    <2> HIDE DEF a, x
    <2>4. SubSeq(SubSeq(file, a, filePos), x, Len(mTmpBuffer))
            = SubSeq(file, a + x - 1, a + Len(mTmpBuffer) - 1)
      BY ONLY <1>1, <1>2, <2>1, SubSeqNested
    <2>5. SubSeq(mTmpBuffer, x, Len(mTmpBuffer))
            = SubSeq(SubSeq(file, a, filePos), x, Len(mTmpBuffer))
      BY ONLY <2>2, Zenon
    <2> QED
      BY ONLY <2>1, <2>3, <2>4, <2>5
  <1>12. /\ filePos' = filePos /\ file' = file
    BY DEF Deliver
  <1>13. filePos' - Len(mTmpBuffer') + 1 = filePos - Len(mTmpBuffer) + end + 1
    BY ONLY <1>2, <1>4, <1>7, <1>12
  <1>14. BufferIsFilePart'
    BY ONLY <1>11, <1>12, <1>13 DEF BufferIsFilePart, ConsumedTo, mFilledSize
  <1>15. Len(mTmpBuffer') <= filePos'
    BY ONLY <1>2, <1>4, <1>7, <1>12
  <1>16. filePos' - Len(mTmpBuffer') = filePos - Len(mTmpBuffer) + end
    BY ONLY <1>2, <1>4, <1>7, <1>12
  <1>17. ConsumedTo' = ConsumedTo + end
    BY ONLY <1>16 DEF ConsumedTo, mFilledSize
  <1> QED
    BY ONLY <1>10, <1>14, <1>15, <1>17 DEF Placed, mFilledSize

LEMMA PlacedStep == Placed /\ [Next]_vars => Placed'
  <1> SUFFICES ASSUME Placed, [Next]_vars PROVE Placed'
    OBVIOUS
  <1>1. CASE ReadFirst
    <2>1. /\ ReadStreamFromFile("parse", Passed) /\ exit = Running
          /\ UNCHANGED <<file, mFoundBegin, mFoundEnd, delivered>>
      BY <1>1 DEF ReadFirst
    <2> QED
      BY <2>1, ReadKeepsPlaced
  <1>2. CASE Refill
    <2>1. /\ ReadStreamFromFile("loop", Ended) /\ exit = Running
          /\ UNCHANGED <<file, mFoundBegin, mFoundEnd, delivered>>
      BY <1>2 DEF Refill
    <2> QED
      BY <2>1, ReadKeepsPlaced
  <1>3. CASE SearchFails
    <2>1. /\ UNCHANGED <<file, filePos, mTmpBuffer, mFoundBegin, mFoundEnd,
                         delivered>>
          /\ exit = Running
          /\ pc' \in {pc, "refill"} /\ exit' \in {exit, NoAud}
      BY <1>3 DEF SearchFails
    <2> QED
      BY <2>1 DEF Placed, TypeOK, mFilledSize, BufferIsFilePart, ConsumedTo
  <1>4. CASE SearchSucceeds
    <2>1. exit = Running /\ TypeOK
      BY <1>4 DEF SearchSucceeds, Placed
    <2>2. PICK begin, end : Deliver(begin, end) \/ Reject(begin, end)
      BY <1>4, <2>1, SearchOutcome
    <2>3. CASE Deliver(begin, end)
      BY <2>1, <2>3, DeliverKeepsPlaced
    <2>4. CASE Reject(begin, end)
      <3>1. /\ UNCHANGED <<file, filePos, mTmpBuffer, pc, delivered>>
            /\ mFoundBegin' \in 0 .. mFilledSize
            /\ mFoundEnd' \in (0 .. mFilledSize) \cup InitialFound
            /\ exit' \in {TooLong, Crashed} /\ exit' # Running
        BY <2>4 DEF Reject, TooLong, Crashed, Running
      <3> QED
        BY <3>1 DEF Placed, TypeOK, mFilledSize, BufferIsFilePart
    <2> QED
      BY <2>2, <2>3, <2>4
  <1>5. CASE UNCHANGED vars
    BY <1>5 DEF vars, Placed, TypeOK, mFilledSize, BufferIsFilePart, ConsumedTo
  <1> QED
    BY <1>1, <1>2, <1>3, <1>4, <1>5 DEF Next

(***************************************************************************)
(* For every file, every size of the buffer and whatever mFoundEnd held    *)
(* before the first search, the variables keep their types, mTmpBuffer is  *)
(* never filled beyond its size, and the limits of the frame found last    *)
(* lie in what it is filled to, but for a mFoundEnd that no search has     *)
(* set.                                                                    *)
(***************************************************************************)
THEOREM TypeCorrect == Spec => []TypeOK
  <1>1. Placed => TypeOK
    BY DEF Placed
  <1> QED
    BY PlacedInit, PlacedStep, <1>1, PTL DEF Spec

(***************************************************************************)
(* The frames found, the rest moved to the front of the buffer and the     *)
(* data read behind it leave neither a gap nor a repetition.               *)
(***************************************************************************)
THEOREM BufferContiguous == Spec => []BufferIsFilePart
  <1>1. Placed => BufferIsFilePart
    BY DEF Placed
  <1> QED
    BY PlacedInit, PlacedStep, <1>1, PTL DEF Spec

-----------------------------------------------------------------------------
(***************************************************************************)
(* What is delivered.  While the process runs, what has been consumed ends *)
(* with a cut, and as many frames have been delivered as there are cuts up *)
(* to there.  mFoundEnd is 0 before every search: moveTmpBuffer sees to it *)
(* for all but the first.                                                  *)
(***************************************************************************)
AtCut ==
  exit = Running =>
    /\ mFoundEnd = 0
    /\ ConsumedTo \in {0} \cup Cuts(file)
    /\ Len(delivered) = Cardinality(CutsUpTo(file, ConsumedTo))

Progress == AtCut /\ FramesFaithful /\ RejectionJustified /\ LostTailBounded

LEMMA ProgressInit == InitialFound = {0} /\ Init => Progress
  <1> SUFFICES ASSUME InitialFound = {0}, Init PROVE Progress
    OBVIOUS
  <1>1. mFoundEnd = 0 /\ exit = Running /\ filePos = 0 /\ file \in Files
    BY DEF Init
  <1>2. mFilledSize = 0 /\ Len(delivered) = 0
    <2>1. mTmpBuffer = << >> /\ delivered = << >>
      BY DEF Init
    <2> QED
      BY ONLY <2>1 DEF mFilledSize
  <1>3. ConsumedTo = 0
    BY ONLY <1>1, <1>2 DEF ConsumedTo
  <1>4. CutsUpTo(file, 0) = {}
    BY <1>1, FileFacts, CutsAre DEF CutsUpTo
  <1>5. Cardinality(CutsUpTo(file, ConsumedTo)) = 0
    BY ONLY <1>3, <1>4, FS_EmptySet
  <1> QED
    BY ONLY <1>1, <1>2, <1>3, <1>5
       DEF Progress, AtCut, FramesFaithful, RejectionJustified, LostTailBounded,
           Running, NoAud, TooLong, Passed, Ended

(***************************************************************************)
(* The buffer seen from the file: an AUD begins at an offset in it exactly *)
(* if there is a cut as far behind what has been consumed.  Behind a cut   *)
(* no AUD begins in the consumed part and ends in the buffer.              *)
(***************************************************************************)
LEMMA Positions ==
  ASSUME Placed, exit = Running
  PROVE  /\ file \in Seq(Symbols) /\ mTmpBuffer \in Seq(Symbols)
         /\ Len(file) \in Nat /\ mFilledSize \in Nat /\ ConsumedTo \in Nat
         /\ ConsumedTo + mFilledSize = filePos /\ filePos <= Len(file)
         /\ \A i \in 1 .. mFilledSize : mTmpBuffer[i] = file[ConsumedTo + i]
         /\ mTmpBuffer = SubSeq(file, ConsumedTo + 1, filePos)
  <1>1. file \in Seq(Symbols) /\ mTmpBuffer \in Seq(Symbols)
    BY FileFacts DEF Placed, TypeOK
  <1>2. /\ Len(file) \in Nat /\ mFilledSize \in Nat
        /\ filePos \in 0 .. Len(file) /\ mFilledSize <= filePos
    BY <1>1 DEF Placed, TypeOK, mFilledSize
  <1>3. /\ ConsumedTo \in Nat
        /\ ConsumedTo + mFilledSize = filePos /\ filePos <= Len(file)
        /\ filePos \in Nat
    BY ONLY <1>2 DEF ConsumedTo
  <1>4. mTmpBuffer = SubSeq(file, ConsumedTo + 1, filePos)
    BY DEF Placed, BufferIsFilePart
  <1>5. ASSUME NEW i \in 1 .. mFilledSize
        PROVE  mTmpBuffer[i] = file[ConsumedTo + i]
    <2> DEFINE a == ConsumedTo + 1
    <2>1. a \in Nat \ {0}
      BY ONLY <1>3
    <2>2. i \in 1 .. Len(SubSeq(file, a, filePos))
      BY <1>4 DEF mFilledSize
    <2>3. a + i - 1 = ConsumedTo + i
      BY ONLY <1>3, <1>2
    <2> HIDE DEF a
    <2>4. SubSeq(file, a, filePos)[i] = file[a + i - 1]
      BY ONLY <1>1, <1>3, <2>1, <2>2, SubSeqFacts
    <2>5. mTmpBuffer = SubSeq(file, a, filePos)
      BY ONLY <1>4 DEF a
    <2> QED
      BY ONLY <2>3, <2>4, <2>5
  <1> QED
    BY ONLY <1>1, <1>2, <1>3, <1>4, <1>5

LEMMA CutsInBuffer ==
  ASSUME Placed, exit = Running, ConsumedTo \in {0} \cup Cuts(file)
  PROVE  /\ \A i \in AudOffsets : /\ ConsumedTo + i + 2 \in Cuts(file)
                                 /\ i + 2 < mFilledSize
                                 /\ mTmpBuffer[i + 1] = H
                                 /\ mTmpBuffer[i + 2] = A
         /\ \A c \in Cuts(file) :
              ConsumedTo < c /\ c < filePos => c - ConsumedTo - 2 \in AudOffsets
  <1> DEFINE n == mFilledSize
             p == ConsumedTo
  <1>1. /\ file \in Seq(Symbols) /\ mTmpBuffer \in Seq(Symbols)
        /\ Len(mTmpBuffer) = n
        /\ \A i \in 1 .. n : mTmpBuffer[i] = file[p + i]
    BY Positions DEF mFilledSize
  <1>2. /\ Len(file) \in Nat /\ n \in Nat /\ p \in Nat
        /\ p + n = filePos /\ filePos <= Len(file)
    BY Positions
  <1>3. \A i \in 1 .. n - 1 :
          AudAt(mTmpBuffer, i) <=> mTmpBuffer[i] = H /\ mTmpBuffer[i + 1] = A
    <2> SUFFICES ASSUME NEW i \in 1 .. n - 1
                 PROVE  AudAt(mTmpBuffer, i)
                          <=> mTmpBuffer[i] = H /\ mTmpBuffer[i + 1] = A
      OBVIOUS
    <2>1. i \in Nat \ {0} /\ i < n
      BY ONLY <1>2
    <2> QED
      BY ONLY <1>1, <2>1, AudIs
  <1>4. AudOffsets = {i \in 0 .. n - 3 : AudAt(mTmpBuffer, i + 1)}
    <2>1. n - SizeofAud - 1 = n - 3
      BY ONLY <1>2
    <2> QED
      BY ONLY <2>1 DEF AudOffsets
  <1>5. \A c : c \in Cuts(file)
                <=> c \in 2 .. Len(file) /\ file[c - 1] = H /\ file[c] = A
    BY ONLY <1>1, CutsAre
  <1>6. p \in {0} \cup Cuts(file)
    OBVIOUS
  <1> HIDE DEF n, p
  <1>7. ASSUME NEW i \in AudOffsets
        PROVE  /\ p + i + 2 \in Cuts(file)
               /\ i + 2 < n
               /\ mTmpBuffer[i + 1] = H
               /\ mTmpBuffer[i + 2] = A
    <2>1. /\ i \in 0 .. n - 3 /\ AudAt(mTmpBuffer, i + 1)
          /\ i + 1 \in 1 .. n - 1 /\ (i + 1) + 1 = i + 2
          /\ i + 1 \in 1 .. n /\ i + 2 \in 1 .. n /\ i + 2 < n
      BY ONLY <1>2, <1>4, i \in AudOffsets
    <2>2. mTmpBuffer[i + 1] = H /\ mTmpBuffer[i + 2] = A
      BY ONLY <1>3, <2>1
    <2>3. file[p + (i + 1)] = H /\ file[p + (i + 2)] = A
      BY ONLY <1>1, <2>1, <2>2
    <2>4. /\ p + i + 2 \in 2 .. Len(file)
          /\ (p + i + 2) - 1 = p + (i + 1) /\ p + i + 2 = p + (i + 2)
      BY ONLY <1>2, <2>1
    <2> QED
      BY ONLY <1>5, <2>1, <2>2, <2>3, <2>4
  <1>8. ASSUME NEW c \in Cuts(file), p < c, c < filePos
        PROVE  c - p - 2 \in AudOffsets
    <2>1. c \in 2 .. Len(file) /\ file[c - 1] = H /\ file[c] = A
      BY ONLY <1>5, c \in Cuts(file)
    <2>2. c # p + 1
      <3> SUFFICES ASSUME c = p + 1 PROVE FALSE
        OBVIOUS
      <3>1. p # 0 /\ c - 1 = p
        BY ONLY <1>2, <2>1, c = p + 1
      <3>2. file[p] = A
        BY ONLY <1>5, <1>6, <3>1
      <3> QED
        BY ONLY <2>1, <3>1, <3>2 DEF A, H
    <2>3. /\ c - p - 2 \in 0 .. n - 3
          /\ (c - p - 2) + 1 \in 1 .. n - 1
          /\ p + ((c - p - 2) + 1) = c - 1 /\ (c - p - 2) + 1 \in 1 .. n
          /\ p + (((c - p - 2) + 1) + 1) = c
          /\ ((c - p - 2) + 1) + 1 \in 1 .. n
      BY ONLY <1>2, <1>8, <2>1, <2>2
    <2>4. /\ mTmpBuffer[(c - p - 2) + 1] = H
          /\ mTmpBuffer[((c - p - 2) + 1) + 1] = A
      BY ONLY <1>1, <2>1, <2>3
    <2>5. AudAt(mTmpBuffer, (c - p - 2) + 1)
      BY ONLY <1>3, <2>3, <2>4
    <2> QED
      BY ONLY <1>4, <2>3, <2>5
  <1> QED
    BY ONLY <1>7, <1>8 DEF n, p

(***************************************************************************)
(* What a search finds is the next frame of the file.                      *)
(***************************************************************************)
LEMMA FrameFound ==
  ASSUME Placed, exit = Running, ConsumedTo \in {0} \cup Cuts(file),
         mFoundEnd = 0, EndFound # 0
  PROVE  LET end   == EndFound
             begin == BeginOf(end)
             cut   == ConsumedTo + end
         IN /\ begin < end /\ end < mFilledSize
            /\ cut \in Cuts(file) /\ ConsumedTo < cut
            /\ \A k \in Cuts(file) : k < cut => k <= ConsumedTo
            /\ SubSeq(mTmpBuffer, begin + 1, end) = FrameEndingAt(file, cut)
  <1> DEFINE p     == ConsumedTo
             e     == EndFound
             b     == BeginOf(e)
             cut   == p + e
  <1>1. /\ file \in Seq(Symbols) /\ mTmpBuffer \in Seq(Symbols)
        /\ \A i \in 1 .. mFilledSize : mTmpBuffer[i] = file[p + i]
        /\ mTmpBuffer = SubSeq(file, p + 1, filePos)
    BY Positions
  <1>2. /\ Len(file) \in Nat /\ mFilledSize \in Nat /\ p \in Nat
        /\ p + mFilledSize = filePos /\ filePos <= Len(file)
    BY Positions
  <1>3. /\ e \in Nat /\ b \in Nat
        /\ AudOffsets # {}
        /\ e - 2 \in AudOffsets /\ \A i \in AudOffsets : e - 2 <= i
        /\ HeaderOffsets(e) # {} => /\ b \in HeaderOffsets(e)
                                   /\ \A i \in HeaderOffsets(e) : b <= i
    <2>1. TypeOK
      BY DEF Placed
    <2> QED
      BY <2>1, SearchFinds
  <1>4. /\ p + (e - 2) + 2 \in Cuts(file)
        /\ (e - 2) + 2 < mFilledSize
        /\ mTmpBuffer[(e - 2) + 1] = H
        /\ mTmpBuffer[(e - 2) + 2] = A
    BY <1>3, CutsInBuffer
  <1>5. \A c \in Cuts(file) : p < c /\ c < filePos => c - p - 2 \in AudOffsets
    BY CutsInBuffer
  <1>6. AudOffsets \in SUBSET Nat
    BY DEF AudOffsets
  <1>7. \A c \in Cuts(file) : c \in Nat
    BY ONLY <1>1, CutsAre
  <1>8. HeaderOffsets(e)
          = {i \in 0 .. e - 2 : i < mFilledSize /\ mTmpBuffer[i + 1] = H}
    <2>1. e - SizeofHeader - 1 = e - 2
      BY ONLY <1>3
    <2> QED
      BY ONLY <2>1 DEF HeaderOffsets, HeaderAt
  <1>c. p \in {0} \cup Cuts(file)
    OBVIOUS
  <1> HIDE DEF p, e, b
  <1>9. e - 2 \in Nat /\ (e - 2) + 1 = e - 1 /\ (e - 2) + 2 = e /\ e < mFilledSize
    BY ONLY <1>3, <1>4, <1>6
  <1>10. cut \in Cuts(file) /\ p < cut /\ cut \in Nat /\ cut <= filePos
    BY ONLY <1>2, <1>3, <1>4, <1>9
  <1>11. ASSUME NEW k \in Cuts(file), k < cut PROVE k <= p
    <2>1. k \in Nat /\ k < filePos
      BY ONLY <1>2, <1>7, <1>9, <1>10, <1>11
    <2>2. ASSUME p < k PROVE FALSE
      <3>1. k - p - 2 \in AudOffsets
        BY ONLY <1>5, <2>1, <2>2, k \in Cuts(file)
      <3>2. e - 2 <= k - p - 2
        BY ONLY <1>3, <3>1
      <3> QED
        BY ONLY <1>2, <1>3, <1>11, <2>1, <3>2
    <2> QED
      BY ONLY <1>2, <2>1, <2>2
  <1>12. /\ b \in HeaderOffsets(e)
         /\ \A i \in HeaderOffsets(e) : b <= i
    <2>1. e - 2 \in HeaderOffsets(e)
      <3>1. e - 2 \in 0 .. e - 2 /\ e - 2 < mFilledSize
        BY ONLY <1>2, <1>3, <1>9
      <3> QED
        BY ONLY <1>4, <1>8, <3>1
    <2> QED
      BY ONLY <1>3, <2>1
  <1>13. b \in 0 .. e - 2 /\ mTmpBuffer[b + 1] = H /\ b < e
    BY ONLY <1>3, <1>8, <1>12
  <1>14. First({i \in p + 1 .. cut : HeaderAt(file, i)}) = p + (b + 1)
    <2> DEFINE heads == {i \in p + 1 .. cut : HeaderAt(file, i)}
    <2>1. heads \in SUBSET Nat
      BY ONLY <1>2, <1>10
    <2>2. p + (b + 1) \in heads
      <3>1. p + (b + 1) \in p + 1 .. cut /\ b + 1 \in 1 .. mFilledSize
        BY ONLY <1>2, <1>3, <1>9, <1>13
      <3>2. file[p + (b + 1)] = H
        BY ONLY <1>1, <1>13, <3>1
      <3> QED
        BY ONLY <3>1, <3>2 DEF HeaderAt
    <2>3. ASSUME NEW i \in heads PROVE p + (b + 1) <= i
      <3>1. i \in p + 1 .. cut /\ file[i] = H
        BY ONLY i \in heads DEF HeaderAt
      <3>2. file[cut] # H
        <4>1. e \in 1 .. mFilledSize /\ mTmpBuffer[e] = A
          BY ONLY <1>2, <1>3, <1>4, <1>9
        <4>2. file[p + e] = A
          BY ONLY <1>1, <4>1
        <4> QED
          BY ONLY <4>2 DEF A, H
      <3>3. i # cut
        BY ONLY <3>1, <3>2
      <3>4. /\ i - p - 1 \in 0 .. e - 2 /\ i - p - 1 < mFilledSize
            /\ (i - p - 1) + 1 \in 1 .. mFilledSize
            /\ p + ((i - p - 1) + 1) = i
        BY ONLY <1>2, <1>3, <1>9, <3>1, <3>3
      <3>5. mTmpBuffer[(i - p - 1) + 1] = H
        BY ONLY <1>1, <3>1, <3>4
      <3>6. b <= i - p - 1
        BY ONLY <1>8, <1>12, <3>4, <3>5
      <3> QED
        BY ONLY <1>2, <1>13, <3>1, <3>6
    <2> HIDE DEF heads
    <2>4. First(heads) = p + (b + 1)
      BY ONLY <2>1, <2>2, <2>3, FirstIs
    <2> QED
      BY <2>4 DEF heads
  <1>15. FrameEndingAt(file, cut) = SubSeq(file, p + (b + 1), cut)
    <2> HIDE DEF cut
    <2>1. FrameEndingAt(file, cut)
            = SubSeq(file, First({i \in p + 1 .. cut : HeaderAt(file, i)}), cut)
      BY ONLY <1>1, <1>c, <1>10, <1>11, FrameAfter
    <2> QED
      BY ONLY <1>14, <2>1
  <1>16. SubSeq(mTmpBuffer, b + 1, e) = SubSeq(file, p + (b + 1), cut)
    <2> DEFINE a == p + 1
               x == b + 1
    <2>1. /\ a \in Nat \ {0} /\ x \in Nat \ {0} /\ filePos \in Nat
          /\ a <= filePos + 1 /\ e <= filePos - a + 1
          /\ a + x - 1 = p + (b + 1) /\ a + e - 1 = cut
      BY ONLY <1>2, <1>3, <1>9, <1>13
    <2>2. mTmpBuffer = SubSeq(file, a, filePos)
      BY ONLY <1>1
    <2> HIDE DEF a, x, cut
    <2>3. SubSeq(SubSeq(file, a, filePos), x, e)
            = SubSeq(file, a + x - 1, a + e - 1)
      BY ONLY <1>1, <1>2, <1>3, <2>1, SubSeqNested
    <2>4. SubSeq(mTmpBuffer, x, e) = SubSeq(file, p + (b + 1), cut)
      BY ONLY <2>1, <2>2, <2>3
    <2> QED
      BY ONLY <2>4 DEF x
  <1> QED
    BY ONLY <1>9, <1>10, <1>11, <1>13, <1>15, <1>16 DEF p, e, b

(***************************************************************************)
(* A short read leaves less than a buffer of the file undelivered.         *)
(***************************************************************************)
LEMMA ReadKeepsProgress ==
  ASSUME Placed, Progress, exit = Running,
         NEW next \in {"loop", "parse"}, NEW last \in {Passed, Ended},
         ReadStreamFromFile(next, last),
         UNCHANGED <<file, mFoundBegin, mFoundEnd, delivered>>
  PROVE  Progress'
  <1>1. /\ mFoundEnd = 0
        /\ ConsumedTo \in {0} \cup Cuts(file)
        /\ Len(delivered) = Cardinality(CutsUpTo(file, ConsumedTo))
    BY DEF Progress, AtCut
  <1>2. file' = file /\ delivered' = delivered /\ mFoundEnd' = mFoundEnd
    OBVIOUS
  <1>3. exit' = Running => ConsumedTo' = ConsumedTo
    BY ReadKeepsPlaced
  <1>4. AtCut'
    BY <1>1, <1>2, <1>3 DEF AtCut
  <1>5. FramesFaithful'
    BY <1>2 DEF Progress, FramesFaithful
  <1>6. exit' \in {Running, last}
    BY DEF ReadStreamFromFile
  <1>7. RejectionJustified'
    BY <1>6 DEF RejectionJustified, Running, Passed, Ended, NoAud, TooLong
  <1>8. LostTailBounded'
    <2>1. CASE ShortRead
      <3>1. /\ Len(file) \in Nat /\ mFilledSize \in Nat /\ ConsumedTo \in Nat
            /\ ConsumedTo + mFilledSize = filePos /\ file \in Seq(Symbols)
        BY Positions
      <3>2. BufferSize \in Nat /\ filePos \in Nat
        BY BufferSizeAssumption DEF Placed, TypeOK
      <3>3. Len(file) - BufferSize \in Int /\ Len(file) - BufferSize <= ConsumedTo
        <4>1. Len(file) - filePos < BufferSize - mFilledSize
          BY <2>1 DEF ShortRead
        <4> QED
          BY ONLY <3>1, <3>2, <4>1
      <3>4. Cardinality(CutsUpTo(file, Len(file) - BufferSize))
              <= Cardinality(CutsUpTo(file, ConsumedTo))
        BY ONLY <3>1, <3>3, CutsCount
      <3>5. /\ Cardinality(CutsUpTo(file, Len(file) - BufferSize)) \in Nat
            /\ Cardinality(CutsUpTo(file, ConsumedTo)) \in Nat
        BY ONLY <3>1, <3>3, CutsCount
      <3>6. Len(delivered) >= Cardinality(CutsUpTo(file, Len(file) - BufferSize))
        BY ONLY <1>1, <3>4, <3>5
      <3> QED
        BY ONLY <1>2, <3>6 DEF LostTailBounded
    <2>2. CASE ~ ShortRead
      <3>1. exit' = Running
        BY <2>2 DEF ReadStreamFromFile
      <3> QED
        BY <3>1 DEF LostTailBounded, Running, Passed, Ended
    <2> QED
      BY <2>1, <2>2
  <1> QED
    BY ONLY <1>4, <1>5, <1>7, <1>8 DEF Progress

(***************************************************************************)
(* A search that fails in a buffer of StreamMaxSize has passed over no     *)
(* frame that would fit.                                                   *)
(***************************************************************************)
LEMMA SearchFailsKeepsProgress ==
  ASSUME Placed, Progress, SearchFails
  PROVE  Progress'
  <1>1. /\ exit = Running /\ ~ GotOneFrame
        /\ UNCHANGED <<file, filePos, mTmpBuffer, mFoundEnd, delivered>>
        /\ \/ exit' = NoAud /\ mFilledSize >= StreamMaxSize
           \/ exit' = exit
    BY DEF SearchFails
  <1>2. /\ mFoundEnd = 0
        /\ ConsumedTo \in {0} \cup Cuts(file)
        /\ Len(delivered) = Cardinality(CutsUpTo(file, ConsumedTo))
    BY <1>1 DEF Progress, AtCut
  <1>3. ConsumedTo' = ConsumedTo
    BY <1>1 DEF ConsumedTo, mFilledSize
  <1>4. AtCut'
    BY <1>1, <1>2, <1>3 DEF AtCut
  <1>5. FramesFaithful' /\ LostTailBounded'
    BY <1>1 DEF Progress, FramesFaithful, LostTailBounded, Running, NoAud,
                Passed, Ended
  <1>6. RejectionJustified'
    <2>1. CASE exit' = exit
      BY <1>1, <2>1 DEF RejectionJustified, Running, NoAud, TooLong
    <2>2. CASE exit' = NoAud /\ mFilledSize >= StreamMaxSize
      <3>1. ASSUME NEW c \in Cuts(file), c - ConsumedTo \in 1 .. StreamMaxSize - 1
            PROVE  FALSE
        <4>1. /\ file \in Seq(Symbols) /\ mFilledSize \in Nat
              /\ ConsumedTo \in Nat /\ ConsumedTo + mFilledSize = filePos
          BY <1>1, Positions
        <4>2. c \in Nat /\ StreamMaxSize \in Nat
          BY <4>1, CutsAre, StreamMaxSizeAssumption, BufferSizeAssumption
        <4>3. ConsumedTo < c /\ c < filePos
          BY ONLY <2>2, <3>1, <4>1, <4>2
        <4>4. c - ConsumedTo - 2 \in AudOffsets
          BY <1>1, <1>2, <4>3, CutsInBuffer
        <4>5. mFilledSize > 2
          <5>1. c - ConsumedTo - 2 \in Nat
            BY <4>4 DEF AudOffsets
          <5> QED
            BY ONLY <4>1, <4>2, <4>3, <5>1
        <4>6. EndFound - 2 \in AudOffsets /\ EndFound \in Nat
          BY <4>4, SearchFinds DEF Placed
        <4>7. EndFound # 0
          <5>1. EndFound - 2 \in Nat
            BY <4>6 DEF AudOffsets
          <5> QED
            BY ONLY <4>6, <5>1
        <4> QED
          BY <1>1, <4>5, <4>7 DEF GotOneFrame
      <3> QED
        BY <1>1, <1>3, <3>1 DEF RejectionJustified
    <2> QED
      BY <1>1, <2>1, <2>2
  <1> QED
    BY ONLY <1>4, <1>5, <1>6 DEF Progress

LEMMA SearchSucceedsKeepsProgress ==
  ASSUME Placed, Progress, SearchSucceeds
  PROVE  Progress'
  <1> DEFINE e   == EndFound
             b   == BeginOf(e)
             cut == ConsumedTo + e
             n   == Len(delivered)
  <1>1. exit = Running /\ EndFound # 0 /\ TypeOK
    BY DEF SearchSucceeds, GotOneFrame, Placed
  <1>2. /\ mFoundEnd = 0
        /\ ConsumedTo \in {0} \cup Cuts(file)
        /\ n = Cardinality(CutsUpTo(file, ConsumedTo))
    BY <1>1 DEF Progress, AtCut
  <1>3. /\ b < e /\ e < mFilledSize
        /\ cut \in Cuts(file) /\ ConsumedTo < cut
        /\ \A k \in Cuts(file) : k < cut => k <= ConsumedTo
        /\ SubSeq(mTmpBuffer, b + 1, e) = FrameEndingAt(file, cut)
    BY <1>1, <1>2, FrameFound
  <1>4. file \in Seq(Symbols) /\ ConsumedTo \in Nat
    BY <1>1, Positions
  <1>5. e \in Nat /\ b \in Nat
    BY <1>1, SearchFinds
  <1>6. Deliver(b, e) \/ Reject(b, e)
    BY <1>1, SearchOutcome
  <1>7. CASE Deliver(b, e)
    <2>1. ConsumedTo' = cut
      BY <1>1, <1>7, DeliverKeepsPlaced
    <2>2. /\ file' = file /\ exit' = Running /\ mFoundEnd' = 0
          /\ delivered' = Append(delivered, SubSeq(mTmpBuffer, b + 1, e))
      BY <1>1, <1>7 DEF Deliver
    <2>3. delivered \in Seq(Seq(Symbols)) /\ n \in Nat
      BY <1>1 DEF TypeOK
    <2> HIDE DEF e, b, cut, n
    <2>4. /\ Len(delivered') = n + 1
          /\ \A i \in 1 .. n : delivered'[i] = delivered[i]
          /\ delivered'[n + 1] = FrameEndingAt(file, cut)
      <3>1. delivered' = Append(delivered, FrameEndingAt(file, cut))
        BY ONLY <1>3, <2>2
      <3> QED
        BY ONLY <2>3, <3>1, AppendFacts DEF n
    <2>5. /\ Cardinality(CutsUpTo(file, cut)) = n + 1
          /\ n + 1 <= Cardinality(Cuts(file))
          /\ NthCut(file, n + 1) = cut
      BY ONLY <1>2, <1>3, <1>4, NextCut
    <2>6. AtCut'
      BY ONLY <1>3, <2>1, <2>2, <2>4, <2>5 DEF AtCut
    <2>7. FramesFaithful'
      <3>1. ASSUME NEW i \in 1 .. n + 1
            PROVE  /\ i <= Cardinality(Cuts(file))
                   /\ delivered'[i] = FrameEndingAt(file, NthCut(file, i))
        <4>1. CASE i = n + 1
          BY ONLY <2>4, <2>5, <4>1
        <4>2. CASE i \in 1 .. n
          BY <2>4, <4>2 DEF Progress, FramesFaithful, n
        <4> QED
          BY ONLY <2>3, <4>1, <4>2, i \in 1 .. n + 1
      <3> QED
        BY ONLY <2>2, <2>4, <3>1 DEF FramesFaithful
    <2>8. RejectionJustified' /\ LostTailBounded'
      BY ONLY <2>2 DEF RejectionJustified, LostTailBounded, Running, NoAud,
                       TooLong, Passed, Ended
    <2> QED
      BY ONLY <2>6, <2>7, <2>8 DEF Progress
  <1>8. CASE Reject(b, e)
    <2>1. /\ UNCHANGED <<file, filePos, mTmpBuffer, delivered>>
          /\ exit' \in {TooLong, Crashed}
          /\ exit' = TooLong => e - b >= StreamMaxSize
      <3>1. ~ (b > e)
        BY ONLY <1>3, <1>5
      <3> HIDE DEF e, b, cut, n
      <3> QED
        BY ONLY <1>8, <3>1 DEF Reject, TooLong, Crashed
    <2>2. ConsumedTo' = ConsumedTo
      BY <2>1 DEF ConsumedTo, mFilledSize
    <2>3. AtCut' /\ FramesFaithful' /\ LostTailBounded'
      BY <2>1 DEF Progress, AtCut, FramesFaithful, LostTailBounded, Running,
                  TooLong, Crashed, Passed, Ended
    <2>4. RejectionJustified'
      <3>1. ASSUME NEW c \in Cuts(file),
                   c - ConsumedTo \in 1 .. StreamMaxSize - 1,
                   e - b >= StreamMaxSize
            PROVE  FALSE
        <4>1. c \in Nat /\ StreamMaxSize \in Nat
          BY <1>4, CutsAre, StreamMaxSizeAssumption, BufferSizeAssumption
        <4>2. ~ (c < cut)
          BY ONLY <1>3, <1>4, <3>1, <4>1, c \in Cuts(file)
        <4> QED
          BY ONLY <1>4, <1>5, <3>1, <4>1, <4>2
      <3> QED
        BY <2>1, <2>2, <3>1 DEF RejectionJustified, NoAud, TooLong, Crashed
    <2> QED
      BY ONLY <2>3, <2>4 DEF Progress
  <1> QED
    BY <1>6, <1>7, <1>8

LEMMA ProgressStep == Placed /\ Progress /\ [Next]_vars => Progress'
  <1> SUFFICES ASSUME Placed, Progress, [Next]_vars PROVE Progress'
    OBVIOUS
  <1>1. CASE ReadFirst
    <2>1. /\ ReadStreamFromFile("parse", Passed) /\ exit = Running
          /\ UNCHANGED <<file, mFoundBegin, mFoundEnd, delivered>>
      BY <1>1 DEF ReadFirst
    <2> QED
      BY <2>1, ReadKeepsProgress
  <1>2. CASE Refill
    <2>1. /\ ReadStreamFromFile("loop", Ended) /\ exit = Running
          /\ UNCHANGED <<file, mFoundBegin, mFoundEnd, delivered>>
      BY <1>2 DEF Refill
    <2> QED
      BY <2>1, ReadKeepsProgress
  <1>3. CASE SearchFails
    BY <1>3, SearchFailsKeepsProgress
  <1>4. CASE SearchSucceeds
    BY <1>4, SearchSucceedsKeepsProgress
  <1>5. CASE UNCHANGED vars
    BY <1>5 DEF vars, Progress, AtCut, FramesFaithful, RejectionJustified,
                LostTailBounded, ConsumedTo, mFilledSize
  <1> QED
    BY <1>1, <1>2, <1>3, <1>4, <1>5 DEF Next

LEMMA ProgressAlways == InitialFound = {0} /\ Spec => []Progress
  <1>1. InitialFound = {0} /\ Init => Progress
    BY ProgressInit
  <1> QED
    BY <1>1, PlacedInit, PlacedStep, ProgressStep, PTL DEF Spec

(***************************************************************************)
(* For every file and every size of the buffer, the frames delivered are   *)
(* the first frames of the file, if mFoundEnd was 0 to begin with.         *)
(***************************************************************************)
THEOREM FramesAreExact == InitialFound = {0} /\ Spec => []FramesFaithful
  <1>1. Progress => FramesFaithful
    BY DEF Progress
  <1> QED
    BY ProgressAlways, <1>1, PTL

(***************************************************************************)
(* A stream is given up only if no frame of less than StreamMaxSize, the   *)
(* limit as it is tested, can be had from where it has been consumed to.   *)
(***************************************************************************)
THEOREM RejectionIsJustified == InitialFound = {0} /\ Spec => []RejectionJustified
  <1>1. Progress => RejectionJustified
    BY DEF Progress
  <1> QED
    BY ProgressAlways, <1>1, PTL

(***************************************************************************)
(* At the end of the file, less than a buffer of it is lost.               *)
(***************************************************************************)
THEOREM TailIsBounded == InitialFound = {0} /\ Spec => []LostTailBounded
  <1>1. Progress => LostTailBounded
    BY DEF Progress
  <1> QED
    BY ProgressAlways, <1>1, PTL

=============================================================================
