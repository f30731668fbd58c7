-------------------------- MODULE CheckToolProofs --------------------------
(***************************************************************************)
(* Theorems about CheckTool: what is proved of the file input, of the two  *)
(* threads and of the decoding loop, put together.  For every file, every  *)
(* size of the pool and of the buffers, and every stream.                  *)
(***************************************************************************)
EXTENDS CheckTool, StreamPipelineProofs

(***************************************************************************)
(* What is proved of FileReceiver and of H264Checker holds of them here:   *)
(* their assumptions are those made here.                                  *)
(***************************************************************************)
Reader == INSTANCE FileReceiverProofs WITH pc <- filePc, exit <- fileExit

Judge == INSTANCE H264CheckerProofs WITH pc <- decoderPc, exit <- decoderExit

LEMMA ReaderSymbols ==
  /\ File!Symbols = Reader!Symbols
  /\ File!SizeofAud = Reader!SizeofAud
  BY DEF File!Symbols, Reader!Symbols, File!H, File!A, File!X, Reader!H,
         Reader!A, Reader!X, File!SizeofAud, Reader!SizeofAud

LEMMA ReaderAssumptions ==
  /\ Files \subseteq Seq(Reader!Symbols)
  /\ BufferSize \in Nat /\ BufferSize > Reader!SizeofAud
  /\ StreamMaxSize \in 1 .. BufferSize
  /\ InitialFound \subseteq Nat
  BY ReaderSymbols, FilesAssumption, BufferSizeAssumption,
     StreamMaxSizeAssumption, InitialFoundAssumption

LEMMA JudgeAssumptions ==
  /\ Frames \subseteq Judge!FrameRecord
  /\ Modulus \in Nat /\ Modulus > 1
  /\ InitialCounts \subseteq 0 .. Modulus - 1
  /\ MaxFrames \in Nat
  /\ Delay \in Nat /\ MayFail \in BOOLEAN /\ MayDrop \in BOOLEAN
  BY FramesAssumption, ModulusAssumption, InitialCountsAssumption,
     MaxFramesAssumption, DelayAssumption, MayFailAssumption,
     MayDropAssumption DEF Decoder!FrameRecord, Judge!FrameRecord

(***************************************************************************)
(* The instance that CheckTool takes of FileReceiver is the one the        *)
(* theorems are about.                                                     *)
(***************************************************************************)
LEMMA FileIsReader ==
  /\ File!Init <=> Reader!Init
  /\ File!Next <=> Reader!Next
  /\ UNCHANGED fileVars <=> UNCHANGED File!vars
  /\ UNCHANGED File!vars <=> UNCHANGED Reader!vars
  <1>1. File!Next <=> Reader!Next
    BY DEF File!Next, Reader!Next, File!ReadFirst, Reader!ReadFirst,
           File!SearchFails, Reader!SearchFails, File!Refill,
           Reader!Refill, File!SearchSucceeds, Reader!SearchSucceeds,
           File!ReadStreamFromFile, Reader!ReadStreamFromFile,
           File!AboutToParse, Reader!AboutToParse, File!GotOneFrame,
           Reader!GotOneFrame, File!mFilledSize, Reader!mFilledSize,
           File!ShortRead, Reader!ShortRead, File!EndFound,
           Reader!EndFound, File!BeginOf, Reader!BeginOf,
           File!AudOffsets, Reader!AudOffsets, File!HeaderOffsets,
           Reader!HeaderOffsets, File!AudAt, Reader!AudAt,
           File!HeaderAt, Reader!HeaderAt, File!First, Reader!First,
           File!MoveTmpBuffer, Reader!MoveTmpBuffer, File!SizeofAud,
           Reader!SizeofAud, File!SizeofHeader, Reader!SizeofHeader,
           File!KAudHex2, Reader!KAudHex2, File!H, Reader!H,
           File!A, Reader!A, File!Passed, Reader!Passed,
           File!Ended, Reader!Ended, File!NoAud, Reader!NoAud,
           File!TooLong, Reader!TooLong, File!Running,
           Reader!Running, File!Crashed, Reader!Crashed
  <1>2. File!Init <=> Reader!Init
    BY DEF File!Init, Reader!Init, File!Running, Reader!Running
  <1>3. /\ UNCHANGED fileVars <=> UNCHANGED File!vars
        /\ UNCHANGED File!vars <=> UNCHANGED Reader!vars
    BY DEF File!vars, Reader!vars, fileVars
  <1> QED
    BY ONLY <1>1, <1>2, <1>3

(***************************************************************************)
(* A step of recvStream either goes on, leaving what is delivered alone,   *)
(* or ends the process or delivers one frame.                              *)
(***************************************************************************)
LEMMA FileSearch == File!SearchSucceeds => File!Next
  BY DEF File!Next

LEMMA CheckerCounts ==
  /\ \A S : Decoder!Cardinality(S) = Judge!Cardinality(S)
  /\ \A S : Judge!Cardinality(S) = Cardinality(S)
  /\ \A S : Reader!Cardinality(S) = Cardinality(S)
  /\ \A S : File!Cardinality(S) = Cardinality(S)
  /\ \A S : Reader!IsFiniteSet(S) <=> IsFiniteSet(S)
  <1>1. ASSUME NEW S
        PROVE  /\ Decoder!Cardinality(S) = Judge!Cardinality(S)
               /\ Judge!Cardinality(S) = Cardinality(S)
               /\ Reader!Cardinality(S) = Cardinality(S)
               /\ File!Cardinality(S) = Cardinality(S)
    BY DEF Decoder!Cardinality, Judge!Cardinality, Reader!Cardinality,
           File!Cardinality, Cardinality
  <1>2. ASSUME NEW S PROVE Reader!IsFiniteSet(S) <=> IsFiniteSet(S)
    BY DEF Reader!IsFiniteSet, IsFiniteSet
  <1> QED
    BY <1>1, <1>2

LEMMA TestsMatch ==
  ASSUME NEW f
  PROVE  /\ Decoder!Decodable(f) <=> Judge!Decodable(f)
         /\ Decoder!PassCount(f) = Judge!PassCount(f)
         /\ Decoder!Conforms(f) <=> Judge!Conforms(f)
  <1>1. Decoder!Decodable(f) <=> Judge!Decodable(f)
    BY DEF Decoder!Decodable, Judge!Decodable
  <1>2. Decoder!Conforms(f) <=> Judge!Conforms(f)
    BY DEF Decoder!Conforms, Judge!Conforms
  <1>3. Decoder!SliceType = Judge!SliceType
    BY DEF Decoder!SliceType, Judge!SliceType
  <1>4. ASSUME NEW k PROVE Decoder!Passes(f, k) <=> Judge!Passes(f, k)
    BY <1>3 DEF Decoder!Passes, Judge!Passes
  <1>5. Decoder!PassCount(f) = Judge!PassCount(f)
    <2>1. {k \in Decoder!Standards : Decoder!Passes(f, k)}
            = {k \in Judge!Standards : Judge!Passes(f, k)}
      BY <1>4 DEF Decoder!Standards, Judge!Standards
    <2> QED
      BY <2>1, CheckerCounts DEF Decoder!PassCount, Judge!PassCount
  <1> QED
    BY ONLY <1>1, <1>2, <1>5

(***************************************************************************)
(* Nor is that of H264Checker another one.                                 *)
(***************************************************************************)
LEMMA DecoderIsJudge ==
  /\ Decoder!CheckerInit <=> Judge!CheckerInit
  /\ Decoder!CheckerNext <=> Judge!CheckerNext
  /\ UNCHANGED decoderVars <=> UNCHANGED Decoder!checkerVars
  /\ UNCHANGED Decoder!checkerVars <=> UNCHANGED Judge!checkerVars
  <1>1. /\ Decoder!NoPicture = Judge!NoPicture
        /\ Decoder!LastPkt = Judge!LastPkt
        /\ Decoder!Passed = Judge!Passed
        /\ Decoder!Failed = Judge!Failed
        /\ Decoder!NoVerdict = Judge!NoVerdict
        /\ Decoder!counters = Judge!counters
        /\ Decoder!decoder = Judge!decoder
        /\ Decoder!reordering = Judge!reordering
        /\ UNCHANGED decoderVars <=> UNCHANGED Decoder!checkerVars
        /\ UNCHANGED Decoder!checkerVars <=> UNCHANGED Judge!checkerVars
    BY DEF decoderVars, Decoder!NoPicture, Judge!NoPicture, Decoder!LastPkt,
           Judge!LastPkt, Decoder!Passed, Judge!Passed, Decoder!Failed,
           Judge!Failed, Decoder!NoVerdict, Judge!NoVerdict,
           Decoder!counters, Judge!counters, Decoder!decoder, Judge!decoder,
           Decoder!reordering, Judge!reordering, Decoder!checkerVars,
           Judge!checkerVars
  <1>2. Decoder!CheckerInit <=> Judge!CheckerInit
    BY <1>1 DEF Decoder!CheckerInit, Judge!CheckerInit, Decoder!Init, Judge!Init
  <1>3. ASSUME NEW f PROVE Decoder!CheckFrame(f) <=> Judge!CheckFrame(f)
    BY <1>1, TestsMatch DEF Decoder!CheckFrame, Judge!CheckFrame
  <1>4. ASSUME NEW f PROVE Decoder!CheckStream(f) <=> Judge!CheckStream(f)
    BY <1>1, TestsMatch
       DEF Decoder!CheckStream, Judge!CheckStream, Decoder!counters,
           Judge!counters, Decoder!decoder, Judge!decoder,
           Decoder!reordering, Judge!reordering
  <1>5. ASSUME NEW n, NEW out
        PROVE  Decoder!DecodePicture(n, out) <=> Judge!DecodePicture(n, out)
    BY <1>1, CheckerCounts DEF Decoder!DecodePicture, Judge!DecodePicture
  <1>6. Decoder!SendPacket <=> Judge!SendPacket
    BY <1>1, <1>5
       DEF Decoder!SendPacket, Judge!SendPacket, Decoder!SendRefused,
           Judge!SendRefused, Decoder!SendAccepted, Judge!SendAccepted,
           Decoder!counters, Judge!counters, Decoder!decoder, Judge!decoder,
           Decoder!reordering, Judge!reordering
  <1>7. Decoder!ReceiveFrame <=> Judge!ReceiveFrame
    BY <1>1, <1>3
       DEF Decoder!ReceiveFrame, Judge!ReceiveFrame, Decoder!reordering,
           Judge!reordering
  <1>8. Decoder!ReceiveNothing <=> Judge!ReceiveNothing
    BY <1>1, <1>5
       DEF Decoder!ReceiveNothing, Judge!ReceiveNothing,
           Decoder!DecodeReturns, Judge!DecodeReturns,
           Decoder!counters, Judge!counters, Decoder!decoder, Judge!decoder,
           Decoder!reordering, Judge!reordering
  <1>9. Decoder!CheckerNext <=> Judge!CheckerNext
    BY ONLY <1>4, <1>6, <1>7, <1>8 DEF Decoder!CheckerNext, Judge!CheckerNext
  <1> QED
    BY ONLY <1>1, <1>2, <1>9

-----------------------------------------------------------------------------
(***************************************************************************)
(* The inductive invariants of the parts, which hold here because a step   *)
(* of the tool is a step of each part or leaves it alone.                  *)
(***************************************************************************)
PipeInv == TypeOK /\ Ownership /\ LongFrames /\ InOrder

LEMMA PipeInit == Init => PipeInv
  BY TypeInit, OwnershipInit, LongFramesInit, InOrderInit DEF PipeInv

LEMMA PipeStep == PipeInv /\ [Next]_vars => PipeInv'
  BY TypeStep, OwnershipStep, LongFramesStep, InOrderStep DEF PipeInv

ReaderInv == Reader!Placed /\ Reader!Progress

LEMMA ReaderInit == InitialFound = {0} /\ Reader!Init => ReaderInv
  <1>1. Reader!Init => Reader!Placed
    BY ReaderAssumptions, Reader!PlacedInit
  <1>2. InitialFound = {0} /\ Reader!Init => Reader!Progress
    BY ReaderAssumptions, Reader!ProgressInit
  <1> QED
    BY ONLY <1>1, <1>2 DEF ReaderInv

LEMMA ReaderStep == ReaderInv /\ [Reader!Next]_(Reader!vars) => ReaderInv'
  <1>1. Reader!Placed /\ [Reader!Next]_(Reader!vars) => Reader!Placed'
    BY ReaderAssumptions, Reader!PlacedStep
  <1>2. Reader!Placed /\ Reader!Progress /\ [Reader!Next]_(Reader!vars)
          => Reader!Progress'
    BY ReaderAssumptions, Reader!ProgressStep
  <1> QED
    BY ONLY <1>1, <1>2 DEF ReaderInv

JudgeInv == Judge!CheckerTyped /\ Judge!Drained

LEMMA JudgeInit == Judge!CheckerInit => JudgeInv
  <1>1. Judge!CheckerInit => Judge!CheckerTyped
    BY JudgeAssumptions, Judge!CheckerTypedInit
  <1>2. Judge!CheckerInit => Judge!Drained
    BY JudgeAssumptions, Judge!DrainedInit
  <1> QED
    BY ONLY <1>1, <1>2 DEF JudgeInv

LEMMA JudgeStep ==
  JudgeInv /\ [Judge!CheckerNext]_(Judge!checkerVars) => JudgeInv'
  <1>1. Judge!Drained /\ [Judge!CheckerNext]_(Judge!checkerVars) => Judge!Drained'
    BY JudgeAssumptions, Judge!DrainedStep
  <1>2. Judge!CheckerTyped /\ Judge!Drained
            /\ [Judge!CheckerNext]_(Judge!checkerVars)
          => Judge!CheckerTyped'
    BY JudgeAssumptions, Judge!CheckerTypedStep
  <1> QED
    BY ONLY <1>1, <1>2 DEF JudgeInv

(***************************************************************************)
(* A step of the tool, part by part.  exit(1) is never called: the decoder *)
(* is drained.                                                             *)
(***************************************************************************)
Decodes ==
  Decoder!SendPacket \/ Decoder!ReceiveFrame \/ Decoder!ReceiveNothing

LEMMA DecodesIsStep ==
  ASSUME JudgeInv, Decodes
  PROVE  /\ Decoder!CheckerNext /\ ~ decoderExit'
         /\ decoderPc # "idle" /\ UNCHANGED packets
  <1>1. Decoder!CheckerNext
    BY DEF Decodes, Decoder!CheckerNext
  <1>2. JudgeInv'
    BY <1>1, JudgeStep, DecoderIsJudge
  <1>3. decoderPc # "idle" /\ UNCHANGED packets
    BY DEF Decodes, Decoder!SendPacket, Decoder!ReceiveFrame,
           Decoder!ReceiveNothing
  <1> QED
    BY <1>1, <1>2, <1>3 DEF JudgeInv, Judge!Drained

LEMMA CheckRunsCases ==
  ASSUME JudgeInv, CheckRuns
  PROVE  \/ decoderPc' = "idle" /\ CheckStream
         \/ decoderPc' # "idle" /\ UNCHANGED vars
  BY DecodesIsStep
     DEF CheckRuns, Decodes, vars, poolVars, threadVars, dataVars

LEMMA PipeTakesStep == JudgeInv /\ [ToolNext]_toolVars => [Next]_vars
  <1> SUFFICES ASSUME JudgeInv, [ToolNext]_toolVars PROVE [Next]_vars
    OBVIOUS
  <1>1. CASE PoolStep
    BY <1>1 DEF PoolStep, Next, Receiver, Checker, Threads
  <1>2. CASE RecvRuns \/ CheckStarts
    BY <1>2 DEF RecvRuns, CheckStarts
  <1>3. CASE RecvReturns
    BY <1>3 DEF RecvReturns, Next, Receiver
  <1>4. CASE RecvEnds
    BY <1>4 DEF RecvEnds, Next, Receiver
  <1>5. CASE CheckRuns
    BY <1>5, CheckRunsCases DEF Next, Checker
  <1>6. CASE UNCHANGED toolVars
    BY <1>6 DEF toolVars
  <1> QED
    BY <1>1, <1>2, <1>3, <1>4, <1>5, <1>6 DEF ToolNext

LEMMA FileTakesStep == [ToolNext]_toolVars => [File!Next]_(File!vars)
  <1> SUFFICES ASSUME [ToolNext]_toolVars PROVE [File!Next]_(File!vars)
    OBVIOUS
  <1>1. CASE RecvRuns \/ RecvReturns \/ RecvEnds
    BY <1>1, FileSearch DEF RecvRuns, RecvReturns, RecvEnds
  <1>2. CASE PoolStep \/ CheckStarts \/ CheckRuns \/ UNCHANGED toolVars
    BY <1>2, FileIsReader DEF PoolStep, CheckStarts, CheckRuns, toolVars
  <1> QED
    BY <1>1, <1>2 DEF ToolNext

LEMMA DecoderTakesStep ==
  JudgeInv /\ [ToolNext]_toolVars
    => [Decoder!CheckerNext]_(Decoder!checkerVars)
  <1> SUFFICES ASSUME JudgeInv, [ToolNext]_toolVars
               PROVE  [Decoder!CheckerNext]_(Decoder!checkerVars)
    OBVIOUS
  <1>1. CASE CheckStarts
    BY <1>1 DEF CheckStarts, Decoder!CheckerNext
  <1>2. CASE CheckRuns
    BY <1>2, DecodesIsStep DEF CheckRuns, Decodes
  <1>3. CASE PoolStep \/ RecvRuns \/ RecvReturns \/ RecvEnds
               \/ UNCHANGED toolVars
    <2>1. UNCHANGED decoderVars
      BY <1>3 DEF PoolStep, RecvRuns, RecvReturns, RecvEnds, toolVars
    <2> QED
      BY ONLY <2>1, DecoderIsJudge
  <1> QED
    BY <1>1, <1>2, <1>3 DEF ToolNext

LEMMA JudgeTakesStep ==
  JudgeInv /\ [ToolNext]_toolVars => [Judge!CheckerNext]_(Judge!checkerVars)
  BY DecoderTakesStep, DecoderIsJudge

LEMMA ReaderTakesStep == [ToolNext]_toolVars => [Reader!Next]_(Reader!vars)
  BY FileTakesStep, FileIsReader

(***************************************************************************)
(* Whatever the file, the pool and the stream, the tool does nothing that  *)
(* its parts do not do alone: every theorem about one of them holds of it. *)
(***************************************************************************)
THEOREM ToolImplementsParts == ToolSpec => ImplementsParts
  <1>1. ToolInit => Init /\ File!Init /\ Decoder!CheckerInit /\ JudgeInv
    BY JudgeInit, DecoderIsJudge DEF ToolInit
  <1>2. JudgeInv /\ [ToolNext]_toolVars => JudgeInv'
    BY JudgeStep, JudgeTakesStep
  <1> QED
    BY <1>1, <1>2, PipeTakesStep, FileTakesStep, DecoderTakesStep, PTL
       DEF ToolSpec, ImplementsParts, Spec, File!Spec, Decoder!CheckerSpec

-----------------------------------------------------------------------------
(***************************************************************************)
(* Counting the frames that are more than an AUD.                          *)
(***************************************************************************)
LEMMA LongOnesFacts ==
  ASSUME NEW T, NEW frames \in Seq(T), NEW m \in Int
  PROVE  /\ \A n : n \in LongOnes(frames, m)
                     <=> /\ n \in 1 .. Len(frames) /\ n <= m
                         /\ Len(frames[n]) > File!SizeofAud
         /\ LongOnes(frames, m) \in SUBSET (1 .. Len(frames))
         /\ IsFiniteSet(LongOnes(frames, m))
         /\ Cardinality(LongOnes(frames, m)) \in Nat
  <1>1. DOMAIN frames = 1 .. Len(frames) /\ Len(frames) \in Nat
    OBVIOUS
  <1>2. \A n : n \in LongOnes(frames, m)
                 <=> /\ n \in 1 .. Len(frames) /\ n <= m
                     /\ Len(frames[n]) > File!SizeofAud
    BY ONLY <1>1 DEF LongOnes
  <1>3. LongOnes(frames, m) \in SUBSET (1 .. Len(frames))
    BY ONLY <1>2
  <1>4. IsFiniteSet(1 .. Len(frames))
    BY <1>1, FS_Interval
  <1> QED
    BY <1>2, <1>3, <1>4, FS_Subset, FS_CardinalityType

LEMMA LongOnesGrow ==
  ASSUME NEW T, NEW frames \in Seq(T), NEW m \in Int, NEW n \in Int, m <= n
  PROVE  /\ Cardinality(LongOnes(frames, m)) <= Cardinality(LongOnes(frames, n))
         /\ m < n /\ n \in LongOnes(frames, n)
              => Cardinality(LongOnes(frames, m)) < Cardinality(LongOnes(frames, n))
  <1> DEFINE S == LongOnes(frames, m)
             U == LongOnes(frames, n)
  <1>1. /\ S \subseteq U /\ IsFiniteSet(S) /\ IsFiniteSet(U)
        /\ Cardinality(S) \in Nat /\ Cardinality(U) \in Nat
        /\ m < n => n \notin S
    BY LongOnesFacts
  <1> HIDE DEF S, U
  <1>2. Cardinality(S) <= Cardinality(U)
    BY ONLY <1>1, FS_Subset
  <1>3. ASSUME m < n, n \in U PROVE Cardinality(S) < Cardinality(U)
    <2>1. Cardinality(S \cup {n}) = Cardinality(S) + 1 /\ IsFiniteSet(S \cup {n})
      BY <1>1, <1>3, FS_AddElement
    <2>2. S \cup {n} \subseteq U
      BY <1>1, <1>3
    <2>3. Cardinality(S \cup {n}) <= Cardinality(U)
      BY ONLY <1>1, <2>2, FS_Subset
    <2> QED
      BY ONLY <1>1, <2>1, <2>3
  <1> QED
    BY <1>2, <1>3 DEF S, U

LEMMA LongOnesAgree ==
  ASSUME NEW T, NEW f \in Seq(T), NEW g \in Seq(T), NEW l \in Nat,
         l <= Len(f), l <= Len(g), \A n \in 1 .. l : f[n] = g[n],
         NEW m \in Int, m <= l
  PROVE  LongOnes(f, m) = LongOnes(g, m)
  <1>1. ASSUME NEW n PROVE n \in LongOnes(f, m) <=> n \in LongOnes(g, m)
    <2>1. Len(f) \in Nat /\ Len(g) \in Nat
      OBVIOUS
    <2>2. /\ n \in LongOnes(f, m)
               <=> n \in 1 .. Len(f) /\ n <= m /\ Len(f[n]) > File!SizeofAud
          /\ n \in LongOnes(g, m)
               <=> n \in 1 .. Len(g) /\ n <= m /\ Len(g[n]) > File!SizeofAud
      BY LongOnesFacts
    <2>3. CASE n \in 1 .. l
      BY ONLY <2>1, <2>2, <2>3, f[n] = g[n], l <= Len(f), l <= Len(g), l \in Nat
    <2>4. CASE n \notin 1 .. l
      BY ONLY <2>1, <2>2, <2>4, m <= l, l \in Nat, m \in Int
    <2> QED
      BY <2>3, <2>4
  <1> QED
    BY <1>1

(***************************************************************************)
(* One more frame.                                                         *)
(***************************************************************************)
LEMMA LongOnesKept ==
  ASSUME NEW T, NEW f \in Seq(T), NEW w \in T, NEW g, g = Append(f, w),
         NEW n \in 1 .. Len(f)
  PROVE  LongOnes(g, n) = LongOnes(f, n)
  <1>1. /\ n \in Int /\ n <= Len(f) /\ Len(f) <= Len(f) /\ Len(f) <= Len(g)
        /\ g \in Seq(T) /\ Len(f) \in Nat
        /\ \A i \in 1 .. Len(f) : g[i] = f[i]
    BY AppendFacts
  <1> QED
    BY ONLY <1>1, LongOnesAgree, f \in Seq(T)

LEMMA LongOnesAppend ==
  ASSUME NEW T, NEW f \in Seq(T), NEW w \in T, NEW g, g = Append(f, w)
  PROVE  /\ Len(g) = Len(f) + 1 /\ g[Len(g)] = w
         /\ LongOnes(g, Len(g))
              = IF Len(w) > File!SizeofAud THEN LongOnes(f, Len(f)) \cup {Len(g)}
                                           ELSE LongOnes(f, Len(f))
         /\ Len(g) \notin LongOnes(f, Len(f))
         /\ IsFiniteSet(LongOnes(f, Len(f)))
  <1>1. /\ g \in Seq(T) /\ Len(f) \in Nat /\ Len(g) = Len(f) + 1
        /\ \A n \in 1 .. Len(f) : g[n] = f[n]
        /\ g[Len(g)] = w
    BY AppendFacts
  <1> DEFINE S == LongOnes(f, Len(f))
             U == LongOnes(g, Len(g))
  <1>2. /\ \A n : n \in S <=> n \in 1 .. Len(f) /\ n <= Len(f)
                              /\ Len(f[n]) > File!SizeofAud
        /\ \A n : n \in U <=> n \in 1 .. Len(g) /\ n <= Len(g)
                              /\ Len(g[n]) > File!SizeofAud
        /\ IsFiniteSet(S)
    <2>1. Len(f) \in Int /\ Len(g) \in Int
      BY ONLY <1>1
    <2> QED
      BY ONLY <1>1, <2>1, LongOnesFacts, f \in Seq(T)
  <1> HIDE DEF S, U
  <1>3. U = IF Len(w) > File!SizeofAud THEN S \cup {Len(g)} ELSE S
    <2>1. ASSUME NEW n
          PROVE n \in U <=> n \in S \/ (n = Len(g) /\ Len(w) > File!SizeofAud)
      BY ONLY <1>1, <1>2
    <2> QED
      BY ONLY <2>1
  <1>4. Len(g) \notin S
    BY ONLY <1>1, <1>2
  <1> QED
    BY ONLY <1>1, <1>2, <1>3, <1>4 DEF S, U

LEMMA LongOneAppended ==
  ASSUME NEW T, NEW f \in Seq(T), NEW w \in T, NEW g, g = Append(f, w),
         Len(w) > File!SizeofAud
  PROVE  /\ Len(g) \in LongOnes(g, Len(g))
         /\ Cardinality(LongOnes(g, Len(g)))
              = Cardinality(LongOnes(f, Len(f))) + 1
  <1> DEFINE S == LongOnes(f, Len(f))
             U == LongOnes(g, Len(g))
  <1>1. U = S \cup {Len(g)} /\ Len(g) \notin S /\ IsFiniteSet(S)
    BY LongOnesAppend
  <1> HIDE DEF S, U
  <1>2. Cardinality(U) = Cardinality(S) + 1 /\ Len(g) \in U
    BY ONLY <1>1, FS_AddElement
  <1> QED
    BY <1>2 DEF S, U

LEMMA ShortOneAppended ==
  ASSUME NEW T, NEW f \in Seq(T), NEW w \in T, NEW g, g = Append(f, w),
         ~ (Len(w) > File!SizeofAud)
  PROVE  Cardinality(LongOnes(g, Len(g))) = Cardinality(LongOnes(f, Len(f)))
  <1> DEFINE S == LongOnes(f, Len(f))
             U == LongOnes(g, Len(g))
  <1>1. U = S
    BY LongOnesAppend
  <1> HIDE DEF S, U
  <1>2. Cardinality(U) = Cardinality(S)
    BY ONLY <1>1
  <1> QED
    BY <1>2 DEF S, U

-----------------------------------------------------------------------------
(***************************************************************************)
(* The inductive invariant of the composition: the frames received are     *)
(* those delivered that are more than an AUD, the number in a buffer is    *)
(* that of the frame that is in it, and the packets of the decoder are the *)
(* frames the checker thread has been given.                               *)
(***************************************************************************)
Count == Cardinality(LongOnes(delivered, Len(delivered)))

IsLong(k, s) ==
  \E n \in LongOnes(delivered, Len(delivered)) :
    /\ Cardinality(LongOnes(delivered, n)) = k
    /\ s = delivered[n]

AtDecoder == IF decoderPc = "idle" THEN 0 ELSE 1

Filled ==
  /\ data \in [JBuffers -> Seq(File!Symbols)]
  /\ received = Count
  /\ \A b \in JBuffers : mData[b] # NoFrame => IsLong(mData[b], data[b])

Parsed ==
  /\ parsed \in Seq(Seq(File!Symbols))
  /\ Len(packets) = Len(checked) + AtDecoder
  /\ Len(parsed) = Len(packets)
  /\ decoderPc # "idle" => pc[Check] = "checkStream"
  /\ \A k \in 1 .. Len(parsed) : IsLong(k, parsed[k])

Exited ==
  /\ process = Running <=> fileExit = File!Running
  /\ process = 0 => /\ fileExit \in {File!Passed, File!Ended}
                    /\ pc[Recv] = "recvStream"

Linked == Filled /\ Parsed /\ Exited

LEMMA LinkedInit == ToolInit => Linked
  <1> SUFFICES ASSUME ToolInit PROVE Linked
    OBVIOUS
  <1>1. /\ delivered = << >> /\ parsed = << >> /\ packets = << >>
        /\ checked = << >> /\ received = 0 /\ process = Running
        /\ fileExit = File!Running /\ decoderPc = "idle"
        /\ mData = [b \in JBuffers |-> NoFrame]
        /\ data = [b \in JBuffers |-> << >>]
    BY DEF ToolInit, Init, File!Init, Decoder!CheckerInit
  <1>2. Count = 0
    <2>1. LongOnes(delivered, Len(delivered)) = {}
      BY <1>1 DEF LongOnes
    <2> QED
      BY <2>1, FS_EmptySet DEF Count
  <1>3. Filled
    <2>1. << >> \in Seq(File!Symbols)
      OBVIOUS
    <2> QED
      BY <1>1, <1>2, <2>1 DEF Filled
  <1>4. Parsed
    <2>1. << >> \in Seq(Seq(File!Symbols)) /\ Len(<< >>) = 0
      OBVIOUS
    <2> QED
      BY <1>1, <2>1 DEF Parsed, AtDecoder
  <1>5. Exited
    BY <1>1 DEF Exited, Running
  <1> QED
    BY <1>3, <1>4, <1>5 DEF Linked

(***************************************************************************)
(* What the steps of the pool and of the search leave alone.               *)
(***************************************************************************)
LEMMA PoolStepLeaves ==
  ASSUME TypeOK, PoolStep
  PROVE  /\ UNCHANGED <<mData, received, checked, process>>
         /\ process = Running
         /\ pc[Check] = "checkStream" => pc'[Check] = "checkStream"
  <1>1. pc \in [Threads -> RecvLabels \cup CheckLabels]
    BY DEF TypeOK
  <1>2. ASSUME NEW t \in Threads, Lock(t)
        PROVE  /\ UNCHANGED <<mData, received, checked, process>>
               /\ process = Running
               /\ pc[Check] = "checkStream" => pc'[Check] = "checkStream"
    BY <1>1, <1>2
       DEF Lock, dataVars, Goto, EmptyCalls, FilledCalls, Threads, Recv, Check
  <1>3. CASE ReceiverGetsEmpty \/ ReceiverPutsFilled \/ ReceiverPutsEmpty
    BY <1>1, <1>3
       DEF ReceiverGetsEmpty, ReceiverPutsFilled, ReceiverPutsEmpty, dataVars,
           Goto, Threads, Recv, Check
  <1>4. CASE CheckerGetsFilled \/ CheckerPutsEmpty
    BY <1>1, <1>4
       DEF CheckerGetsFilled, CheckerPutsEmpty, dataVars, Goto, Threads, Recv,
           Check
  <1> QED
    BY <1>2, <1>3, <1>4 DEF PoolStep

(***************************************************************************)
(* The frame that recvStream returns.                                      *)
(***************************************************************************)
LEMMA FrameReturned ==
  ASSUME Reader!TypeOK, Reader!TypeOK', RecvReturns
  PROVE  \E w \in Seq(File!Symbols) :
           /\ delivered' = Append(delivered, w)
           /\ delivered \in Seq(Seq(File!Symbols))
           /\ data' = [data EXCEPT ![buffer[Recv]] = w]
           /\ mFilledLen'[buffer[Recv]] > AudLen <=> Len(w) > File!SizeofAud
  <1>1. /\ fileExit = File!Running /\ UNCHANGED fileExit
        /\ data' = [data EXCEPT ![buffer[Recv]] = delivered'[Len(delivered')]]
        /\ mFilledLen'[buffer[Recv]] > AudLen
             <=> Len(delivered'[Len(delivered')]) > File!SizeofAud
    BY DEF RecvReturns, File!SearchSucceeds
  <1>2. /\ delivered \in Seq(Seq(File!Symbols))
        /\ delivered' \in Seq(Seq(File!Symbols))
    BY ReaderSymbols DEF Reader!TypeOK
  <1>3. \E w : delivered' = Append(delivered, w)
    BY <1>1 DEF RecvReturns, File!SearchSucceeds, File!TooLong, File!Crashed,
                File!Running
  <1>4. PICK w : delivered' = Append(delivered, w)
    BY ONLY <1>3
  <1>5. /\ Len(delivered) \in Nat /\ Len(delivered') = Len(delivered) + 1
        /\ delivered'[Len(delivered')] = w
    BY ONLY <1>2, <1>4
  <1>6. w \in Seq(File!Symbols)
    BY ONLY <1>2, <1>5
  <1> QED
    BY ONLY <1>1, <1>2, <1>4, <1>5, <1>6

LEMMA StillLong ==
  ASSUME NEW w \in Seq(File!Symbols),
         delivered \in Seq(Seq(File!Symbols)),
         delivered' = Append(delivered, w),
         NEW k, NEW s, IsLong(k, s)
  PROVE  IsLong(k, s)'
  <1>1. PICK n \in LongOnes(delivered, Len(delivered)) :
               /\ Cardinality(LongOnes(delivered, n)) = k
               /\ s = delivered[n]
    BY DEF IsLong
  <1>2. PICK T : T = Seq(File!Symbols)
    OBVIOUS
  <1>3. delivered \in Seq(T) /\ w \in T
    BY ONLY <1>2, delivered \in Seq(Seq(File!Symbols)), w \in Seq(File!Symbols)
  <1>4. n \in 1 .. Len(delivered)
    <2>1. Len(delivered) \in Int
      BY ONLY <1>3
    <2> QED
      BY ONLY <1>1, <1>3, <2>1, LongOnesFacts
  <1>5. /\ delivered'[n] = delivered[n]
        /\ LongOnes(delivered', n) = LongOnes(delivered, n)
        /\ LongOnes(delivered, Len(delivered))
             \subseteq LongOnes(delivered', Len(delivered'))
    <2>1. LongOnes(delivered', n) = LongOnes(delivered, n)
      BY ONLY <1>3, <1>4, LongOnesKept, delivered' = Append(delivered, w)
    <2>2. delivered'[n] = delivered[n]
      BY ONLY <1>3, <1>4, AppendFacts, delivered' = Append(delivered, w)
    <2>3. LongOnes(delivered, Len(delivered))
            \subseteq LongOnes(delivered', Len(delivered'))
      <3>1. \/ LongOnes(delivered', Len(delivered'))
                 = LongOnes(delivered, Len(delivered))
            \/ LongOnes(delivered', Len(delivered'))
                 = LongOnes(delivered, Len(delivered)) \cup {Len(delivered')}
        BY ONLY <1>3, LongOnesAppend, delivered' = Append(delivered, w)
      <3> QED
        BY ONLY <3>1
    <2> QED
      BY ONLY <2>1, <2>2, <2>3
  <1>6. /\ n \in LongOnes(delivered', Len(delivered'))
        /\ Cardinality(LongOnes(delivered', n)) = k /\ s = delivered'[n]
    BY ONLY <1>1, <1>5
  <1> QED
    BY ONLY <1>6 DEF IsLong

(***************************************************************************)
(* A step that touches neither the frames delivered nor the buffers.       *)
(***************************************************************************)
LEMMA FilledKept ==
  ASSUME Filled, UNCHANGED <<data, received, delivered, mData>>
  PROVE  Filled'
  BY DEF Filled, Count, IsLong

LEMMA ParsedKept ==
  ASSUME Parsed, UNCHANGED <<parsed, packets, checked, decoderPc, delivered>>,
         pc[Check] = "checkStream" => pc'[Check] = "checkStream"
  PROVE  Parsed'
  BY DEF Parsed, AtDecoder, IsLong

LEMMA PoolStepKeepsLinked ==
  ASSUME TypeOK, Linked, PoolStep
  PROVE  Linked'
  <1>1. /\ UNCHANGED <<data, received, delivered, mData, parsed, packets,
                       checked, decoderPc, process, fileExit>>
        /\ process = Running
        /\ pc[Check] = "checkStream" => pc'[Check] = "checkStream"
    BY PoolStepLeaves DEF PoolStep, fileVars, decoderVars
  <1>2. Filled' /\ Parsed'
    BY ONLY <1>1, FilledKept, ParsedKept, Linked DEF Linked
  <1>3. Exited'
    BY <1>1 DEF Linked, Exited, Running
  <1> QED
    BY ONLY <1>2, <1>3 DEF Linked

LEMMA RecvRunsKeepsLinked ==
  ASSUME Linked, RecvRuns
  PROVE  Linked'
  <1>1. /\ UNCHANGED <<data, received, delivered, mData, parsed, packets,
                       checked, decoderPc, process, fileExit, pc>>
    BY DEF RecvRuns, decoderVars, vars, dataVars, threadVars
  <1>2. Filled' /\ Parsed'
    BY ONLY <1>1, FilledKept, ParsedKept, Linked DEF Linked
  <1>3. Exited'
    BY <1>1 DEF Linked, Exited
  <1> QED
    BY ONLY <1>2, <1>3 DEF Linked

LEMMA RecvReturnsKeepsLinked ==
  ASSUME TypeOK, Reader!TypeOK, Reader!TypeOK', Linked, RecvReturns
  PROVE  Linked'
  <1> DEFINE b == buffer[Recv]
  <1>1. PICK w \in Seq(File!Symbols) :
               /\ delivered' = Append(delivered, w)
               /\ delivered \in Seq(Seq(File!Symbols))
               /\ data' = [data EXCEPT ![b] = w]
               /\ mFilledLen'[b] > AudLen <=> Len(w) > File!SizeofAud
    BY FrameReturned
  <1>2. /\ process = Running /\ pc[Recv] = "recvStream"
        /\ b \in JBuffers /\ mData \in [JBuffers -> Nat]
        /\ received \in Nat /\ pc \in [Threads -> RecvLabels \cup CheckLabels]
    BY DEF RecvReturns, RecvStream, TypeOK, Owns, RecvOwns, Threads
  <1>3. /\ received' = IF mFilledLen'[b] > AudLen THEN received + 1 ELSE received
        /\ mData' = [mData EXCEPT ![b] =
                       IF mFilledLen'[b] > AudLen THEN received + 1 ELSE NoFrame]
        /\ pc'[Check] = pc[Check]
        /\ UNCHANGED <<checked, process, fileExit, parsed, packets, decoderPc>>
    <2>1. /\ RecvStream /\ UNCHANGED <<fileExit, parsed, packets, decoderPc>>
      BY DEF RecvReturns, decoderVars
    <2>2. mFilledLen \in [JBuffers -> Nat]
      BY DEF TypeOK
    <2> QED
      BY <1>2, <2>1, <2>2 DEF RecvStream, Goto, Threads, Recv, Check
  <1>4. ASSUME NEW k, NEW s, IsLong(k, s) PROVE IsLong(k, s)'
    BY <1>1, <1>4, StillLong
  <1>5. /\ Len(delivered') \in LongOnes(delivered', Len(delivered'))
             \/ ~ (Len(w) > File!SizeofAud)
        /\ delivered'[Len(delivered')] = w
        /\ Count' = IF Len(w) > File!SizeofAud THEN Count + 1 ELSE Count
    <2>1. PICK T : T = Seq(File!Symbols)
      OBVIOUS
    <2>2. delivered \in Seq(T) /\ w \in T /\ delivered' = Append(delivered, w)
      BY ONLY <1>1, <2>1
    <2>3. delivered'[Len(delivered')] = w
      BY ONLY <2>2, AppendFacts
    <2>4. ASSUME Len(w) > File!SizeofAud
          PROVE  /\ Len(delivered') \in LongOnes(delivered', Len(delivered'))
                 /\ Cardinality(LongOnes(delivered', Len(delivered')))
                      = Cardinality(LongOnes(delivered, Len(delivered))) + 1
      BY ONLY <2>2, <2>4, LongOneAppended
    <2>5. ASSUME ~ (Len(w) > File!SizeofAud)
          PROVE  Cardinality(LongOnes(delivered', Len(delivered')))
                   = Cardinality(LongOnes(delivered, Len(delivered)))
      BY ONLY <2>2, <2>5, ShortOneAppended
    <2> QED
      BY ONLY <2>3, <2>4, <2>5 DEF Count
  <1>6. received = Count
    BY DEF Linked, Filled
  <1>7. Filled'
    <2>1. data' \in [JBuffers -> Seq(File!Symbols)]
      BY <1>1 DEF Linked, Filled
    <2>2. received' = Count'
      BY ONLY <1>1, <1>3, <1>5, <1>6
    <2>3. ASSUME NEW c \in JBuffers, mData'[c] # NoFrame
          PROVE  IsLong(mData[c], data[c])'
      <3>1. CASE c = b
        <4>1. Len(w) > File!SizeofAud /\ mData'[c] = Count' /\ data'[c] = w
          <5>1. data \in [JBuffers -> Seq(File!Symbols)]
            BY DEF Linked, Filled
          <5> QED
            BY ONLY <1>1, <1>2, <1>3, <1>5, <1>6, <2>3, <3>1, <5>1
        <4> QED
          BY ONLY <1>5, <4>1 DEF IsLong, Count
      <3>2. CASE c # b
        <4>1. mData'[c] = mData[c] /\ data'[c] = data[c]
          <5>1. data \in [JBuffers -> Seq(File!Symbols)]
            BY DEF Linked, Filled
          <5> QED
            BY ONLY <1>1, <1>2, <1>3, <2>3, <3>2, <5>1
        <4>2. PICK k : k = mData[c]
          OBVIOUS
        <4>3. PICK v : v = data[c]
          OBVIOUS
        <4>4. IsLong(k, v)
          BY <2>3, <4>1, <4>2, <4>3 DEF Linked, Filled
        <4>5. IsLong(k, v)'
          BY ONLY <1>4, <4>4
        <4> QED
          BY ONLY <4>1, <4>2, <4>3, <4>5 DEF IsLong
      <3> QED
        BY ONLY <3>1, <3>2
    <2> QED
      BY ONLY <2>1, <2>2, <2>3 DEF Filled
  <1>8. Parsed'
    BY <1>3, <1>4 DEF Linked, Parsed, AtDecoder
  <1>9. Exited'
    BY <1>2, <1>3 DEF Linked, Exited, Running
  <1> QED
    BY ONLY <1>7, <1>8, <1>9 DEF Linked

LEMMA RecvEndsKeepsLinked ==
  ASSUME Linked, RecvEnds
  PROVE  Linked'
  <1>1. /\ UNCHANGED <<data, received, mData, parsed, packets,
                       checked, decoderPc, pc>>
        /\ process = Running /\ pc[Recv] = "recvStream"
        /\ File!Next
    BY DEF RecvEnds, RecvExit, decoderVars, dataVars, threadVars
  <1>2. /\ process' # Running /\ fileExit' # File!Running
        /\ process' = 0 => fileExit' \in {File!Passed, File!Ended}
    <2>1. \/ fileExit' \in {File!Passed, File!Ended} /\ process' = 0
          \/ fileExit' \in {File!NoAud, File!TooLong} /\ process' = 2
          \/ fileExit' = File!Crashed /\ process' = 139
      BY DEF RecvEnds
    <2>2. process' # Running
      BY ONLY <2>1 DEF Running
    <2>3. File!Running \notin {File!Passed, File!Ended, File!NoAud,
                              File!TooLong, File!Crashed}
      BY DEF File!Running, File!Passed, File!Ended, File!NoAud, File!TooLong,
             File!Crashed
    <2>4. fileExit' # File!Running
      BY ONLY <2>1, <2>3
    <2>5. process' = 0 => fileExit' \in {File!Passed, File!Ended}
      BY ONLY <2>1
    <2> QED
      BY ONLY <2>2, <2>4, <2>5
  <1>3. UNCHANGED delivered
    <2>1. CASE File!ReadFirst \/ File!SearchFails \/ File!Refill
      BY <2>1 DEF File!ReadFirst, File!SearchFails, File!Refill
    <2>2. CASE File!SearchSucceeds
      BY <1>2, <2>2 DEF File!SearchSucceeds
    <2> QED
      BY <1>1, <2>1, <2>2 DEF File!Next
  <1>4. Filled' /\ Parsed'
    BY ONLY <1>1, <1>3, FilledKept, ParsedKept, Linked DEF Linked
  <1>5. Exited'
    BY <1>1, <1>2 DEF Exited
  <1> QED
    BY ONLY <1>4, <1>5 DEF Linked

LEMMA CheckStartsKeepsLinked ==
  ASSUME PipeInv, Judge!CheckerTypeOK, Linked, CheckStarts
  PROVE  Linked'
  <1> DEFINE d == data[buffer[Check]]
             k == Len(checked) + 1
  <1>1. PICK f \in Frames : Decoder!CheckStream(f)
    BY DEF CheckStarts
  <1>2. /\ parsed' = Append(parsed, d) /\ packets' = Append(packets, f)
        /\ decoderPc = "idle" /\ decoderPc' = "send"
        /\ process = Running /\ pc[Check] = "checkStream"
        /\ UNCHANGED <<data, received, mData, checked, pc, process, fileExit,
                       delivered>>
    BY <1>1 DEF CheckStarts, Decoder!CheckStream, vars, fileVars, dataVars,
                threadVars
  <1>3. /\ buffer[Check] \in JBuffers /\ checked \in Seq(Nat)
        /\ Len(checked) \in Nat /\ packets \in Seq(Frames)
        /\ mData[buffer[Check]] = k
    BY <1>2 DEF PipeInv, TypeOK, InOrder, Owns, CheckOwns, Threads, Recv, Check,
                Judge!CheckerTypeOK
  <1>4. IsLong(k, d) /\ d \in Seq(File!Symbols)
    BY <1>3 DEF Linked, Filled, NoFrame
  <1> HIDE DEF d, k
  <1>5. /\ Len(packets') = Len(packets) + 1 /\ Len(packets) \in Nat
    BY ONLY <1>1, <1>2, <1>3, AppendFacts
  <1>6. /\ parsed \in Seq(Seq(File!Symbols))
        /\ Len(packets) = Len(checked) /\ Len(parsed) = Len(packets)
        /\ \A i \in 1 .. Len(parsed) : IsLong(i, parsed[i])
    BY <1>2, <1>3 DEF Linked, Parsed, AtDecoder
  <1>7. /\ parsed' \in Seq(Seq(File!Symbols))
        /\ Len(parsed') = Len(parsed) + 1
        /\ \A i \in 1 .. Len(parsed) : parsed'[i] = parsed[i]
        /\ parsed'[Len(parsed) + 1] = d
    <2>1. PICK T : T = Seq(File!Symbols)
      OBVIOUS
    <2>2. parsed \in Seq(T) /\ d \in T
      BY ONLY <1>4, <1>6, <2>1
    <2>3. /\ parsed' \in Seq(T)
          /\ Len(parsed') = Len(parsed) + 1
          /\ \A i \in 1 .. Len(parsed) : parsed'[i] = parsed[i]
          /\ parsed'[Len(parsed) + 1] = d
      BY ONLY <1>2, <2>2, AppendFacts
    <2> QED
      BY ONLY <2>1, <2>3
  <1>8. k = Len(parsed) + 1 /\ Len(parsed) \in Nat
    BY ONLY <1>3, <1>5, <1>6 DEF k
  <1>9. \A i \in 1 .. Len(parsed') : IsLong(i, parsed'[i])
    <2> SUFFICES ASSUME NEW i \in 1 .. Len(parsed') PROVE IsLong(i, parsed'[i])
      OBVIOUS
    <2>1. i \in 1 .. Len(parsed) \/ i = k
      BY ONLY <1>7, <1>8
    <2> QED
      BY ONLY <1>4, <1>6, <1>7, <1>8, <2>1
  <1>10. Filled'
    BY ONLY <1>2, FilledKept, Linked DEF Linked
  <1>11. Parsed'
    <2>1. AtDecoder' = 1
      BY <1>2 DEF AtDecoder
    <2>2. (\A i \in 1 .. Len(parsed) : IsLong(i, parsed[i]))'
      BY ONLY <1>2, <1>9 DEF IsLong
    <2>3. Len(packets') = Len(checked') + AtDecoder' /\ Len(parsed') = Len(packets')
      BY ONLY <1>2, <1>3, <1>5, <1>6, <1>7, <2>1
    <2> QED
      BY ONLY <1>2, <1>7, <2>2, <2>3 DEF Parsed
  <1>12. Exited'
    BY ONLY <1>2, Linked DEF Linked, Exited
  <1> QED
    BY ONLY <1>10, <1>11, <1>12 DEF Linked

LEMMA CheckRunsKeepsLinked ==
  ASSUME PipeInv, JudgeInv, Linked, CheckRuns
  PROVE  Linked'
  <1>1. /\ UNCHANGED <<delivered, fileExit, data, parsed, packets>>
        /\ decoderPc # "idle" /\ process = Running
    BY DecodesIsStep DEF CheckRuns, Decodes, fileVars
  <1>2. CASE decoderPc' = "idle" /\ CheckStream
    <2>1. /\ pc[Check] = "checkStream"
          /\ mFilledLen[buffer[Check]] # 0
          /\ checked \in Seq(Nat) /\ mData[buffer[Check]] \in Nat
      BY <1>2 DEF CheckStream, PipeInv, LongFrames, CheckerSeesFilled, TypeOK,
                  AudLen, Owns, CheckOwns, Threads, Recv, Check
    <2>2. /\ checked' = Append(checked, mData[buffer[Check]])
          /\ UNCHANGED <<mData, received, process>>
          /\ pc'[Recv] = pc[Recv]
      <3>1. pc \in [Threads -> RecvLabels \cup CheckLabels]
        BY DEF PipeInv, TypeOK
      <3> QED
        BY <1>2, <2>1, <3>1 DEF CheckStream, Goto, Recv, Check, Threads
    <2>3. Len(checked') = Len(checked) + 1 /\ Len(checked) \in Nat
      BY ONLY <2>1, <2>2, AppendFacts
    <2>4. Filled'
      BY ONLY <1>1, <2>2, FilledKept, Linked DEF Linked
    <2>5. Parsed'
      <3>1. AtDecoder = 1 /\ AtDecoder' = 0
        BY <1>1, <1>2 DEF AtDecoder
      <3>2. Len(packets') = Len(checked') + AtDecoder'
        BY ONLY <1>1, <2>3, <3>1, Linked DEF Linked, Parsed
      <3> QED
        BY ONLY <1>1, <1>2, <3>2, Linked DEF Linked, Parsed, IsLong
    <2>6. Exited'
      BY <1>1, <2>2 DEF Linked, Exited, Running
    <2> QED
      BY ONLY <2>4, <2>5, <2>6 DEF Linked
  <1>3. CASE decoderPc' # "idle" /\ UNCHANGED vars
    <2>1. UNCHANGED <<mData, received, checked, process, pc>>
      BY <1>3 DEF vars, dataVars, threadVars
    <2>2. Filled'
      BY ONLY <1>1, <2>1, FilledKept, Linked DEF Linked
    <2>3. Parsed'
      BY ONLY <1>1, <1>3, <2>1, Linked DEF Linked, Parsed, AtDecoder, IsLong
    <2>4. Exited'
      BY ONLY <1>1, <2>1, Linked DEF Linked, Exited
    <2> QED
      BY ONLY <2>2, <2>3, <2>4 DEF Linked
  <1> QED
    BY <1>2, <1>3, CheckRunsCases

LEMMA LinkedStep ==
  PipeInv /\ JudgeInv /\ Reader!TypeOK /\ Reader!TypeOK' /\ Linked
      /\ [ToolNext]_toolVars
    => Linked'
  <1> SUFFICES ASSUME PipeInv, JudgeInv, Reader!TypeOK, Reader!TypeOK', Linked,
                      [ToolNext]_toolVars
               PROVE  Linked'
    OBVIOUS
  <1>1. TypeOK /\ Judge!CheckerTypeOK
    BY DEF PipeInv, JudgeInv, Judge!CheckerTyped
  <1>2. CASE UNCHANGED toolVars
    <2>1. UNCHANGED <<data, received, delivered, mData, parsed, packets,
                      checked, decoderPc, process, fileExit, pc>>
      BY <1>2 DEF toolVars, vars, dataVars, threadVars, fileVars, decoderVars
    <2>2. Filled' /\ Parsed'
      BY ONLY <2>1, FilledKept, ParsedKept, Linked DEF Linked
    <2>3. Exited'
      BY ONLY <2>1, Linked DEF Linked, Exited
    <2> QED
      BY ONLY <2>2, <2>3 DEF Linked
  <1> QED
    BY <1>1, <1>2, PoolStepKeepsLinked, RecvRunsKeepsLinked,
       RecvReturnsKeepsLinked, RecvEndsKeepsLinked, CheckStartsKeepsLinked,
       CheckRunsKeepsLinked DEF ToolNext

-----------------------------------------------------------------------------
(***************************************************************************)
(* The frames delivered are the first frames of the file.                  *)
(***************************************************************************)
LEMMA CutsMatch ==
  ASSUME NEW s, NEW e
  PROVE  /\ File!Cuts(s) = Reader!Cuts(s)
         /\ File!CutsUpTo(s, e) = Reader!CutsUpTo(s, e)
         /\ File!FrameEndingAt(s, e) = Reader!FrameEndingAt(s, e)
         /\ File!NthCut(s, e) = Reader!NthCut(s, e)
  <1>1. ASSUME NEW i PROVE File!AudAt(s, i) <=> Reader!AudAt(s, i)
    BY DEF File!AudAt, Reader!AudAt, File!SizeofAud, Reader!SizeofAud,
           File!KAudHex2, Reader!KAudHex2, File!H, Reader!H, File!A, Reader!A
  <1>2. File!Cuts(s) = Reader!Cuts(s)
    BY ONLY <1>1 DEF File!Cuts, Reader!Cuts
  <1>3. ASSUME NEW c PROVE File!CutsUpTo(s, c) = Reader!CutsUpTo(s, c)
    BY ONLY <1>2 DEF File!CutsUpTo, Reader!CutsUpTo
  <1>4. File!FrameEndingAt(s, e) = Reader!FrameEndingAt(s, e)
    BY ONLY <1>2
       DEF File!FrameEndingAt, Reader!FrameEndingAt, File!First, Reader!First,
           File!HeaderAt, Reader!HeaderAt, File!H, Reader!H
  <1>5. File!NthCut(s, e) = Reader!NthCut(s, e)
    BY ONLY <1>2, <1>3, CheckerCounts DEF File!NthCut, Reader!NthCut
  <1> QED
    BY ONLY <1>2, <1>3, <1>4, <1>5

LEMMA FileFacts ==
  ASSUME ReaderInv
  PROVE  /\ file \in Seq(Reader!Symbols)
         /\ delivered \in Seq(Seq(File!Symbols))
         /\ Cardinality(File!Cuts(file)) \in Nat
         /\ Cardinality(File!CutsUpTo(file, Len(file) - BufferSize)) \in Nat
         /\ \A n \in 1 .. Len(delivered) :
              /\ n <= Cardinality(File!Cuts(file))
              /\ delivered[n] = File!FrameEndingAt(file, File!NthCut(file, n))
         /\ fileExit \in {File!Passed, File!Ended}
              => Len(delivered)
                   >= Cardinality(File!CutsUpTo(file, Len(file) - BufferSize))
  <1>1. /\ Reader!TypeOK /\ Reader!FramesFaithful /\ Reader!LostTailBounded
    BY DEF ReaderInv, Reader!Placed, Reader!Progress
  <1>2. file \in Seq(Reader!Symbols) /\ delivered \in Seq(Seq(File!Symbols))
    BY <1>1, ReaderAssumptions, ReaderSymbols DEF Reader!TypeOK
  <1> DEFINE d == Len(file) - BufferSize
  <1>3. d \in Int /\ d <= d
    BY <1>2, ReaderAssumptions
  <1> HIDE DEF d
  <1>4. /\ Reader!Cardinality(Reader!CutsUpTo(file, d)) \in Nat
        /\ Reader!Cardinality(Reader!Cuts(file)) \in Nat
    BY <1>2, <1>3, ReaderAssumptions, Reader!CutsCount
  <1>5. /\ Cardinality(File!CutsUpTo(file, d)) \in Nat
        /\ Cardinality(File!Cuts(file)) \in Nat
    BY ONLY <1>4, CheckerCounts, CutsMatch
  <1>6. \A n \in 1 .. Len(delivered) :
          /\ n <= Cardinality(File!Cuts(file))
          /\ delivered[n] = File!FrameEndingAt(file, File!NthCut(file, n))
    BY ONLY <1>1, CheckerCounts, CutsMatch DEF Reader!FramesFaithful
  <1>7. fileExit \in {File!Passed, File!Ended}
          => Len(delivered) >= Cardinality(File!CutsUpTo(file, d))
    BY ONLY <1>1, CheckerCounts, CutsMatch
       DEF Reader!LostTailBounded, File!Passed, File!Ended, Reader!Passed,
           Reader!Ended, d
  <1> QED
    BY ONLY <1>2, <1>5, <1>6, <1>7 DEF d

LEMMA DeliveredIsPrefix ==
  ASSUME ReaderInv
  PROVE  \E T : /\ AllFrames \in Seq(T) /\ delivered \in Seq(T)
                /\ Len(AllFrames) \in Nat /\ Len(delivered) \in Nat
                /\ Len(delivered) <= Len(AllFrames)
                /\ \A n \in 1 .. Len(delivered) : AllFrames[n] = delivered[n]
  <1> DEFINE K == Cardinality(File!Cuts(file))
             F(n) == File!FrameEndingAt(file, File!NthCut(file, n))
             T == Seq(File!Symbols) \cup {F(n) : n \in 1 .. K}
  <1>1. /\ delivered \in Seq(Seq(File!Symbols)) /\ K \in Nat
        /\ \A n \in 1 .. Len(delivered) : n <= K /\ delivered[n] = F(n)
    BY FileFacts
  <1>2. AllFrames = [n \in 1 .. K |-> F(n)]
    BY DEF AllFrames
  <1> HIDE DEF K, F
  <1>3. AllFrames \in Seq(T) /\ Len(AllFrames) = K
        /\ \A n \in 1 .. K : AllFrames[n] = F(n)
    BY ONLY <1>1, <1>2
  <1>4. delivered \in Seq(T) /\ Len(delivered) \in Nat
    <2>1. Seq(File!Symbols) \subseteq T
      OBVIOUS
    <2> HIDE DEF T
    <2> QED
      BY ONLY <1>1, <2>1
  <1>5. Len(delivered) <= K
    BY ONLY <1>1, <1>4
  <1>6. \A n \in 1 .. Len(delivered) : AllFrames[n] = delivered[n]
    BY ONLY <1>1, <1>3, <1>4, <1>5
  <1> HIDE DEF T
  <1> QED
    BY ONLY <1>1, <1>3, <1>4, <1>5, <1>6

(***************************************************************************)
(* The k-th frame that is more than an AUD is the k-th that is to be       *)
(* checked.                                                                *)
(***************************************************************************)
LEMMA IsToBeChecked ==
  ASSUME ReaderInv, NEW k, NEW s, IsLong(k, s)
  PROVE  /\ k \in 1 .. Cardinality(LongOnes(AllFrames, Len(AllFrames)))
         /\ FramesToCheck[k] = s
  <1> DEFINE all == AllFrames
             N   == Cardinality(LongOnes(all, Len(all)))
  <1>1. PICK T : /\ all \in Seq(T) /\ delivered \in Seq(T)
                 /\ Len(all) \in Nat /\ Len(delivered) \in Nat
                 /\ Len(delivered) <= Len(all)
                 /\ \A n \in 1 .. Len(delivered) : all[n] = delivered[n]
    BY DeliveredIsPrefix
  <1>2. PICK n \in LongOnes(delivered, Len(delivered)) :
               /\ Cardinality(LongOnes(delivered, n)) = k
               /\ s = delivered[n]
    BY DEF IsLong
  <1>3. FramesToCheck = [j \in 1 .. N |->
                           all[CHOOSE m \in LongOnes(all, Len(all)) :
                                 Cardinality(LongOnes(all, m)) = j]]
    BY DEF FramesToCheck
  <1> HIDE DEF all
  <1>4. /\ n \in 1 .. Len(delivered) /\ n \in Int /\ n <= Len(delivered)
        /\ Len(delivered[n]) > File!SizeofAud
    <2>1. Len(delivered) \in Int
      BY ONLY <1>1
    <2>2. n \in 1 .. Len(delivered) /\ Len(delivered[n]) > File!SizeofAud
      BY ONLY <1>1, <1>2, <2>1, LongOnesFacts
    <2> QED
      BY ONLY <1>1, <2>2
  <1>5. LongOnes(all, n) = LongOnes(delivered, n)
    <2>1. Len(delivered) <= Len(delivered)
      BY ONLY <1>1
    <2> QED
      BY ONLY <1>1, <1>4, <2>1, LongOnesAgree
  <1>6. Cardinality(LongOnes(all, n)) = k
    BY ONLY <1>2, <1>5
  <1>7. n \in LongOnes(all, Len(all)) /\ n \in LongOnes(all, n)
    <2>1. /\ n \in 1 .. Len(all) /\ n <= Len(all) /\ n <= n
          /\ Len(all[n]) > File!SizeofAud /\ Len(all) \in Int
      BY ONLY <1>1, <1>4
    <2> QED
      BY ONLY <1>1, <1>4, <2>1, LongOnesFacts
  <1>8. ASSUME NEW m \in LongOnes(all, Len(all)),
               Cardinality(LongOnes(all, m)) = k
        PROVE  m = n
    <2>1. /\ m \in Int /\ m \in 1 .. Len(all) /\ m <= m
          /\ Len(all[m]) > File!SizeofAud
      <3>1. Len(all) \in Int
        BY ONLY <1>1
      <3>2. m \in 1 .. Len(all) /\ Len(all[m]) > File!SizeofAud
        BY ONLY <1>1, <1>8, <3>1, LongOnesFacts
      <3> QED
        BY ONLY <1>1, <3>2
    <2>2. m \in LongOnes(all, m)
      BY ONLY <1>1, <2>1, LongOnesFacts
    <2>3. /\ Cardinality(LongOnes(all, m)) \in Nat
          /\ Cardinality(LongOnes(all, n)) \in Nat
      BY ONLY <1>1, <1>4, <2>1, LongOnesFacts
    <2>4. ASSUME m < n PROVE FALSE
      <3>1. Cardinality(LongOnes(all, m)) < Cardinality(LongOnes(all, n))
        BY ONLY <1>1, <1>4, <1>7, <2>1, <2>4, LongOnesGrow, m <= n
      <3> QED
        BY ONLY <1>6, <1>8, <2>3, <3>1
    <2>5. ASSUME n < m PROVE FALSE
      <3>1. Cardinality(LongOnes(all, n)) < Cardinality(LongOnes(all, m))
        BY ONLY <1>1, <1>4, <2>1, <2>2, <2>5, LongOnesGrow, n <= m
      <3> QED
        BY ONLY <1>6, <1>8, <2>3, <3>1
    <2> QED
      BY ONLY <1>4, <2>1, <2>4, <2>5
  <1>9. (CHOOSE m \in LongOnes(all, Len(all)) :
           Cardinality(LongOnes(all, m)) = k) = n
    BY ONLY <1>6, <1>7, <1>8
  <1>10. k \in Nat /\ N \in Nat /\ k > 0 /\ k <= N
    <2>1. /\ 0 \in Int /\ Len(all) \in Int /\ n <= Len(all) /\ 0 < n /\ 0 <= n
      BY ONLY <1>1, <1>4
    <2>2. /\ Cardinality(LongOnes(all, 0)) \in Nat
          /\ Cardinality(LongOnes(all, n)) \in Nat
          /\ Cardinality(LongOnes(all, Len(all))) \in Nat
      BY ONLY <1>1, <1>4, <2>1, LongOnesFacts
    <2>3. Cardinality(LongOnes(all, 0)) < Cardinality(LongOnes(all, n))
      BY ONLY <1>1, <1>4, <1>7, <2>1, LongOnesGrow
    <2>4. Cardinality(LongOnes(all, n)) <= Cardinality(LongOnes(all, Len(all)))
      BY ONLY <1>1, <1>4, <2>1, LongOnesGrow
    <2> QED
      BY ONLY <1>6, <2>2, <2>3, <2>4
  <1>11. k \in 1 .. N
    BY ONLY <1>10
  <1> HIDE DEF N
  <1>12. FramesToCheck[k] = all[n]
    BY ONLY <1>3, <1>9, <1>11
  <1>13. all[n] = s
    BY ONLY <1>1, <1>2, <1>4
  <1> QED
    BY ONLY <1>11, <1>12, <1>13 DEF N, all

LEMMA PrefixIs ==
  ASSUME NEW T, NEW s \in Seq(T), NEW N \in Nat, NEW f,
         f \in [1 .. N -> T], Len(s) <= N,
         \A k \in 1 .. Len(s) : f[k] = s[k]
  PROVE  Len(f) = N /\ s = SubSeq(f, 1, Len(s))
  <1>1. f \in Seq(T) /\ Len(f) = N /\ Len(s) \in Nat
    OBVIOUS
  <1>2. /\ SubSeq(f, 1, Len(s)) \in Seq(T)
        /\ Len(SubSeq(f, 1, Len(s))) = Len(s)
        /\ \A k \in 1 .. Len(s) : SubSeq(f, 1, Len(s))[k] = f[k]
    BY <1>1
  <1> QED
    BY <1>1, <1>2

LEMMA ParsedIsPrefix ==
  ASSUME ReaderInv, Linked
  PROVE  ParsesTheFile
  <1> DEFINE N == Cardinality(LongOnes(AllFrames, Len(AllFrames)))
             F(k) == AllFrames[CHOOSE n \in LongOnes(AllFrames, Len(AllFrames)) :
                                 Cardinality(LongOnes(AllFrames, n)) = k]
             T == Seq(File!Symbols) \cup {F(k) : k \in 1 .. N}
  <1>1. FramesToCheck = [k \in 1 .. N |-> F(k)]
    BY DEF FramesToCheck
  <1>2. /\ parsed \in Seq(Seq(File!Symbols)) /\ Len(parsed) \in Nat
        /\ \A k \in 1 .. Len(parsed) : IsLong(k, parsed[k])
    BY DEF Linked, Parsed
  <1>3. \A k \in 1 .. Len(parsed) : k \in 1 .. N /\ FramesToCheck[k] = parsed[k]
    BY ONLY <1>2, IsToBeChecked, ReaderInv
  <1>4. N \in Nat
    <2>1. PICK U : AllFrames \in Seq(U) /\ Len(AllFrames) \in Nat
      BY DeliveredIsPrefix
    <2>2. Len(AllFrames) \in Int
      BY ONLY <2>1
    <2> QED
      BY ONLY <2>1, <2>2, LongOnesFacts
  <1> HIDE DEF N, F
  <1>5. FramesToCheck \in [1 .. N -> T]
    BY ONLY <1>1
  <1>6. parsed \in Seq(T)
    <2>1. Seq(File!Symbols) \subseteq T
      OBVIOUS
    <2> HIDE DEF T
    <2> QED
      BY ONLY <1>2, <2>1
  <1>7. Len(parsed) <= N
    BY ONLY <1>2, <1>3, <1>4
  <1> HIDE DEF T
  <1>8. Len(FramesToCheck) = N /\ parsed = SubSeq(FramesToCheck, 1, Len(parsed))
    BY ONLY <1>3, <1>4, <1>5, <1>6, <1>7, PrefixIs
  <1> QED
    BY ONLY <1>7, <1>8 DEF ParsesTheFile

(***************************************************************************)
(* What is due when exit(0) comes has been received, and what has been     *)
(* received and not checked is in the pool, of which the receiver holds    *)
(* one buffer.                                                             *)
(***************************************************************************)
LEMMA DueIsReceived ==
  ASSUME ReaderInv, Linked, fileExit \in {File!Passed, File!Ended}
  PROVE  Due \in Nat /\ Due <= received
  <1> DEFINE c == Cardinality(File!CutsUpTo(file, Len(file) - BufferSize))
             all == AllFrames
             l == Len(delivered)
  <1>1. PICK T : /\ all \in Seq(T) /\ delivered \in Seq(T)
                 /\ Len(all) \in Nat /\ Len(delivered) \in Nat
                 /\ Len(delivered) <= Len(all)
                 /\ \A n \in 1 .. Len(delivered) : all[n] = delivered[n]
    BY DeliveredIsPrefix
  <1>2. c \in Nat /\ c <= l
    <2>1. c \in Nat /\ l >= c
      BY FileFacts
    <2> HIDE DEF c
    <2> QED
      BY ONLY <1>1, <2>1
  <1>3. Due = Cardinality(LongOnes(all, c)) /\ received = Cardinality(LongOnes(delivered, l))
    BY DEF Due, Linked, Filled, Count
  <1> HIDE DEF c, all
  <1>4. c \in Int /\ l \in Int /\ l <= l
    BY ONLY <1>1, <1>2
  <1>5. LongOnes(all, l) = LongOnes(delivered, l)
    BY ONLY <1>1, <1>4, LongOnesAgree
  <1>6. Cardinality(LongOnes(all, c)) \in Nat
    BY ONLY <1>1, <1>4, LongOnesFacts
  <1>7. Cardinality(LongOnes(all, c)) <= Cardinality(LongOnes(all, l))
    BY ONLY <1>1, <1>2, <1>4, LongOnesGrow
  <1> QED
    BY ONLY <1>3, <1>5, <1>6, <1>7

LEMMA UncheckedAreInPool ==
  ASSUME PipeInv, ReaderInv, Linked, process = 0
  PROVE  /\ Due \in Nat /\ Len(checked) \in Nat /\ BufferNumber \in Nat \ {0}
         /\ Due - Len(checked) < BufferNumber
  <1>1. Due \in Nat /\ Due <= received /\ pc[Recv] = "recvStream"
    BY DueIsReceived DEF Linked, Exited
  <1>2. AtChecker + Len(mFilledQ) + AtReceiver < BufferNumber
    BY <1>1, RoomForFrame DEF PipeInv
  <1>3. /\ received = Len(checked) + AtChecker + Len(mFilledQ) + AtReceiver
        /\ Len(checked) \in Nat /\ Len(mFilledQ) \in Nat /\ received \in Nat
        /\ AtChecker \in Nat /\ AtReceiver \in Nat
    <2>1. /\ received = Len(checked) + AtChecker + Len(mFilledQ) + AtReceiver
          /\ checked \in Seq(Nat) /\ mFilledQ \in Seq(JBuffers)
          /\ received \in Nat
      BY ONLY PipeInv DEF PipeInv, InOrder, TypeOK
    <2>2. AtChecker \in Nat /\ AtReceiver \in Nat
      BY ONLY DEF AtChecker, AtReceiver
    <2> QED
      BY ONLY <2>1, <2>2
  <1> QED
    BY ONLY <1>1, <1>2, <1>3, BufferNumberAssumption

(***************************************************************************)
(* The decoder's part of the verdict.                                      *)
(***************************************************************************)
JudgeCounts == Judge!Places /\ Judge!JudgedAsSent /\ Judge!Counts

LEMMA JudgeCountsInit ==
  InitialCounts = {0} /\ Judge!CheckerInit => JudgeCounts
  <1>1. Judge!CheckerInit => Judge!Places
    BY JudgeAssumptions, Judge!PlacesInit
  <1>2. Judge!CheckerInit => Judge!JudgedAsSent
    BY JudgeAssumptions, Judge!JudgedAsSentInit
  <1>3. InitialCounts = {0} /\ Judge!Init => Judge!Counts
    BY JudgeAssumptions, Judge!CountsInit
  <1>4. Judge!CheckerInit => Judge!Init
    BY DEF Judge!CheckerInit
  <1> QED
    BY ONLY <1>1, <1>2, <1>3, <1>4 DEF JudgeCounts

LEMMA JudgeCountsStep ==
  JudgeInv /\ JudgeCounts /\ [Judge!CheckerNext]_(Judge!checkerVars)
    => JudgeCounts'
  <1>1. Judge!CheckerTyped /\ Judge!Drained /\ Judge!Places
            /\ [Judge!CheckerNext]_(Judge!checkerVars)
          => Judge!Places'
    BY JudgeAssumptions, Judge!PlacesStep
  <1>2. Judge!CheckerTyped /\ Judge!Drained /\ Judge!Places /\ Judge!JudgedAsSent
            /\ [Judge!CheckerNext]_(Judge!checkerVars)
          => Judge!JudgedAsSent'
    BY JudgeAssumptions, Judge!JudgedAsSentStep
  <1>3. Judge!CheckerTyped /\ Judge!Drained
            /\ [Judge!CheckerNext]_(Judge!checkerVars)
          => [Judge!Next]_(Judge!vars)
    BY JudgeAssumptions, Judge!VerdictStep
  <1>4. Judge!TypeOK /\ Judge!Counts /\ [Judge!Next]_(Judge!vars)
          => Judge!Counts'
    BY JudgeAssumptions, Judge!CountsStep
  <1>5. Judge!CheckerTyped => Judge!TypeOK
    BY DEF Judge!CheckerTyped, Judge!CheckerTypeOK
  <1> QED
    BY ONLY <1>1, <1>2, <1>3, <1>4, <1>5 DEF JudgeInv, JudgeCounts

LEMMA ConformingPackets ==
  ASSUME 11 * MaxFrames < Modulus, JudgeInv, JudgeCounts,
         verdict = Decoder!Passed, Plain
  PROVE  /\ Len(packets) \in Nat
         /\ \A n \in 1 .. Len(packets) - AtDecoder : Decoder!Conforms(packets[n])
  <1> DEFINE h == Len(history)
  <1>1. /\ h \in Nat /\ Len(packets) \in Nat /\ framePassedCount \in Nat
        /\ decoderPc \in {"idle", "send", "receive"}
    BY DEF JudgeInv, Judge!CheckerTyped, Judge!CheckerTypeOK, Judge!TypeOK
  <1>2. /\ h = Len(packets) - Judge!Unjudged /\ h <= MaxFrames
        /\ \A i \in 1 .. h : history[i] = packets[i]
    BY DEF JudgeCounts, Judge!JudgedAsSent, Judge!Plain, Plain, Judge!LastPkt
  <1>3. Judge!Unjudged \in 0 .. 1 /\ Judge!Unjudged <= AtDecoder /\ AtDecoder \in 0 .. 1
    BY <1>1 DEF Judge!Unjudged, AtDecoder, JudgeInv, Judge!Drained
  <1>4. Judge!NoWrap
    BY <1>1, <1>2, MaxFramesAssumption, ModulusAssumption DEF Judge!NoWrap
  <1>5. Judge!AllConform
    <2>1. verdict = Judge!Passed
      BY DEF Decoder!Passed, Judge!Passed
    <2> QED
      BY <1>4, <2>1 DEF JudgeCounts, Judge!Counts, Judge!Passed, Judge!Failed,
                        Judge!NoVerdict
  <1>6. \A i \in 1 .. h : Judge!Conforms(history[i])
    BY ONLY <1>5 DEF Judge!AllConform
  <1> HIDE DEF h
  <1>7. Len(packets) - AtDecoder <= h
    BY ONLY <1>1, <1>2, <1>3
  <1>8. ASSUME NEW n \in 1 .. Len(packets) - AtDecoder
        PROVE  Decoder!Conforms(packets[n])
    <2>1. n \in 1 .. h
      BY ONLY <1>1, <1>3, <1>7
    <2>2. Judge!Conforms(packets[n])
      BY ONLY <1>2, <1>6, <2>1
    <2> QED
      BY ONLY <2>2, TestsMatch
  <1> QED
    BY ONLY <1>1, <1>8

(***************************************************************************)
(* What holds at every step: the invariants of the pipeline, of the file   *)
(* and of the decoder, each of its own module, and what links them.        *)
(***************************************************************************)
ToolInv == PipeInv /\ ReaderInv /\ JudgeInv /\ Linked

LEMMA ToolInvInit == InitialFound = {0} /\ ToolInit => ToolInv
  BY PipeInit, ReaderInit, JudgeInit, LinkedInit, FileIsReader, DecoderIsJudge
     DEF ToolInit, ToolInv

LEMMA ToolInvStep == ToolInv /\ [ToolNext]_toolVars => ToolInv'
  <1> SUFFICES ASSUME ToolInv, [ToolNext]_toolVars
               PROVE  ToolInv'
    OBVIOUS
  <1>1. PipeInv /\ ReaderInv /\ JudgeInv /\ Linked
    BY ONLY ToolInv DEF ToolInv
  <1>2. PipeInv'
    BY <1>1, PipeTakesStep, PipeStep
  <1>3. ReaderInv'
    BY <1>1, ReaderTakesStep, ReaderStep
  <1>4. JudgeInv'
    BY <1>1, JudgeTakesStep, JudgeStep
  <1>5. Reader!TypeOK /\ Reader!TypeOK'
    BY <1>1, <1>3 DEF ReaderInv, Reader!Placed
  <1>6. Linked'
    BY <1>1, <1>5, LinkedStep
  <1> QED
    BY ONLY <1>2, <1>3, <1>4, <1>6 DEF ToolInv

(***************************************************************************)
(* For every file, every size of the pool and of the buffers, and every    *)
(* interleaving of the two threads: what av_parser_parse2 is given are the *)
(* frames of the file, in order and exact.  That mFoundEnd starts at 0 is  *)
(* what FramesAreExact of FileReceiver rests on too.                       *)
(***************************************************************************)
THEOREM ParsedAreTheFrames ==
  ASSUME InitialFound = {0}
  PROVE  ToolSpec => []ParsesTheFile
  <1>1. ToolInv => ParsesTheFile
    BY ParsedIsPrefix DEF ToolInv
  <1>2. ToolInit => ToolInv
    BY ToolInvInit
  <1> QED
    BY <1>1, <1>2, ToolInvStep, PTL DEF ToolSpec

(***************************************************************************)
(* For every file, every size of the pool and of the buffers: when exit(0) *)
(* comes, the frames not checked are fewer than the buffers, not counting  *)
(* those in the last mBufferSize bytes of the file.                        *)
(***************************************************************************)
THEOREM FewAreUnchecked ==
  ASSUME InitialFound = {0}
  PROVE  ToolSpec => []FewUnchecked
  <1>1. ToolInv => FewUnchecked
    BY UncheckedAreInPool DEF ToolInv, FewUnchecked
  <1>2. ToolInit => ToolInv
    BY ToolInvInit
  <1> QED
    BY <1>1, <1>2, ToolInvStep, PTL DEF ToolSpec

LEMMA PassIsAboutFile ==
  ASSUME 11 * MaxFrames < Modulus, ToolInv, JudgeCounts
  PROVE  PassedCoversFile
  <1> SUFFICES ASSUME process = 0, verdict = Decoder!Passed, Plain,
                      NEW k \in 1 .. Due - (BufferNumber - 1)
               PROVE  parsed[k] = FramesToCheck[k] /\ Decoder!Conforms(packets[k])
    BY DEF PassedCoversFile
  <1>1. PipeInv /\ ReaderInv /\ JudgeInv /\ Linked
    BY ONLY ToolInv DEF ToolInv
  <1>2. /\ Due \in Nat /\ Len(checked) \in Nat /\ BufferNumber \in Nat \ {0}
        /\ Due - Len(checked) < BufferNumber
    BY <1>1, UncheckedAreInPool
  <1>3. /\ Len(packets) \in Nat
        /\ \A n \in 1 .. Len(packets) - AtDecoder : Decoder!Conforms(packets[n])
    BY <1>1, ConformingPackets
  <1>4. /\ Len(packets) = Len(checked) + AtDecoder
        /\ Len(parsed) = Len(packets)
        /\ \A j \in 1 .. Len(parsed) : IsLong(j, parsed[j])
    BY ONLY <1>1 DEF Linked, Parsed
  <1>5. AtDecoder \in 0 .. 1
    BY ONLY DEF AtDecoder
  <1>6. k \in 1 .. Len(packets) - AtDecoder /\ k \in 1 .. Len(parsed)
    BY ONLY <1>2, <1>3, <1>4, <1>5, k \in 1 .. Due - (BufferNumber - 1)
  <1>7. IsLong(k, parsed[k])
    BY ONLY <1>4, <1>6
  <1>8. FramesToCheck[k] = parsed[k]
    BY <1>1, <1>7, IsToBeChecked
  <1> QED
    BY ONLY <1>3, <1>6, <1>8

(***************************************************************************)
(* A pass at the end of the file is about the frames of the file: when     *)
(* "all frames has passed" is the last verdict before exit(0), no picture  *)
(* was delayed and the decoder took every packet, then the frames that end *)
(* before the last mBufferSize bytes, but for one less than there are      *)
(* buffers, were parsed and conform.  The check counters start at zero,    *)
(* and the frames are too few for totalCount to overflow.                  *)
(***************************************************************************)
THEOREM PassCoversFile ==
  ASSUME InitialFound = {0}, InitialCounts = {0}, 11 * MaxFrames < Modulus
  PROVE  ToolSpec => []PassedCoversFile
  <1> DEFINE I == ToolInv /\ JudgeCounts
  <1>1. ToolInit => I
    BY ToolInvInit, JudgeCountsInit, DecoderIsJudge DEF ToolInit
  <1>2. I /\ [ToolNext]_toolVars => I'
    <2> SUFFICES ASSUME ToolInv, JudgeCounts, [ToolNext]_toolVars
                 PROVE  ToolInv' /\ JudgeCounts'
      OBVIOUS
    <2>1. JudgeInv
      BY DEF ToolInv
    <2>2. JudgeCounts'
      BY <2>1, JudgeTakesStep, JudgeCountsStep
    <2> QED
      BY <2>2, ToolInvStep
  <1>3. I => PassedCoversFile
    BY PassIsAboutFile
  <1> QED
    BY <1>1, <1>2, <1>3, PTL DEF ToolSpec

=============================================================================
