------------------------- MODULE H264CheckerProofs -------------------------
(***************************************************************************)
(* Theorems about FrameVerdict, for every set of frames, every width of    *)
(* the counters and streams of every length, and about H264Checker, for    *)
(* every number of packets, every delay, and a decoder that may reject     *)
(* packets or lose pictures, or not.                                       *)
(***************************************************************************)
EXTENDS H264Checker, FiniteSetTheorems, TLAPS

(***************************************************************************)
(* A frame scores 11 exactly when it passes every test.                    *)
(***************************************************************************)
LEMMA PassCountFacts ==
  ASSUME NEW f
  PROVE  /\ PassCount(f) \in 0 .. 11
         /\ PassCount(f) = 11 <=> \A k \in Standards : Passes(f, k)
  <1> DEFINE P == {k \in Standards : Passes(f, k)}
  <1>1. IsFiniteSet(Standards) /\ Cardinality(Standards) = 11
    <2>1. /\ IsFiniteSet(0 .. 10)
          /\ Cardinality(0 .. 10) = IF 0 > 10 THEN 0 ELSE 10 - 0 + 1
      BY ONLY FS_Interval, 0 \in Int, 10 \in Int
    <2> QED
      BY <2>1 DEF Standards
  <1>2. P \subseteq Standards
    OBVIOUS
  <1>3. /\ IsFiniteSet(P)
        /\ Cardinality(P) <= 11
        /\ Cardinality(P) = 11 => P = Standards
    BY <1>1, <1>2, FS_Subset
  <1>4. Cardinality(P) \in Nat
    BY <1>3, FS_CardinalityType
  <1>5. P = Standards => Cardinality(P) = 11
    BY <1>1
  <1>6. P = Standards <=> \A k \in Standards : Passes(f, k)
    OBVIOUS
  <1> HIDE DEF P
  <1>7. PassCount(f) = Cardinality(P)
    BY DEF PassCount, P
  <1> QED
    BY <1>3, <1>4, <1>5, <1>6, <1>7

(***************************************************************************)
(* On a frame the decoder lets through, the eleven tests are the standard  *)
(* the messages state: the depths being equal, the && of test 4 is as      *)
(* strict as it should be.                                                 *)
(***************************************************************************)
LEMMA TestsAreTheStandard ==
  ASSUME NEW f \in Frames, Decodable(f)
  PROVE  (\A k \in Standards : Passes(f, k)) <=> Conforms(f)
  <1>1. /\ f.bit_depth_luma = f.bit_depth_chroma
        /\ f.pict_type \in 0 .. 7
        /\ f.mb_width \in Nat /\ f.mb_height \in Nat
    BY FramesAssumption DEF Decodable, FrameRecord
  <1>2. SliceType[f.pict_type] \in {0, 2} <=> f.pict_type \in {1, 2}
    BY <1>1, SMT DEF SliceType
  <1>3. /\ f.mb_width <= 120 <=> f.mb_width * 16 <= 1920
        /\ f.mb_height <= 68 <=> f.mb_height * 16 <= 1088
    BY <1>1, SMT
  <1>4. /\ Passes(f, 0) <=> f.size <= 262144
        /\ Passes(f, 1) <=> f.profile_idc \in {66, 77, 100}
        /\ Passes(f, 2) <=> f.level_idc <= 51
        /\ Passes(f, 3) <=> f.chroma_format_idc = 1
    BY SMT DEF Passes
  <1>5. Passes(f, 4) <=> f.bit_depth_luma = 8 /\ f.bit_depth_chroma = 8
    BY <1>1, SMT DEF Passes
  <1>6. /\ Passes(f, 5) <=> f.scaling_matrix_present = 0
        /\ Passes(f, 6) <=> f.frame_mbs_only_flag = 1
    BY SMT DEF Passes
  <1>7. Passes(f, 7) <=> f.pict_type \in {1, 2}
    BY <1>2, SMT DEF Passes
  <1>8. /\ Passes(f, 8) <=> f.slice_group_count = 1
        /\ Passes(f, 9) <=> f.ref_frame_count = 1
    BY SMT DEF Passes
  <1>9. Passes(f, 10) <=> f.mb_width * 16 <= 1920 /\ f.mb_height * 16 <= 1088
    BY <1>3, SMT DEF Passes
  <1>10. \A k : k \in Standards
           <=> k \in {0, 1, 2, 3, 4, 5, 6, 7, 8, 9, 10}
    BY SMT DEF Standards
  <1> QED
    BY ONLY <1>4, <1>5, <1>6, <1>7, <1>8, <1>9, <1>10, SMT DEF Conforms

LEMMA ScoreIsExact ==
  ASSUME NEW f \in Frames, Decodable(f)
  PROVE  /\ PassCount(f) \in 0 .. 11
         /\ PassCount(f) = 11 <=> Conforms(f)
  BY PassCountFacts, TestsAreTheStandard

-----------------------------------------------------------------------------
LEMMA TypeInit == Init => TypeOK
  BY InitialCountsAssumption DEF Init, TypeOK

LEMMA TypeStep == TypeOK /\ [Next]_vars => TypeOK'
  <1> SUFFICES ASSUME TypeOK, [Next]_vars PROVE TypeOK'
    OBVIOUS
  <1>1. ASSUME NEW f \in Frames, CheckFrame(f) PROVE TypeOK'
    <2>1. PassCount(f) \in Nat
      BY PassCountFacts
    <2>2. /\ frameCount' \in 0 .. Modulus - 1
          /\ totalCount' \in 0 .. Modulus - 1
      BY <1>1, <2>1, ModulusAssumption DEF TypeOK, CheckFrame
    <2>3. framePassedCount' \in 0 .. Modulus - 1
      BY <1>1, ModulusAssumption DEF TypeOK, CheckFrame
    <2>4. history' \in Seq(Frames)
      BY <1>1 DEF TypeOK, CheckFrame
    <2>5. verdict' \in {NoVerdict, Passed, Failed}
      BY <1>1 DEF CheckFrame
    <2> QED
      BY <2>2, <2>3, <2>4, <2>5 DEF TypeOK
  <1>2. CASE UNCHANGED vars
    BY <1>2 DEF vars, TypeOK
  <1> QED
    BY <1>1, <1>2 DEF Next, Done

(***************************************************************************)
(* The counters stay within their width.                                   *)
(***************************************************************************)
THEOREM TypeCorrect == Spec => []TypeOK
  BY TypeInit, TypeStep, PTL DEF Spec

-----------------------------------------------------------------------------
(***************************************************************************)
(* The inductive invariant: as long as totalCount cannot have wrapped, the *)
(* counters count what they say, totalCount reaches 11 per frame exactly   *)
(* when every frame conforms, and framePassedCount stops at the first that *)
(* does not.                                                               *)
(***************************************************************************)
Counts ==
  NoWrap =>
    /\ frameCount = Len(history)
    /\ totalCount <= 11 * Len(history)
    /\ totalCount = 11 * Len(history) <=> AllConform
    /\ framePassedCount <= Len(history)
    /\ framePassedCount = Len(history) <=> AllConform
    /\ \A i \in 1 .. framePassedCount : Conforms(history[i])
    /\ framePassedCount < Len(history)
         => ~ Conforms(history[framePassedCount + 1])
    /\ history = << >> => verdict = NoVerdict
    /\ history # << >>
         => verdict = IF framePassedCount = Len(history)
                        THEN Passed ELSE Failed

LEMMA CountsInit == InitialCounts = {0} /\ Init => Counts
  BY DEF Init, Counts, AllConform

LEMMA SmallMod ==
  ASSUME NEW m \in Nat, NEW x \in Nat, x < m
  PROVE  x % m = x
  OBVIOUS

LEMMA CountsStep == TypeOK /\ Counts /\ [Next]_vars => Counts'
  <1> SUFFICES ASSUME TypeOK, Counts, [Next]_vars PROVE Counts'
    OBVIOUS
  <1>1. ASSUME NEW f \in Frames, CheckFrame(f), NoWrap' PROVE Counts'
    <2> DEFINE n == Len(history)
    <2>1. /\ n \in Nat
          /\ Len(history') = n + 1
          /\ history' # << >>
          /\ \A i \in 1 .. n : history'[i] = history[i]
          /\ history'[n + 1] = f
      BY <1>1 DEF TypeOK, CheckFrame
    <2>2. /\ frameCount \in Nat /\ totalCount \in Nat
          /\ framePassedCount \in Nat /\ Modulus \in Nat
      BY ModulusAssumption DEF TypeOK
    <2>3. 11 * (n + 1) < Modulus
      BY <1>1, <2>1 DEF NoWrap
    <2>4. NoWrap
      BY <2>1, <2>2, <2>3 DEF NoWrap
    <2>5. /\ frameCount = n
          /\ totalCount <= 11 * n
          /\ totalCount = 11 * n <=> AllConform
          /\ framePassedCount <= n
          /\ framePassedCount = n <=> AllConform
      BY <2>4 DEF Counts
    <2>6. PassCount(f) \in 0 .. 11 /\ (PassCount(f) = 11 <=> Conforms(f))
      BY <1>1, ScoreIsExact DEF CheckFrame
    <2>7. AllConform' <=> AllConform /\ Conforms(f)
      BY <2>1 DEF AllConform
    <2>8. frameCount' = n + 1
      <3>1. n + 1 \in Nat /\ n + 1 < Modulus
        BY <2>1, <2>2, <2>3
      <3>2. (n + 1) % Modulus = n + 1
        BY <2>2, <3>1, SmallMod
      <3> QED
        BY <1>1, <2>5, <3>2 DEF CheckFrame
    <2>9. totalCount' = totalCount + PassCount(f)
      <3>1. /\ totalCount + PassCount(f) \in Nat
            /\ totalCount + PassCount(f) < Modulus
        BY <2>1, <2>2, <2>3, <2>5, <2>6
      <3>2. (totalCount + PassCount(f)) % Modulus = totalCount + PassCount(f)
        BY <2>2, <3>1, SmallMod
      <3> QED
        BY <1>1, <3>2 DEF CheckFrame
    <2>10. /\ totalCount' \in Nat
           /\ totalCount' <= 11 * (n + 1)
           /\ totalCount' = 11 * (n + 1) <=> AllConform'
      <3>1. totalCount' = 11 * (n + 1)
              <=> totalCount = 11 * n /\ PassCount(f) = 11
        BY <2>1, <2>2, <2>5, <2>6, <2>9
      <3>2. totalCount' = 11 * (n + 1) <=> AllConform'
        BY <2>5, <2>6, <2>7, <3>1
      <3> QED
        BY <2>1, <2>2, <2>5, <2>6, <2>9, <3>2
    <2>11. totalCount' \div 11 = frameCount' <=> AllConform'
      BY <2>1, <2>8, <2>10
    <2>12. CASE AllConform'
      <3>1. framePassedCount' = n + 1
        <4>1. framePassedCount' = (framePassedCount + 1) % Modulus
          BY <1>1, <2>11, <2>12 DEF CheckFrame
        <4> QED
          BY <2>1, <2>2, <2>3, <2>5, <2>7, <2>12, <4>1
      <3>2. \A i \in 1 .. n + 1 : Conforms(history'[i])
        BY <2>1, <2>12 DEF AllConform
      <3>3. verdict' = Passed
        BY <1>1, <2>8, <3>1 DEF CheckFrame
      <3> QED
        BY <2>1, <2>8, <2>10, <2>12, <3>1, <3>2, <3>3 DEF Counts
    <2>13. CASE ~ AllConform'
      <3>1. framePassedCount' = framePassedCount
        BY <1>1, <2>11, <2>13 DEF CheckFrame
      <3>2. framePassedCount' <= n /\ framePassedCount' \in Nat
        BY <2>2, <2>5, <3>1
      <3>3. \A i \in 1 .. framePassedCount' : Conforms(history'[i])
        BY <2>1, <2>2, <2>4, <3>1, <3>2 DEF Counts
      <3>4. ~ Conforms(history'[framePassedCount' + 1])
        <4>1. CASE framePassedCount < n
          BY <2>1, <2>2, <2>4, <3>1, <4>1 DEF Counts
        <4>2. CASE framePassedCount = n
          BY <2>1, <2>5, <2>7, <2>13, <3>1, <4>2
        <4> QED
          BY <2>1, <2>2, <2>5, <4>1, <4>2
      <3>5. verdict' = Failed
        BY <1>1, <2>1, <2>8, <3>2 DEF CheckFrame
      <3>6. /\ framePassedCount' # Len(history')
            /\ framePassedCount' <= Len(history')
        BY <2>1, <3>2
      <3> QED
        BY <2>1, <2>8, <2>10, <2>13, <3>3, <3>4, <3>5, <3>6 DEF Counts
    <2> QED
      BY <2>12, <2>13
  <1>2. CASE UNCHANGED vars
    BY <1>2 DEF vars, Counts, NoWrap, AllConform
  <1>3. ASSUME ~ NoWrap' PROVE Counts'
    BY <1>3 DEF Counts
  <1> QED
    BY <1>1, <1>2, <1>3 DEF Next, Done

(***************************************************************************)
(* Started from zeroed counters, the verdict is right about every stream   *)
(* of fewer than Modulus / 11 frames.                                      *)
(***************************************************************************)
THEOREM VerdictIsExact ==
  ASSUME InitialCounts = {0}
  PROVE  Spec => []VerdictExact
  <1>1. Init => Counts
    BY CountsInit
  <1>2. TypeOK /\ Counts => VerdictExact
    <2> SUFFICES ASSUME TypeOK, Counts, NoWrap, history # << >>
                 PROVE  verdict = Passed <=> AllConform
      BY DEF VerdictExact
    <2> QED
      BY DEF Counts, Passed, Failed
  <1> QED
    BY <1>1, <1>2, TypeCorrect, CountsStep, PTL DEF Spec

(***************************************************************************)
(* From the same invariant: the number printed beside a failure is the     *)
(* length of the conforming prefix.                                        *)
(***************************************************************************)
THEOREM PrintedCountIsPrefix ==
  ASSUME InitialCounts = {0}
  PROVE  Spec => []PassedCountIsPrefix
  <1>1. Init => Counts
    BY CountsInit
  <1>2. Counts => PassedCountIsPrefix
    BY DEF Counts, PassedCountIsPrefix
  <1> QED
    BY <1>1, <1>2, TypeCorrect, CountsStep, PTL DEF Spec

(***************************************************************************)
(* A stream reported failed is never reported passed again.                *)
(***************************************************************************)
THEOREM FailureIsFinal ==
  ASSUME InitialCounts = {0}
  PROVE  Spec => VerdictLatches
  <1>1. Init => Counts
    BY CountsInit
  <1>2. TypeOK /\ Counts /\ Counts' /\ [Next]_vars
          => [NoWrap' /\ verdict = Failed => verdict' = Failed]_vars
    <2> SUFFICES ASSUME TypeOK, Counts, Counts', [Next]_vars,
                        NoWrap', verdict = Failed, ~ UNCHANGED vars
                 PROVE  verdict' = Failed
      OBVIOUS
    <2> PICK f \in Frames : CheckFrame(f)
      BY DEF Next, Done
    <2> DEFINE n == Len(history)
    <2>1. /\ n \in Nat
          /\ Len(history') = n + 1
          /\ history' # << >>
          /\ \A i \in 1 .. n : history'[i] = history[i]
      BY DEF TypeOK, CheckFrame
    <2>2. NoWrap
      BY <2>1, ModulusAssumption DEF NoWrap
    <2>3. ~ AllConform
      BY <2>2 DEF Counts, Failed, Passed, NoVerdict
    <2>4. ~ AllConform'
      BY <2>1, <2>3 DEF AllConform
    <2> QED
      BY <2>1, <2>4 DEF Counts
  <1> QED
    BY <1>1, <1>2, TypeCorrect, CountsStep, PTL DEF Spec, VerdictLatches

-----------------------------------------------------------------------------
(***************************************************************************)
(* The inductive form of DecoderDrained: because nothing waits when        *)
(* a packet is sent, it is decoded at once and never stays in the filter.  *)
(***************************************************************************)
Drained ==
  /\ ~ exit
  /\ inPkt = NoPicture
  /\ pc \in {"idle", "send"} => bufferFrame = NoPicture

LEMMA DrainedInit == CheckerInit => Drained
  BY DEF CheckerInit, Drained

LEMMA DrainedStep == Drained /\ [CheckerNext]_checkerVars => Drained'
  <1> SUFFICES ASSUME Drained, [CheckerNext]_checkerVars PROVE Drained'
    OBVIOUS
  <1> USE DEF Drained, decoder, reordering
  <1>1. ASSUME NEW f \in Frames, CheckStream(f) PROVE Drained'
    BY <1>1 DEF CheckStream
  <1>2. CASE SendPacket
    BY <1>2 DEF SendPacket, SendRefused, SendAccepted
  <1>3. CASE ReceiveFrame
    BY <1>3 DEF ReceiveFrame
  <1>4. CASE ReceiveNothing
    BY <1>4 DEF ReceiveNothing, DecodeReturns
  <1>5. CASE UNCHANGED checkerVars
    BY <1>5 DEF checkerVars
  <1> QED
    BY <1>1, <1>2, <1>3, <1>4, <1>5 DEF CheckerNext

(***************************************************************************)
(* For any decoder, decode never runs into its exit(1), and nothing is     *)
(* left behind when checkStream returns.                                   *)
(***************************************************************************)
THEOREM DecoderIsDrained == CheckerSpec => []DecoderDrained
  <1>1. Drained => DecoderDrained
    BY DEF Drained, DecoderDrained
  <1> QED
    BY DrainedInit, DrainedStep, <1>1, PTL DEF CheckerSpec

-----------------------------------------------------------------------------
(***************************************************************************)
(* In a drained decoder, a packet sent is either refused or decoded.       *)
(***************************************************************************)
Refuse ==
  /\ pc = "send"
  /\ pc' = "idle"
  /\ rejected' = rejected \cup {LastPkt}
  /\ UNCHANGED <<counters, decoder, packets, mPktValid, judged, exit>>

Decode(out) ==
  /\ pc = "send"
  /\ pc' = "receive"
  /\ DecodePicture(LastPkt, out)
  /\ bufferFrame' = out
  /\ UNCHANGED <<counters, inPkt, packets, mPktValid, judged, rejected, exit>>

LEMMA SendPacketCases ==
  Drained /\ SendPacket
    => Refuse \/ \E out \in delayedPic \cup {LastPkt, NoPicture} : Decode(out)
  BY DEF Drained, SendPacket, SendRefused, SendAccepted, Refuse, Decode,
         decoder, reordering

LEMMA ReceiveNothingCases ==
  Drained /\ ReceiveNothing
    => /\ pc = "receive" /\ pc' = "idle"
       /\ bufferFrame = NoPicture
       /\ UNCHANGED <<counters, decoder, packets, mPktValid, judged, rejected,
                      exit>>
  BY DEF Drained, ReceiveNothing, DecodeReturns

-----------------------------------------------------------------------------
(***************************************************************************)
(* Type correctness.                                                       *)
(***************************************************************************)
CheckerTyped == CheckerTypeOK /\ (pc # "idle" => LastPkt > 0)

LEMMA SeqGrows ==
  ASSUME NEW S, NEW T, S \subseteq T, NEW s \in Seq(S)
  PROVE  s \in Seq(T)
  OBVIOUS

LEMMA SeqAppend ==
  ASSUME NEW S, NEW s \in Seq(S), NEW e \in S
  PROVE  /\ Append(s, e) \in Seq(S)
         /\ Len(s) \in Nat
         /\ Len(Append(s, e)) = Len(s) + 1
         /\ \A i \in 1 .. Len(s) : Append(s, e)[i] = s[i]
         /\ Append(s, e)[Len(s) + 1] = e
  OBVIOUS

(***************************************************************************)
(* Each step either leaves the verdict alone or is a step of FrameVerdict. *)
(***************************************************************************)
LEMMA VerdictStep ==
  CheckerTyped /\ Drained /\ [CheckerNext]_checkerVars => [Next]_vars
  <1> SUFFICES ASSUME CheckerTyped, Drained, [CheckerNext]_checkerVars
               PROVE  [Next]_vars
    OBVIOUS
  <1> USE DEF vars, counters
  <1>1. ASSUME NEW f \in Frames, CheckStream(f) PROVE UNCHANGED vars
    BY <1>1 DEF CheckStream
  <1>2. CASE SendPacket
    BY <1>2 DEF SendPacket
  <1>3. CASE ReceiveFrame
    <2>1. packets[LastPkt] \in Frames
      BY <1>3 DEF ReceiveFrame, CheckerTyped, CheckerTypeOK, LastPkt
    <2> QED
      BY <1>3, <2>1 DEF ReceiveFrame, Next
  <1>4. CASE ReceiveNothing
    BY <1>4 DEF ReceiveNothing
  <1>5. CASE UNCHANGED checkerVars
    BY <1>5 DEF checkerVars
  <1> QED
    BY <1>1, <1>2, <1>3, <1>4, <1>5 DEF CheckerNext

Judgement(n) == [picture : 1 .. n, by : 1 .. n]

LEMMA CheckerTypedInit == CheckerInit => CheckerTyped /\ LastPkt = 0
  <1> SUFFICES ASSUME CheckerInit PROVE CheckerTyped /\ LastPkt = 0
    OBVIOUS
  <1>1. TypeOK
    BY TypeInit DEF CheckerInit
  <1>2. LastPkt = 0 /\ packets \in Seq(Frames)
    <2>1. packets = << >>
      BY DEF CheckerInit
    <2> QED
      BY ONLY <2>1 DEF LastPkt
  <1>3. judged \in Seq(Judgement(LastPkt))
    <2>1. judged = << >>
      BY DEF CheckerInit
    <2> QED
      BY ONLY <2>1
  <1>4. /\ pc = "idle" /\ mPktValid = FALSE /\ exit = FALSE
        /\ inPkt = 0 /\ bufferFrame = 0 /\ has_b_frames = 0
        /\ delayedPic = {} /\ rejected = {} /\ dropped = {}
    BY DEF CheckerInit, NoPicture
  <1>5. 0 \in 0 .. LastPkt /\ 0 \in 0 .. Delay
    BY ONLY <1>2, DelayAssumption
  <1> QED
    BY ONLY <1>1, <1>2, <1>3, <1>4, <1>5
       DEF CheckerTyped, CheckerTypeOK, Judgement

(***************************************************************************)
(* h264_select_output_frame keeps the delayed pictures among those decoded *)
(* and no more of them than has_b_frames.                                  *)
(***************************************************************************)
LEMMA DecodePictureTypes ==
  ASSUME CheckerTypeOK, NEW n \in 1 .. LastPkt, NEW out, DecodePicture(n, out)
  PROVE  /\ out \in 0 .. LastPkt
         /\ has_b_frames' \in 0 .. Delay
         /\ delayedPic' \subseteq 1 .. LastPkt
         /\ dropped' \subseteq 1 .. LastPkt
  <1>1. /\ LastPkt \in Nat /\ delayedPic \subseteq 1 .. LastPkt
        /\ dropped \subseteq 1 .. LastPkt /\ has_b_frames \in 0 .. Delay
    BY DEF CheckerTypeOK, LastPkt
  <1>2. delayedPic \cup {n} \subseteq 1 .. LastPkt
    BY <1>1
  <1>3. \A m \in 1 .. LastPkt : m \in 0 .. LastPkt
    BY <1>1
  <1>4. /\ out \in (delayedPic \cup {n}) \cup {NoPicture}
        /\ delayedPic' \subseteq delayedPic \cup {n}
        /\ dropped' \subseteq dropped \cup delayedPic \cup {n}
    BY DEF DecodePicture
  <1>5. has_b_frames' \in 0 .. Delay
    BY <1>1, DelayAssumption DEF DecodePicture
  <1>6. NoPicture \in 0 .. LastPkt
    BY <1>1 DEF NoPicture
  <1> HIDE DEF LastPkt, NoPicture
  <1> QED
    BY ONLY <1>1, <1>2, <1>3, <1>4, <1>5, <1>6

LEMMA CheckerTypedStep ==
  CheckerTyped /\ Drained /\ [CheckerNext]_checkerVars => CheckerTyped'
  <1> SUFFICES ASSUME CheckerTyped, Drained, [CheckerNext]_checkerVars
               PROVE  CheckerTyped'
    OBVIOUS
  <1>0. /\ CheckerTypeOK
        /\ LastPkt \in Nat
        /\ judged \in Seq(Judgement(LastPkt))
    BY DEF CheckerTyped, CheckerTypeOK, LastPkt, Judgement
  <1>v. TypeOK'
    BY VerdictStep, TypeStep DEF CheckerTyped, CheckerTypeOK
  <1>1. ASSUME NEW f \in Frames, CheckStream(f) PROVE CheckerTyped'
    <2>1. packets' = Append(packets, f) /\ packets \in Seq(Frames)
      BY <1>1 DEF CheckStream, CheckerTyped, CheckerTypeOK
    <2>2. packets' \in Seq(Frames) /\ LastPkt' = LastPkt + 1
      BY ONLY <2>1, <1>1 DEF LastPkt
    <2> HIDE DEF LastPkt
    <2>3. /\ 1 .. LastPkt \subseteq 1 .. LastPkt'
          /\ 0 .. LastPkt \subseteq 0 .. LastPkt'
          /\ LastPkt' > 0
      BY ONLY <2>2, <1>0
    <2>4. Judgement(LastPkt) \subseteq Judgement(LastPkt')
      BY ONLY <2>3 DEF Judgement
    <2>5. judged' \in Seq(Judgement(LastPkt'))
      <3>1. judged' = judged
        BY <1>1 DEF CheckStream
      <3> QED
        BY ONLY <3>1, <2>4, <1>0, SeqGrows
    <2>6. /\ UNCHANGED <<decoder, rejected, exit>>
          /\ pc' = "send" /\ mPktValid' \in BOOLEAN
      BY <1>1, MayFailAssumption DEF CheckStream
    <2>7. inPkt' \in 0 .. LastPkt' /\ bufferFrame' \in 0 .. LastPkt'
      BY <1>0, <2>3, <2>6 DEF CheckerTypeOK, decoder
    <2>8. /\ delayedPic' \subseteq 1 .. LastPkt'
          /\ rejected' \subseteq 1 .. LastPkt'
          /\ dropped' \subseteq 1 .. LastPkt'
          /\ has_b_frames' \in 0 .. Delay /\ exit' \in BOOLEAN
      BY <1>0, <2>3, <2>6 DEF CheckerTypeOK, decoder, reordering
    <2> QED
      BY <1>v, <2>2, <2>3, <2>5, <2>6, <2>7, <2>8
         DEF CheckerTyped, CheckerTypeOK, Judgement
  <1>2. CASE Refuse
    <2>1. UNCHANGED LastPkt /\ LastPkt \in 1 .. LastPkt
      BY <1>2, <1>0 DEF Refuse, LastPkt, CheckerTyped
    <2> QED
      BY <1>v, <1>2, <2>1 DEF Refuse, CheckerTyped, CheckerTypeOK, decoder,
         reordering
  <1>3. ASSUME NEW out, Decode(out) PROVE CheckerTyped'
    <2>1. UNCHANGED LastPkt /\ LastPkt \in 1 .. LastPkt
      BY <1>3, <1>0 DEF Decode, LastPkt, CheckerTyped
    <2>2. /\ out \in 0 .. LastPkt
          /\ has_b_frames' \in 0 .. Delay
          /\ delayedPic' \subseteq 1 .. LastPkt
          /\ dropped' \subseteq 1 .. LastPkt
      BY <1>0, <1>3, <2>1, DecodePictureTypes DEF Decode
    <2> QED
      BY <1>v, <1>3, <2>1, <2>2 DEF Decode, CheckerTyped, CheckerTypeOK
  <1>4. CASE ReceiveFrame
    <2>1. UNCHANGED LastPkt /\ LastPkt \in 1 .. LastPkt
      BY <1>4, <1>0 DEF ReceiveFrame, LastPkt, CheckerTyped
    <2>2. [picture |-> bufferFrame, by |-> LastPkt] \in Judgement(LastPkt)
      <3>1. bufferFrame \in 1 .. LastPkt
        BY <1>4, <1>0 DEF ReceiveFrame, CheckerTypeOK, NoPicture
      <3> QED
        BY <2>1, <3>1 DEF Judgement
    <2>3. judged' \in Seq(Judgement(LastPkt))
      <3>1. judged' = Append(judged, [picture |-> bufferFrame, by |-> LastPkt])
        BY <1>4 DEF ReceiveFrame
      <3> QED
        BY ONLY <3>1, <2>2, <1>0, SeqAppend
    <2>4. bufferFrame' \in 0 .. LastPkt
      BY <1>0, <1>4 DEF ReceiveFrame, NoPicture
    <2>5. UNCHANGED <<pc, packets, mPktValid, inPkt, reordering, rejected, exit>>
      BY <1>4 DEF ReceiveFrame
    <2> QED
      BY <1>v, <2>1, <2>3, <2>4, <2>5
         DEF CheckerTyped, CheckerTypeOK, Judgement, reordering
  <1>5. CASE ReceiveNothing
    <2>1. /\ pc' = "idle"
          /\ UNCHANGED <<decoder, packets, mPktValid, judged, rejected, exit>>
      BY <1>5, ReceiveNothingCases
    <2> QED
      BY <1>v, <2>1 DEF CheckerTyped, CheckerTypeOK, decoder, reordering, LastPkt
  <1>6. CASE UNCHANGED checkerVars
    BY <1>v, <1>6 DEF checkerVars, CheckerTyped, CheckerTypeOK, decoder,
       reordering, LastPkt
  <1> QED
    BY <1>1, <1>2, <1>3, <1>4, <1>5, <1>6, SendPacketCases DEF CheckerNext

(***************************************************************************)
(* Every reachable state is well typed: pictures are numbers of packets    *)
(* parsed, and checkFrame is never called before there is one.             *)
(***************************************************************************)
THEOREM CheckerTypeCorrect == CheckerSpec => []CheckerTypeOK
  <1>1. CheckerTyped => CheckerTypeOK
    BY DEF CheckerTyped
  <1> QED
    BY CheckerTypedInit, CheckerTypedStep, DrainedInit, DrainedStep, <1>1, PTL
       DEF CheckerSpec

-----------------------------------------------------------------------------
(***************************************************************************)
(* Why no packet is judged twice: while the last packet may still be       *)
(* judged, only earlier ones have been.                                    *)
(***************************************************************************)
Unjudged == IF pc = "send" \/ bufferFrame # NoPicture THEN 1 ELSE 0

JudgedUpTo ==
  /\ JudgedByIncreases
  /\ \A i \in 1 .. Len(judged) : judged[i].by <= LastPkt - Unjudged

LEMMA JudgedUpToInit == CheckerInit => JudgedUpTo
  <1> SUFFICES ASSUME CheckerInit PROVE JudgedUpTo
    OBVIOUS
  <1>1. judged = << >>
    BY DEF CheckerInit
  <1>2. Len(judged) = 0
    BY ONLY <1>1
  <1> QED
    BY ONLY <1>2 DEF JudgedUpTo, JudgedByIncreases

LEMMA JudgedUpToStep ==
  CheckerTyped /\ Drained /\ JudgedUpTo /\ [CheckerNext]_checkerVars
    => JudgedUpTo'
  <1> SUFFICES ASSUME CheckerTyped, Drained, JudgedUpTo,
                      [CheckerNext]_checkerVars
               PROVE  JudgedUpTo'
    OBVIOUS
  <1>0. /\ judged \in Seq(Judgement(LastPkt)) /\ Len(judged) \in Nat
        /\ LastPkt \in Nat /\ Unjudged \in {0, 1}
        /\ \A i \in 1 .. Len(judged) : judged[i].by \in Nat
    <2>1. judged \in Seq(Judgement(LastPkt)) /\ LastPkt \in Nat
      BY DEF CheckerTyped, CheckerTypeOK, Judgement, LastPkt
    <2>2. ASSUME NEW i \in 1 .. Len(judged) PROVE judged[i].by \in Nat
      <3>1. judged[i] \in Judgement(LastPkt)
        BY ONLY <2>1
      <3>2. judged[i].by \in 1 .. LastPkt
        BY ONLY <3>1 DEF Judgement
      <3> QED
        BY ONLY <3>2, <2>1
    <2>3. Len(judged) \in Nat
      BY ONLY <2>1
    <2> QED
      BY <2>1, <2>2, <2>3 DEF Unjudged
  <1>a. \A i \in 1 .. Len(judged) : judged[i].by <= LastPkt - Unjudged
    BY DEF JudgedUpTo
  <1>b. ASSUME UNCHANGED judged, LastPkt - Unjudged <= LastPkt' - Unjudged',
               LastPkt' \in Nat, Unjudged' \in {0, 1}
        PROVE  JudgedUpTo'
    <2>1. \A i \in 1 .. Len(judged) : judged[i].by <= LastPkt' - Unjudged'
      BY ONLY <1>0, <1>a, <1>b
    <2> QED
      BY <2>1, <1>b DEF JudgedUpTo, JudgedByIncreases
  <1>1. ASSUME NEW f \in Frames, CheckStream(f) PROVE JudgedUpTo'
    <2>1. packets' = Append(packets, f) /\ packets \in Seq(Frames)
      BY <1>1 DEF CheckStream, CheckerTyped, CheckerTypeOK
    <2>2. LastPkt' = LastPkt + 1
      BY ONLY <2>1, <1>1 DEF LastPkt
    <2>3. Unjudged = 0
      BY <1>1 DEF CheckStream, Unjudged, Drained
    <2>4. Unjudged' = 1 /\ UNCHANGED judged
      BY <1>1 DEF CheckStream, Unjudged
    <2> HIDE DEF LastPkt
    <2>5. LastPkt - Unjudged <= LastPkt' - Unjudged' /\ LastPkt' \in Nat
      BY ONLY <2>2, <2>3, <2>4, <1>0
    <2> QED
      BY <2>4, <2>5, <1>b
  <1>2. ASSUME pc = "send", UNCHANGED <<packets, judged>> PROVE JudgedUpTo'
    <2>1. Unjudged = 1 /\ Unjudged' \in {0, 1} /\ UNCHANGED LastPkt
      BY <1>2 DEF Unjudged, LastPkt
    <2>2. LastPkt - Unjudged <= LastPkt' - Unjudged'
      BY ONLY <2>1, <1>0
    <2> QED
      BY <1>2, <1>0, <2>1, <2>2, <1>b
  <1>3. CASE ReceiveFrame
    <2> DEFINE e == [picture |-> bufferFrame, by |-> LastPkt]
    <2>1. /\ judged' = Append(judged, e) /\ UNCHANGED LastPkt
          /\ pc = "receive" /\ pc' = pc
          /\ bufferFrame # NoPicture /\ bufferFrame' = NoPicture
      BY <1>3 DEF ReceiveFrame, LastPkt
    <2>2. Unjudged = 1 /\ Unjudged' = 0
      BY <2>1 DEF Unjudged
    <2>3. e \in Judgement(LastPkt)
      <3>1. LastPkt \in 1 .. LastPkt
        BY <2>1, <1>0 DEF CheckerTyped
      <3>2. bufferFrame \in 1 .. LastPkt
        BY <2>1, <1>0 DEF CheckerTyped, CheckerTypeOK, NoPicture
      <3> QED
        BY <3>1, <3>2 DEF Judgement
    <2>4. e.by = LastPkt
      OBVIOUS
    <2>5. /\ Len(judged') = Len(judged) + 1
          /\ \A i \in 1 .. Len(judged) : judged'[i] = judged[i]
          /\ judged'[Len(judged) + 1] = e
      <3> HIDE DEF e
      <3> QED
        BY ONLY <1>0, <2>1, <2>3, SeqAppend
    <2> HIDE DEF e, LastPkt
    <2>6. \A i \in 1 .. Len(judged) : judged[i].by < LastPkt
      BY ONLY <1>0, <1>a, <2>2
    <2>7. \A i, j \in 1 .. Len(judged) : i < j => judged[i].by < judged[j].by
      BY DEF JudgedUpTo, JudgedByIncreases
    <2>8. \A i, j \in 1 .. Len(judged') : i < j => judged'[i].by < judged'[j].by
      BY ONLY <1>0, <2>4, <2>5, <2>6, <2>7
    <2>9. \A i \in 1 .. Len(judged') : judged'[i].by <= LastPkt' - Unjudged'
      BY ONLY <1>0, <2>1, <2>2, <2>4, <2>5, <2>6
    <2> QED
      BY <2>8, <2>9 DEF JudgedUpTo, JudgedByIncreases
  <1>4. CASE ReceiveNothing
    <2>1. /\ pc = "receive" /\ pc' = "idle"
          /\ UNCHANGED <<decoder, packets, judged>>
      BY <1>4, ReceiveNothingCases
    <2>2. UNCHANGED <<Unjudged, LastPkt, judged>>
      BY <2>1 DEF Unjudged, LastPkt, decoder
    <2>3. LastPkt - Unjudged <= LastPkt' - Unjudged'
      BY ONLY <1>0, <2>2
    <2> QED
      BY <1>0, <1>b, <2>2, <2>3
  <1>5. CASE UNCHANGED checkerVars
    BY <1>5 DEF checkerVars, JudgedUpTo, JudgedByIncreases, LastPkt, Unjudged,
       decoder
  <1> QED
    BY <1>1, <1>2, <1>3, <1>4, <1>5, SendPacketCases
       DEF CheckerNext, Refuse, Decode

(***************************************************************************)
(* No packet's size and type are tested twice, whatever the decoder holds  *)
(* back.                                                                   *)
(***************************************************************************)
THEOREM NoPacketJudgedTwice == CheckerSpec => []JudgedByIncreases
  <1>1. JudgedUpTo => JudgedByIncreases
    BY DEF JudgedUpTo
  <1> QED
    BY CheckerTypedInit, CheckerTypedStep, DrainedInit, DrainedStep,
       JudgedUpToInit, JudgedUpToStep, <1>1, PTL DEF CheckerSpec

-----------------------------------------------------------------------------
(***************************************************************************)
(* Where the packets are.  One is in hand when it is about to be decoded   *)
(* or, as a picture, about to be fetched.                                  *)
(***************************************************************************)
Hand(n) == IF n = NoPicture THEN {} ELSE {n}

InHand == IF pc = "send" THEN {LastPkt} ELSE Hand(bufferFrame)

Places ==
  /\ Pictures \cup rejected \cup dropped \cup delayedPic \cup InHand
       = 1 .. LastPkt
  /\ InHand \cap (rejected \cup dropped \cup delayedPic) = {}
  /\ delayedPic \cap (rejected \cup dropped) = {}
  /\ Len(judged) + Cardinality(rejected) + Cardinality(dropped)
       + Cardinality(delayedPic) + Unjudged = LastPkt
  /\ Cardinality(delayedPic) <= has_b_frames

LEMMA SubsetsFinite ==
  ASSUME NEW n \in Nat, NEW S, S \subseteq 1 .. n
  PROVE  IsFiniteSet(S) /\ Cardinality(S) \in Nat
  <1>1. IsFiniteSet(1 .. n)
    BY FS_Interval
  <1> QED
    BY <1>1, FS_Subset, FS_CardinalityType

LEMMA AddOne ==
  ASSUME NEW S, IsFiniteSet(S), NEW e, e \notin S
  PROVE  Cardinality(S \cup {e}) = Cardinality(S) + 1
  BY FS_AddElement

LEMMA RemoveOne ==
  ASSUME NEW S, IsFiniteSet(S), NEW e, e \in S
  PROVE  Cardinality(S \ {e}) = Cardinality(S) - 1
  BY FS_RemoveElement

(***************************************************************************)
(* h264_select_output_frame moves the new picture and the delayed ones     *)
(* around and loses none without its being dropped.                        *)
(***************************************************************************)
LEMMA DecodePictureMoves ==
  ASSUME CheckerTypeOK, NEW n \in 1 .. LastPkt, NEW out, DecodePicture(n, out),
         n \notin delayedPic, n \notin dropped,
         delayedPic \cap dropped = {},
         Cardinality(delayedPic) <= has_b_frames
  PROVE  /\ dropped' \cup delayedPic' \cup Hand(out)
              = dropped \cup delayedPic \cup {n}
         /\ delayedPic' \cup Hand(out) \subseteq delayedPic \cup {n}
         /\ Hand(out) \cap (dropped' \cup delayedPic') = {}
         /\ delayedPic' \cap dropped' = {}
         /\ Cardinality(dropped') + Cardinality(delayedPic')
              + (IF out = NoPicture THEN 0 ELSE 1)
              = Cardinality(dropped) + Cardinality(delayedPic) + 1
         /\ Cardinality(delayedPic') <= has_b_frames'
  <1> DEFINE held == delayedPic \cup {n}
  <1>1. /\ LastPkt \in Nat /\ held \subseteq 1 .. LastPkt
        /\ dropped \subseteq 1 .. LastPkt /\ delayedPic \subseteq 1 .. LastPkt
    BY DEF CheckerTypeOK, LastPkt
  <1>2. has_b_frames \in Nat /\ has_b_frames' \in Nat
        /\ has_b_frames <= has_b_frames'
    BY DelayAssumption DEF CheckerTypeOK, DecodePicture
  <1>3. /\ IsFiniteSet(held) /\ IsFiniteSet(dropped)
        /\ IsFiniteSet(delayedPic)
        /\ Cardinality(held) \in Nat /\ Cardinality(dropped) \in Nat
        /\ Cardinality(delayedPic) \in Nat
    BY <1>1, SubsetsFinite
  <1>4. Cardinality(held) = Cardinality(delayedPic) + 1
    BY <1>3, AddOne
  <1>5. \A m \in held : /\ m # NoPicture
                        /\ m \notin dropped
                        /\ Cardinality(held \ {m}) = Cardinality(delayedPic)
    <2>1. \A m \in held : Cardinality(held \ {m}) = Cardinality(delayedPic)
      BY <1>3, <1>4, RemoveOne
    <2>2. \A m \in held : m # NoPicture
      BY <1>1 DEF NoPicture
    <2> QED
      BY <2>1, <2>2
  <1>6. CASE /\ Cardinality(held) <= has_b_frames'
             /\ out = NoPicture /\ delayedPic' = held /\ UNCHANGED dropped
    <2>1. Hand(out) = {}
      BY <1>6 DEF Hand
    <2> QED
      BY <1>3, <1>4, <1>6, <2>1
  <1>7. CASE /\ out \in held /\ delayedPic' = held \ {out}
             /\ UNCHANGED dropped
    <2>1. Hand(out) = {out} /\ out # NoPicture
      BY <1>5, <1>7 DEF Hand
    <2>2. Cardinality(delayedPic') = Cardinality(delayedPic)
      BY <1>5, <1>7
    <2>3. Cardinality(delayedPic') <= has_b_frames'
      BY <1>2, <1>3, <2>2
    <2>4. dropped' \cup delayedPic' \cup {out} = dropped \cup held
      BY <1>7
    <2>5. {out} \cap (dropped' \cup delayedPic') = {} /\ delayedPic' \cap dropped' = {}
      BY <1>5, <1>7
    <2>6. Cardinality(dropped') + Cardinality(delayedPic') + 1
            = Cardinality(dropped) + Cardinality(delayedPic) + 1
      BY <1>7, <2>2
    <2>7. delayedPic' \cup {out} \subseteq delayedPic \cup {n}
      BY <1>7
    <2> QED
      BY <2>1, <2>3, <2>4, <2>5, <2>6, <2>7
  <1>8. CASE \E late \in held : /\ out = NoPicture
                                /\ delayedPic' = held \ {late}
                                /\ dropped' = dropped \cup {late}
    <2> PICK late \in held : /\ out = NoPicture
                             /\ delayedPic' = held \ {late}
                             /\ dropped' = dropped \cup {late}
      BY <1>8
    <2>1. Hand(out) = {}
      BY DEF Hand
    <2>2. Cardinality(delayedPic') = Cardinality(delayedPic)
      BY <1>5
    <2>3. Cardinality(dropped') = Cardinality(dropped) + 1
      BY <1>3, <1>5, AddOne
    <2>4. Cardinality(delayedPic') <= has_b_frames'
      BY <1>2, <1>3, <2>2
    <2>5. dropped' \cup delayedPic' = dropped \cup held
      OBVIOUS
    <2>6. delayedPic' \cap dropped' = {}
      BY <1>5
    <2>7. Cardinality(dropped') + Cardinality(delayedPic')
            = Cardinality(dropped) + Cardinality(delayedPic) + 1
      BY <1>3, <2>2, <2>3
    <2> QED
      BY <2>1, <2>4, <2>5, <2>6, <2>7, <1>3
  <1> QED
    BY <1>6, <1>7, <1>8 DEF DecodePicture

LEMMA PlacesInit == CheckerInit => Places
  <1> SUFFICES ASSUME CheckerInit PROVE Places
    OBVIOUS
  <1>1. Len(judged) = 0 /\ LastPkt = 0
    <2>1. judged = << >> /\ packets = << >>
      BY DEF CheckerInit
    <2> QED
      BY ONLY <2>1 DEF LastPkt
  <1>2. Pictures = {}
    BY <1>1 DEF Pictures
  <1>3. /\ pc = "idle" /\ bufferFrame = NoPicture /\ has_b_frames = 0
        /\ delayedPic = {} /\ rejected = {} /\ dropped = {}
    BY DEF CheckerInit
  <1>4. InHand = {} /\ Unjudged = 0
    BY <1>3 DEF InHand, Hand, Unjudged
  <1> QED
    BY ONLY <1>1, <1>2, <1>3, <1>4, FS_EmptySet DEF Places

LEMMA PlacesStep ==
  CheckerTyped /\ Drained /\ Places /\ [CheckerNext]_checkerVars => Places'
  <1> SUFFICES ASSUME CheckerTyped, Drained, Places,
                      [CheckerNext]_checkerVars
               PROVE  Places'
    OBVIOUS
  <1>0. /\ CheckerTypeOK /\ LastPkt \in Nat
        /\ rejected \subseteq 1 .. LastPkt /\ dropped \subseteq 1 .. LastPkt
        /\ delayedPic \subseteq 1 .. LastPkt
        /\ Pictures \subseteq 1 .. LastPkt
    BY DEF CheckerTyped, CheckerTypeOK, LastPkt, Places
  <1>c. /\ IsFiniteSet(rejected) /\ Cardinality(rejected) \in Nat
        /\ Cardinality(dropped) \in Nat /\ Cardinality(delayedPic) \in Nat
    BY <1>0, SubsetsFinite
  <1>l. judged \in Seq(Judgement(LastPkt)) /\ Len(judged) \in Nat
    <2>1. judged \in Seq(Judgement(LastPkt))
      BY DEF CheckerTyped, CheckerTypeOK, Judgement
    <2> QED
      BY ONLY <2>1
  <1>p. /\ Pictures \cup rejected \cup dropped \cup delayedPic \cup InHand
             = 1 .. LastPkt
        /\ InHand \cap (rejected \cup dropped \cup delayedPic) = {}
        /\ delayedPic \cap (rejected \cup dropped) = {}
        /\ Len(judged) + Cardinality(rejected) + Cardinality(dropped)
             + Cardinality(delayedPic) + Unjudged = LastPkt
        /\ Cardinality(delayedPic) <= has_b_frames
    BY DEF Places
  <1>1. ASSUME NEW f \in Frames, CheckStream(f) PROVE Places'
    <2>1. packets' = Append(packets, f) /\ packets \in Seq(Frames)
      BY <1>1 DEF CheckStream, CheckerTyped, CheckerTypeOK
    <2>2. LastPkt' = LastPkt + 1
      BY ONLY <2>1, <1>1 DEF LastPkt
    <2>3. /\ pc = "idle" /\ pc' = "send" /\ bufferFrame = NoPicture
          /\ UNCHANGED <<judged, rejected, dropped, delayedPic, has_b_frames>>
      BY <1>1 DEF CheckStream, Drained, decoder, reordering
    <2>4. /\ InHand = {} /\ InHand' = {LastPkt'}
          /\ Unjudged = 0 /\ Unjudged' = 1
      BY <2>3 DEF InHand, Hand, Unjudged
    <2>5. Pictures' = Pictures
      BY <2>3 DEF Pictures
    <2> HIDE DEF LastPkt
    <2>6. LastPkt' \notin 1 .. LastPkt /\ 1 .. LastPkt' = 1 .. LastPkt \cup {LastPkt'}
      BY ONLY <1>0, <2>2
    <2>7. Pictures \cup rejected \cup dropped \cup delayedPic \cup {LastPkt'}
            = 1 .. LastPkt'
      BY ONLY <1>p, <2>4, <2>6
    <2>8. {LastPkt'} \cap (rejected \cup dropped \cup delayedPic) = {}
      BY ONLY <1>0, <2>6
    <2>9. Len(judged) + Cardinality(rejected) + Cardinality(dropped)
            + Cardinality(delayedPic) + 1 = LastPkt'
      BY ONLY <1>p, <1>0, <1>c, <1>l, <2>2, <2>4
    <2> QED
      BY ONLY <1>p, <2>3, <2>4, <2>5, <2>7, <2>8, <2>9 DEF Places
  <1>2. CASE Refuse
    <2>1. /\ pc = "send" /\ pc' = "idle"
          /\ rejected' = rejected \cup {LastPkt}
          /\ UNCHANGED <<bufferFrame, dropped, delayedPic, has_b_frames,
                         judged, LastPkt>>
      BY <1>2 DEF Refuse, decoder, reordering, LastPkt
    <2>2. bufferFrame = NoPicture
      BY <2>1 DEF Drained
    <2>3. /\ InHand = {LastPkt} /\ InHand' = {}
          /\ Unjudged = 1 /\ Unjudged' = 0 /\ UNCHANGED Pictures
      BY <2>1, <2>2 DEF InHand, Hand, Unjudged, Pictures
    <2>4. Cardinality(rejected') = Cardinality(rejected) + 1
      BY <1>p, <1>c, <2>1, <2>3, AddOne
    <2>5. Len(judged) + Cardinality(rejected') + Cardinality(dropped)
            + Cardinality(delayedPic) + 0 = LastPkt
      BY ONLY <1>p, <1>0, <1>c, <1>l, <2>3, <2>4
    <2>6. Pictures \cup rejected' \cup dropped \cup delayedPic = 1 .. LastPkt
      BY ONLY <1>p, <2>1, <2>3
    <2>7. delayedPic \cap (rejected' \cup dropped) = {}
      BY ONLY <1>p, <2>1, <2>3
    <2> QED
      BY ONLY <1>p, <2>1, <2>3, <2>5, <2>6, <2>7 DEF Places
  <1>3. ASSUME NEW out \in delayedPic \cup {LastPkt, NoPicture}, Decode(out)
        PROVE  Places'
    <2>1. /\ pc = "send" /\ pc' = "receive" /\ bufferFrame' = out
          /\ DecodePicture(LastPkt, out)
          /\ UNCHANGED <<rejected, judged, LastPkt>>
      BY <1>3 DEF Decode, LastPkt
    <2>2. InHand = {LastPkt} /\ Unjudged = 1 /\ LastPkt \in 1 .. LastPkt
      BY <1>0, <2>1 DEF InHand, Unjudged, CheckerTyped
    <2>3. /\ InHand' = Hand(out) /\ UNCHANGED Pictures
          /\ Unjudged' = IF out = NoPicture THEN 0 ELSE 1
      BY <2>1 DEF InHand, Unjudged, Pictures, Hand
    <2>4. /\ dropped' \cup delayedPic' \cup Hand(out)
               = dropped \cup delayedPic \cup {LastPkt}
          /\ delayedPic' \cup Hand(out) \subseteq delayedPic \cup {LastPkt}
          /\ Hand(out) \cap (dropped' \cup delayedPic') = {}
          /\ delayedPic' \cap dropped' = {}
          /\ Cardinality(dropped') + Cardinality(delayedPic')
               + (IF out = NoPicture THEN 0 ELSE 1)
               = Cardinality(dropped) + Cardinality(delayedPic) + 1
          /\ Cardinality(delayedPic') <= has_b_frames'
      <3>1. /\ LastPkt \notin delayedPic /\ LastPkt \notin dropped
            /\ delayedPic \cap dropped = {}
        BY ONLY <1>p, <2>2
      <3>2. /\ CheckerTypeOK /\ LastPkt \in 1 .. LastPkt
            /\ DecodePicture(LastPkt, out)
            /\ Cardinality(delayedPic) <= has_b_frames
        BY ONLY <1>0, <1>p, <2>1, <2>2
      <3> HIDE DEF LastPkt
      <3> QED
        BY ONLY <3>1, <3>2, DecodePictureMoves
    <2>5. (Hand(out) \cup delayedPic') \cap rejected = {}
      BY ONLY <1>p, <2>2, <2>4
    <2>6. Pictures \cup rejected \cup dropped' \cup delayedPic' \cup Hand(out)
            = 1 .. LastPkt
      BY ONLY <1>p, <2>2, <2>4
    <2>7. Cardinality(dropped') \in Nat /\ Cardinality(delayedPic') \in Nat
      <3>1. dropped' \subseteq 1 .. LastPkt /\ delayedPic' \subseteq 1 .. LastPkt
        BY ONLY <2>6
      <3> QED
        BY ONLY <3>1, <1>0, SubsetsFinite
    <2>8. Len(judged) + Cardinality(rejected) + Cardinality(dropped')
            + Cardinality(delayedPic') + Unjudged' = LastPkt
      BY ONLY <1>p, <1>0, <1>c, <1>l, <2>2, <2>3, <2>4, <2>7
    <2>9. /\ UNCHANGED <<rejected, judged, LastPkt, Pictures>>
          /\ InHand' = Hand(out)
      BY <2>1, <2>3
    <2> QED
      BY ONLY <2>4, <2>5, <2>6, <2>8, <2>9 DEF Places
  <1>4. CASE ReceiveFrame
    <2> DEFINE e == [picture |-> bufferFrame, by |-> LastPkt]
    <2>1. /\ judged' = Append(judged, e)
          /\ pc = "receive" /\ pc' = pc
          /\ bufferFrame # NoPicture /\ bufferFrame' = NoPicture
          /\ UNCHANGED <<rejected, dropped, delayedPic, has_b_frames, LastPkt>>
      BY <1>4 DEF ReceiveFrame, reordering, LastPkt
    <2>2. /\ InHand = {bufferFrame} /\ InHand' = {}
          /\ Unjudged = 1 /\ Unjudged' = 0
      BY <2>1 DEF InHand, Hand, Unjudged
    <2>3. e \in Judgement(LastPkt)
      <3>1. LastPkt \in 1 .. LastPkt
        BY <2>1, <1>0 DEF CheckerTyped
      <3>2. bufferFrame \in 1 .. LastPkt
        BY <1>p, <2>2
      <3> QED
        BY <3>1, <3>2 DEF Judgement
    <2>4. e.picture = bufferFrame
      OBVIOUS
    <2>5. /\ Len(judged') = Len(judged) + 1
          /\ \A i \in 1 .. Len(judged) : judged'[i] = judged[i]
          /\ judged'[Len(judged) + 1] = e
      <3> HIDE DEF e
      <3> QED
        BY ONLY <1>l, <2>1, <2>3, SeqAppend
    <2> HIDE DEF e, LastPkt
    <2>6. Pictures' = Pictures \cup {bufferFrame}
      <3>1. /\ Pictures = {judged[i].picture : i \in 1 .. Len(judged)}
            /\ Pictures' = {judged'[i].picture : i \in 1 .. Len(judged')}
        BY DEF Pictures
      <3>2. 1 .. Len(judged') = 1 .. Len(judged) \cup {Len(judged) + 1}
        BY ONLY <1>l, <2>5
      <3> QED
        BY ONLY <2>4, <2>5, <3>1, <3>2
    <2>7. Pictures' \cup rejected \cup dropped \cup delayedPic = 1 .. LastPkt
      BY ONLY <1>p, <2>2, <2>6
    <2>8. Len(judged') + Cardinality(rejected) + Cardinality(dropped)
            + Cardinality(delayedPic) + 0 = LastPkt
      BY ONLY <1>p, <1>0, <1>c, <1>l, <2>2, <2>5
    <2> QED
      BY ONLY <1>p, <2>1, <2>2, <2>7, <2>8 DEF Places
  <1>5. CASE ReceiveNothing \/ UNCHANGED checkerVars
    <2>1. /\ UNCHANGED <<bufferFrame, has_b_frames, delayedPic, dropped, judged,
                         rejected, LastPkt>>
          /\ UNCHANGED pc \/ (pc = "receive" /\ pc' = "idle")
      BY <1>5, ReceiveNothingCases
         DEF checkerVars, decoder, reordering, LastPkt
    <2>2. UNCHANGED <<Unjudged, InHand, Pictures>>
      BY <2>1 DEF Unjudged, InHand, Hand, Pictures
    <2> QED
      BY <2>1, <2>2 DEF Places
  <1> QED
    BY <1>1, <1>2, <1>3, <1>4, <1>5, SendPacketCases DEF CheckerNext

(***************************************************************************)
(* For any number of packets and any delay, no packet gets lost inside the *)
(* decoder: each one is judged, rejected, dropped or among the at most     *)
(* has_b_frames that wait.                                                 *)
(***************************************************************************)
THEOREM NoPacketLost == CheckerSpec => []EveryPacketAccountedFor
  <1>1. CheckerTyped /\ Drained /\ Places => EveryPacketAccountedFor
    <2> SUFFICES ASSUME CheckerTyped, Drained, Places, pc = "idle"
                 PROVE  EveryPacketAccountedFor
      BY DEF EveryPacketAccountedFor
    <2>1. InHand = {} /\ Unjudged = 0
      BY DEF Drained, InHand, Hand, Unjudged
    <2>2. Len(judged) \in Nat /\ LastPkt \in Nat
      BY DEF CheckerTyped, CheckerTypeOK, LastPkt
    <2>3. /\ Cardinality(rejected) \in Nat /\ Cardinality(dropped) \in Nat
          /\ Cardinality(delayedPic) \in Nat
      BY <2>2, SubsetsFinite DEF CheckerTyped, CheckerTypeOK
    <2> QED
      BY <2>1, <2>2, <2>3 DEF Places, EveryPacketAccountedFor
  <1> QED
    BY CheckerTypedInit, CheckerTypedStep, DrainedInit, DrainedStep,
       PlacesInit, PlacesStep, <1>1, PTL DEF CheckerSpec

-----------------------------------------------------------------------------
(***************************************************************************)
(* In a plain stream the frames judged are the packets, one for one.       *)
(***************************************************************************)
Plain == has_b_frames = 0 /\ rejected = {} /\ dropped = {}

JudgedAsSent ==
  /\ Len(history) <= MaxFrames
  /\ Plain => /\ Len(history) = LastPkt - Unjudged
              /\ \A i \in 1 .. Len(history) : history[i] = packets[i]

LEMMA JudgedAsSentInit == CheckerInit => JudgedAsSent
  <1> SUFFICES ASSUME CheckerInit PROVE JudgedAsSent
    OBVIOUS
  <1>1. Len(history) = 0 /\ LastPkt = 0
    <2>1. history = << >> /\ packets = << >>
      BY DEF CheckerInit, Init
    <2> QED
      BY ONLY <2>1 DEF LastPkt
  <1>2. Unjudged = 0
    BY DEF CheckerInit, Unjudged
  <1> QED
    BY ONLY <1>1, <1>2, MaxFramesAssumption DEF JudgedAsSent

(***************************************************************************)
(* With no picture held back, the packet sent is the picture fetched.      *)
(***************************************************************************)
LEMMA PlainDecodes ==
  ASSUME CheckerTyped, Places, Plain', NEW out, Decode(out)
  PROVE  out = LastPkt /\ out # NoPicture /\ Plain
  <1>1. /\ LastPkt \in Nat /\ LastPkt > 0 /\ has_b_frames \in Nat
        /\ dropped \subseteq 1 .. LastPkt /\ delayedPic \subseteq 1 .. LastPkt
    BY DelayAssumption DEF CheckerTyped, CheckerTypeOK, Decode, LastPkt
  <1>2. /\ DecodePicture(LastPkt, out) /\ UNCHANGED rejected
        /\ has_b_frames' = 0 /\ dropped' = {} /\ rejected' = {}
    BY DEF Decode, Plain
  <1>3. has_b_frames = 0
    BY <1>1, <1>2, DelayAssumption DEF DecodePicture
  <1>4. delayedPic = {}
    <2>1. IsFiniteSet(delayedPic) /\ Cardinality(delayedPic) \in Nat
      BY <1>1, SubsetsFinite
    <2>2. Cardinality(delayedPic) <= has_b_frames
      BY DEF Places
    <2>3. Cardinality(delayedPic) = 0
      BY ONLY <1>3, <2>1, <2>2
    <2> QED
      BY <2>1, <2>3, FS_EmptySet
  <1>5. Cardinality(delayedPic \cup {LastPkt}) = 1
    <2>1. delayedPic \cup {LastPkt} = {LastPkt}
      BY <1>4
    <2> QED
      BY ONLY <2>1, FS_Singleton
  <1>6. out \in delayedPic \cup {LastPkt} /\ dropped = {}
    BY ONLY <1>2, <1>5 DEF DecodePicture
  <1> QED
    BY <1>1, <1>2, <1>3, <1>4, <1>6 DEF Plain, NoPicture

LEMMA JudgedAsSentStep ==
  CheckerTyped /\ Drained /\ Places /\ JudgedAsSent
      /\ [CheckerNext]_checkerVars
    => JudgedAsSent'
  <1> SUFFICES ASSUME CheckerTyped, Drained, Places, JudgedAsSent,
                      [CheckerNext]_checkerVars
               PROVE  JudgedAsSent'
    OBVIOUS
  <1>0. /\ LastPkt \in Nat /\ history \in Seq(Frames)
        /\ Len(history) \in Nat
    BY DEF CheckerTyped, CheckerTypeOK, TypeOK, LastPkt
  <1>1. ASSUME NEW f \in Frames, CheckStream(f) PROVE JudgedAsSent'
    <2>1. packets' = Append(packets, f) /\ packets \in Seq(Frames)
      BY <1>1 DEF CheckStream, CheckerTyped, CheckerTypeOK
    <2>2. /\ LastPkt' = LastPkt + 1
          /\ \A i \in 1 .. LastPkt : packets'[i] = packets[i]
      BY ONLY <2>1, <1>1 DEF LastPkt
    <2>3. Unjudged = 0 /\ Unjudged' = 1
      BY <1>1 DEF CheckStream, Unjudged, Drained
    <2>4. UNCHANGED <<Plain, history>>
      BY <1>1 DEF CheckStream, counters, decoder, reordering, Plain
    <2> HIDE DEF LastPkt
    <2>5. CASE Plain
      <3>1. /\ Len(history) = LastPkt
            /\ \A i \in 1 .. Len(history) : history[i] = packets[i]
        BY <1>0, <2>3, <2>5 DEF JudgedAsSent
      <3>2. Len(history) = LastPkt' - Unjudged'
        BY ONLY <1>0, <2>2, <2>3, <3>1
      <3>3. \A i \in 1 .. Len(history) : history[i] = packets'[i]
        BY ONLY <2>2, <3>1
      <3> QED
        BY <2>4, <3>2, <3>3 DEF JudgedAsSent
    <2> QED
      BY <2>4, <2>5 DEF JudgedAsSent
  <1>2. CASE Refuse
    <2>1. ~ Plain' /\ UNCHANGED history
      BY <1>2 DEF Refuse, Plain, counters
    <2> QED
      BY <2>1 DEF JudgedAsSent
  <1>3. ASSUME NEW out, Decode(out) PROVE JudgedAsSent'
    <2>1. UNCHANGED <<history, packets, LastPkt>> /\ Unjudged = 1
      BY <1>3 DEF Decode, counters, LastPkt, Unjudged
    <2>2. CASE Plain'
      <3>1. Plain /\ Unjudged' = 1
        BY <1>3, <2>2, PlainDecodes DEF Decode, Unjudged
      <3> QED
        BY <2>1, <3>1 DEF JudgedAsSent
    <2> QED
      BY <2>1, <2>2 DEF JudgedAsSent
  <1>4. CASE ReceiveFrame
    <2>1. /\ Len(history) < MaxFrames
          /\ history' = Append(history, packets[LastPkt])
          /\ pc = "receive" /\ pc' = pc
          /\ bufferFrame # NoPicture /\ bufferFrame' = NoPicture
          /\ UNCHANGED <<packets, LastPkt, Plain>>
      BY <1>4 DEF ReceiveFrame, CheckFrame, LastPkt, Plain, reordering
    <2>2. Unjudged = 1 /\ Unjudged' = 0
      BY <2>1 DEF Unjudged
    <2>3. packets[LastPkt] \in Frames
      BY <2>1 DEF CheckerTyped, CheckerTypeOK, LastPkt
    <2>4. /\ Len(history') = Len(history) + 1
          /\ \A i \in 1 .. Len(history) : history'[i] = history[i]
          /\ history'[Len(history) + 1] = packets[LastPkt]
      BY ONLY <1>0, <2>1, <2>3, SeqAppend
    <2> HIDE DEF LastPkt
    <2>5. Len(history') <= MaxFrames
      BY ONLY <1>0, <2>1, <2>4, MaxFramesAssumption
    <2>6. CASE Plain
      <3>1. /\ Len(history) = LastPkt - 1
            /\ \A i \in 1 .. Len(history) : history[i] = packets[i]
        BY <2>2, <2>6 DEF JudgedAsSent
      <3>2. \A i \in 1 .. Len(history') : history'[i] = packets[i]
        BY ONLY <1>0, <2>4, <3>1
      <3>3. Len(history') = LastPkt - 0
        BY ONLY <1>0, <2>4, <3>1
      <3> QED
        BY <2>1, <2>2, <2>5, <3>2, <3>3 DEF JudgedAsSent
    <2> QED
      BY <2>1, <2>5, <2>6 DEF JudgedAsSent
  <1>5. CASE ReceiveNothing \/ UNCHANGED checkerVars
    <2>1. UNCHANGED <<Unjudged, LastPkt, Plain, packets, history>>
      BY <1>5, ReceiveNothingCases
         DEF checkerVars, decoder, reordering, counters, LastPkt, Unjudged, Plain
    <2> QED
      BY <2>1 DEF JudgedAsSent
  <1> QED
    BY <1>1, <1>2, <1>3, <1>4, <1>5, SendPacketCases DEF CheckerNext

(***************************************************************************)
(* For counters that start at 0 and have room for the frames, a pass is    *)
(* never printed for a plain stream with a frame that does not conform.    *)
(***************************************************************************)
THEOREM PlainVerdictIsRight ==
  ASSUME InitialCounts = {0}, 11 * MaxFrames < Modulus
  PROVE  CheckerSpec => []VerdictCoversPlainStream
  <1>1. CheckerInit => Counts
    BY CountsInit DEF CheckerInit
  <1>2. CheckerTyped /\ Drained /\ Counts /\ [CheckerNext]_checkerVars => Counts'
    BY VerdictStep, CountsStep DEF CheckerTyped, CheckerTypeOK
  <1>3. CheckerTyped /\ Drained /\ Counts /\ JudgedAsSent
          => VerdictCoversPlainStream
    <2> SUFFICES ASSUME CheckerTyped, Drained, Counts, JudgedAsSent,
                        pc = "idle", verdict = Passed, Plain
                 PROVE  \A n \in 1 .. LastPkt : Conforms(packets[n])
      BY DEF VerdictCoversPlainStream, Plain
    <2>1. /\ LastPkt \in Nat /\ Len(history) \in Nat
          /\ history \in Seq(Frames) /\ framePassedCount \in Nat
      BY DEF CheckerTyped, CheckerTypeOK, TypeOK, LastPkt
    <2>2. Unjudged = 0
      BY DEF Drained, Unjudged
    <2>3. /\ Len(history) = LastPkt - 0
          /\ Len(history) <= MaxFrames
          /\ \A i \in 1 .. Len(history) : history[i] = packets[i]
      BY <2>2 DEF JudgedAsSent
    <2>4. NoWrap
      BY <2>1, <2>3, MaxFramesAssumption, ModulusAssumption DEF NoWrap
    <2>5. framePassedCount = Len(history)
      BY <2>4 DEF Counts, Passed, Failed, NoVerdict
    <2>6. AllConform
      BY <2>4, <2>5 DEF Counts
    <2> HIDE DEF LastPkt
    <2> QED
      BY <2>1, <2>3, <2>6 DEF AllConform
  <1> QED
    BY CheckerTypedInit, CheckerTypedStep, DrainedInit, DrainedStep,
       PlacesInit, PlacesStep, JudgedAsSentInit, JudgedAsSentStep,
       <1>1, <1>2, <1>3, PTL DEF CheckerSpec

-----------------------------------------------------------------------------
(***************************************************************************)
(* For any stream and any delay of the decoder, decode calls checkFrame as *)
(* FrameVerdict has it and changes the counters in no other way: what is   *)
(* proved of the verdict above holds of the decoding loop too.             *)
(***************************************************************************)
THEOREM CheckerImplementsVerdict == CheckerSpec => Spec
  <1>1. CheckerInit => Init
    BY DEF CheckerInit
  <1> QED
    BY CheckerTypedInit, CheckerTypedStep, DrainedInit, DrainedStep,
       VerdictStep, <1>1, PTL DEF CheckerSpec, Spec

=============================================================================
