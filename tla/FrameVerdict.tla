---------------------------- MODULE FrameVerdict ----------------------------
(***************************************************************************)
(* H264Checker::checkFrame (h264_checker.cpp:189-363): the eleven tests a  *)
(* decoded frame is put to, the three counters they feed, and the verdict  *)
(* about the whole stream that is printed after every frame.               *)
(*                                                                         *)
(* A frame is a record of the values checkFrame reads: the size and the    *)
(* picture type of the packet parsed last, and the fields of the active    *)
(* SPS and PPS.                                                            *)
(***************************************************************************)
EXTENDS Integers, Sequences, FiniteSets

CONSTANTS
  Frames,                    \* the frames the decoder may output
  Modulus,                   \* the counters are uint32_t: 2^32 in the code
  InitialCounts,             \* what the uninitialised counters may hold
  MaxFrames                  \* bound of the model: frames checked

FrameRecord ==
  [size : Nat, profile_idc : Nat, level_idc : Nat, chroma_format_idc : Nat,
   bit_depth_luma : Nat, bit_depth_chroma : Nat,
   scaling_matrix_present : Nat, frame_mbs_only_flag : Nat,
   pict_type : 0 .. 7, slice_group_count : Nat, ref_frame_count : Nat,
   mb_width : Nat, mb_height : Nat]

ASSUME FramesAssumption == Frames \subseteq FrameRecord
ASSUME ModulusAssumption == Modulus \in Nat /\ Modulus > 1
ASSUME InitialCountsAssumption == InitialCounts \subseteq 0 .. Modulus - 1
ASSUME MaxFramesAssumption == MaxFrames \in Nat

VARIABLES
  frameCount, totalCount, framePassedCount,
  verdict,                   \* the last line printed
  history                    \* the frames checked so far, in order

vars == <<frameCount, totalCount, framePassedCount, verdict, history>>

NoVerdict == "none"
Passed    == "passed"
Failed    == "failed"

(***************************************************************************)
(* ff_pict_type_to_slice_type: AVPictureType to slice_type, 255 for the    *)
(* types that have none.                                                   *)
(***************************************************************************)
SliceType ==
  [t \in 0 .. 7 |-> CASE t = 1 -> 2 [] t = 2 -> 0 [] t = 3 -> 1
                      [] t = 5 -> 4 [] t = 6 -> 3 [] OTHER -> 255]

(***************************************************************************)
(* The tests, numbered as in the output.  Test 4 is the code's: it fails   *)
(* only when both depths are wrong.                                        *)
(***************************************************************************)
Standards == 0 .. 10

Passes(f, k) ==
  CASE k = 0  -> f.size <= 256 * 1024
    [] k = 1  -> f.profile_idc \in {66, 77, 100}
    [] k = 2  -> f.level_idc <= 51
    [] k = 3  -> f.chroma_format_idc = 1
    [] k = 4  -> f.bit_depth_chroma = 8 \/ f.bit_depth_luma = 8
    [] k = 5  -> f.scaling_matrix_present = 0
    [] k = 6  -> f.frame_mbs_only_flag = 1
    [] k = 7  -> SliceType[f.pict_type] \in {0, 2}
    [] k = 8  -> f.slice_group_count = 1
    [] k = 9  -> f.ref_frame_count = 1
    [] k = 10 -> f.mb_width <= 120 /\ f.mb_height <= 68

PassCount(f) == Cardinality({k \in Standards : Passes(f, k)})

(***************************************************************************)
(* What the decoder lets through: an SPS whose two depths differ is        *)
(* rejected when it is parsed (h264_ps.c:408), so no frame uses it.        *)
(***************************************************************************)
Decodable(f) == f.bit_depth_luma = f.bit_depth_chroma

(***************************************************************************)
(* The constructor sets mFrameCnt only; the three counters keep what the   *)
(* memory of the object holds.                                             *)
(***************************************************************************)
Init ==
  /\ frameCount \in InitialCounts
  /\ totalCount \in InitialCounts
  /\ framePassedCount \in InitialCounts
  /\ verdict = NoVerdict
  /\ history = << >>

\* Mutant: the frames that pass are counted one by one.
CheckFramePerFrame(f) ==
  /\ Decodable(f)
  /\ Len(history) < MaxFrames
  /\ frameCount' = (frameCount + 1) % Modulus
  /\ totalCount' = (totalCount + PassCount(f)) % Modulus
  /\ framePassedCount' =
       framePassedCount + (IF PassCount(f) = 11 THEN 1 ELSE 0)
  /\ verdict' = IF frameCount' # framePassedCount' THEN Failed ELSE Passed
  /\ history' = Append(history, f)

\* Mutant: totalCount is reset for every frame.
CheckFrameForgets(f) ==
  /\ Decodable(f)
  /\ Len(history) < MaxFrames
  /\ frameCount' = (frameCount + 1) % Modulus
  /\ totalCount' = PassCount(f)
  /\ framePassedCount' = IF totalCount' = 11 THEN frameCount' ELSE 0
  /\ verdict' = IF frameCount' # framePassedCount' THEN Failed ELSE Passed
  /\ history' = Append(history, f)

CheckFrame(f) ==
  /\ Decodable(f)
  /\ Len(history) < MaxFrames
  /\ frameCount' = (frameCount + 1) % Modulus
  /\ totalCount' = (totalCount + PassCount(f)) % Modulus
  /\ framePassedCount' = IF totalCount' \div 11 = frameCount'
                           THEN (framePassedCount + 1) % Modulus
                           ELSE framePassedCount
  /\ verdict' = IF frameCount' # framePassedCount' THEN Failed ELSE Passed
  /\ history' = Append(history, f)

Done == Len(history) = MaxFrames /\ UNCHANGED vars

Next == (\E f \in Frames : CheckFrame(f)) \/ Done

Spec == Init /\ [][Next]_vars

-----------------------------------------------------------------------------
(***************************************************************************)
(* The standard: what each message names is required of the frame, of both *)
(* bit depths as the message of test 4 says.  A limit itself is allowed,   *)
(* as it is tested: the messages of tests 2 and 10, "should less than 5.1" *)
(* and "should less than 1920*1088" (lines 232 and 339), are not taken at  *)
(* their word, by which level 5.1 and 1920x1088 would have to fail.        *)
(***************************************************************************)
Conforms(f) ==
  /\ f.size <= 262144
  /\ f.profile_idc \in {66, 77, 100}
  /\ f.level_idc <= 51
  /\ f.chroma_format_idc = 1
  /\ f.bit_depth_luma = 8
  /\ f.bit_depth_chroma = 8
  /\ f.scaling_matrix_present = 0
  /\ f.frame_mbs_only_flag = 1
  /\ f.pict_type \in {1, 2}
  /\ f.slice_group_count = 1
  /\ f.ref_frame_count = 1
  /\ f.mb_width * 16 <= 1920
  /\ f.mb_height * 16 <= 1088

NoWrap == 11 * Len(history) < Modulus

TypeOK ==
  /\ frameCount \in 0 .. Modulus - 1
  /\ totalCount \in 0 .. Modulus - 1
  /\ framePassedCount \in 0 .. Modulus - 1
  /\ verdict \in {NoVerdict, Passed, Failed}
  /\ history \in Seq(Frames)

(***************************************************************************)
(* While the counters have not wrapped, the verdict reconstructed from     *)
(* them ("all frames has passed") is right about every frame checked: one  *)
(* nonconforming frame is never made up for by later ones, none is missed, *)
(* and the && of test 4 does not let a frame through.                      *)
(***************************************************************************)
AllConform == \A i \in 1 .. Len(history) : Conforms(history[i])

VerdictExact ==
  NoWrap /\ history # << >> => (verdict = Passed <=> AllConform)

(***************************************************************************)
(* framePassedCount, which the failure line prints, is the number of       *)
(* frames before the first one that fails, not the number that passed.     *)
(***************************************************************************)
PassedCountIsPrefix ==
  NoWrap =>
    /\ \A i \in 1 .. framePassedCount : Conforms(history[i])
    /\ framePassedCount < Len(history)
         => ~ Conforms(history[framePassedCount + 1])

(***************************************************************************)
(* Once the stream is reported failed it stays failed.                     *)
(***************************************************************************)
VerdictLatches == [][NoWrap' /\ verdict = Failed => verdict' = Failed]_vars

(***************************************************************************)
(* The verdict line of h264_checker.cpp:355 says that all frames have      *)
(* passed.                                                                 *)
(***************************************************************************)
PassedMeansAllPassed == verdict = Passed => AllConform

=============================================================================
