---------------------------- MODULE H264Checker ----------------------------
(***************************************************************************)
(* H264Checker::checkStream and decode (h264_checker.cpp:111-187) on top   *)
(* of FFmpeg's decoder, of which is kept what decides when checkFrame runs *)
(* and on which values: the packet waiting in the bitstream filter, the    *)
(* decoded picture kept back in avci->buffer_frame, and the pictures       *)
(* delayed for reordering (h->delayed_pic).                                *)
(*                                                                         *)
(* Packets are numbered from 1; a picture has the number of its packet.    *)
(* checkFrame reads the size and type of the packet parsed last and the    *)
(* parameter sets the decoder used last, whichever picture it was given.   *)
(***************************************************************************)
EXTENDS FrameVerdict

CONSTANTS
  Delay,                     \* the most has_b_frames may grow to, the number
                             \* of pictures held for reordering
  MayFail,                   \* whether the decoder may reject a packet
  MayDrop                    \* whether a picture may come too late to be shown

ASSUME DelayAssumption == Delay \in Nat
ASSUME MayFailAssumption == MayFail \in BOOLEAN
ASSUME MayDropAssumption == MayDrop \in BOOLEAN

VARIABLES
  pc,                        \* idle, send or receive
  packets,                   \* the values of the packets parsed so far
  mPktValid,                 \* whether the decoder can decode the last one
  inPkt,                     \* the packet left in the filter, or NoPicture
  bufferFrame,               \* the picture in avci->buffer_frame
  has_b_frames,              \* how many pictures the decoder may hold
  delayedPic,                \* the pictures held for reordering
  judged,                    \* for each call of checkFrame, the picture
                             \* received and the packet it was judged by
  rejected,                  \* packets avcodec_send_packet refused
  dropped,                   \* pictures that came too late
  exit                       \* TRUE after the exit(1) of line 163

counters    == <<frameCount, totalCount, framePassedCount, verdict, history>>
reordering  == <<has_b_frames, delayedPic, dropped>>
decoder     == <<inPkt, bufferFrame, reordering>>
checkerVars == <<counters, decoder, pc, packets, mPktValid, judged,
                 rejected, exit>>

NoPicture == 0
LastPkt   == Len(packets)

CheckerInit ==
  /\ Init
  /\ pc = "idle"
  /\ packets = << >>
  /\ mPktValid = FALSE
  /\ inPkt = NoPicture
  /\ bufferFrame = NoPicture
  /\ has_b_frames = 0
  /\ delayedPic = {}
  /\ judged = << >>
  /\ rejected = {}
  /\ dropped = {}
  /\ exit = FALSE

(***************************************************************************)
(* checkStream: the parser is told that buffers are complete frames, so it *)
(* returns the buffer as one packet, neither an error (the exit(1) of line *)
(* 128) nor nothing (line 139).                                            *)
(***************************************************************************)
CheckStream(f) ==
  /\ ~ exit
  /\ pc = "idle"
  /\ LastPkt < MaxFrames
  /\ Decodable(f)
  /\ packets' = Append(packets, f)
  /\ mPktValid' \in (IF MayFail THEN BOOLEAN ELSE {TRUE})
  /\ pc' = "send"
  /\ UNCHANGED <<counters, decoder, judged, rejected, exit>>

(***************************************************************************)
(* h264_decode_frame on packet n with h264_select_output_frame: has_b_     *)
(* frames may grow, the new picture joins the delayed ones and one of them *)
(* is looked at: it stays when there are no more than has_b_frames, is     *)
(* output when there are, and is lost if it comes too late.  out is the    *)
(* picture output.                                                         *)
(***************************************************************************)
DecodePicture(n, out) ==
  LET held == delayedPic \cup {n}
  IN /\ has_b_frames' \in has_b_frames .. Delay
     /\ \/ /\ Cardinality(held) <= has_b_frames'
           /\ out = NoPicture
           /\ delayedPic' = held
           /\ UNCHANGED dropped
        \/ /\ Cardinality(held) > has_b_frames'
           /\ out \in held
           /\ delayedPic' = held \ {out}
           /\ UNCHANGED dropped
        \/ /\ MayDrop
           /\ out = NoPicture
           /\ \E late \in held : /\ delayedPic' = held \ {late}
                                 /\ dropped' = dropped \cup {late}

(***************************************************************************)
(* avcodec_send_packet: the filter takes one packet at a time, and a       *)
(* picture is decoded at once if the last one has been fetched.            *)
(***************************************************************************)
SendRefused ==
  /\ rejected' = rejected \cup {LastPkt}
  /\ pc' = "idle"
  /\ UNCHANGED decoder

\* Mutant: decode returns after sending.
SendAcceptedReturns == pc' = "idle" /\ UNCHANGED rejected

SendAccepted == pc' = "receive" /\ UNCHANGED rejected

SendPacket ==
  /\ ~ exit
  /\ pc = "send"
  /\ IF inPkt # NoPicture \/ (bufferFrame = NoPicture /\ ~ mPktValid)
       THEN SendRefused
       ELSE /\ SendAccepted
            /\ IF bufferFrame # NoPicture
                 THEN /\ inPkt' = LastPkt
                      /\ UNCHANGED <<bufferFrame, reordering>>
                 ELSE /\ \E out \in delayedPic \cup {LastPkt, NoPicture} :
                           /\ DecodePicture(LastPkt, out)
                           /\ bufferFrame' = out
                      /\ UNCHANGED inPkt
  /\ UNCHANGED <<counters, packets, mPktValid, judged, exit>>

(***************************************************************************)
(* The loop of decode: a picture is fetched and checked, and the loop goes *)
(* round again ...                                                         *)
(***************************************************************************)
\* Mutant: what avcodec_receive_frame returns is not tested.
ReceiveFrameUntested ==
  /\ ~ exit
  /\ pc = "receive"
  /\ bufferFrame' = NoPicture
  /\ CheckFrame(packets[LastPkt])
  /\ judged' = Append(judged, [picture |-> bufferFrame, by |-> LastPkt])
  /\ UNCHANGED <<pc, packets, mPktValid, inPkt, reordering, rejected, exit>>

\* Mutant: checkFrame is not called.
ReceiveFrameUnchecked ==
  /\ ~ exit
  /\ pc = "receive"
  /\ bufferFrame # NoPicture
  /\ bufferFrame' = NoPicture
  /\ UNCHANGED <<counters, pc, packets, mPktValid, inPkt, reordering, judged,
                 rejected, exit>>

\* Mutant: the picture stays in the decoder.
ReceiveFrameKeeps ==
  /\ ~ exit
  /\ pc = "receive"
  /\ bufferFrame # NoPicture
  /\ CheckFrame(packets[LastPkt])
  /\ judged' = Append(judged, [picture |-> bufferFrame, by |-> LastPkt])
  /\ UNCHANGED <<pc, packets, mPktValid, decoder, rejected, exit>>

ReceiveFrame ==
  /\ ~ exit
  /\ pc = "receive"
  /\ bufferFrame # NoPicture
  /\ bufferFrame' = NoPicture
  /\ CheckFrame(packets[LastPkt])
  /\ judged' = Append(judged, [picture |-> bufferFrame, by |-> LastPkt])
  /\ UNCHANGED <<pc, packets, mPktValid, inPkt, reordering, rejected, exit>>

(***************************************************************************)
(* ... until avcodec_receive_frame has nothing to return.  A packet still  *)
(* in the filter would be decoded here, and an error would be fatal.       *)
(***************************************************************************)
\* Mutant: decode does not return on EAGAIN.
DecodeRepeats == UNCHANGED <<pc, decoder, exit>>

DecodeReturns == pc' = "idle" /\ UNCHANGED <<decoder, exit>>

ReceiveNothing ==
  /\ ~ exit
  /\ pc = "receive"
  /\ bufferFrame = NoPicture
  /\ IF inPkt = NoPicture
       THEN DecodeReturns
       ELSE /\ inPkt' = NoPicture
            /\ UNCHANGED pc
            /\ IF mPktValid
                 THEN /\ \E out \in delayedPic \cup {inPkt, NoPicture} :
                           /\ DecodePicture(inPkt, out)
                           /\ bufferFrame' = out
                      /\ UNCHANGED exit
                 ELSE /\ exit' = TRUE
                      /\ UNCHANGED <<bufferFrame, reordering>>
  /\ UNCHANGED <<counters, packets, mPktValid, judged, rejected>>

CheckerNext ==
  \/ \E f \in Frames : CheckStream(f)
  \/ SendPacket
  \/ ReceiveFrame
  \/ ReceiveNothing

CheckerSpec == CheckerInit /\ [][CheckerNext]_checkerVars

(***************************************************************************)
(* Once called, checkStream runs on; when it is called is up to the thread.*)
(***************************************************************************)
CheckerFairSpec ==
  CheckerSpec /\ WF_checkerVars(SendPacket \/ ReceiveFrame \/ ReceiveNothing)

-----------------------------------------------------------------------------
Pictures == {judged[i].picture : i \in 1 .. Len(judged)}

CheckerTypeOK ==
  /\ TypeOK
  /\ pc \in {"idle", "send", "receive"}
  /\ packets \in Seq(Frames)
  /\ mPktValid \in BOOLEAN
  /\ inPkt \in 0 .. LastPkt
  /\ bufferFrame \in 0 .. LastPkt
  /\ has_b_frames \in 0 .. Delay
  /\ delayedPic \subseteq 1 .. LastPkt
  /\ judged \in Seq([picture : 1 .. LastPkt, by : 1 .. LastPkt])
  /\ rejected \subseteq 1 .. LastPkt
  /\ dropped \subseteq 1 .. LastPkt
  /\ exit \in BOOLEAN

(***************************************************************************)
(* decode's exit(1) is unreachable and no packet is refused for lack of    *)
(* room, because the loop drains the decoder before the next packet:       *)
(* between two calls of checkStream nothing is waiting to be fetched.      *)
(***************************************************************************)
DecoderDrained ==
  /\ ~ exit
  /\ pc \in {"idle", "send"} => inPkt = NoPicture /\ bufferFrame = NoPicture

(***************************************************************************)
(* Every packet sent is in one place: judged, once; rejected; dropped as   *)
(* too late; or still inside the decoder, where at most has_b_frames of    *)
(* them wait when checkStream returns.  The verdict does not cover the     *)
(* pictures that are not judged.                                           *)
(***************************************************************************)
EveryPacketAccountedFor ==
  pc = "idle" =>
    /\ Pictures \cup rejected \cup dropped \cup delayedPic = 1 .. LastPkt
    /\ Len(judged) + Cardinality(rejected) + Cardinality(dropped)
         + Cardinality(delayedPic) = LastPkt
    /\ Cardinality(delayedPic) <= has_b_frames

(***************************************************************************)
(* No packet is judged twice: the packets checkFrame looks at, though not  *)
(* always those of the pictures it is called for, come in order.           *)
(***************************************************************************)
JudgedByIncreases ==
  \A i, j \in 1 .. Len(judged) : i < j => judged[i].by < judged[j].by

(***************************************************************************)
(* For a stream as the standard wants it (no reordering so far, nothing    *)
(* rejected), a printed pass means that every frame handed to checkStream  *)
(* conforms.                                                               *)
(***************************************************************************)
VerdictCoversPlainStream ==
  pc = "idle" /\ verdict = Passed /\ has_b_frames = 0
      /\ rejected = {} /\ dropped = {}
    => \A n \in 1 .. LastPkt : Conforms(packets[n])

(***************************************************************************)
(* The loop of decode ends: every call of checkStream returns, which is    *)
(* what the checker thread's fairness rests on.                            *)
(***************************************************************************)
CheckStreamReturns == pc # "idle" ~> pc = "idle"


=============================================================================
