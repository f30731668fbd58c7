---------------------------- MODULE MCUdpReceiver ----------------------------
(***************************************************************************)
(* UdpReceiver with short streams.  Frames are cut into one to three       *)
(* datagrams, one of them in the middle of its AUD.                        *)
(***************************************************************************)
EXTENDS UdpReceiver

MCPayload == {"a1", "a2", "b1", "b2", "c1", "c2", "d1", "d2", "d3", "e1", "e2",
              "f1", "g1"}

FrameA == << <<H, "a1">>, <<"a2", H, A>> >>
FrameB == << <<H, "b1", H, A>> >>
FrameC == << <<H, "c1">>, <<"c2", H>>, <<A>> >>
FrameD == << <<H, "d1", "d2", "d3", H, A>> >>

FrameE == << <<H, "e1", "e2">>, <<H, A>> >>
FrameF == << <<S, "f1", S, A>> >>
FrameG == << <<S, "g1">>, <<H, A>> >>      \* not headed

MCStreams ==
  {<<FrameA, FrameB, FrameE>>, <<FrameC, FrameB, FrameB>>,
   <<FrameF, FrameD, FrameA>>, <<FrameE, FrameF, FrameC>>,
   <<FrameG, FrameB, FrameG>>}

ASSUME MCStreamsWellFormed ==
  \A st \in MCStreams : \A k \in 1 .. Len(st) : WellFormed(FlattenSeq(st[k]))

\* Every frame ends with an AUD, but a datagram does not end with its frame.
Coalesced == {<< << <<H, "a1">>, <<"a2", H, A, H, "b1">>, <<"b2", H, A>> >> >>}
NoFaults  == {}
Zeroed    == {0}
Garbage   == {-1, 0}
AllFaults == {"lose", "duplicate", "reorder"}
=============================================================================
