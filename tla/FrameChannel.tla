---------------------------- MODULE FrameChannel ----------------------------
(***************************************************************************)
(* What the receiver, the buffer pool and the checker promise together     *)
(* (the abstract specification StreamPipeline is shown to implement): a    *)
(* bounded first-in first-out channel that numbers the frames it accepts   *)
(* and delivers each of them once, in order, until it is closed.  Closing  *)
(* may abandon whatever is still in the channel.                           *)
(***************************************************************************)
EXTENDS Naturals, Sequences

CONSTANT Capacity            \* the number of frames the channel can hold

VARIABLES
  chan,                      \* frames accepted and not delivered, in order
  sent,                      \* number of frames accepted
  delivered,                 \* the frames delivered, in order
  open                       \* FALSE once the process has exited

chanVars == <<chan, sent, delivered, open>>

ChanInit ==
  /\ chan = << >>
  /\ sent = 0
  /\ delivered = << >>
  /\ open = TRUE

Send ==
  /\ open
  /\ Len(chan) < Capacity
  /\ sent' = sent + 1
  /\ chan' = Append(chan, sent + 1)
  /\ UNCHANGED <<delivered, open>>

Deliver ==
  /\ open
  /\ chan # << >>
  /\ delivered' = Append(delivered, Head(chan))
  /\ chan' = Tail(chan)
  /\ UNCHANGED <<sent, open>>

Close ==
  /\ open
  /\ open' = FALSE
  /\ UNCHANGED <<chan, sent, delivered>>

ChanNext == Send \/ Deliver \/ Close

ChanSpec == ChanInit /\ [][ChanNext]_chanVars /\ WF_chanVars(Deliver)

=============================================================================
