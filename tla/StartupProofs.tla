--------------------------- MODULE StartupProofs ---------------------------
(***************************************************************************)
(* Theorems about Startup, for every pool size and every set of options.   *)
(***************************************************************************)
EXTENDS Startup, TLAPS

MemberNames == {"mSockFd", "mInited", "mTmpBuffer", "mFp"}

(***************************************************************************)
(* TypeOK is not inductive: it takes that the thread is created with the   *)
(* class of its object known, and that there is room for the buffer of a   *)
(* call under way.                                                         *)
(***************************************************************************)
Typed ==
  /\ TypeOK
  /\ members \in [MemberNames -> {Null, Junk, Good}]
  /\ recvPc # "not started" => receiverClass # NoClass
  /\ recvPc \in {"ReceiverBase", "derived"} => Len(filled) < BufferNumber

LEMMA QueueFacts ==
  ASSUME NEW S, NEW q \in Seq(S)
  PROVE  /\ Len(q) \in Nat
         /\ \A e \in S : Append(q, e) \in Seq(S) /\ Len(Append(q, e)) = Len(q) + 1
         /\ q # << >> => Tail(q) \in Seq(S) /\ Len(Tail(q)) = Len(q) - 1
  OBVIOUS

LEMMA EmptyQueue == ASSUME NEW S PROVE << >> \in Seq(S) /\ Len(<< >>) = 0
  OBVIOUS

LEMMA TypedInit == Init => Typed
  <1> SUFFICES ASSUME Init PROVE Typed
    OBVIOUS
  <1>1. members \in [MemberNames -> {Null, Junk, Good}]
    BY MemoryAssumption DEF Init, MemberNames
  <1>2. filled \in Seq({"fake", "garbage", "frame"}) /\ Len(filled) = 0
    <2>1. filled = << >>
      BY DEF Init
    <2> QED
      BY ONLY <2>1, EmptyQueue
  <1>3. Len(filled) <= BufferNumber
    BY ONLY <1>2, BufferNumberAssumption
  <1> QED
    BY <1>1, <1>2, <1>3
       DEF Init, Typed, TypeOK, MemberNames, NoClass

LEMMA TypedStep == Typed /\ [Next]_vars => Typed'
  <1> SUFFICES ASSUME Typed, [Next]_vars PROVE Typed'
    OBVIOUS
  <1> USE DEF Typed, TypeOK, MemberNames, NoClass, objects, threadVars, Step,
              Exit
  <1>q. filled \in Seq({"fake", "garbage", "frame"})
    OBVIOUS
  <1>0. Len(filled) \in Nat /\ BufferNumber \in Nat
    BY ONLY <1>q, QueueFacts, BufferNumberAssumption
  <1>1. CASE CheckOptions
    BY <1>1 DEF CheckOptions
  <1>2. CASE CheckerBaseCtor
    BY <1>2 DEF CheckerBaseCtor
  <1>3. CASE H264CheckerCtor
    BY <1>3 DEF H264CheckerCtor
  <1>4. CASE AddAudInfo
    BY <1>4 DEF AddAudInfo
  <1>5. CASE RefuseCustomUdp
    BY <1>5 DEF RefuseCustomUdp
  <1>6. CASE ReceiverBaseCtor
    BY <1>6 DEF ReceiverBaseCtor
  <1>7. CASE EnterDerivedCtor
    BY <1>7 DEF EnterDerivedCtor
  <1>8. CASE UdpReceiverCtor
    BY <1>8 DEF UdpReceiverCtor, SetMembers
  <1>9. CASE FileReceiverCtor
    BY <1>9 DEF FileReceiverCtor, SetMembers
  <1>10. CASE OpenFails
    BY <1>10 DEF OpenFails
  <1>11. CASE CallRecvStream
    BY <1>11 DEF CallRecvStream
  <1>a. ASSUME NEW content \in {"fake", "garbage", "frame"}
        PROVE  /\ Append(filled, content) \in Seq({"fake", "garbage", "frame"})
               /\ Len(Append(filled, content)) = Len(filled) + 1
    BY ONLY <1>q, <1>a, QueueFacts
  <1>12. CASE BaseRecvStream
    <2>1. filled' = Append(filled, "fake")
      BY <1>12 DEF BaseRecvStream, Queue
    <2>2. /\ filled' \in Seq({"fake", "garbage", "frame"})
          /\ Len(filled') = Len(filled) + 1
      BY ONLY <2>1, <1>a
    <2>a. Len(filled) < BufferNumber
      BY <1>12 DEF BaseRecvStream
    <2>3. Len(filled') <= BufferNumber
      BY ONLY <2>2, <2>a, <1>0
    <2>4. /\ UNCHANGED <<options, main, objects, exit>>
          /\ recvPc' = "call"
      BY <1>12 DEF BaseRecvStream, Queue
    <2>5. receiverClass # NoClass
      BY <1>12 DEF BaseRecvStream
    <2> QED
      BY ONLY Typed, <2>2, <2>3, <2>4, <2>5
  <1>13. CASE DerivedRecvStream
    <2>1. filled' = Append(filled, IF Ready THEN "frame" ELSE "garbage")
      BY <1>13 DEF DerivedRecvStream, Queue
    <2>2. /\ filled' \in Seq({"fake", "garbage", "frame"})
          /\ Len(filled') = Len(filled) + 1
      BY ONLY <2>1, <1>a
    <2>a. Len(filled) < BufferNumber
      BY <1>13 DEF DerivedRecvStream
    <2>3. Len(filled') <= BufferNumber
      BY ONLY <2>2, <2>a, <1>0
    <2>4. /\ UNCHANGED <<options, main, objects, exit>>
          /\ recvPc' = "call"
      BY <1>13 DEF DerivedRecvStream, Queue
    <2>5. receiverClass # NoClass
      BY <1>13 DEF DerivedRecvStream
    <2> QED
      BY ONLY Typed, <2>2, <2>3, <2>4, <2>5
  <1>14. CASE CheckStream
    <2>1. /\ Tail(filled) \in Seq({"fake", "garbage", "frame"})
          /\ Len(Tail(filled)) = Len(filled) - 1
      BY ONLY <1>14, <1>q, QueueFacts DEF CheckStream
    <2>2. /\ filled' = Tail(filled)
          /\ UNCHANGED <<options, main, objects, recvPc, exit>>
      BY <1>14 DEF CheckStream
    <2>3. /\ filled' \in Seq({"fake", "garbage", "frame"})
          /\ Len(filled') = Len(filled) - 1
      BY ONLY <2>1, <2>2
    <2>4. UNCHANGED <<options, main, objects, recvPc, exit>>
      BY <2>2
    <2>a. Len(filled) <= BufferNumber
      OBVIOUS
    <2>5. /\ Len(filled') <= BufferNumber
          /\ Len(filled) < BufferNumber => Len(filled') < BufferNumber
      BY ONLY <2>3, <2>a, <1>0
    <2> QED
      BY ONLY Typed, <2>3, <2>4, <2>5
  <1>15. CASE UNCHANGED vars
    BY <1>15 DEF vars
  <1> QED
    BY <1>1, <1>2, <1>3, <1>4, <1>5, <1>6, <1>7, <1>8, <1>9, <1>10, <1>11,
       <1>12, <1>13, <1>14, <1>15 DEF Next, Constructors

(***************************************************************************)
(* Every reachable state is well typed, and the pool is never overdrawn.   *)
(***************************************************************************)
THEOREM TypeCorrect == Spec => []TypeOK
  <1>1. Typed => TypeOK
    BY DEF Typed
  <1> QED
    BY TypedInit, TypedStep, <1>1, PTL DEF Spec

-----------------------------------------------------------------------------
(***************************************************************************)
(* What the checker's readiness rests on, the order of construction: no    *)
(* receiver thread before the checker is complete, and no queued buffer    *)
(* without one.                                                            *)
(***************************************************************************)
BeforeReceiver == {"options", "CheckerBase", "H264Checker", "add AUD info",
                   "ReceiverBase"}
BeforeChecker  == {"options", "CheckerBase", "H264Checker"}

Order ==
  /\ main \in BeforeReceiver => recvPc = "not started"
  /\ main \notin BeforeChecker => checkerClass = "H264Checker"
  /\ recvPc = "not started" => filled = << >>

LEMMA OrderInit == Init => Order
  BY DEF Init, Order, BeforeReceiver, BeforeChecker

LEMMA OrderStep == TypeOK /\ Order /\ [Next]_vars => Order'
  <1> SUFFICES ASSUME TypeOK, Order, [Next]_vars PROVE Order'
    OBVIOUS
  <1> USE DEF Order, BeforeReceiver, BeforeChecker, objects, threadVars, Step,
              Exit
  <1>1. CASE CheckOptions \/ CheckerBaseCtor \/ H264CheckerCtor \/ AddAudInfo
    BY <1>1 DEF CheckOptions, CheckerBaseCtor, H264CheckerCtor, AddAudInfo
  <1>2. CASE RefuseCustomUdp \/ ReceiverBaseCtor \/ EnterDerivedCtor
    BY <1>2 DEF RefuseCustomUdp, ReceiverBaseCtor, EnterDerivedCtor
  <1>3. CASE UdpReceiverCtor \/ FileReceiverCtor
    BY <1>3 DEF UdpReceiverCtor, FileReceiverCtor, SetMembers
  <1>4. CASE OpenFails
    BY <1>4 DEF OpenFails
  <1>5. CASE CallRecvStream
    <2>1. recvPc # "not started" /\ main \notin BeforeReceiver /\ main' = main
      BY <1>5 DEF CallRecvStream
    <2>2. recvPc' # "not started"
      BY <1>5 DEF CallRecvStream, TypeOK, NoClass
    <2> QED
      BY <1>5, <2>1, <2>2 DEF CallRecvStream
  <1>6. CASE BaseRecvStream \/ DerivedRecvStream
    BY <1>6 DEF BaseRecvStream, DerivedRecvStream, Queue
  <1>7. CASE CheckStream
    BY <1>7 DEF CheckStream
  <1>8. CASE UNCHANGED vars
    BY <1>8 DEF vars
  <1> QED
    BY <1>1, <1>2, <1>3, <1>4, <1>5, <1>6, <1>7, <1>8 DEF Next, Constructors

(***************************************************************************)
(* For any pool, any command line and whatever the objects' memory held,   *)
(* the checker is complete before there is anything to check.              *)
(***************************************************************************)
THEOREM CheckerComesFirst == Spec => []CheckerReadyForFrames
  <1>1. Order => CheckerReadyForFrames
    BY DEF Order, CheckerReadyForFrames, BeforeReceiver, BeforeChecker
  <1> QED
    BY OrderInit, OrderStep, TypeCorrect, <1>1, PTL DEF Spec

-----------------------------------------------------------------------------
(***************************************************************************)
(* With memory that held zeros, a member that is not null has been set     *)
(* by the constructor; and UdpReceiver sets mInited last.                  *)
(***************************************************************************)
Opened ==
  /\ members \in [MemberNames -> {Null, Good}]
  /\ options.mode = "udp" =>
       /\ main \in {"publish", "sleep"} => members["mSockFd"] = Good
       /\ main # "sleep" => members["mInited"] = Null
  /\ \A i \in 1 .. Len(filled) : filled[i] # "garbage"

LEMMA OpenedInit == Memory = {Null} /\ Init => Opened
  <1> SUFFICES ASSUME Memory = {Null}, Init PROVE Opened
    OBVIOUS
  <1>1. Len(filled) = 0
    <2>1. filled = << >>
      BY DEF Init
    <2> QED
      BY ONLY <2>1
  <1>2. \A i \in 1 .. Len(filled) : filled[i] # "garbage"
    BY ONLY <1>1
  <1>3. /\ members \in [MemberNames -> {Null}]
        /\ main = "options"
    BY DEF Init, MemberNames
  <1> QED
    BY <1>2, <1>3 DEF Opened, MemberNames, Null, Good

LEMMA OpenedStep == TypeOK /\ Opened /\ [Next]_vars => Opened'
  <1> SUFFICES ASSUME TypeOK, Opened, [Next]_vars PROVE Opened'
    OBVIOUS
  <1>q. filled \in Seq({"fake", "garbage", "frame"})
    BY DEF TypeOK
  <1>m. members \in [MemberNames -> {Null, Good}]
    BY DEF Opened
  <1> USE DEF Opened, MemberNames, objects, threadVars, Step, Exit
  <1>1. CASE CheckOptions \/ CheckerBaseCtor \/ H264CheckerCtor \/ AddAudInfo
    BY <1>1 DEF CheckOptions, CheckerBaseCtor, H264CheckerCtor, AddAudInfo
  <1>2. CASE RefuseCustomUdp \/ ReceiverBaseCtor \/ EnterDerivedCtor
    BY <1>2 DEF RefuseCustomUdp, ReceiverBaseCtor, EnterDerivedCtor
  <1>3. CASE UdpReceiverCtor
    BY <1>3 DEF UdpReceiverCtor, SetMembers, Null, Good
  <1>4. CASE FileReceiverCtor
    BY <1>4 DEF FileReceiverCtor, SetMembers, Null, Good
  <1>5. CASE OpenFails
    BY <1>5 DEF OpenFails
  <1>6. CASE CallRecvStream
    BY <1>6 DEF CallRecvStream
  <1>7. CASE BaseRecvStream \/ DerivedRecvStream
    <2>1. ~ Waits => Ready
      BY <1>m DEF Waits, Ready, Null, Good
    <2>2. PICK c \in {"fake", "frame"} : filled' = Append(filled, c)
      BY <1>7, <2>1 DEF BaseRecvStream, DerivedRecvStream, Queue
    <2>3. \A i \in 1 .. Len(filled) : filled[i] # "garbage"
      OBVIOUS
    <2>4. \A i \in 1 .. Len(filled') : filled'[i] # "garbage"
      BY ONLY <1>q, <2>2, <2>3
    <2>5. UNCHANGED <<options, main, members>>
      BY <1>7 DEF BaseRecvStream, DerivedRecvStream, Queue
    <2> QED
      BY <2>4, <2>5
  <1>8. CASE CheckStream
    <2>1. filled # << >> /\ filled' = Tail(filled)
      BY <1>8 DEF CheckStream
    <2>2. \A i \in 1 .. Len(filled) : filled[i] # "garbage"
      OBVIOUS
    <2>3. \A i \in 1 .. Len(filled') : filled'[i] # "garbage"
      BY ONLY <1>q, <2>1, <2>2
    <2>4. UNCHANGED <<options, main, members>>
      BY <1>8 DEF CheckStream
    <2> QED
      BY <2>3, <2>4
  <1>9. CASE UNCHANGED vars
    BY <1>9 DEF vars
  <1> QED
    BY <1>1, <1>2, <1>3, <1>4, <1>5, <1>6, <1>7, <1>8, <1>9
       DEF Next, Constructors

(***************************************************************************)
(* In zeroed memory, recvStream never reads from what is not open: nothing *)
(* it did not receive is queued by the derived classes.                    *)
(***************************************************************************)
THEOREM NothingReadUnopened ==
  Memory = {Null} /\ Spec => []ReceiverWaitsUntilOpen
  <1>1. Opened => ReceiverWaitsUntilOpen
    BY DEF Opened, ReceiverWaitsUntilOpen, Contents
  <1>2. Memory = {Null} /\ Spec => []Opened
    BY OpenedInit, OpenedStep, TypeCorrect, PTL DEF Spec
  <1> QED
    BY <1>1, <1>2, PTL

=============================================================================
