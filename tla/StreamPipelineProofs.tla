------------------------ MODULE StreamPipelineProofs ------------------------
(***************************************************************************)
(* Theorems about StreamPipeline, for every pool size, every set of frame  *)
(* lengths and exit codes and every bound.                                 *)
(***************************************************************************)
EXTENDS StreamPipeline, FiniteSetTheorems, TLAPS

(***************************************************************************)
(* What the list operations of the pool do, index by index.                *)
(***************************************************************************)
LEMMA AppendFacts ==
  ASSUME NEW S, NEW q \in Seq(S), NEW e \in S
  PROVE  /\ Append(q, e) \in Seq(S)
         /\ Len(Append(q, e)) = Len(q) + 1
         /\ \A i \in 1 .. Len(q) : Append(q, e)[i] = q[i]
         /\ Append(q, e)[Len(q) + 1] = e
  OBVIOUS

LEMMA HeadTailFacts ==
  ASSUME NEW S, NEW q \in Seq(S), q # << >>
  PROVE  /\ Len(q) \in Nat \ {0}
         /\ Head(q) = q[1]
         /\ Head(q) \in S
         /\ Tail(q) \in Seq(S)
         /\ Len(Tail(q)) = Len(q) - 1
         /\ \A i \in 1 .. Len(Tail(q)) : Tail(q)[i] = q[i + 1]
  OBVIOUS

(***************************************************************************)
(* Type correctness.                                                       *)
(***************************************************************************)
LEMMA TypeInit == Init => TypeOK
  <1> SUFFICES ASSUME Init PROVE TypeOK
    OBVIOUS
  <1>1. mEmptyQ \in Seq(JBuffers) /\ mFilledQ \in Seq(JBuffers)
    BY BufferNumberAssumption DEF Init, MakeBuffer, JBuffers
  <1> QED
    BY <1>1 DEF Init, MakeBuffer, TypeOK, Threads, Recv, Check, Owns, RecvOwns,
       CheckOwns, RecvLabels, CheckLabels, Free, Nullptr, NoFrame

LEMMA TypeStep == TypeOK /\ [Next]_vars => TypeOK'
  <1> SUFFICES ASSUME TypeOK, [Next]_vars PROVE TypeOK'
    OBVIOUS
  <1> USE DEF TypeOK, Threads, Recv, Check, Owns, RecvOwns, CheckOwns,
              RecvLabels, CheckLabels, Goto, emptyVars, filledVars, poolVars,
              dataVars, threadVars
  <1>1. CASE Lock(Recv)
    BY <1>1 DEF Lock, LockEmpty, LockFilled, EmptyCalls, FilledCalls, Locked
  <1>2. CASE Lock(Check)
    BY <1>2 DEF Lock, LockEmpty, LockFilled, EmptyCalls, FilledCalls, Locked
  <1>3. CASE ReceiverGetsEmpty
    <2> PICK b \in JBuffers \cup {Nullptr} :
          /\ GetEmptyBuffer(b)
          /\ buffer' = [buffer EXCEPT ![Recv] = b]
          /\ Goto(Recv, IF b = Nullptr THEN "getEmpty" ELSE "recvStream")
      BY <1>3 DEF ReceiverGetsEmpty
    <2>1. mEmptyQ' \in Seq(JBuffers)
      <3>1. mEmptyQ \in Seq(JBuffers)
        OBVIOUS
      <3>2. mEmptyQ # << >> => Tail(mEmptyQ) \in Seq(JBuffers)
        BY ONLY <3>1, HeadTailFacts
      <3> QED
        BY <3>1, <3>2 DEF GetEmptyBuffer
    <2> QED
      BY <1>3, <2>1 DEF ReceiverGetsEmpty, GetEmptyBuffer
  <1>4. CASE RecvStream
    BY <1>4, FrameLensAssumption DEF RecvStream, NoFrame, AudLen
  <1>5. CASE RecvExit
    BY <1>5 DEF RecvExit
  <1>6. CASE ReceiverPutsFilled
    <2>1. mFilledQ' \in Seq(JBuffers)
      BY <1>6, AppendFacts DEF ReceiverPutsFilled, PutFilledBuffer
    <2> QED
      BY <1>6, <2>1 DEF ReceiverPutsFilled, PutFilledBuffer
  <1>7. CASE ReceiverPutsEmpty
    <2>1. mEmptyQ' \in Seq(JBuffers)
      BY <1>7, AppendFacts DEF ReceiverPutsEmpty, PutEmptyBuffer
    <2> QED
      BY <1>7, <2>1 DEF ReceiverPutsEmpty, PutEmptyBuffer
  <1>8. CASE CheckerGetsFilled
    <2> PICK b \in JBuffers \cup {Nullptr} :
          /\ GetFilledBuffer(b)
          /\ buffer' = [buffer EXCEPT ![Check] = b]
          /\ Goto(Check, IF b = Nullptr THEN "getFilled" ELSE "checkStream")
      BY <1>8 DEF CheckerGetsFilled
    <2>1. mFilledQ' \in Seq(JBuffers)
      <3>1. mFilledQ \in Seq(JBuffers)
        OBVIOUS
      <3>2. mFilledQ # << >> => Tail(mFilledQ) \in Seq(JBuffers)
        BY ONLY <3>1, HeadTailFacts
      <3> QED
        BY <3>1, <3>2 DEF GetFilledBuffer
    <2> QED
      BY <1>8, <2>1 DEF CheckerGetsFilled, GetFilledBuffer
  <1>9. CASE CheckStream
    <2>1. checked' \in Seq(Nat)
      BY <1>9, AppendFacts DEF CheckStream
    <2> QED
      BY <1>9, <2>1 DEF CheckStream
  <1>10. CASE CheckerPutsEmpty
    <2>1. mEmptyQ' \in Seq(JBuffers)
      BY <1>10, AppendFacts DEF CheckerPutsEmpty, PutEmptyBuffer
    <2> QED
      BY <1>10, <2>1 DEF CheckerPutsEmpty, PutEmptyBuffer
  <1>11. CASE UNCHANGED vars
    BY <1>11 DEF vars
  <1> QED
    BY <1>1, <1>2, <1>3, <1>4, <1>5, <1>6, <1>7, <1>8, <1>9, <1>10, <1>11
       DEF Next, Receiver, Checker

(***************************************************************************)
(* Every reachable state is well typed: in particular a thread never calls *)
(* recvStream, checkStream or a put with the null pointer.                 *)
(***************************************************************************)
THEOREM TypeCorrect == Spec => []TypeOK
  BY TypeInit, TypeStep, PTL DEF Spec

-----------------------------------------------------------------------------
(***************************************************************************)
(* Mutual exclusion.                                                       *)
(***************************************************************************)
LEMMA LockInit == Init => LockDiscipline
  BY DEF Init, MakeBuffer, LockDiscipline, Threads, Recv, Check, Free,
         InEmptyLock, InFilledLock

LEMMA LockStep == TypeOK /\ LockDiscipline /\ [Next]_vars => LockDiscipline'
  <1> SUFFICES ASSUME TypeOK, LockDiscipline, [Next]_vars
               PROVE  LockDiscipline'
    OBVIOUS
  <1>0. pc \in [Threads -> RecvLabels \cup CheckLabels]
    BY DEF TypeOK
  <1> USE <1>0 DEF LockDiscipline, Threads, Recv, Check, Free, InEmptyLock,
                   InFilledLock, Goto, emptyVars, filledVars, poolVars,
                   dataVars, threadVars
  <1>1. ASSUME NEW t \in Threads, Lock(t) PROVE LockDiscipline'
    <2>1. CASE pc[t] = "getEmpty"
      BY <1>1, <2>1 DEF Lock, LockEmpty, EmptyCalls, FilledCalls, Locked
    <2>2. CASE pc[t] = "putEmpty"
      BY <1>1, <2>2 DEF Lock, LockEmpty, EmptyCalls, FilledCalls, Locked
    <2>3. CASE pc[t] = "getFilled"
      BY <1>1, <2>3 DEF Lock, LockFilled, EmptyCalls, FilledCalls, Locked
    <2>4. CASE pc[t] = "putFilled"
      BY <1>1, <2>4 DEF Lock, LockFilled, EmptyCalls, FilledCalls, Locked
    <2> QED
      BY <1>1, <2>1, <2>2, <2>3, <2>4 DEF Lock, EmptyCalls, FilledCalls
  <1>2. CASE ReceiverGetsEmpty
    BY <1>2 DEF ReceiverGetsEmpty, GetEmptyBuffer
  <1>3. CASE RecvStream
    BY <1>3 DEF RecvStream
  <1>4. CASE RecvExit
    BY <1>4 DEF RecvExit
  <1>5. CASE ReceiverPutsFilled
    BY <1>5 DEF ReceiverPutsFilled, PutFilledBuffer
  <1>6. CASE ReceiverPutsEmpty
    BY <1>6 DEF ReceiverPutsEmpty, PutEmptyBuffer
  <1>7. CASE CheckerGetsFilled
    BY <1>7 DEF CheckerGetsFilled, GetFilledBuffer
  <1>8. CASE CheckStream
    BY <1>8 DEF CheckStream
  <1>9. CASE CheckerPutsEmpty
    BY <1>9 DEF CheckerPutsEmpty, PutEmptyBuffer
  <1>10. CASE UNCHANGED vars
    BY <1>10 DEF vars
  <1> QED
    BY <1>1, <1>2, <1>3, <1>4, <1>5, <1>6, <1>7, <1>8, <1>9, <1>10
       DEF Next, Receiver, Checker

(***************************************************************************)
(* The bodies of two operations on one queue never overlap, and every way  *)
(* out of an operation unlocks it.                                         *)
(***************************************************************************)
THEOREM LocksHeldInBodiesOnly == Spec => []LockDiscipline
  BY TypeCorrect, LockInit, LockStep, PTL DEF Spec

-----------------------------------------------------------------------------
(***************************************************************************)
(* What a push and a pop do to the set of queued buffers.                  *)
(***************************************************************************)
LEMMA PushFacts ==
  ASSUME NEW S, NEW q \in Seq(S), NEW e \in S
  PROVE  /\ \A b : Queued(Append(q, e), b) <=> Queued(q, b) \/ b = e
         /\ Distinct(q) /\ ~ Queued(q, e) => Distinct(Append(q, e))
  <1> DEFINE p == Append(q, e)
  <1>1. /\ Len(q) \in Nat
        /\ Len(p) = Len(q) + 1
        /\ \A i \in 1 .. Len(q) : p[i] = q[i]
        /\ p[Len(q) + 1] = e
    BY AppendFacts
  <1> HIDE DEF p
  <1>2. \A b : Queued(p, b) <=> Queued(q, b) \/ b = e
    BY <1>1 DEF Queued
  <1>3. Distinct(q) /\ ~ Queued(q, e) => Distinct(p)
    BY <1>1 DEF Queued, Distinct
  <1> QED
    BY <1>2, <1>3 DEF p

LEMMA PopFacts ==
  ASSUME NEW S, NEW q \in Seq(S), q # << >>, Distinct(q)
  PROVE  /\ \A b : Queued(q, b) <=> Queued(Tail(q), b) \/ b = Head(q)
         /\ ~ Queued(Tail(q), Head(q))
         /\ Distinct(Tail(q))
         /\ Head(q) \in S
  <1> DEFINE p == Tail(q)
             h == Head(q)
  <1>1. /\ Len(q) \in Nat \ {0}
        /\ Len(p) = Len(q) - 1
        /\ \A i \in 1 .. Len(p) : p[i] = q[i + 1]
        /\ h = q[1]
        /\ h \in S
    BY HeadTailFacts
  <1> HIDE DEF p, h
  <1>2. ASSUME NEW b PROVE Queued(q, b) <=> Queued(p, b) \/ b = h
    <2>1. ASSUME Queued(q, b), b # h PROVE Queued(p, b)
      <3>1. PICK i \in 1 .. Len(q) : q[i] = b
        BY <2>1 DEF Queued
      <3>2. i - 1 \in 1 .. Len(p) /\ p[i - 1] = b
        BY <1>1, <2>1, <3>1
      <3> QED
        BY <3>2 DEF Queued
    <2>2. Queued(p, b) => Queued(q, b)
      BY <1>1 DEF Queued
    <2>3. Queued(q, h)
      BY <1>1 DEF Queued
    <2> QED
      BY <2>1, <2>2, <2>3
  <1>3. ~ Queued(p, h)
    BY <1>1 DEF Queued, Distinct
  <1>4. Distinct(p)
    BY <1>1 DEF Distinct
  <1> QED
    BY <1>1, <1>2, <1>3, <1>4 DEF p, h

-----------------------------------------------------------------------------
(***************************************************************************)
(* Buffer ownership.                                                       *)
(***************************************************************************)
LEMMA OwnershipInit == Init => Ownership
  <1> SUFFICES ASSUME Init PROVE Ownership
    OBVIOUS
  <1>1. /\ Len(mEmptyQ) = BufferNumber
        /\ \A i \in 1 .. BufferNumber : mEmptyQ[i] = i
        /\ Len(mFilledQ) = 0
    BY BufferNumberAssumption DEF Init, MakeBuffer, JBuffers
  <1>2. \A t \in Threads : ~ Owns(t)
    BY DEF Init, Owns, Threads, Recv, Check, RecvOwns, CheckOwns
  <1>3. Distinct(mEmptyQ) /\ Distinct(mFilledQ)
    BY <1>1, BufferNumberAssumption DEF Distinct
  <1>4. \A b \in JBuffers : Queued(mEmptyQ, b)
    BY <1>1, BufferNumberAssumption DEF Queued, JBuffers
  <1>5. \A b : ~ Queued(mFilledQ, b)
    BY <1>1 DEF Queued
  <1> QED
    BY <1>2, <1>3, <1>4, <1>5 DEF Ownership, Threads

LEMMA OwnershipStep == TypeOK /\ Ownership /\ [Next]_vars => Ownership'
  <1> SUFFICES ASSUME TypeOK, Ownership, [Next]_vars PROVE Ownership'
    OBVIOUS
  <1>0. /\ pc \in [Threads -> RecvLabels \cup CheckLabels]
        /\ buffer \in [Threads -> JBuffers \cup {Nullptr}]
        /\ mEmptyQ \in Seq(JBuffers)
        /\ mFilledQ \in Seq(JBuffers)
        /\ \A t \in Threads : Owns(t) => buffer[t] \in JBuffers
    BY DEF TypeOK
  (* A step that moves no buffer: same queues, same owners. *)
  <1>12. ASSUME UNCHANGED <<mEmptyQ, mFilledQ, buffer>>,
               \A t \in Threads : Owns(t)' <=> Owns(t)
        PROVE  Ownership'
    BY <1>12 DEF Ownership, Threads, Distinct, Queued
  <1> USE DEF Threads, Recv, Check, Owns, RecvOwns, CheckOwns, Goto,
              emptyVars, filledVars, poolVars, dataVars, threadVars
  <1>1. ASSUME NEW t \in Threads, Lock(t) PROVE Ownership'
    <2>1. UNCHANGED <<mEmptyQ, mFilledQ, buffer>>
      BY <1>1 DEF Lock, LockEmpty, LockFilled
    <2>2. \A u \in Threads : Owns(u)' <=> Owns(u)
      BY <1>0, <1>1 DEF Lock, EmptyCalls, FilledCalls, Locked
    <2> QED
      BY <1>12, <2>1, <2>2
  <1>2. CASE ReceiverGetsEmpty
    <2> PICK b \in JBuffers \cup {Nullptr} :
          /\ GetEmptyBuffer(b)
          /\ buffer' = [buffer EXCEPT ![Recv] = b]
          /\ Goto(Recv, IF b = Nullptr THEN "getEmpty" ELSE "recvStream")
      BY <1>2 DEF ReceiverGetsEmpty
    <2>0. /\ ~ Owns(Recv)
          /\ Owns(Check)' = Owns(Check)
          /\ buffer'[Check] = buffer[Check]
          /\ mFilledQ' = mFilledQ
      BY <1>0, <1>2 DEF ReceiverGetsEmpty, GetEmptyBuffer
    <2>1. CASE mEmptyQ = << >>
      <3>1. b = Nullptr /\ mEmptyQ' = mEmptyQ /\ ~ Owns(Recv)'
        BY <1>0, <2>1 DEF GetEmptyBuffer
      <3> QED
        BY ONLY Ownership, <2>0, <3>1
           DEF Ownership, Threads, Distinct, Queued
    <2>2. CASE mEmptyQ # << >>
      <3>1. /\ b = Head(mEmptyQ)
            /\ mEmptyQ' = Tail(mEmptyQ)
        BY <2>2 DEF GetEmptyBuffer
      <3>2. /\ \A c : Queued(mEmptyQ, c) <=> Queued(mEmptyQ', c) \/ c = b
            /\ ~ Queued(mEmptyQ', b)
            /\ Distinct(mEmptyQ')
            /\ b \in JBuffers
        <4>1. Distinct(mEmptyQ) /\ mEmptyQ \in Seq(JBuffers)
          BY <1>0 DEF Ownership
        <4> QED
          BY ONLY <4>1, <2>2, <3>1, PopFacts
      <3>3. b # Nullptr
        BY <3>2, BufferNumberAssumption DEF Nullptr, JBuffers
      <3>4. Owns(Recv)' /\ buffer'[Recv] = b
        BY <1>0, <3>3
      <3>5. Distinct(mEmptyQ') /\ Distinct(mFilledQ')
        BY ONLY Ownership, <2>0, <3>2 DEF Ownership
      <3> HIDE DEF Owns
      <3> QED
        BY ONLY Ownership, <2>0, <3>2, <3>4, <3>5
           DEF Ownership, Threads
    <2> QED
      BY <2>1, <2>2
  <1>3. CASE RecvStream
    <2>1. \A u \in Threads : Owns(u)' <=> Owns(u)
      BY <1>0, <1>3 DEF RecvStream
    <2> QED
      BY <1>12, <1>3, <2>1 DEF RecvStream
  <1>4. CASE RecvExit
    BY <1>12, <1>4 DEF RecvExit
  <1>5. CASE ReceiverPutsFilled
    <2>1. /\ mFilledQ' = Append(mFilledQ, buffer[Recv])
          /\ mEmptyQ' = mEmptyQ
          /\ buffer' = buffer
          /\ Owns(Recv) /\ ~ Owns(Recv)'
          /\ Owns(Check)' = Owns(Check)
      BY <1>0, <1>5 DEF ReceiverPutsFilled, PutFilledBuffer
    <2>2. /\ \A c : Queued(mFilledQ', c)
                      <=> Queued(mFilledQ, c) \/ c = buffer[Recv]
          /\ Distinct(mFilledQ')
      <3>1. /\ buffer[Recv] \in JBuffers
            /\ ~ Queued(mFilledQ, buffer[Recv])
            /\ Distinct(mFilledQ)
        BY <1>0, <2>1 DEF Ownership
      <3> QED
        BY ONLY <1>0, <2>1, <3>1, PushFacts
    <2> HIDE DEF Owns
    <2> QED
      BY ONLY Ownership, <2>1, <2>2 DEF Ownership, Threads, Distinct, Queued
  <1>6. CASE ReceiverPutsEmpty
    <2>1. /\ mEmptyQ' = Append(mEmptyQ, buffer[Recv])
          /\ mFilledQ' = mFilledQ
          /\ buffer' = buffer
          /\ Owns(Recv) /\ ~ Owns(Recv)'
          /\ Owns(Check)' = Owns(Check)
      BY <1>0, <1>6 DEF ReceiverPutsEmpty, PutEmptyBuffer
    <2>2. /\ \A c : Queued(mEmptyQ', c)
                      <=> Queued(mEmptyQ, c) \/ c = buffer[Recv]
          /\ Distinct(mEmptyQ')
      <3>1. /\ buffer[Recv] \in JBuffers
            /\ ~ Queued(mEmptyQ, buffer[Recv])
            /\ Distinct(mEmptyQ)
        BY <1>0, <2>1 DEF Ownership
      <3> QED
        BY ONLY <1>0, <2>1, <3>1, PushFacts
    <2> HIDE DEF Owns
    <2> QED
      BY ONLY Ownership, <2>1, <2>2 DEF Ownership, Threads, Distinct, Queued
  <1>7. CASE CheckerGetsFilled
    <2> PICK b \in JBuffers \cup {Nullptr} :
          /\ GetFilledBuffer(b)
          /\ buffer' = [buffer EXCEPT ![Check] = b]
          /\ Goto(Check, IF b = Nullptr THEN "getFilled" ELSE "checkStream")
      BY <1>7 DEF CheckerGetsFilled
    <2>0. /\ ~ Owns(Check)
          /\ Owns(Recv)' = Owns(Recv)
          /\ buffer'[Recv] = buffer[Recv]
          /\ mEmptyQ' = mEmptyQ
      BY <1>0, <1>7 DEF CheckerGetsFilled, GetFilledBuffer
    <2>1. CASE mFilledQ = << >>
      <3>1. b = Nullptr /\ mFilledQ' = mFilledQ /\ ~ Owns(Check)'
        BY <1>0, <2>1 DEF GetFilledBuffer
      <3> QED
        BY ONLY Ownership, <2>0, <3>1
           DEF Ownership, Threads, Distinct, Queued
    <2>2. CASE mFilledQ # << >>
      <3>1. /\ b = Head(mFilledQ)
            /\ mFilledQ' = Tail(mFilledQ)
        BY <2>2 DEF GetFilledBuffer
      <3>2. /\ \A c : Queued(mFilledQ, c) <=> Queued(mFilledQ', c) \/ c = b
            /\ ~ Queued(mFilledQ', b)
            /\ Distinct(mFilledQ')
            /\ b \in JBuffers
        <4>1. Distinct(mFilledQ) /\ mFilledQ \in Seq(JBuffers)
          BY <1>0 DEF Ownership
        <4> QED
          BY ONLY <4>1, <2>2, <3>1, PopFacts
      <3>3. b # Nullptr
        BY <3>2, BufferNumberAssumption DEF Nullptr, JBuffers
      <3>4. Owns(Check)' /\ buffer'[Check] = b
        BY <1>0, <3>3
      <3>5. Distinct(mEmptyQ') /\ Distinct(mFilledQ')
        BY ONLY Ownership, <2>0, <3>2 DEF Ownership
      <3> HIDE DEF Owns
      <3> QED
        BY ONLY Ownership, <2>0, <3>2, <3>4, <3>5
           DEF Ownership, Threads
    <2> QED
      BY <2>1, <2>2
  <1>8. CASE CheckStream
    <2>1. \A u \in Threads : Owns(u)' <=> Owns(u)
      BY <1>0, <1>8 DEF CheckStream
    <2> QED
      BY <1>12, <1>8, <2>1 DEF CheckStream
  <1>9. CASE CheckerPutsEmpty
    <2>1. /\ mEmptyQ' = Append(mEmptyQ, buffer[Check])
          /\ mFilledQ' = mFilledQ
          /\ buffer' = buffer
          /\ Owns(Check) /\ ~ Owns(Check)'
          /\ Owns(Recv)' = Owns(Recv)
      BY <1>0, <1>9 DEF CheckerPutsEmpty, PutEmptyBuffer
    <2>2. /\ \A c : Queued(mEmptyQ', c)
                      <=> Queued(mEmptyQ, c) \/ c = buffer[Check]
          /\ Distinct(mEmptyQ')
      <3>1. /\ buffer[Check] \in JBuffers
            /\ ~ Queued(mEmptyQ, buffer[Check])
            /\ Distinct(mEmptyQ)
        BY <1>0, <2>1 DEF Ownership
      <3> QED
        BY ONLY <1>0, <2>1, <3>1, PushFacts
    <2> HIDE DEF Owns
    <2> QED
      BY ONLY Ownership, <2>1, <2>2 DEF Ownership, Threads, Distinct, Queued
  <1>10. CASE UNCHANGED vars
    BY <1>12, <1>10 DEF vars
  <1> QED
    BY <1>1, <1>2, <1>3, <1>4, <1>5, <1>6, <1>7, <1>8, <1>9, <1>10
       DEF Next, Receiver, Checker

(***************************************************************************)
(* No buffer is leaked, handed out twice, or in the hands of one thread    *)
(* while the other one or a queue can give it away.                        *)
(***************************************************************************)
THEOREM EachBufferInOnePlace == Spec => []Ownership
  BY TypeCorrect, OwnershipInit, OwnershipStep, PTL DEF Spec

-----------------------------------------------------------------------------
(***************************************************************************)
(* Every buffer on its way to the checker holds more than an AUD.  Without *)
(* this checkStream could skip a buffer (its test mFilledLen == 0), and    *)
(* the order below would not be inductive.                                 *)
(***************************************************************************)
LongFrames ==
  /\ CheckerSeesFilled
  /\ \A i \in 1 .. Len(mFilledQ) : mFilledLen[mFilledQ[i]] > AudLen
  /\ AtReceiver = 1 => mFilledLen[buffer[Recv]] > AudLen

LEMMA LongFramesInit == Init => LongFrames
  BY DEF Init, MakeBuffer, LongFrames, CheckerSeesFilled, AtReceiver, Threads,
         Recv, Check

LEMMA LongFramesStep ==
  TypeOK /\ Ownership /\ LongFrames /\ [Next]_vars => LongFrames'
  <1> SUFFICES ASSUME TypeOK, Ownership, LongFrames, [Next]_vars
               PROVE  LongFrames'
    OBVIOUS
  <1>0. /\ pc \in [Threads -> RecvLabels \cup CheckLabels]
        /\ buffer \in [Threads -> JBuffers \cup {Nullptr}]
        /\ mFilledQ \in Seq(JBuffers)
        /\ \A t \in Threads : Owns(t) => buffer[t] \in JBuffers
        /\ mFilledLen \in [JBuffers -> Nat]
        /\ \A i \in 1 .. Len(mFilledQ) : mFilledQ[i] \in JBuffers
        /\ Len(mFilledQ) \in Nat
    BY DEF TypeOK
  <1> USE DEF Threads, Recv, Check, Goto, emptyVars, filledVars, poolVars,
              dataVars, threadVars
  <1>1. ASSUME NEW t \in Threads, Lock(t) PROVE LongFrames'
    <2>1. UNCHANGED <<mFilledQ, mFilledLen, buffer>>
      BY <1>1 DEF Lock, LockEmpty, LockFilled
    <2>2. /\ AtReceiver' = AtReceiver
          /\ (pc[Check] = "checkStream")' => pc[Check] = "checkStream"
      BY <1>0, <1>1 DEF Lock, EmptyCalls, FilledCalls, Locked, AtReceiver
    <2> QED
      BY <2>1, <2>2 DEF LongFrames, CheckerSeesFilled
  <1>2. CASE ReceiverGetsEmpty
    BY <1>0, <1>2 DEF ReceiverGetsEmpty, GetEmptyBuffer, LongFrames,
                      CheckerSeesFilled, AtReceiver
  <1>3. CASE RecvStream
    <2> DEFINE b == buffer[Recv]
    <2> PICK len \in FrameLens :
          /\ mFilledLen' = [mFilledLen EXCEPT ![b] = len]
          /\ Goto(Recv, IF len > AudLen THEN "putFilled" ELSE "putEmpty")
      BY <1>3 DEF RecvStream
    <2>1. /\ Owns(Recv) /\ b \in JBuffers
          /\ UNCHANGED <<mFilledQ, buffer>>
      BY <1>0, <1>3 DEF RecvStream, Owns, RecvOwns
    <2>2. \A i \in 1 .. Len(mFilledQ) : mFilledQ[i] # b
      BY <2>1 DEF Ownership, Queued
    <2>3. pc[Check] = "checkStream"
            => buffer[Check] # b /\ buffer[Check] \in JBuffers
      BY <1>0, <2>1 DEF Ownership, Owns, CheckOwns
    <2>4. AtReceiver' = 1 => len > AudLen
      BY <1>0, <1>3 DEF RecvStream, AtReceiver
    <2>5. (pc[Check] = "checkStream")' <=> pc[Check] = "checkStream"
      BY <1>0, <1>3
    <2>6. \A c \in JBuffers : c # b => mFilledLen'[c] = mFilledLen[c]
      BY <1>0
    <2>7. mFilledLen'[b] = len
      BY <1>0, <2>1
    <2> QED
      BY <1>0, <2>1, <2>2, <2>3, <2>4, <2>5, <2>6, <2>7
         DEF LongFrames, CheckerSeesFilled
  <1>4. CASE RecvExit
    BY <1>4 DEF RecvExit, LongFrames, CheckerSeesFilled, AtReceiver
  <1>5. CASE ReceiverPutsFilled
    <2>1. /\ mFilledQ' = Append(mFilledQ, buffer[Recv])
          /\ UNCHANGED <<mFilledLen, buffer>>
          /\ buffer[Recv] \in JBuffers
          /\ AtReceiver = 1 /\ AtReceiver' = 0
          /\ (pc[Check] = "checkStream")' <=> pc[Check] = "checkStream"
      BY <1>0, <1>5
         DEF ReceiverPutsFilled, PutFilledBuffer, Owns, RecvOwns, AtReceiver
    <2>2. /\ Len(mFilledQ') = Len(mFilledQ) + 1
          /\ \A i \in 1 .. Len(mFilledQ) : mFilledQ'[i] = mFilledQ[i]
          /\ mFilledQ'[Len(mFilledQ) + 1] = buffer[Recv]
      BY ONLY <1>0, <2>1, AppendFacts
    <2>3. ASSUME NEW i \in 1 .. Len(mFilledQ')
          PROVE  mFilledLen[mFilledQ'[i]] > AudLen
      <3>1. CASE i \in 1 .. Len(mFilledQ)
        BY <2>2, <3>1 DEF LongFrames
      <3>2. CASE i = Len(mFilledQ) + 1
        BY <2>1, <2>2, <3>2 DEF LongFrames
      <3> QED
        BY <1>0, <2>2, <3>1, <3>2
    <2> QED
      BY ONLY LongFrames, <2>1, <2>3 DEF LongFrames, CheckerSeesFilled
  <1>6. CASE ReceiverPutsEmpty
    BY <1>0, <1>6 DEF ReceiverPutsEmpty, PutEmptyBuffer, LongFrames,
                      CheckerSeesFilled, AtReceiver
  <1>7. CASE CheckerGetsFilled
    <2> PICK b \in JBuffers \cup {Nullptr} :
          /\ GetFilledBuffer(b)
          /\ buffer' = [buffer EXCEPT ![Check] = b]
          /\ Goto(Check, IF b = Nullptr THEN "getFilled" ELSE "checkStream")
      BY <1>7 DEF CheckerGetsFilled
    <2>1. /\ mFilledLen' = mFilledLen
          /\ buffer'[Recv] = buffer[Recv]
          /\ buffer'[Check] = b
          /\ pc'[Check] = IF b = Nullptr THEN "getFilled" ELSE "checkStream"
          /\ AtReceiver' = AtReceiver
          /\ (AtReceiver = 1)' <=> AtReceiver = 1
      BY <1>0, <1>7 DEF CheckerGetsFilled, AtReceiver
    <2>2. CASE mFilledQ = << >>
      <3>1. mFilledQ' = mFilledQ /\ b = Nullptr
        BY <2>2 DEF GetFilledBuffer
      <3> QED
        BY ONLY LongFrames, <2>1, <3>1 DEF LongFrames, CheckerSeesFilled
    <2>3. CASE mFilledQ # << >>
      <3>1. b = Head(mFilledQ) /\ mFilledQ' = Tail(mFilledQ)
        BY <2>3 DEF GetFilledBuffer
      <3>2. /\ Len(mFilledQ) \in Nat \ {0}
            /\ b = mFilledQ[1]
            /\ Len(mFilledQ') = Len(mFilledQ) - 1
            /\ \A i \in 1 .. Len(mFilledQ') : mFilledQ'[i] = mFilledQ[i + 1]
        BY ONLY <1>0, <2>3, <3>1, HeadTailFacts
      <3> QED
        BY ONLY LongFrames, <2>1, <3>2 DEF LongFrames, CheckerSeesFilled
    <2> QED
      BY <2>2, <2>3
  <1>8. CASE CheckStream
    <2> DEFINE b == buffer[Check]
    <2>1. /\ Owns(Check) /\ b \in JBuffers
          /\ UNCHANGED <<mFilledQ, buffer>>
          /\ mFilledLen' = [mFilledLen EXCEPT ![b] = 0]
      BY <1>0, <1>8 DEF CheckStream, Owns, CheckOwns
    <2>2. \A i \in 1 .. Len(mFilledQ) : mFilledQ[i] # b
      BY <2>1 DEF Ownership, Queued
    <2>3. AtReceiver = 1 => buffer[Recv] # b /\ buffer[Recv] \in JBuffers
      BY <1>0, <2>1 DEF Ownership, Owns, RecvOwns, AtReceiver
    <2>4. AtReceiver' = AtReceiver /\ pc'[Check] = "putEmpty"
      BY <1>0, <1>8 DEF CheckStream, AtReceiver
    <2>5. \A c \in JBuffers : c # b => mFilledLen'[c] = mFilledLen[c]
      BY <1>0, <2>1
    <2> QED
      BY <1>0, <2>1, <2>2, <2>3, <2>4, <2>5 DEF LongFrames, CheckerSeesFilled
  <1>9. CASE CheckerPutsEmpty
    BY <1>0, <1>9 DEF CheckerPutsEmpty, PutEmptyBuffer, LongFrames,
                      CheckerSeesFilled, AtReceiver
  <1>10. CASE UNCHANGED vars
    BY <1>10 DEF vars, LongFrames, CheckerSeesFilled, AtReceiver
  <1> QED
    BY <1>1, <1>2, <1>3, <1>4, <1>5, <1>6, <1>7, <1>8, <1>9, <1>10
       DEF Next, Receiver, Checker

(***************************************************************************)
(* checkStream is never called with a buffer it would skip.                *)
(***************************************************************************)
THEOREM CheckerNeverSkips == Spec => []CheckerSeesFilled
  <1>1. Spec => []LongFrames
    BY TypeCorrect, EachBufferInOnePlace, LongFramesInit, LongFramesStep, PTL
       DEF Spec
  <1>2. LongFrames => CheckerSeesFilled
    BY DEF LongFrames
  <1> QED
    BY <1>1, <1>2, PTL

-----------------------------------------------------------------------------
(***************************************************************************)
(* Order and completeness of what is checked.  The data of a buffer is     *)
(* rewritten by recvStream only, and Ownership says that this is neither a *)
(* queued buffer nor the checker's.                                        *)
(***************************************************************************)
LEMMA InOrderInit == Init => InOrder
  BY DEF Init, MakeBuffer, InOrder, AtChecker, AtReceiver, Threads, Recv, Check

LEMMA InOrderStep ==
  TypeOK /\ Ownership /\ LongFrames /\ InOrder /\ [Next]_vars => InOrder'
  <1> SUFFICES ASSUME TypeOK, Ownership, LongFrames, InOrder, [Next]_vars
               PROVE  InOrder'
    OBVIOUS
  <1>0. /\ pc \in [Threads -> RecvLabels \cup CheckLabels]
        /\ buffer \in [Threads -> JBuffers \cup {Nullptr}]
        /\ mFilledQ \in Seq(JBuffers)
        /\ \A t \in Threads : Owns(t) => buffer[t] \in JBuffers
        /\ mFilledLen \in [JBuffers -> Nat]
        /\ mData \in [JBuffers -> Nat]
        /\ received \in Nat
        /\ checked \in Seq(Nat)
    BY DEF TypeOK
  <1>q. Len(mFilledQ) \in Nat /\ Len(checked) \in Nat
    BY <1>0
  (* A step that moves no frame. *)
  <1>s. ASSUME UNCHANGED <<mFilledQ, mData, received, checked, buffer>>,
               AtChecker' = AtChecker, AtReceiver' = AtReceiver,
               (pc[Check] = "checkStream")' => pc[Check] = "checkStream"
        PROVE  InOrder'
    BY <1>s DEF InOrder, AtReceiver
  <1> USE DEF Threads, Recv, Check, Goto, emptyVars, filledVars, poolVars,
              dataVars, threadVars
  <1>1. ASSUME NEW t \in Threads, Lock(t) PROVE InOrder'
    <2>1. UNCHANGED <<mFilledQ, mData, received, checked, buffer>>
      BY <1>1 DEF Lock, LockEmpty, LockFilled
    <2>2. AtChecker' = AtChecker /\ AtReceiver' = AtReceiver
      BY <1>0, <1>1
         DEF Lock, EmptyCalls, FilledCalls, Locked, AtChecker, AtReceiver
    <2>3. (pc[Check] = "checkStream")' => pc[Check] = "checkStream"
      BY <1>0, <1>1 DEF Lock, EmptyCalls, FilledCalls, Locked
    <2> QED
      BY <1>s, <2>1, <2>2, <2>3
  <1>2. CASE ReceiverGetsEmpty
    <2>1. UNCHANGED <<mFilledQ, mData, received, checked>>
      BY <1>2 DEF ReceiverGetsEmpty, GetEmptyBuffer
    <2>2. /\ AtChecker' = AtChecker
          /\ AtReceiver = 0 /\ AtReceiver' = 0
          /\ (pc[Check] = "checkStream")' <=> pc[Check] = "checkStream"
          /\ buffer'[Check] = buffer[Check]
      BY <1>0, <1>2 DEF ReceiverGetsEmpty, AtChecker, AtReceiver
    <2> QED
      BY ONLY InOrder, <1>q, <2>1, <2>2 DEF InOrder
  <1>3. CASE RecvStream
    <2> DEFINE b == buffer[Recv]
    <2> PICK len \in FrameLens :
          /\ mData' = [mData EXCEPT
                         ![b] = IF len > AudLen THEN received + 1 ELSE NoFrame]
          /\ received' = IF len > AudLen THEN received + 1 ELSE received
          /\ Goto(Recv, IF len > AudLen THEN "putFilled" ELSE "putEmpty")
      BY <1>3 DEF RecvStream
    <2>1. /\ Owns(Recv) /\ b \in JBuffers
          /\ UNCHANGED <<mFilledQ, checked, buffer>>
      BY <1>0, <1>3 DEF RecvStream, Owns, RecvOwns
    <2>2. \A i \in 1 .. Len(mFilledQ) : mFilledQ[i] # b
      BY <2>1 DEF Ownership, Queued
    <2>3. pc[Check] = "checkStream" => buffer[Check] # b
      BY <2>1 DEF Ownership, Owns, CheckOwns
    <2>4. /\ AtChecker' = AtChecker
          /\ AtReceiver = 0
          /\ AtReceiver' = IF len > AudLen THEN 1 ELSE 0
          /\ (pc[Check] = "checkStream")' <=> pc[Check] = "checkStream"
      BY <1>0, <1>3 DEF RecvStream, AtChecker, AtReceiver
    <2>5. \A c \in JBuffers : c # b => mData'[c] = mData[c]
      BY <1>0
    <2>6. len > AudLen => mData'[b] = received'
      BY <1>0, <2>1
    <2>7. \A i \in 1 .. Len(mFilledQ) : mData'[mFilledQ[i]] = mData[mFilledQ[i]]
      BY <1>0, <2>2, <2>5
    <2>8. pc[Check] = "checkStream"
            => mData'[buffer[Check]] = mData[buffer[Check]]
      BY <1>0, <2>3, <2>5 DEF Owns, CheckOwns
    <2>9. received' = received + AtReceiver'
      BY <1>0, <2>4
    <2>10. AtChecker \in Nat
      BY DEF AtChecker
    <2> HIDE DEF b
    <2> QED
      BY ONLY InOrder, <1>0, <1>q, <2>1, <2>4, <2>6, <2>7, <2>8, <2>9, <2>10
         DEF InOrder, b
  <1>4. CASE RecvExit
    BY <1>s, <1>4 DEF RecvExit, AtChecker, AtReceiver
  <1>5. CASE ReceiverPutsFilled
    <2>1. /\ mFilledQ' = Append(mFilledQ, buffer[Recv])
          /\ UNCHANGED <<mData, received, checked, buffer>>
          /\ buffer[Recv] \in JBuffers
      BY <1>0, <1>5
         DEF ReceiverPutsFilled, PutFilledBuffer, Owns, RecvOwns
    <2>2. /\ AtChecker' = AtChecker
          /\ AtReceiver = 1 /\ AtReceiver' = 0
          /\ (pc[Check] = "checkStream")' <=> pc[Check] = "checkStream"
      BY <1>0, <1>5 DEF ReceiverPutsFilled, AtChecker, AtReceiver
    <2>3. /\ Len(mFilledQ') = Len(mFilledQ) + 1
          /\ \A i \in 1 .. Len(mFilledQ) : mFilledQ'[i] = mFilledQ[i]
          /\ mFilledQ'[Len(mFilledQ) + 1] = buffer[Recv]
      BY ONLY <1>0, <2>1, AppendFacts
    <2>4. AtChecker \in Nat
      BY DEF AtChecker
    <2>5. ASSUME NEW i \in 1 .. Len(mFilledQ')
          PROVE  mData[mFilledQ'[i]] = Len(checked) + AtChecker + i
      <3>1. CASE i \in 1 .. Len(mFilledQ)
        BY <2>3, <3>1 DEF InOrder
      <3>2. CASE i = Len(mFilledQ) + 1
        BY <1>0, <1>q, <2>2, <2>3, <2>4, <3>2 DEF InOrder
      <3> QED
        BY <1>q, <2>3, <3>1, <3>2
    <2>6. received = Len(checked) + AtChecker + Len(mFilledQ') + 0
      BY <1>0, <1>q, <2>2, <2>3, <2>4 DEF InOrder
    <2> QED
      BY ONLY InOrder, <2>1, <2>2, <2>5, <2>6 DEF InOrder
  <1>6. CASE ReceiverPutsEmpty
    <2>1. AtChecker' = AtChecker /\ AtReceiver' = AtReceiver
      BY <1>0, <1>6 DEF ReceiverPutsEmpty, AtChecker, AtReceiver
    <2>2. (pc[Check] = "checkStream")' <=> pc[Check] = "checkStream"
      BY <1>0, <1>6 DEF ReceiverPutsEmpty
    <2> QED
      BY <1>s, <1>6, <2>1, <2>2 DEF ReceiverPutsEmpty, PutEmptyBuffer
  <1>7. CASE CheckerGetsFilled
    <2> PICK b \in JBuffers \cup {Nullptr} :
          /\ GetFilledBuffer(b)
          /\ buffer' = [buffer EXCEPT ![Check] = b]
          /\ Goto(Check, IF b = Nullptr THEN "getFilled" ELSE "checkStream")
      BY <1>7 DEF CheckerGetsFilled
    <2>1. /\ UNCHANGED <<mData, received, checked>>
          /\ buffer'[Recv] = buffer[Recv]
          /\ AtChecker = 0
          /\ AtReceiver' = AtReceiver
          /\ (AtReceiver = 1)' <=> AtReceiver = 1
      BY <1>0, <1>7 DEF CheckerGetsFilled, AtChecker, AtReceiver
    <2>2. CASE mFilledQ = << >>
      <3>1. mFilledQ' = mFilledQ /\ pc'[Check] = "getFilled"
        BY <1>0, <2>2 DEF GetFilledBuffer
      <3>2. AtChecker' = 0
        BY <3>1 DEF AtChecker
      <3> QED
        BY ONLY InOrder, <1>q, <2>1, <3>1, <3>2 DEF InOrder, Check
    <2>3. CASE mFilledQ # << >>
      <3>1. b = Head(mFilledQ) /\ mFilledQ' = Tail(mFilledQ)
        BY <2>3 DEF GetFilledBuffer
      <3>2. /\ Len(mFilledQ) \in Nat \ {0}
            /\ b = mFilledQ[1]
            /\ b \in JBuffers
            /\ Len(mFilledQ') = Len(mFilledQ) - 1
            /\ \A i \in 1 .. Len(mFilledQ') : mFilledQ'[i] = mFilledQ[i + 1]
        BY ONLY <1>0, <2>3, <3>1, HeadTailFacts
      <3>3. b # Nullptr
        BY <3>2, BufferNumberAssumption DEF Nullptr, JBuffers
      <3>4. pc'[Check] = "checkStream" /\ buffer'[Check] = b
        BY <1>0, <3>3
      <3>5. AtChecker' = 1
        BY <3>4 DEF AtChecker
      <3>6. mData[b] = Len(checked) + 1
        BY <1>q, <2>1, <3>2 DEF InOrder
      <3>7. \A i \in 1 .. Len(mFilledQ') :
              mData[mFilledQ'[i]] = Len(checked) + 1 + i
        BY <1>q, <2>1, <3>2 DEF InOrder
      <3>8. received = Len(checked) + 1 + Len(mFilledQ') + AtReceiver
        <4>1. AtReceiver \in Nat
          BY DEF AtReceiver
        <4> QED
          BY <1>q, <2>1, <3>2, <4>1 DEF InOrder
      <3> QED
        BY ONLY InOrder, <2>1, <3>4, <3>5, <3>6, <3>7, <3>8 DEF InOrder
    <2> QED
      BY <2>2, <2>3
  <1>8. CASE CheckStream
    <2>1. /\ UNCHANGED <<mFilledQ, mData, received, buffer>>
          /\ pc[Check] = "checkStream"
          /\ pc'[Check] = "putEmpty"
          /\ AtReceiver' = AtReceiver
          /\ AtChecker = 1 /\ AtChecker' = 0
      BY <1>0, <1>8 DEF CheckStream, AtChecker, AtReceiver
    <2>2. /\ buffer[Check] \in JBuffers
          /\ mFilledLen[buffer[Check]] > AudLen
      BY <1>0, <2>1 DEF Owns, CheckOwns, LongFrames, CheckerSeesFilled
    <2>3. checked' = Append(checked, mData[buffer[Check]])
      BY <1>0, <1>8, <2>2 DEF CheckStream, AudLen
    <2>4. mData[buffer[Check]] = Len(checked) + 1
      BY <2>1 DEF InOrder
    <2>5. /\ Len(checked') = Len(checked) + 1
          /\ \A i \in 1 .. Len(checked) : checked'[i] = checked[i]
          /\ checked'[Len(checked) + 1] = Len(checked) + 1
      BY ONLY <1>0, <1>q, <2>3, <2>4, AppendFacts
    <2>6. \A i \in 1 .. Len(checked') : checked'[i] = i
      BY <1>q, <2>5 DEF InOrder
    <2>7. \A i \in 1 .. Len(mFilledQ) :
            mData[mFilledQ[i]] = Len(checked') + 0 + i
      BY <1>q, <2>1, <2>5 DEF InOrder
    <2>8. received = Len(checked') + 0 + Len(mFilledQ) + AtReceiver
      BY <1>q, <2>1, <2>5 DEF InOrder
    <2> QED
      BY ONLY InOrder, <2>1, <2>6, <2>7, <2>8 DEF InOrder, Check
  <1>9. CASE CheckerPutsEmpty
    <2>1. AtChecker' = AtChecker /\ AtReceiver' = AtReceiver
      BY <1>0, <1>9 DEF CheckerPutsEmpty, AtChecker, AtReceiver
    <2>2. (pc[Check] = "checkStream")' => pc[Check] = "checkStream"
      BY <1>0, <1>9 DEF CheckerPutsEmpty
    <2> QED
      BY <1>s, <1>9, <2>1, <2>2 DEF CheckerPutsEmpty, PutEmptyBuffer
  <1>10. CASE UNCHANGED vars
    BY <1>s, <1>10 DEF vars, AtChecker, AtReceiver
  <1> QED
    BY <1>1, <1>2, <1>3, <1>4, <1>5, <1>6, <1>7, <1>8, <1>9, <1>10
       DEF Next, Receiver, Checker

(***************************************************************************)
(* Frames are checked once each, in the order they were received, and none *)
(* is lost between the two threads.                                        *)
(***************************************************************************)
THEOREM CheckedInOrder == Spec => []InOrder
  <1>1. Spec => []LongFrames
    BY TypeCorrect, EachBufferInOnePlace, LongFramesInit, LongFramesStep, PTL
       DEF Spec
  <1> QED
    BY <1>1, TypeCorrect, EachBufferInOnePlace, InOrderInit, InOrderStep, PTL
       DEF Spec

-----------------------------------------------------------------------------
(***************************************************************************)
(* The frame under check holds still: only recvStream writes into a buffer *)
(* while the checker has one, and it writes into the receiver's, which by  *)
(* Ownership is another.                                                   *)
(***************************************************************************)
LEMMA StableStep ==
  ASSUME TypeOK, Ownership, [Next]_vars,
         pc[Check] = "checkStream", pc'[Check] = "checkStream"
  PROVE  /\ mData'[buffer[Check]] = mData[buffer[Check]]
         /\ mFilledLen'[buffer[Check]] = mFilledLen[buffer[Check]]
  <1>1. /\ pc \in [Threads -> RecvLabels \cup CheckLabels]
        /\ buffer[Check] \in JBuffers
        /\ mFilledLen \in [JBuffers -> Nat]
        /\ mData \in [JBuffers -> Nat]
    BY DEF TypeOK, Threads, Owns, CheckOwns, Recv, Check
  <1>2. CASE RecvStream
    <2>1. buffer[Recv] # buffer[Check]
      BY <1>2 DEF RecvStream, Ownership, Owns, RecvOwns, CheckOwns, Recv, Check
    <2> QED
      BY <1>1, <1>2, <2>1 DEF RecvStream
  <1>3. CASE CheckStream
    BY <1>1, <1>3 DEF CheckStream, Goto, Threads, Recv, Check
  <1>4. CASE UNCHANGED dataVars
    BY <1>4 DEF dataVars
  <1>5. RecvStream \/ CheckStream \/ UNCHANGED dataVars
    BY DEF Next, Receiver, Checker, Lock, ReceiverGetsEmpty, RecvExit,
           ReceiverPutsFilled, ReceiverPutsEmpty, CheckerGetsFilled,
           CheckerPutsEmpty, vars
  <1> QED
    BY <1>2, <1>3, <1>4, <1>5

(***************************************************************************)
(* While checkStream works on a buffer, no step of the receiver changes    *)
(* what is in it.                                                          *)
(***************************************************************************)
THEOREM FrameHoldsStill == Spec => StableWhileChecked
  <1>1. TypeOK /\ Ownership /\ [Next]_vars
          => [pc[Check] = "checkStream" /\ pc'[Check] = "checkStream"
                => /\ mData'[buffer[Check]] = mData[buffer[Check]]
                   /\ mFilledLen'[buffer[Check]] = mFilledLen[buffer[Check]]]_vars
    BY StableStep
  <1> QED
    BY <1>1, TypeCorrect, EachBufferInOnePlace, PTL
       DEF Spec, StableWhileChecked

-----------------------------------------------------------------------------
(***************************************************************************)
(* Refinement: the pipeline implements the safety part of FrameChannel.    *)
(* By InOrder, the content of the channel is what has been received and    *)
(* not checked, whatever buffers hold it.                                  *)
(***************************************************************************)
Numbers(from, to) == [i \in 1 .. to - from |-> from + i]

LEMMA InFlightAre ==
  ASSUME TypeOK, InOrder
  PROVE  /\ InFlight = Numbers(Len(checked), received)
         /\ Len(checked) \in Nat /\ received \in Nat /\ Len(checked) <= received
  <1>1. /\ Len(mFilledQ) \in Nat /\ Len(checked) \in Nat /\ received \in Nat
        /\ AtChecker \in 0 .. 1 /\ AtReceiver \in 0 .. 1
    BY DEF TypeOK, AtChecker, AtReceiver
  <1>2. received = Len(checked) + AtChecker + Len(mFilledQ) + AtReceiver
    BY DEF InOrder
  <1>3. /\ AtChecker = 1 => mData[buffer[Check]] = Len(checked) + 1
        /\ \A i \in 1 .. Len(mFilledQ) :
             mData[mFilledQ[i]] = Len(checked) + AtChecker + i
        /\ AtReceiver = 1 => mData[buffer[Recv]] = received
    BY DEF InOrder, AtChecker
  <1>4. received - Len(checked) = AtChecker + Len(mFilledQ) + AtReceiver
    BY ONLY <1>1, <1>2
  <1>5. ASSUME NEW i \in 1 .. AtChecker + Len(mFilledQ) + AtReceiver
        PROVE  mData[IF i <= AtChecker THEN buffer[Check]
                     ELSE IF i <= AtChecker + Len(mFilledQ)
                          THEN mFilledQ[i - AtChecker]
                          ELSE buffer[Recv]] = Len(checked) + i
    <2>1. CASE i <= AtChecker
      <3>1. AtChecker = 1 /\ i = 1
        BY ONLY <1>1, <2>1, i \in 1 .. AtChecker + Len(mFilledQ) + AtReceiver
      <3> QED
        BY ONLY <1>3, <2>1, <3>1
    <2>2. CASE ~ (i <= AtChecker) /\ i <= AtChecker + Len(mFilledQ)
      <3>1. /\ i - AtChecker \in 1 .. Len(mFilledQ)
            /\ Len(checked) + AtChecker + (i - AtChecker) = Len(checked) + i
        BY ONLY <1>1, <2>2, i \in 1 .. AtChecker + Len(mFilledQ) + AtReceiver
      <3> QED
        BY ONLY <1>3, <2>2, <3>1
    <2>3. CASE ~ (i <= AtChecker) /\ ~ (i <= AtChecker + Len(mFilledQ))
      <3>1. AtReceiver = 1 /\ received = Len(checked) + i
        BY ONLY <1>1, <1>2, <2>3, i \in 1 .. AtChecker + Len(mFilledQ) + AtReceiver
      <3> QED
        BY ONLY <1>3, <2>3, <3>1
    <2> QED
      BY ONLY <2>1, <2>2, <2>3
  <1>6. InFlight = Numbers(Len(checked), received)
    BY ONLY <1>4, <1>5 DEF InFlight, Numbers
  <1> QED
    BY ONLY <1>1, <1>2, <1>6

LEMMA NumbersFacts ==
  ASSUME NEW c \in Nat, NEW r \in Nat, c <= r
  PROVE  /\ Numbers(c, r) \in Seq(Nat)
         /\ Len(Numbers(c, r)) = r - c
         /\ \A i \in 1 .. r - c : Numbers(c, r)[i] = c + i
  <1>1. r - c \in Nat
    OBVIOUS
  <1>2. \A i \in 1 .. r - c : c + i \in Nat
    OBVIOUS
  <1> QED
    BY <1>1, <1>2 DEF Numbers

LEMMA SameSequence ==
  ASSUME NEW s \in Seq(Nat), NEW t \in Seq(Nat), Len(s) = Len(t),
         \A i \in 1 .. Len(s) : s[i] = t[i]
  PROVE  s = t
  OBVIOUS

LEMMA NumbersGrow ==
  ASSUME NEW c \in Nat, NEW r \in Nat, c <= r
  PROVE  Numbers(c, r + 1) = Append(Numbers(c, r), r + 1)
  <1> DEFINE s == Numbers(c, r + 1)
             n == Numbers(c, r)
             t == Append(n, r + 1)
  <1>1. /\ s \in Seq(Nat) /\ Len(s) = (r + 1) - c
        /\ \A i \in 1 .. (r + 1) - c : s[i] = c + i
    BY NumbersFacts
  <1>2. /\ n \in Seq(Nat) /\ Len(n) = r - c
        /\ \A i \in 1 .. r - c : n[i] = c + i
    BY NumbersFacts
  <1> HIDE DEF s, n
  <1>3. /\ t \in Seq(Nat) /\ Len(t) = Len(n) + 1
        /\ \A i \in 1 .. Len(n) : t[i] = n[i]
        /\ t[Len(n) + 1] = r + 1
    BY <1>2, AppendFacts
  <1> HIDE DEF t
  <1>n. c \in Nat /\ r \in Nat /\ c <= r
    OBVIOUS
  <1>l. Len(s) = Len(t) /\ Len(s) = Len(n) + 1 /\ Len(n) = r - c
    BY ONLY <1>n, <1>1, <1>2, <1>3
  <1>4. ASSUME NEW i \in 1 .. Len(s) PROVE s[i] = t[i]
    <2>1. CASE i \in 1 .. r - c
      <3>1. i \in 1 .. (r + 1) - c
        BY ONLY <1>n, <2>1
      <3> QED
        BY ONLY <1>1, <1>2, <1>3, <1>l, <2>1, <3>1
    <2>2. CASE i = r - c + 1
      <3>1. i \in 1 .. (r + 1) - c /\ c + i = r + 1 /\ i = Len(n) + 1
        BY ONLY <1>n, <1>l, <2>2
      <3> QED
        BY ONLY <1>1, <1>3, <3>1
    <2> QED
      BY ONLY <1>n, <1>l, <2>1, <2>2, i \in 1 .. Len(s)
  <1>5. s = t
    BY ONLY <1>1, <1>3, <1>l, <1>4, SameSequence
  <1> QED
    BY <1>5 DEF s, t, n

LEMMA NumbersShrink ==
  ASSUME NEW c \in Nat, NEW r \in Nat, c < r
  PROVE  /\ Numbers(c, r) # << >>
         /\ Head(Numbers(c, r)) = c + 1
         /\ Numbers(c + 1, r) = Tail(Numbers(c, r))
  <1> DEFINE s == Numbers(c + 1, r)
             n == Numbers(c, r)
             t == Tail(n)
  <1>1. /\ s \in Seq(Nat) /\ Len(s) = r - (c + 1)
        /\ \A i \in 1 .. r - (c + 1) : s[i] = (c + 1) + i
    BY NumbersFacts
  <1>2. /\ n \in Seq(Nat) /\ Len(n) = r - c
        /\ \A i \in 1 .. r - c : n[i] = c + i
    BY NumbersFacts
  <1> HIDE DEF s, n
  <1>3. n # << >>
    <2>1. Len(n) # 0
      BY ONLY <1>2, c \in Nat, r \in Nat, c < r
    <2> QED
      BY ONLY <2>1
  <1>4. /\ t \in Seq(Nat) /\ Len(t) = Len(n) - 1
        /\ \A i \in 1 .. Len(t) : t[i] = n[i + 1]
        /\ Head(n) = n[1]
    BY ONLY <1>2, <1>3, HeadTailFacts
  <1> HIDE DEF t
  <1>5. Len(s) = Len(t) /\ \A i \in 1 .. Len(s) : s[i] = t[i]
    BY <1>1, <1>2, <1>4
  <1>6. s = t
    BY ONLY <1>1, <1>4, <1>5, SameSequence
  <1>7. Head(n) = c + 1
    BY <1>2, <1>4
  <1> QED
    BY <1>3, <1>6, <1>7 DEF s, t, n

(***************************************************************************)
(* The capacity of the channel.  When recvStream returns a frame, the      *)
(* receiver's buffer, the queued ones and the checker's are different, so  *)
(* there are no more of them than buffers.                                 *)
(***************************************************************************)
LEMMA RoomForFrame ==
  ASSUME TypeOK, Ownership, pc[Recv] = "recvStream"
  PROVE  AtChecker + Len(mFilledQ) + AtReceiver < BufferNumber
  <1> DEFINE n == Len(mFilledQ)
             c == AtChecker
             f == [i \in 1 .. n + 1 + c |->
                     IF i <= n THEN mFilledQ[i]
                     ELSE IF i = n + 1 THEN buffer[Recv] ELSE buffer[Check]]
  <1>1. n \in Nat /\ c \in 0 .. 1 /\ AtReceiver = 0
    BY DEF TypeOK, AtChecker, AtReceiver
  <1>2. BufferNumber \in Nat \ {0}
    BY BufferNumberAssumption
  <1>3. mFilledQ \in Seq(JBuffers) /\ Distinct(mFilledQ)
    BY DEF TypeOK, Ownership
  <1>4. buffer[Recv] \in JBuffers /\ ~ Queued(mFilledQ, buffer[Recv])
    BY DEF TypeOK, Ownership, Owns, RecvOwns, Threads
  <1>5. c = 1 => /\ buffer[Check] \in JBuffers
                 /\ ~ Queued(mFilledQ, buffer[Check])
                 /\ buffer[Recv] # buffer[Check]
    BY DEF TypeOK, Ownership, Owns, RecvOwns, CheckOwns, Threads, Recv, Check,
           AtChecker
  <1>6. /\ \A i \in 1 .. n : mFilledQ[i] \in JBuffers
        /\ \A i \in 1 .. n : mFilledQ[i] # buffer[Recv]
        /\ c = 1 => \A i \in 1 .. n : mFilledQ[i] # buffer[Check]
        /\ \A i, j \in 1 .. n : mFilledQ[i] = mFilledQ[j] => i = j
    BY <1>3, <1>4, <1>5 DEF Queued, Distinct
  <1> HIDE DEF n, c
  <1>7. f \in [1 .. n + 1 + c -> JBuffers]
    BY ONLY <1>1, <1>4, <1>5, <1>6
  <1>8. ASSUME NEW i \in 1 .. n + 1 + c, NEW j \in 1 .. n + 1 + c, f[i] = f[j]
        PROVE  i = j
    <2>1. \A k \in 1 .. n + 1 + c :
            /\ k \in 1 .. n \/ k = n + 1 \/ (k = n + 2 /\ c = 1)
            /\ k \in 1 .. n => f[k] = mFilledQ[k]
            /\ k = n + 1 => f[k] = buffer[Recv]
            /\ k = n + 2 => f[k] = buffer[Check]
      BY ONLY <1>1
    <2> HIDE DEF f
    <2> QED
      BY ONLY <1>1, <1>4, <1>5, <1>6, <1>8, <2>1,
              i \in 1 .. n + 1 + c, j \in 1 .. n + 1 + c
  <1> HIDE DEF f
  <1>9. ASSUME n + 1 + c > BufferNumber PROVE FALSE
    <2>1. /\ IsFiniteSet(1 .. n + 1 + c)
          /\ Cardinality(1 .. n + 1 + c) = n + 1 + c
      BY <1>1, FS_Interval
    <2>2. /\ IsFiniteSet(JBuffers)
          /\ Cardinality(JBuffers) = BufferNumber
      BY <1>2, FS_Interval DEF JBuffers
    <2>3. Cardinality(JBuffers) < Cardinality(1 .. n + 1 + c)
      BY <1>1, <1>2, <1>9, <2>1, <2>2
    <2>4. \E i, j \in 1 .. n + 1 + c : i # j /\ f[i] = f[j]
      BY ONLY <1>7, <2>1, <2>2, <2>3, FS_PigeonHole
    <2> QED
      BY ONLY <1>8, <2>4
  <1>10. c + n + AtReceiver < BufferNumber
    BY ONLY <1>1, <1>2, <1>9
  <1> QED
    BY ONLY <1>10 DEF n, c

LEMMA ChannelInit == Init => Channel!ChanInit
  <1> SUFFICES ASSUME Init PROVE Channel!ChanInit
    OBVIOUS
  <1>1. /\ InFlight = Numbers(Len(checked), received)
        /\ checked = << >> /\ received = 0 /\ process = Running
    BY TypeInit, InOrderInit, InFlightAre DEF Init
  <1>2. Len(checked) = 0
    BY ONLY <1>1
  <1>3. InFlight = << >>
    <2>1. InFlight = Numbers(0, 0)
      BY ONLY <1>1, <1>2
    <2>2. Numbers(0, 0) \in Seq(Nat) /\ Len(Numbers(0, 0)) = 0
      BY NumbersFacts
    <2> QED
      BY ONLY <2>1, <2>2
  <1> QED
    BY <1>1, <1>3 DEF Channel!ChanInit

(***************************************************************************)
(* recvStream sends, checkStream delivers, exit closes the channel, and    *)
(* every other step moves a frame from buffer to buffer at most, which the *)
(* channel does not notice.                                                *)
(***************************************************************************)
LEMMA ChannelStep ==
  ASSUME TypeOK, Ownership, LongFrames, InOrder, TypeOK', InOrder', [Next]_vars
  PROVE  [Channel!ChanNext]_(Channel!chanVars)
  <1> DEFINE c == Len(checked)
  <1>1. /\ InFlight = Numbers(c, received)
        /\ c \in Nat /\ received \in Nat /\ c <= received
    BY InFlightAre
  <1>2. InFlight' = Numbers(Len(checked'), received')
    <2>1. (TypeOK /\ InOrder => InFlight = Numbers(Len(checked), received))'
      BY InFlightAre, PTL
    <2> QED
      BY <2>1
  <1>3. ASSUME UNCHANGED <<checked, received, process>>
        PROVE  UNCHANGED Channel!chanVars
    BY <1>1, <1>2, <1>3 DEF Channel!chanVars
  <1>4. CASE RecvStream
    <2> PICK len \in FrameLens :
          received' = IF len > AudLen THEN received + 1 ELSE received
      BY <1>4 DEF RecvStream
    <2>1. UNCHANGED <<checked, process>> /\ process = Running
      BY <1>4 DEF RecvStream
    <2>2. CASE received' = received
      BY <1>3, <2>1, <2>2
    <2>3. CASE received' = received + 1
      <3>1. InFlight' = Append(InFlight, received + 1)
        BY <1>1, <1>2, <2>1, <2>3, NumbersGrow
      <3>2. Len(InFlight) < BufferNumber
        <4>1. AtChecker + Len(mFilledQ) + AtReceiver < BufferNumber
          BY <1>4, RoomForFrame DEF RecvStream
        <4>2. /\ received = c + AtChecker + Len(mFilledQ) + AtReceiver
              /\ AtChecker \in Nat /\ AtReceiver \in Nat /\ Len(mFilledQ) \in Nat
          BY DEF InOrder, TypeOK, AtChecker, AtReceiver
        <4>3. Len(InFlight) = received - c
          BY <1>1, NumbersFacts
        <4>4. received - c = AtChecker + Len(mFilledQ) + AtReceiver
          BY ONLY <1>1, <4>2
        <4> QED
          BY ONLY <4>1, <4>3, <4>4
      <3>3. Channel!Send
        BY <2>1, <2>3, <3>1, <3>2 DEF Channel!Send
      <3> QED
        BY <3>3 DEF Channel!ChanNext
    <2> QED
      BY <2>2, <2>3
  <1>5. CASE CheckStream
    <2>1. /\ pc[Check] = "checkStream" /\ process = Running
          /\ UNCHANGED <<received, process>>
          /\ buffer[Check] \in JBuffers
          /\ mFilledLen[buffer[Check]] > AudLen /\ mFilledLen \in [JBuffers -> Nat]
          /\ mData[buffer[Check]] = c + 1
      BY <1>5 DEF CheckStream, TypeOK, Threads, Owns, CheckOwns, Recv, Check,
                  LongFrames, CheckerSeesFilled, InOrder
    <2>2. checked' = Append(checked, c + 1)
      BY <1>5, <2>1 DEF CheckStream, AudLen
    <2>3. Len(checked') = c + 1
      <3>1. checked \in Seq(Nat)
        BY DEF TypeOK
      <3>2. c + 1 \in Nat
        BY ONLY <1>1
      <3> QED
        BY ONLY <2>2, <3>1, <3>2, AppendFacts
    <2>4. c < received
      <3>1. /\ received = c + AtChecker + Len(mFilledQ) + AtReceiver
            /\ AtChecker = 1 /\ AtReceiver \in Nat /\ Len(mFilledQ) \in Nat
        BY <2>1 DEF InOrder, TypeOK, AtChecker, AtReceiver
      <3> QED
        BY ONLY <1>1, <3>1
    <2>5. /\ InFlight # << >>
          /\ Head(InFlight) = c + 1
          /\ InFlight' = Tail(InFlight)
      BY <1>1, <1>2, <2>1, <2>3, <2>4, NumbersShrink
    <2>6. Channel!Deliver
      BY <2>1, <2>2, <2>5 DEF Channel!Deliver
    <2> QED
      BY <2>6 DEF Channel!ChanNext
  <1>6. CASE RecvExit
    <2>1. /\ process = Running /\ process' \in ExitCodes
          /\ UNCHANGED <<checked, received>>
      BY <1>6 DEF RecvExit, dataVars
    <2>2. process' # Running
      BY <2>1, ExitCodesAssumption DEF Running
    <2>3. Channel!Close
      BY <1>1, <1>2, <2>1, <2>2 DEF Channel!Close
    <2> QED
      BY <2>3 DEF Channel!ChanNext
  <1>7. CASE UNCHANGED <<dataVars, process>>
    BY <1>3, <1>7 DEF dataVars
  <1>8. \/ RecvStream \/ CheckStream \/ RecvExit
        \/ UNCHANGED <<dataVars, process>>
    BY DEF Next, Receiver, Checker, Lock, ReceiverGetsEmpty,
           ReceiverPutsFilled, ReceiverPutsEmpty, CheckerGetsFilled,
           CheckerPutsEmpty, vars
  <1> QED
    BY <1>4, <1>5, <1>6, <1>7, <1>8

(***************************************************************************)
(* For every pool, the two threads and the pool between them implement     *)
(* a first-in first-out channel with as many places as there are buffers.  *)
(***************************************************************************)
THEOREM PipelineIsChannel ==
  Spec => Channel!ChanInit /\ [][Channel!ChanNext]_(Channel!chanVars)
  <1>1. Spec => []LongFrames
    BY TypeCorrect, EachBufferInOnePlace, LongFramesInit, LongFramesStep, PTL
       DEF Spec
  <1>2. TypeOK /\ Ownership /\ LongFrames /\ InOrder /\ TypeOK' /\ InOrder'
          /\ [Next]_vars => [Channel!ChanNext]_(Channel!chanVars)
    BY ChannelStep
  <1> QED
    BY <1>1, <1>2, ChannelInit, TypeCorrect, EachBufferInOnePlace,
       CheckedInOrder, PTL DEF Spec

=============================================================================
