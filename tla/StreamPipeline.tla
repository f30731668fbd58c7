--------------------------- MODULE StreamPipeline ---------------------------
(***************************************************************************)
(* The two threads of the tool and the buffer pool between them:           *)
(* ReceiverBase::threadRun (receiver_base.cpp:87-133), which fills empty   *)
(* buffers and queues them, and CheckerBase::threadRun                     *)
(* (checker_base.cpp:87-130), which checks queued buffers and gives them   *)
(* back.                                                                   *)
(*                                                                         *)
(* pc[t] names the call the thread is about to make; the label that ends   *)
(* in "Locked" is the same call once it has taken the mutex, so another    *)
(* thread can run between any two lines that share state.  buffer[t] is    *)
(* the local variable of threadRun: as in the code it keeps its value      *)
(* after the buffer has been given away, so a stale pointer is             *)
(* representable.                                                          *)
(*                                                                         *)
(* recvStream and checkStream are virtual.  Here recvStream leaves any     *)
(* length of FrameLens in the buffer, or ends the process with one of      *)
(* ExitCodes (file_receiver.cpp:96,106,115,123, udp_receiver.cpp:130,148). *)
(* checkStream records which frame it looked at.  The error returns of     *)
(* both are left out: the derived classes return 0 or do not return, the   *)
(* null buffer that makes them fail being impossible (TypeOK: a thread in  *)
(* the call holds a buffer).  mIsStop is only set by destructors that main *)
(* never runs.                                                             *)
(***************************************************************************)
EXTENDS StreamBuffer

CONSTANTS
  FrameLens,                 \* values recvStream may leave in mFilledLen
  ExitCodes,                 \* codes recvStream may call exit() with
  MaxFrames                  \* bound of the model: frames received

AudLen == 6                  \* a buffer no longer than an AUD is dropped

ASSUME FrameLensAssumption == FrameLens \subseteq Nat \ {0}
ASSUME ExitCodesAssumption == ExitCodes \subseteq 0 .. 255
ASSUME MaxFramesAssumption == MaxFrames \in Nat

Recv    == "recv"            \* the name prctl gives the receiver thread
Check   == "check"           \* the name prctl gives the checker thread
Threads == {Recv, Check}

Running == 256               \* not an exit code
NoFrame == 0                 \* mData of a buffer without a frame to check

VARIABLES
  pc,                        \* where each thread is in its threadRun
  buffer,                    \* threadRun's local pointer, one per thread
  mFilledLen,                \* JBuffer::mFilledLen of each buffer
  mData,                     \* the number of the frame in each buffer
  received,                  \* how many frames longer than an AUD arrived
  checked,                   \* the frames checkStream was given, in order
  process                    \* Running, or the code passed to exit()

threadVars == <<pc, buffer>>
dataVars   == <<mFilledLen, mData, received, checked>>
vars       == <<poolVars, threadVars, dataVars, process>>

EmptyCalls  == {"getEmpty", "putEmpty"}
FilledCalls == {"getFilled", "putFilled"}

Locked(call) == CASE call = "getEmpty"  -> "getEmptyLocked"
                  [] call = "putEmpty"  -> "putEmptyLocked"
                  [] call = "getFilled" -> "getFilledLocked"
                  [] call = "putFilled" -> "putFilledLocked"

Goto(t, label) == pc' = [pc EXCEPT ![t] = label]

Init ==
  /\ MakeBuffer
  /\ pc = [t \in Threads |-> IF t = Recv THEN "getEmpty" ELSE "getFilled"]
  /\ buffer = [t \in Threads |-> Nullptr]
  /\ mFilledLen = [b \in JBuffers |-> 0]
  /\ mData = [b \in JBuffers |-> NoFrame]
  /\ received = 0
  /\ checked = << >>
  /\ process = Running

(***************************************************************************)
(* The first line of every StreamBuffer operation: take its mutex.         *)
(***************************************************************************)
Lock(t) ==
  /\ process = Running
  /\ \/ pc[t] \in EmptyCalls /\ LockEmpty(t)
     \/ pc[t] \in FilledCalls /\ LockFilled(t)
  /\ Goto(t, Locked(pc[t]))
  /\ UNCHANGED <<buffer, dataVars, process>>

(***************************************************************************)
(* ReceiverBase::threadRun, lines 102-107: a null result restarts the loop *)
(* after usleep.                                                           *)
(***************************************************************************)
\* Mutant: the null pointer is not tested.
ReceiverGetsEmptyUnchecked ==
  /\ process = Running
  /\ pc[Recv] = "getEmptyLocked"
  /\ \E b \in JBuffers \cup {Nullptr} :
       /\ GetEmptyBuffer(b)
       /\ buffer' = [buffer EXCEPT ![Recv] = b]
       /\ Goto(Recv, "recvStream")
  /\ UNCHANGED <<dataVars, process>>

ReceiverGetsEmpty ==
  /\ process = Running
  /\ pc[Recv] = "getEmptyLocked"
  /\ \E b \in JBuffers \cup {Nullptr} :
       /\ GetEmptyBuffer(b)
       /\ buffer' = [buffer EXCEPT ![Recv] = b]
       /\ Goto(Recv, IF b = Nullptr THEN "getEmpty" ELSE "recvStream")
  /\ UNCHANGED <<dataVars, process>>

(***************************************************************************)
(* Line 110 with the test of lines 121-124 on its result: what recvStream  *)
(* left is queued only when it is longer than an AUD.                      *)
(***************************************************************************)
\* Mutant: < for <=, so a buffer that holds an AUD only is queued.
RecvStreamOffByOne ==
  /\ process = Running
  /\ pc[Recv] = "recvStream"
  /\ received < MaxFrames
  /\ \E len \in FrameLens :
       /\ mFilledLen' = [mFilledLen EXCEPT ![buffer[Recv]] = len]
       /\ mData' = [mData EXCEPT ![buffer[Recv]] = received + 1]
       /\ received' = received + 1
       /\ Goto(Recv, IF len >= AudLen THEN "putFilled" ELSE "putEmpty")
  /\ UNCHANGED <<poolVars, buffer, checked, process>>

RecvStream ==
  /\ process = Running
  /\ pc[Recv] = "recvStream"
  /\ received < MaxFrames
  /\ \E len \in FrameLens :
       LET b == buffer[Recv]
           n == IF len > AudLen THEN received + 1 ELSE NoFrame
       IN /\ mFilledLen' = [mFilledLen EXCEPT ![b] = len]
          /\ mData' = [mData EXCEPT ![b] = n]
          /\ received' = IF len > AudLen THEN received + 1 ELSE received
          /\ Goto(Recv, IF len > AudLen THEN "putFilled" ELSE "putEmpty")
  /\ UNCHANGED <<poolVars, buffer, checked, process>>

(***************************************************************************)
(* recvStream calls exit(): the process ends, the checker with it,         *)
(* wherever it is.  Which of its exits this is, and whether it says        *)
(* anything first, is the derived class's business.                        *)
(***************************************************************************)
RecvExit ==
  /\ process = Running
  /\ pc[Recv] = "recvStream"
  /\ process' \in ExitCodes
  /\ UNCHANGED <<poolVars, threadVars, dataVars>>

\* Mutant: the receiver goes on with the buffer it has given away.
ReceiverPutsFilledKeeps ==
  /\ process = Running
  /\ pc[Recv] = "putFilledLocked"
  /\ PutFilledBuffer(buffer[Recv])
  /\ Goto(Recv, "recvStream")
  /\ UNCHANGED <<buffer, dataVars, process>>

ReceiverPutsFilled ==
  /\ process = Running
  /\ pc[Recv] = "putFilledLocked"
  /\ PutFilledBuffer(buffer[Recv])
  /\ Goto(Recv, "getEmpty")
  /\ UNCHANGED <<buffer, dataVars, process>>

\* Mutant: the continue of line 123 is missing.
ReceiverPutsEmptyGoesOn ==
  /\ process = Running
  /\ pc[Recv] = "putEmptyLocked"
  /\ PutEmptyBuffer(buffer[Recv])
  /\ Goto(Recv, "putFilled")
  /\ UNCHANGED <<buffer, dataVars, process>>

ReceiverPutsEmpty ==
  /\ process = Running
  /\ pc[Recv] = "putEmptyLocked"
  /\ PutEmptyBuffer(buffer[Recv])
  /\ Goto(Recv, "getEmpty")
  /\ UNCHANGED <<buffer, dataVars, process>>

(***************************************************************************)
(* CheckerBase::threadRun, lines 102-107.                                  *)
(***************************************************************************)
CheckerGetsFilled ==
  /\ process = Running
  /\ pc[Check] = "getFilledLocked"
  /\ \E b \in JBuffers \cup {Nullptr} :
       /\ GetFilledBuffer(b)
       /\ buffer' = [buffer EXCEPT ![Check] = b]
       /\ Goto(Check, IF b = Nullptr THEN "getFilled" ELSE "checkStream")
  /\ UNCHANGED <<dataVars, process>>

(***************************************************************************)
(* Lines 110-118: checkStream looks at the frame, then mFilledLen is       *)
(* reset.  A buffer whose mFilledLen is 0 is not looked at                 *)
(* (h264_checker.cpp:115-118).                                             *)
(***************************************************************************)
CheckStream ==
  /\ process = Running
  /\ pc[Check] = "checkStream"
  /\ LET b == buffer[Check]
     IN /\ checked' = IF mFilledLen[b] = 0 THEN checked
                      ELSE Append(checked, mData[b])
        /\ mFilledLen' = [mFilledLen EXCEPT ![b] = 0]
  /\ Goto(Check, "putEmpty")
  /\ UNCHANGED <<poolVars, buffer, mData, received, process>>

CheckerPutsEmpty ==
  /\ process = Running
  /\ pc[Check] = "putEmptyLocked"
  /\ PutEmptyBuffer(buffer[Check])
  /\ Goto(Check, "getFilled")
  /\ UNCHANGED <<buffer, dataVars, process>>

Receiver == \/ Lock(Recv)
            \/ ReceiverGetsEmpty
            \/ RecvStream
            \/ RecvExit
            \/ ReceiverPutsFilled
            \/ ReceiverPutsEmpty

Checker == \/ Lock(Check)
           \/ CheckerGetsFilled
           \/ CheckStream
           \/ CheckerPutsEmpty

Next == Receiver \/ Checker

Spec == Init /\ [][Next]_vars

(***************************************************************************)
(* The fairness the code justifies.  A thread that is not blocked keeps    *)
(* running, and checkStream returns: weak fairness.  A mutex is held for a *)
(* push or a pop and the threads sleep between two polls of an empty       *)
(* queue, so a thread that waits for one finds it free again and again and *)
(* is let in: strong fairness.  Nothing is assumed of recvStream, which    *)
(* waits for the network or the file.                                      *)
(***************************************************************************)
Fairness ==
  /\ SF_vars(Lock(Recv))
  /\ SF_vars(Lock(Check))
  /\ WF_vars(ReceiverGetsEmpty)
  /\ WF_vars(ReceiverPutsFilled)
  /\ WF_vars(ReceiverPutsEmpty)
  /\ WF_vars(CheckerGetsFilled)
  /\ WF_vars(CheckStream)
  /\ WF_vars(CheckerPutsEmpty)

FairSpec == Spec /\ Fairness

-----------------------------------------------------------------------------
(***************************************************************************)
(* The labels at which a thread's local pointer is a buffer it owns, and   *)
(* those at which it is inside each mutex.                                 *)
(***************************************************************************)
RecvOwns  == {"recvStream", "putFilled", "putFilledLocked",
              "putEmpty", "putEmptyLocked"}
CheckOwns == {"checkStream", "putEmpty", "putEmptyLocked"}

Owns(t) == pc[t] \in IF t = Recv THEN RecvOwns ELSE CheckOwns

InEmptyLock  == {"getEmptyLocked", "putEmptyLocked"}
InFilledLock == {"getFilledLocked", "putFilledLocked"}

RecvLabels  == {"getEmpty", "getEmptyLocked"} \cup RecvOwns
CheckLabels == {"getFilled", "getFilledLocked"} \cup CheckOwns

(***************************************************************************)
(* The frames between the two virtual calls, oldest first: the one the     *)
(* checker has taken, the queued ones, the one the receiver is queueing.   *)
(***************************************************************************)
AtChecker  == IF pc[Check] = "checkStream" THEN 1 ELSE 0
AtReceiver == IF pc[Recv] \in {"putFilled", "putFilledLocked"} THEN 1 ELSE 0

InFlight ==
  [i \in 1 .. AtChecker + Len(mFilledQ) + AtReceiver |->
     mData[IF i <= AtChecker THEN buffer[Check]
           ELSE IF i <= AtChecker + Len(mFilledQ)
                THEN mFilledQ[i - AtChecker]
                ELSE buffer[Recv]]]

Channel == INSTANCE FrameChannel
             WITH Capacity <- BufferNumber, chan <- InFlight,
                  sent <- received, delivered <- checked,
                  open <- (process = Running)

(***************************************************************************)
(* The variables have their types, and a thread that owns a buffer has a   *)
(* pointer to one (the null pointer is never dereferenced by recvStream,   *)
(* checkStream or a put).                                                  *)
(***************************************************************************)
TypeOK ==
  /\ mEmptyQ \in Seq(JBuffers)
  /\ mFilledQ \in Seq(JBuffers)
  /\ mEmptyLock \in Threads \cup {Free}
  /\ mFilledLock \in Threads \cup {Free}
  /\ pc \in [Threads -> RecvLabels \cup CheckLabels]
  /\ pc[Recv] \in RecvLabels
  /\ pc[Check] \in CheckLabels
  /\ buffer \in [Threads -> JBuffers \cup {Nullptr}]
  /\ \A t \in Threads : Owns(t) => buffer[t] \in JBuffers
  /\ mFilledLen \in [JBuffers -> Nat]
  /\ mData \in [JBuffers -> Nat]
  /\ received \in Nat
  /\ checked \in Seq(Nat)
  /\ process \in ExitCodes \cup {Running}

(***************************************************************************)
(* A thread holds a mutex exactly while it is in the body of an operation  *)
(* on that queue: no two bodies overlap, and every path out of an          *)
(* operation, the early returns of the gets included, has unlocked it.     *)
(***************************************************************************)
LockDiscipline ==
  \A t \in Threads :
    /\ mEmptyLock = t <=> pc[t] \in InEmptyLock
    /\ mFilledLock = t <=> pc[t] \in InFilledLock

(***************************************************************************)
(* Every buffer is in exactly one place: in one queue, once, or owned by   *)
(* one thread.  No buffer leaks, none is handed out twice, and a thread    *)
(* never works on a buffer that the other one can reach through the stale  *)
(* pointer it still has.                                                   *)
(***************************************************************************)
Distinct(q) == \A i, j \in 1 .. Len(q) : q[i] = q[j] => i = j

Queued(q, b) == \E i \in 1 .. Len(q) : q[i] = b

Ownership ==
  /\ Distinct(mEmptyQ)
  /\ Distinct(mFilledQ)
  /\ \A b \in JBuffers : ~ (Queued(mEmptyQ, b) /\ Queued(mFilledQ, b))
  /\ \A t \in Threads :
       Owns(t) => /\ ~ Queued(mEmptyQ, buffer[t])
                  /\ ~ Queued(mFilledQ, buffer[t])
  /\ Owns(Recv) /\ Owns(Check) => buffer[Recv] # buffer[Check]
  /\ \A b \in JBuffers : \/ Queued(mEmptyQ, b)
                         \/ Queued(mFilledQ, b)
                         \/ \E t \in Threads : Owns(t) /\ buffer[t] = b

(***************************************************************************)
(* Frames are checked once each and in the order they were received, and   *)
(* every frame that is not checked yet is in flight: the checked frames    *)
(* are 1, 2, ..., the checker's, the queued ones and the receiver's follow *)
(* without a gap, up to the last one received.                             *)
(***************************************************************************)
InOrder ==
  /\ \A i \in 1 .. Len(checked) : checked[i] = i
  /\ pc[Check] = "checkStream" => mData[buffer[Check]] = Len(checked) + 1
  /\ \A i \in 1 .. Len(mFilledQ) :
       mData[mFilledQ[i]] = Len(checked) + AtChecker + i
  /\ AtReceiver = 1 => mData[buffer[Recv]] = received
  /\ received = Len(checked) + AtChecker + Len(mFilledQ) + AtReceiver

(***************************************************************************)
(* checkStream never gets a buffer that is empty or no longer than an AUD, *)
(* whatever mFilledLen the buffer was given back with in an earlier round  *)
(* (a buffer the receiver drops keeps its old mFilledLen).                 *)
(***************************************************************************)
CheckerSeesFilled ==
  pc[Check] = "checkStream" => mFilledLen[buffer[Check]] > AudLen

(***************************************************************************)
(* While checkStream works on a buffer, nothing the receiver does changes  *)
(* what is in it: the decoder reads a frame that holds still.              *)
(***************************************************************************)
StableWhileChecked ==
  [][pc[Check] = "checkStream" /\ pc'[Check] = "checkStream"
       => /\ mData'[buffer[Check]] = mData[buffer[Check]]
          /\ mFilledLen'[buffer[Check]] = mFilledLen[buffer[Check]]]_vars

(***************************************************************************)
(* The receiver is never starved of buffers or locked out: it always gets  *)
(* back into recvStream, however far behind the checker is.                *)
(***************************************************************************)
ReceiverServed ==
  pc[Recv] # "recvStream" ~> (pc[Recv] = "recvStream" \/ process # Running)

(***************************************************************************)
(* The pipeline implements the bounded channel, liveness included.         *)
(***************************************************************************)
ImplementsChannel == Channel!ChanSpec

=============================================================================
