---------------------------- MODULE StreamBuffer ----------------------------
(***************************************************************************)
(* The pool of frame buffers the two threads of the tool share             *)
(* (application/src/stream_buffer.cpp, application/inc/jutils.h).          *)
(*                                                                         *)
(* StreamBuffer owns mBufferNumber JBuffers, allocated once, and two       *)
(* std::queues of pointers to them, each protected by a pthread mutex of   *)
(* its own.  A call of one of the four operations is two steps here:       *)
(* taking the mutex (Lock...), then the body, which pushes or pops and     *)
(* unlocks.  The bodies do not look at the mutex, exactly as in the code:  *)
(* that a thread in a body is the one that holds the mutex is a property   *)
(* of the callers, not a guard.                                            *)
(*                                                                         *)
(* A JBuffer is its index in 1 .. BufferNumber, so that 0 can stand for    *)
(* the null pointer that a get returns when its queue is empty.            *)
(***************************************************************************)
EXTENDS Naturals, Sequences

CONSTANT BufferNumber        \* mBufferNumber; main passes 10

ASSUME BufferNumberAssumption == BufferNumber \in Nat \ {0}

VARIABLES
  mEmptyQ,                   \* buffers that may be filled, oldest first
  mEmptyLock,                \* the thread that holds mEmptyLock, or Free
  mFilledQ,                  \* buffers that hold a frame, oldest first
  mFilledLock                \* the thread that holds mFilledLock, or Free

emptyVars  == <<mEmptyQ, mEmptyLock>>
filledVars == <<mFilledQ, mFilledLock>>
poolVars   == <<mEmptyQ, mEmptyLock, mFilledQ, mFilledLock>>

JBuffers == 1 .. BufferNumber
Nullptr  == 0
Free     == "free"

(***************************************************************************)
(* The constructor: makeBuffer pushes every new buffer on the empty queue. *)
(***************************************************************************)
MakeBuffer ==
  /\ mEmptyQ = [i \in JBuffers |-> i]
  /\ mFilledQ = << >>
  /\ mEmptyLock = Free
  /\ mFilledLock = Free

(***************************************************************************)
(* JLock::lock on either mutex: the caller waits until it is free.         *)
(***************************************************************************)
LockEmpty(t) ==
  /\ mEmptyLock = Free
  /\ mEmptyLock' = t
  /\ UNCHANGED <<mEmptyQ, filledVars>>

LockFilled(t) ==
  /\ mFilledLock = Free
  /\ mFilledLock' = t
  /\ UNCHANGED <<mFilledQ, emptyVars>>

(***************************************************************************)
(* The bodies of the operations.  b is the value the get returns or the    *)
(* argument of the put.  Both gets unlock on the early return too.         *)
(***************************************************************************)
GetEmptyBuffer(b) ==
  /\ \/ mEmptyQ = << >> /\ b = Nullptr /\ UNCHANGED mEmptyQ
     \/ mEmptyQ # << >> /\ b = Head(mEmptyQ) /\ mEmptyQ' = Tail(mEmptyQ)
  /\ mEmptyLock' = Free
  /\ UNCHANGED filledVars

PutEmptyBuffer(b) ==
  /\ mEmptyQ' = Append(mEmptyQ, b)
  /\ mEmptyLock' = Free
  /\ UNCHANGED filledVars

\* Mutant: the early return leaves the mutex locked.
GetFilledBufferNoUnlock(b) ==
  /\ \/ mFilledQ = << >> /\ b = Nullptr /\ UNCHANGED <<mFilledQ, mFilledLock>>
     \/ /\ mFilledQ # << >>
        /\ b = Head(mFilledQ)
        /\ mFilledQ' = Tail(mFilledQ)
        /\ mFilledLock' = Free
  /\ UNCHANGED emptyVars

\* Mutant: size() <= 1 is tested instead of empty().
GetFilledBufferKeepsOne(b) ==
  /\ \/ Len(mFilledQ) <= 1 /\ b = Nullptr /\ UNCHANGED mFilledQ
     \/ /\ Len(mFilledQ) > 1
        /\ b = Head(mFilledQ)
        /\ mFilledQ' = Tail(mFilledQ)
  /\ mFilledLock' = Free
  /\ UNCHANGED emptyVars

\* Mutant: frames are handed out only when the pool is used up.
GetFilledBufferWhenFull(b) ==
  /\ \/ Len(mFilledQ) <= BufferNumber /\ b = Nullptr /\ UNCHANGED mFilledQ
     \/ /\ Len(mFilledQ) > BufferNumber
        /\ b = Head(mFilledQ)
        /\ mFilledQ' = Tail(mFilledQ)
  /\ mFilledLock' = Free
  /\ UNCHANGED emptyVars

GetFilledBuffer(b) ==
  /\ \/ mFilledQ = << >> /\ b = Nullptr /\ UNCHANGED mFilledQ
     \/ mFilledQ # << >> /\ b = Head(mFilledQ) /\ mFilledQ' = Tail(mFilledQ)
  /\ mFilledLock' = Free
  /\ UNCHANGED emptyVars

\* Mutant: a stack instead of a queue.
PutFilledBufferFront(b) ==
  /\ mFilledQ' = <<b>> \o mFilledQ
  /\ mFilledLock' = Free
  /\ UNCHANGED emptyVars

PutFilledBuffer(b) ==
  /\ mFilledQ' = Append(mFilledQ, b)
  /\ mFilledLock' = Free
  /\ UNCHANGED emptyVars

=============================================================================
