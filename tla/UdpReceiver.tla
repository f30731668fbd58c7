----------------------------- MODULE UdpReceiver -----------------------------
(***************************************************************************)
(* UdpReceiver (udp_receiver.cpp) and the network in front of it: a sender *)
(* (external) cuts every frame, AUD included, into datagrams; the network  *)
(* (external) may lose, duplicate or reorder them; recvStream appends      *)
(* datagrams to the buffer until what it holds ends with an AUD.           *)
(*                                                                         *)
(* Data are symbols that stand for some bytes: H for the start code        *)
(* 00 00 00 01, S for the short one 00 00 01, A for the 09 10 that makes   *)
(* either an AUD; every other symbol is payload, named by the frame it     *)
(* belongs to.  Sizes count symbols.                                       *)
(***************************************************************************)
EXTENDS Integers, Sequences, FiniteSets, SequencesExt

CONSTANTS
  Streams,                   \* what may be sent: sequences of frames, each
                             \* a sequence of datagrams
  Payload,                   \* the symbols other than H, S and A
  BufferSize,                \* JBuffer::mSize, MAX_J_STEAM_SIZE: 1 MiB
  SockLens,                  \* what the uninitialised sockLen may hold
  Faults,                    \* the faults the network is capable of
  MaxFaults                  \* bound of the model: how often it commits one

H == "H"
S == "S"
A == "A"

Symbols == {H, S, A} \cup Payload

ASSUME StreamsAssumption == Streams \subseteq Seq(Seq(Seq(Symbols) \ {<< >>}))
ASSUME BufferSizeAssumption == BufferSize \in Nat \ {0}
ASSUME SockLensAssumption == SockLens \subseteq Int
ASSUME FaultsAssumption == Faults \subseteq {"lose", "duplicate", "reorder"}
ASSUME MaxFaultsAssumption == MaxFaults \in Nat

VARIABLES
  stream,                    \* the frames the sender sends
  sent,                      \* how many datagrams the sender has sent
  network,                   \* datagrams under way, the next to arrive first
  faults,                    \* faults committed
  buffer,                    \* the first mFilledLen symbols of the JBuffer
  sockLen,                   \* recvStream's local, read and set by recvfrom
  arrived,                   \* the datagrams recvfrom has returned, in order
  delivered,                 \* the frames recvStream has returned
  exit                       \* Running, or Failed after exit(1)

vars == <<stream, sent, network, faults, buffer, sockLen, arrived,
          delivered, exit>>

Running == "running"
Failed  == "failed"

Datagrams == FlattenSeq(stream)

Init ==
  /\ stream \in Streams
  /\ sent = 0
  /\ network = << >>
  /\ faults = 0
  /\ buffer = << >>
  /\ sockLen \in SockLens
  /\ arrived = << >>
  /\ delivered = << >>
  /\ exit = Running

(***************************************************************************)
(* The sender, and the faults of the network.                              *)
(***************************************************************************)
Send ==
  /\ sent < Len(Datagrams)
  /\ sent' = sent + 1
  /\ network' = Append(network, Datagrams[sent'])
  /\ UNCHANGED <<stream, faults, buffer, sockLen, arrived, delivered, exit>>

Fault ==
  /\ faults < MaxFaults
  /\ faults' = faults + 1
  /\ \E i \in 1 .. Len(network) :
       \/ "lose" \in Faults /\ network' = RemoveAt(network, i)
       \/ "duplicate" \in Faults /\ network' = Append(network, network[i])
       \/ /\ "reorder" \in Faults
          /\ network' = Append(RemoveAt(network, i), network[i])
  /\ UNCHANGED <<stream, sent, buffer, sockLen, arrived, delivered, exit>>

(***************************************************************************)
(* haveAud: only the last symbols are looked at.  Six bytes are needed, so *)
(* a short AUD alone is not one.                                           *)
(***************************************************************************)
HaveAud(b) ==
  /\ Len(b) >= 2
  /\ b # <<S, A>>
  /\ SubSeq(b, Len(b) - 1, Len(b)) \in {<<H, A>>, <<S, A>>}

(***************************************************************************)
(* adjustStreamOffset: what precedes the first long start code is dropped; *)
(* without one the data stay as they are.                                  *)
(***************************************************************************)
\* Mutant: the search does not stop at the first start code.
AdjustStreamOffsetLast(b) ==
  LET headers == {i \in 1 .. Len(b) : b[i] = H}
  IN IF headers = {} THEN b ELSE SubSeq(b, Max(headers), Len(b))

AdjustStreamOffset(b) ==
  LET headers == {i \in 1 .. Len(b) : b[i] = H}
  IN IF headers = {} THEN b ELSE SubSeq(b, Min(headers), Len(b))

(***************************************************************************)
(* recvfrom cuts a datagram off at the room that is left in the buffer.    *)
(***************************************************************************)
\* Mutant: recvfrom is given mSize, not mSize - offset.
ReceivedUncut(data) == buffer \o data

\* Mutant: recvfrom writes to the buffer's beginning, not behind offset.
ReceivedAtStart(data) == SubSeq(data, 1, Min({BufferSize, Len(data)}))

Received(data) ==
  buffer \o SubSeq(data, 1, Min({BufferSize - Len(buffer), Len(data)}))

\* Mutant: one too few.
FullOffByOne(b) == Len(b) >= BufferSize - 1

Full(b) == Len(b) >= BufferSize

(***************************************************************************)
(* One turn of the loop of recvStream, lines 124-151.  After a return the  *)
(* next call starts with an empty buffer (offset = 0).                     *)
(***************************************************************************)
AddressLen == 16             \* what recvfrom leaves in sockLen

RecvFrom ==
  /\ exit = Running
  /\ network # << >>
  /\ sockLen >= 0
  /\ LET b == Received(Head(network))
     IN /\ network' = Tail(network)
        /\ arrived' = Append(arrived, Head(network))
        /\ \/ /\ HaveAud(b)
              /\ delivered' = Append(delivered, AdjustStreamOffset(b))
              /\ buffer' = << >>
              /\ sockLen' \in SockLens
              /\ UNCHANGED exit
           \/ /\ ~ HaveAud(b)
              /\ buffer' = b
              /\ sockLen' = AddressLen
              /\ exit' = IF Full(b) THEN Failed ELSE Running
              /\ UNCHANGED delivered
  /\ UNCHANGED <<stream, sent, faults>>

(***************************************************************************)
(* Lines 127-131: with a negative sockLen recvfrom takes the datagram from *)
(* the socket and fails.                                                   *)
(***************************************************************************)
RecvFails ==
  /\ exit = Running
  /\ network # << >>
  /\ sockLen < 0
  /\ network' = Tail(network)
  /\ exit' = Failed
  /\ UNCHANGED <<stream, sent, faults, buffer, sockLen, arrived, delivered>>

Next == Send \/ Fault \/ RecvFrom \/ RecvFails

Spec == Init /\ [][Next]_vars

FairSpec == Spec /\ WF_vars(Send) /\ WF_vars(RecvFrom \/ RecvFails)

-----------------------------------------------------------------------------
IsSuffixOf(s, t) ==
  Len(s) <= Len(t) /\ s = SubSeq(t, Len(t) - Len(s) + 1, Len(t))

EndsWithAud(d) == Len(d) >= 2 /\ SubSeq(d, Len(d) - 1, Len(d)) = <<H, A>>

TypeOK ==
  /\ stream \in Streams
  /\ sent \in 0 .. Len(Datagrams)
  /\ faults \in 0 .. MaxFaults
  /\ {network, arrived, delivered} \subseteq Seq(Seq(Symbols))
  /\ Len(network) + Len(arrived) <= sent + faults
  /\ Len(delivered) <= Len(arrived)
  /\ buffer \in Seq(Symbols)
  /\ Len(buffer) <= BufferSize
  /\ sockLen \in SockLens \cup {AddressLen}
  /\ exit \in {Running, Failed}

(***************************************************************************)
(* The frames adjustStreamOffset leaves alone: those that begin with a     *)
(* long start code, and those that hold none.  Of any other, a short start *)
(* code before a long AUD for instance, it drops the beginning.            *)
(***************************************************************************)
Headed(frame) == frame[1] = H \/ \A i \in 1 .. Len(frame) : frame[i] # H

(***************************************************************************)
(* Frames as an encoder makes them: no AUD but the one at their end.       *)
(***************************************************************************)
WellFormed(frame) ==
  /\ HaveAud(frame)
  /\ \A n \in 1 .. Len(frame) - 1 : ~ HaveAud(SubSeq(frame, 1, n))

StreamsWellFormed ==
  \A st \in Streams : \A k \in 1 .. Len(st) : WellFormed(FlattenSeq(st[k]))

(***************************************************************************)
(* As long as the network has committed no fault, recvStream returns the   *)
(* frames that were sent one for one, however they are cut into datagrams, *)
(* and whole if they are headed; of any other it returns an end.           *)
(***************************************************************************)
FramesIntact ==
  faults = 0 =>
    /\ Len(delivered) <= Len(stream)
    /\ \A k \in 1 .. Len(delivered) :
         LET frame == FlattenSeq(stream[k])
         IN /\ IsSuffixOf(delivered[k], frame)
            /\ Headed(frame) => delivered[k] = frame

(***************************************************************************)
(* The comment of receiver_base.cpp:109, "until single complete stream is  *)
(* got": what recvStream returns holds one AUD, its last symbols.          *)
(***************************************************************************)
SingleFrames ==
  \A n \in 1 .. Len(delivered) :
    Cardinality({i \in 2 .. Len(delivered[n]) : delivered[n][i] = A}) = 1

(***************************************************************************)
(* Whatever the network does, a headed frame that fits into the buffer is  *)
(* delivered whole when its datagrams all arrive one after the other       *)
(* behind the end of a frame (or first of all): a lost AUD spoils the      *)
(* frames it separates and no more.                                        *)
(***************************************************************************)
ArrivedInOneRun(k, i) ==
  /\ i + Len(stream[k]) <= Len(arrived)
  /\ SubSeq(arrived, i + 1, i + Len(stream[k])) = stream[k]
  /\ i = 0 \/ EndsWithAud(arrived[i])

Resynchronises ==
  \A k \in 1 .. Len(stream) : \A i \in 0 .. Len(arrived) :
    LET frame == FlattenSeq(stream[k])
    IN Headed(frame) /\ Len(frame) <= BufferSize /\ ArrivedInOneRun(k, i)
         => \E n \in 1 .. Len(delivered) : delivered[n] = frame

(***************************************************************************)
(* recvStream gives up for two reasons only: recvfrom failed, or the       *)
(* datagrams received since the last end of a frame, the one that did not  *)
(* fit included, fill the buffer.                                          *)
(***************************************************************************)
Pending ==
  LET ends == {0} \cup {i \in 1 .. Len(arrived) - 1 :
                         EndsWithAud(arrived[i])}
  IN FlattenSeq(SubSeq(arrived, Max(ends) + 1, Len(arrived)))

ExitJustified == exit = Failed => sockLen < 0 \/ Len(Pending) >= BufferSize

(***************************************************************************)
(* Every frame sent is delivered in the end if it fits into the buffer,    *)
(* filling it or not, unless the network commits a fault or recvfrom       *)
(* fails.                                                                  *)
(***************************************************************************)
EveryFrameDelivered ==
  (\A k \in 1 .. Len(stream) : Len(FlattenSeq(stream[k])) <= BufferSize)
    => <>(\/ Len(delivered) = Len(stream)
          \/ faults > 0
          \/ exit = Failed /\ sockLen < 0)

=============================================================================
