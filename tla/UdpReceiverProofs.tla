------------------------- MODULE UdpReceiverProofs -------------------------
(***************************************************************************)
(* Theorems about UdpReceiver, for every stream, every way it is cut into  *)
(* datagrams, every size of the buffer and any number of faults.           *)
(***************************************************************************)
EXTENDS UdpReceiver, SequenceLemmas

(***************************************************************************)
(* Types.                                                                  *)
(***************************************************************************)
Datagram == Seq(Symbols) \ {<< >>}

LEMMA StreamFacts ==
  ASSUME NEW st \in Streams
  PROVE  /\ st \in Seq(Seq(Datagram)) /\ Len(st) \in Nat
         /\ FlattenSeq(st) \in Seq(Datagram) /\ Len(FlattenSeq(st)) \in Nat
         /\ \A k \in 1 .. Len(st) :
              /\ st[k] \in Seq(Datagram) /\ st[k] \in Seq(Seq(Symbols))
              /\ FlattenSeq(st[k]) \in Seq(Symbols)
  <1>1. st \in Seq(Seq(Datagram))
    BY StreamsAssumption DEF Datagram
  <1>2. Datagram \subseteq Seq(Symbols)
    BY DEF Datagram
  <1> HIDE DEF Datagram
  <1>3. Len(st) \in Nat
    BY <1>1
  <1>4. FlattenSeq(st) \in Seq(Datagram)
    BY ONLY <1>1, FlattenType
  <1>5. Len(FlattenSeq(st)) \in Nat
    BY <1>4
  <1>6. ASSUME NEW k \in 1 .. Len(st)
        PROVE  /\ st[k] \in Seq(Datagram) /\ st[k] \in Seq(Seq(Symbols))
               /\ FlattenSeq(st[k]) \in Seq(Symbols)
    <2>1. st[k] \in Seq(Datagram)
      BY <1>1
    <2>2. st[k] \in Seq(Seq(Symbols))
      BY ONLY <1>2, <2>1
    <2>3. FlattenSeq(st[k]) \in Seq(Symbols)
      BY ONLY <2>2, FlattenType
    <2> QED
      BY <2>1, <2>2, <2>3
  <1> QED
    BY <1>1, <1>3, <1>4, <1>5, <1>6

LEMMA AdjustFacts ==
  ASSUME NEW b \in Seq(Symbols)
  PROVE  /\ AdjustStreamOffset(b) \in Seq(Symbols)
         /\ \E i \in 1 .. Len(b) + 1 :
              /\ AdjustStreamOffset(b) = SubSeq(b, i, Len(b))
              /\ b # << >> /\ Headed(b) => i = 1
  <1> DEFINE headers == {i \in 1 .. Len(b) : b[i] = H}
  <1>1. CASE headers = {}
    <2>1. AdjustStreamOffset(b) = b
      BY <1>1 DEF AdjustStreamOffset
    <2>2. b = SubSeq(b, 1, Len(b)) /\ 1 \in 1 .. Len(b) + 1
      OBVIOUS
    <2> QED
      BY <2>1, <2>2
  <1>2. CASE headers # {}
    <2>1. headers \in SUBSET Nat
      OBVIOUS
    <2>2. Min(headers) \in headers /\ \A k \in headers : Min(headers) <= k
      <3> HIDE DEF headers
      <3> QED
        BY ONLY <2>1, <1>2, MinFacts
    <2>3. AdjustStreamOffset(b) = SubSeq(b, Min(headers), Len(b))
      BY <1>2 DEF AdjustStreamOffset
    <2>4. PICK i \in headers : i = Min(headers)
      BY <2>2
    <2>5. i \in 1 .. Len(b) /\ b[i] = H
      BY <2>4
    <2>6. SubSeq(b, i, Len(b)) \in Seq(Symbols)
      BY <2>5, SubSeqFacts
    <2>7. Headed(b) => i = 1
      <3> SUFFICES ASSUME Headed(b) PROVE i = 1
        OBVIOUS
      <3>1. b[1] = H
        BY <2>5 DEF Headed
      <3>2. 1 \in headers
        BY <2>5, <3>1
      <3>3. i <= 1
        BY ONLY <2>2, <2>4, <3>2
      <3> QED
        BY ONLY <2>5, <3>3, b \in Seq(Symbols)
    <2>8. i \in 1 .. Len(b) + 1
      BY ONLY <2>5, b \in Seq(Symbols)
    <2> QED
      BY ONLY <2>3, <2>4, <2>6, <2>7, <2>8
  <1> QED
    BY <1>1, <1>2

(***************************************************************************)
(* What a datagram adds to the buffer: all of it if there is room.         *)
(***************************************************************************)
LEMMA ReceivedFacts ==
  ASSUME buffer \in Seq(Symbols), Len(buffer) <= BufferSize,
         NEW d \in Seq(Symbols)
  PROVE  /\ Received(d) \in Seq(Symbols)
         /\ Len(Received(d)) <= BufferSize
         /\ Len(Received(d)) <= Len(buffer) + Len(d)
         /\ Len(buffer) + Len(d) <= BufferSize => Received(d) = buffer \o d
         /\ Len(Received(d)) < BufferSize => Received(d) = buffer \o d
         /\ Len(buffer) + Len(d) > BufferSize
              => Received(d) = SubSeq(buffer \o d, 1, BufferSize)
  <1>1. PICK m \in Nat : m = BufferSize - Len(buffer)
    BY BufferSizeAssumption
  <1>2. PICK n \in Nat : n = IF m <= Len(d) THEN m ELSE Len(d)
    OBVIOUS
  <1>3. Received(d) = buffer \o SubSeq(d, 1, n)
    <2>1. Min({m, Len(d)}) = n
      BY <1>2, MinOfTwo
    <2> QED
      BY ONLY <1>1, <2>1 DEF Received
  <1>4. n <= Len(d) /\ Len(buffer) + n <= BufferSize /\ Len(d) \in Nat
          /\ Len(buffer) \in Nat /\ BufferSize \in Nat
    BY <1>1, <1>2, BufferSizeAssumption
  <1>5. SubSeq(d, 1, n) \in Seq(Symbols) /\ Len(SubSeq(d, 1, n)) = n
          /\ (n = Len(d) => SubSeq(d, 1, n) = d)
    BY <1>4
  <1>6. /\ Received(d) \in Seq(Symbols)
        /\ Len(Received(d)) = Len(buffer) + n
    BY ONLY <1>3, <1>5, ConcatFacts, buffer \in Seq(Symbols)
  <1>7. n = Len(d) => Received(d) = buffer \o d
    BY <1>3, <1>5
  <1>8. Len(buffer) + Len(d) <= BufferSize => n = Len(d)
    BY ONLY <1>1, <1>2, <1>4
  <1>9. Len(buffer) + n < BufferSize => n = Len(d)
    BY ONLY <1>1, <1>2, <1>4
  <1>10. Len(buffer) + Len(d) > BufferSize
           => Received(d) = SubSeq(buffer \o d, 1, BufferSize)
    <2> SUFFICES ASSUME Len(buffer) + Len(d) > BufferSize
                 PROVE  Received(d) = SubSeq(buffer \o d, 1, BufferSize)
      OBVIOUS
    <2>1. n = m /\ BufferSize = Len(buffer) + n
      BY <1>1, <1>2, <1>4
    <2>2. buffer \o SubSeq(d, 1, n) = SubSeq(buffer \o d, 1, Len(buffer) + n)
      BY <1>4
    <2> QED
      BY ONLY <1>3, <2>1, <2>2
  <1> QED
    BY ONLY <1>4, <1>6, <1>7, <1>8, <1>9, <1>10

LEMMA RecvFromFacts ==
  ASSUME TypeOK, RecvFrom
  PROVE  \E d \in Seq(Symbols), b \in Seq(Symbols) :
           /\ d = Head(network) /\ b = Received(d)
           /\ exit = Running /\ network # << >> /\ sockLen >= 0
           /\ network' = Tail(network)
           /\ arrived' = Append(arrived, d)
           /\ \/ /\ HaveAud(b)
                 /\ delivered' = Append(delivered, AdjustStreamOffset(b))
                 /\ buffer' = << >>
                 /\ sockLen' \in SockLens
                 /\ exit' = exit
              \/ /\ ~ HaveAud(b)
                 /\ buffer' = b
                 /\ sockLen' = AddressLen
                 /\ exit' = IF Full(b) THEN Failed ELSE Running
                 /\ delivered' = delivered
           /\ stream' = stream /\ sent' = sent /\ faults' = faults
  <1>1. network # << >> /\ network \in Seq(Seq(Symbols))
    BY DEF TypeOK, RecvFrom
  <1>2. Head(network) \in Seq(Symbols)
    BY ONLY <1>1, HeadTailFacts
  <1>3. Received(Head(network)) \in Seq(Symbols)
    BY <1>2, ReceivedFacts DEF TypeOK
  <1> QED
    BY <1>2, <1>3 DEF RecvFrom

LEMMA TypeInit == Init => TypeOK
  <1> SUFFICES ASSUME Init PROVE TypeOK
    OBVIOUS
  <1>1. Len(Datagrams) \in Nat
    BY StreamFacts DEF Init, Datagrams
  <1>2. << >> \in Seq(Seq(Symbols)) /\ << >> \in Seq(Symbols) /\ Len(<< >>) = 0
    OBVIOUS
  <1>3. 0 \in 0 .. Len(Datagrams) /\ 0 \in 0 .. MaxFaults /\ 0 <= BufferSize
          /\ 0 + 0 <= 0 + 0 /\ 0 <= 0
    BY <1>1, MaxFaultsAssumption, BufferSizeAssumption
  <1> QED
    BY <1>2, <1>3 DEF Init, TypeOK

LEMMA TypeStep == TypeOK /\ [Next]_vars => TypeOK'
  <1> SUFFICES ASSUME TypeOK, [Next]_vars PROVE TypeOK'
    OBVIOUS
  <1>1. /\ stream \in Streams /\ sent \in Nat /\ faults \in 0 .. MaxFaults
        /\ sent <= Len(Datagrams)
        /\ MaxFaults \in Nat /\ BufferSize \in Nat \ {0}
        /\ network \in Seq(Seq(Symbols)) /\ Len(network) \in Nat
        /\ arrived \in Seq(Seq(Symbols)) /\ Len(arrived) \in Nat
        /\ delivered \in Seq(Seq(Symbols)) /\ Len(delivered) \in Nat
        /\ Len(network) + Len(arrived) <= sent + faults
        /\ Len(delivered) <= Len(arrived)
        /\ buffer \in Seq(Symbols) /\ Len(buffer) <= BufferSize
        /\ sockLen \in SockLens \cup {AddressLen}
        /\ exit \in {Running, Failed}
    BY MaxFaultsAssumption, BufferSizeAssumption DEF TypeOK
  <1>2. /\ Datagrams \in Seq(Datagram) /\ Len(Datagrams) \in Nat
        /\ Datagram \subseteq Seq(Symbols)
    BY <1>1, StreamFacts DEF Datagrams, Datagram
  <1>3. stream' = stream => Datagrams' = Datagrams
    BY DEF Datagrams
  <1>4. CASE Send
    <2>1. /\ sent < Len(Datagrams) /\ sent' = sent + 1
          /\ network' = Append(network, Datagrams[sent + 1])
          /\ UNCHANGED <<stream, faults, buffer, sockLen, arrived, delivered, exit>>
      BY <1>4 DEF Send
    <2>2. Datagrams[sent + 1] \in Seq(Symbols)
      BY <1>1, <1>2, <2>1
    <2>3. network' \in Seq(Seq(Symbols)) /\ Len(network') = Len(network) + 1
      BY ONLY <1>1, <2>1, <2>2, AppendFacts
    <2>4. sent' \in 0 .. Len(Datagrams)
            /\ Len(network') + Len(arrived) <= sent' + faults
      BY ONLY <1>1, <1>2, <2>1, <2>3
    <2> QED
      BY ONLY <1>1, <1>3, <2>1, <2>3, <2>4 DEF TypeOK
  <1>5. CASE Fault
    <2>1. /\ faults < MaxFaults /\ faults' = faults + 1
          /\ UNCHANGED <<stream, sent, buffer, sockLen, arrived, delivered, exit>>
      BY <1>5 DEF Fault
    <2>2. PICK i \in 1 .. Len(network) :
            \/ network' = RemoveAt(network, i)
            \/ network' = Append(network, network[i])
            \/ network' = Append(RemoveAt(network, i), network[i])
      BY <1>5 DEF Fault
    <2>3. network[i] \in Seq(Symbols)
      BY <1>1, <2>2
    <2>4. /\ RemoveAt(network, i) \in Seq(Seq(Symbols))
          /\ Len(RemoveAt(network, i)) = Len(network) - 1
      BY ONLY <1>1, <2>2, RemoveFacts
    <2>5. network' \in Seq(Seq(Symbols)) /\ Len(network') <= Len(network) + 1
            /\ Len(network') \in Nat
      <3>1. CASE network' = RemoveAt(network, i)
        BY ONLY <3>1, <2>4, <1>1
      <3>2. CASE network' = Append(network, network[i])
        <4>1. network' \in Seq(Seq(Symbols)) /\ Len(network') = Len(network) + 1
          BY ONLY <3>2, <2>3, <1>1, AppendFacts
        <4> QED
          BY ONLY <4>1, <1>1
      <3>3. CASE network' = Append(RemoveAt(network, i), network[i])
        <4>1. network' \in Seq(Seq(Symbols))
                /\ Len(network') = Len(RemoveAt(network, i)) + 1
          BY ONLY <3>3, <2>3, <2>4, AppendFacts
        <4> QED
          BY ONLY <4>1, <2>4, <1>1
      <3> QED
        BY ONLY <2>2, <3>1, <3>2, <3>3
    <2>6. faults' \in 0 .. MaxFaults
            /\ Len(network') + Len(arrived) <= sent + faults'
      BY ONLY <1>1, <2>1, <2>5
    <2>7. sent \in 0 .. Len(Datagrams)
      BY ONLY <1>1, <1>2
    <2> QED
      BY ONLY <1>1, <1>3, <2>1, <2>5, <2>6, <2>7 DEF TypeOK
  <1>6. CASE RecvFrom
    <2>1. PICK d \in Seq(Symbols), b \in Seq(Symbols) :
           /\ b = Received(d) /\ network # << >>
           /\ network' = Tail(network)
           /\ arrived' = Append(arrived, d)
           /\ \/ /\ delivered' = Append(delivered, AdjustStreamOffset(b))
                 /\ buffer' = << >>
                 /\ sockLen' \in SockLens
                 /\ exit' = exit
              \/ /\ buffer' = b
                 /\ sockLen' = AddressLen
                 /\ exit' \in {Running, Failed}
                 /\ delivered' = delivered
           /\ stream' = stream /\ sent' = sent /\ faults' = faults
      BY <1>6, RecvFromFacts
    <2>2. Len(b) <= BufferSize
      BY <1>1, <2>1, ReceivedFacts
    <2>3. network' \in Seq(Seq(Symbols)) /\ Len(network') = Len(network) - 1
      BY ONLY <1>1, <2>1, HeadTailFacts
    <2>4. arrived' \in Seq(Seq(Symbols)) /\ Len(arrived') = Len(arrived) + 1
      BY ONLY <1>1, <2>1, AppendFacts
    <2>5. /\ delivered' \in Seq(Seq(Symbols)) /\ Len(delivered') \in Nat
          /\ Len(delivered') <= Len(delivered) + 1
      <3>1. AdjustStreamOffset(b) \in Seq(Symbols)
        BY <2>1, AdjustFacts
      <3>2. /\ Append(delivered, AdjustStreamOffset(b)) \in Seq(Seq(Symbols))
            /\ Len(Append(delivered, AdjustStreamOffset(b))) = Len(delivered) + 1
        BY ONLY <3>1, <1>1, AppendFacts
      <3>3. CASE delivered' = Append(delivered, AdjustStreamOffset(b))
        BY ONLY <3>2, <3>3, <1>1
      <3>4. CASE delivered' = delivered
        BY ONLY <3>4, <1>1
      <3> QED
        BY ONLY <2>1, <3>3, <3>4
    <2>6. buffer' \in Seq(Symbols) /\ Len(buffer') <= BufferSize
      <3>1. << >> \in Seq(Symbols) /\ Len(<< >>) <= BufferSize
        BY <1>1
      <3> QED
        BY ONLY <3>1, <2>1, <2>2
    <2>7. sockLen' \in SockLens \cup {AddressLen} /\ exit' \in {Running, Failed}
      BY ONLY <2>1, <1>1
    <2>8. Len(network') + Len(arrived') <= sent + faults
            /\ Len(delivered') <= Len(arrived') /\ sent \in 0 .. Len(Datagrams)
      <3>1. Len(network') = Len(network) - 1 /\ Len(arrived') = Len(arrived) + 1
              /\ Len(delivered') <= Len(delivered) + 1 /\ Len(delivered') \in Nat
        BY ONLY <2>3, <2>4, <2>5
      <3>2. /\ Len(network) \in Nat /\ Len(arrived) \in Nat
            /\ Len(delivered) \in Nat /\ sent \in Nat /\ faults \in Nat
            /\ Len(network) + Len(arrived) <= sent + faults
            /\ Len(delivered) <= Len(arrived)
            /\ sent <= Len(Datagrams) /\ Len(Datagrams) \in Nat
        BY ONLY <1>1, <1>2
      <3> QED
        BY ONLY <3>1, <3>2
    <2> QED
      BY ONLY <1>1, <1>3, <2>1, <2>3, <2>4, <2>5, <2>6, <2>7, <2>8 DEF TypeOK
  <1>7. CASE RecvFails
    <2>1. /\ network # << >> /\ network' = Tail(network) /\ exit' = Failed
          /\ UNCHANGED <<stream, sent, faults, buffer, sockLen, arrived, delivered>>
      BY <1>7 DEF RecvFails
    <2>2. network' \in Seq(Seq(Symbols)) /\ Len(network') = Len(network) - 1
      BY ONLY <1>1, <2>1, HeadTailFacts
    <2>3. Len(network') + Len(arrived) <= sent + faults
            /\ sent \in 0 .. Len(Datagrams)
      BY ONLY <1>1, <1>2, <2>2
    <2> QED
      BY ONLY <1>1, <1>3, <2>1, <2>2, <2>3 DEF TypeOK
  <1>8. CASE UNCHANGED vars
    BY <1>8, <1>3 DEF vars, TypeOK
  <1> QED
    BY <1>4, <1>5, <1>6, <1>7, <1>8 DEF Next

(***************************************************************************)
(* For every stream and any faults, the variables keep their types, the    *)
(* buffer is never filled beyond its size, and nothing arrives that was    *)
(* neither sent nor duplicated.                                            *)
(***************************************************************************)
THEOREM TypeCorrect == Spec => []TypeOK
  BY TypeInit, TypeStep, PTL DEF Spec

(***************************************************************************)
(* A return of recvStream whose datagram ended with a long AUD leaves      *)
(* nothing behind: as long as the process runs, the buffer holds no more   *)
(* than what has arrived since.                                            *)
(***************************************************************************)
Ends(a)     == {0} \cup {i \in 1 .. Len(a) : EndsWithAud(a[i])}
LastEnd(a)  == Max(Ends(a))
Since(a, i) == FlattenSeq(SubSeq(a, i + 1, Len(a)))

Held == exit = Running => Len(buffer) <= Len(Since(arrived, LastEnd(arrived)))

LEMMA SubSeqGrows ==
  ASSUME NEW T, NEW s \in Seq(T), NEW e \in T, NEW i \in 0 .. Len(s)
  PROVE  SubSeq(Append(s, e), i + 1, Len(s) + 1)
           = Append(SubSeq(s, i + 1, Len(s)), e)
  <1> DEFINE l == SubSeq(Append(s, e), i + 1, Len(s) + 1)
             r == Append(SubSeq(s, i + 1, Len(s)), e)
  <1>1. /\ Append(s, e) \in Seq(T) /\ Len(Append(s, e)) = Len(s) + 1
        /\ \A j \in 1 .. Len(s) : Append(s, e)[j] = s[j]
        /\ Append(s, e)[Len(s) + 1] = e
    BY AppendFacts
  <1>2. /\ l \in Seq(T) /\ Len(l) = Len(s) - i + 1
        /\ \A j \in 1 .. Len(l) : l[j] = Append(s, e)[i + j]
    BY <1>1
  <1>3. /\ SubSeq(s, i + 1, Len(s)) \in Seq(T)
        /\ Len(SubSeq(s, i + 1, Len(s))) = Len(s) - i
        /\ \A j \in 1 .. Len(s) - i : SubSeq(s, i + 1, Len(s))[j] = s[i + j]
    OBVIOUS
  <1>4. /\ r \in Seq(T) /\ Len(r) = Len(s) - i + 1
        /\ \A j \in 1 .. Len(s) - i : r[j] = s[i + j]
        /\ r[Len(s) - i + 1] = e
    BY <1>3, AppendFacts
  <1> HIDE DEF l, r
  <1>5. \A j \in 1 .. Len(l) : l[j] = r[j]
    BY <1>1, <1>2, <1>4
  <1>6. l = r
    BY ONLY <1>2, <1>4, <1>5, SeqEqual
  <1> QED
    BY <1>6 DEF l, r

LEMMA AudAtEnd ==
  ASSUME NEW b \in Seq(Symbols), NEW d \in Seq(Symbols), EndsWithAud(d)
  PROVE  HaveAud(b \o d)
  <1>1. Len(d) >= 2 /\ SubSeq(d, Len(d) - 1, Len(d)) = <<H, A>>
    BY DEF EndsWithAud
  <1>2. Len(b \o d) >= 2
    BY <1>1
  <1>3. SubSeq(b \o d, Len(b \o d) - 1, Len(b \o d))
          = SubSeq(d, Len(d) - 1, Len(d))
    <2> DEFINE l == SubSeq(b \o d, Len(b \o d) - 1, Len(b \o d))
               r == SubSeq(d, Len(d) - 1, Len(d))
    <2>1. /\ b \o d \in Seq(Symbols) /\ Len(b \o d) = Len(b) + Len(d)
          /\ \A j \in 1 .. Len(d) : (b \o d)[Len(b) + j] = d[j]
      BY ConcatFacts
    <2>2. l \in Seq(Symbols) /\ Len(l) = 2
            /\ \A j \in 1 .. 2 : l[j] = (b \o d)[Len(b) + Len(d) - 2 + j]
      BY <1>1, <2>1
    <2>3. r \in Seq(Symbols) /\ Len(r) = 2
            /\ \A j \in 1 .. 2 : r[j] = d[Len(d) - 2 + j]
      BY <1>1
    <2> HIDE DEF l, r
    <2>4. \A j \in 1 .. Len(l) : l[j] = r[j]
      BY <1>1, <2>1, <2>2, <2>3
    <2>5. l = r
      BY ONLY <2>2, <2>3, <2>4, SeqEqual
    <2> QED
      BY <2>5 DEF l, r
  <1>4. SubSeq(b \o d, Len(b \o d) - 1, Len(b \o d)) = <<H, A>>
    BY ONLY <1>1, <1>3
  <1>5. b \o d # <<S, A>>
    <2> SUFFICES ASSUME b \o d = <<S, A>> PROVE FALSE
      OBVIOUS
    <2>1. SubSeq(<<S, A>>, 1, 2) = <<H, A>>
      BY <1>4
    <2>2. SubSeq(<<S, A>>, 1, 2)[1] = S /\ <<H, A>>[1] = H
      OBVIOUS
    <2>3. S # H
      BY DEF S, H
    <2> QED
      BY ONLY <2>1, <2>2, <2>3
  <1> QED
    BY ONLY <1>2, <1>4, <1>5 DEF HaveAud

LEMMA LastEndFacts ==
  ASSUME NEW a \in Seq(Seq(Symbols))
  PROVE  /\ LastEnd(a) \in 0 .. Len(a)
         /\ Len(Since(a, LastEnd(a))) \in Nat
  <1>1. Ends(a) \in SUBSET (0 .. Len(a)) /\ Ends(a) # {} /\ Len(a) \in Nat
    BY DEF Ends
  <1>2. LastEnd(a) \in Ends(a)
    BY ONLY <1>1, MaxFacts DEF LastEnd
  <1>3. PICK i \in 0 .. Len(a) : i = LastEnd(a)
    BY <1>1, <1>2
  <1>4. SubSeq(a, i + 1, Len(a)) \in Seq(Seq(Symbols))
    OBVIOUS
  <1>5. FlattenSeq(SubSeq(a, i + 1, Len(a))) \in Seq(Symbols)
    BY ONLY <1>4, FlattenType
  <1>6. Len(FlattenSeq(SubSeq(a, i + 1, Len(a)))) \in Nat
    BY ONLY <1>5
  <1> QED
    BY <1>3, <1>6 DEF Since

(***************************************************************************)
(* What arrives next adds to what has arrived since.                       *)
(***************************************************************************)
LEMMA SinceGrows ==
  ASSUME NEW a \in Seq(Seq(Symbols)), NEW d \in Seq(Symbols), NEW i \in 0 .. Len(a)
  PROVE  /\ Len(Since(Append(a, d), i)) = Len(Since(a, i)) + Len(d)
         /\ Len(Since(a, i)) \in Nat
  <1>1. Len(Append(a, d)) = Len(a) + 1
    BY AppendFacts
  <1> DEFINE s == SubSeq(a, i + 1, Len(a))
  <1>2. SubSeq(Append(a, d), i + 1, Len(Append(a, d))) = Append(s, d)
    BY <1>1, SubSeqGrows
  <1>3. s \in Seq(Seq(Symbols))
    OBVIOUS
  <1> HIDE DEF s
  <1>4. FlattenSeq(Append(s, d)) = FlattenSeq(s) \o d /\ FlattenSeq(s) \in Seq(Symbols)
    BY ONLY <1>3, FlattenAppend, FlattenType, d \in Seq(Symbols)
  <1>5. Len(FlattenSeq(s) \o d) = Len(FlattenSeq(s)) + Len(d)
          /\ Len(FlattenSeq(s)) \in Nat
    BY ONLY <1>4, d \in Seq(Symbols)
  <1> QED
    BY <1>2, <1>4, <1>5 DEF Since, s

(***************************************************************************)
(* A datagram that does not end with an AUD leaves the last end where it   *)
(* was.                                                                    *)
(***************************************************************************)
LEMMA LastEndKept ==
  ASSUME NEW a \in Seq(Seq(Symbols)), NEW d \in Seq(Symbols), ~ EndsWithAud(d)
  PROVE  LastEnd(Append(a, d)) = LastEnd(a)
  <1>1. PICK b : b = Append(a, d)
    OBVIOUS
  <1>2. PICK n \in Nat : n = Len(a)
    OBVIOUS
  <1>3. /\ Len(b) = n + 1 /\ b[n + 1] = d
        /\ \A j \in 1 .. n : b[j] = a[j]
    BY <1>1, <1>2, AppendFacts
  <1>4. \A j \in 1 .. n + 1 : EndsWithAud(b[j]) <=> j \in 1 .. n /\ EndsWithAud(a[j])
    <2> TAKE j \in 1 .. n + 1
    <2>1. CASE j = n + 1
      <3>1. b[j] = d /\ j \notin 1 .. n
        BY ONLY <2>1, <1>2, <1>3
      <3> QED
        BY <3>1
    <2>2. CASE j \in 1 .. n
      BY ONLY <2>2, <1>3
    <2>3. j = n + 1 \/ j \in 1 .. n
      BY <1>2
    <2> QED
      BY ONLY <2>1, <2>2, <2>3, Zenon
  <1>5. \A j \in 1 .. n : j \in 1 .. n + 1
    BY <1>2
  <1>6. Ends(b) = Ends(a)
    BY ONLY <1>2, <1>3, <1>4, <1>5 DEF Ends
  <1> QED
    BY <1>1, <1>6 DEF LastEnd

LEMMA HeldInit == Init => Held /\ ExitJustified
  <1> SUFFICES ASSUME Init PROVE Held /\ ExitJustified
    OBVIOUS
  <1>1. buffer = << >> /\ arrived \in Seq(Seq(Symbols)) /\ exit = Running
    BY DEF Init
  <1>2. Len(Since(arrived, LastEnd(arrived))) \in Nat
    BY <1>1, LastEndFacts
  <1> QED
    BY <1>1, <1>2 DEF Held, ExitJustified, Running, Failed

LEMMA HeldStep ==
  TypeOK /\ Held /\ ExitJustified /\ [Next]_vars => Held' /\ ExitJustified'
  <1> SUFFICES ASSUME TypeOK, Held, ExitJustified, [Next]_vars
               PROVE  Held' /\ ExitJustified'
    OBVIOUS
  <1>1. CASE RecvFrom
    <2>1. PICK d \in Seq(Symbols), b \in Seq(Symbols) :
           /\ b = Received(d) /\ exit = Running
           /\ arrived' = Append(arrived, d)
           /\ \/ buffer' = << >> /\ exit' = exit
              \/ /\ ~ HaveAud(b)
                 /\ buffer' = b
                 /\ exit' = IF Full(b) THEN Failed ELSE Running
      BY <1>1, RecvFromFacts
    <2>2. PICK a \in Seq(Seq(Symbols)) : a = arrived
      BY DEF TypeOK
    <2>3. PICK i \in 0 .. Len(a) : i = LastEnd(a)
      BY LastEndFacts
    <2>4. /\ Len(Since(arrived', i)) = Len(Since(a, i)) + Len(d)
          /\ Len(Since(a, i)) \in Nat
      BY <2>1, <2>2, SinceGrows
    <2>5. /\ Len(b) <= Len(buffer) + Len(d)
          /\ Len(b) < BufferSize => b = buffer \o d
          /\ buffer \in Seq(Symbols) /\ Len(buffer) \in Nat /\ Len(d) \in Nat
          /\ Len(b) \in Nat /\ BufferSize \in Nat
      <3>1. buffer \in Seq(Symbols) /\ Len(buffer) <= BufferSize
        BY DEF TypeOK
      <3>2. /\ Len(b) <= Len(buffer) + Len(d)
            /\ Len(b) < BufferSize => b = buffer \o d
        BY ONLY <2>1, <3>1, ReceivedFacts
      <3>3. Len(buffer) \in Nat /\ Len(d) \in Nat /\ Len(b) \in Nat
        BY <3>1
      <3> QED
        BY ONLY <3>1, <3>2, <3>3, BufferSizeAssumption
    <2>6. Len(buffer) <= Len(Since(a, i))
      BY <2>1, <2>2, <2>3 DEF Held
    <2>7. Held'
      <3> SUFFICES ASSUME exit' = Running
                   PROVE  Len(buffer') <= Len(Since(arrived', LastEnd(arrived')))
        BY DEF Held
      <3>1. CASE buffer' = << >>
        <4>1. arrived' \in Seq(Seq(Symbols))
          BY <2>1, <2>2
        <4>2. Len(Since(arrived', LastEnd(arrived'))) \in Nat
          BY ONLY <4>1, LastEndFacts
        <4> QED
          BY <3>1, <4>2
      <3>2. CASE ~ HaveAud(b) /\ buffer' = b
                   /\ exit' = IF Full(b) THEN Failed ELSE Running
        <4>1. Len(b) < BufferSize
          BY <2>5, <3>2 DEF Full, Running, Failed
        <4>2. ~ EndsWithAud(d)
          BY <2>5, <3>2, <4>1, AudAtEnd
        <4>3. LastEnd(arrived') = i
          BY <2>1, <2>2, <2>3, <4>2, LastEndKept
        <4> QED
          BY ONLY <4>3, <3>2, <2>4, <2>5, <2>6
      <3> QED
        BY <2>1, <3>1, <3>2
    <2>8. ExitJustified'
      <3> SUFFICES ASSUME exit' = Failed PROVE Len(Pending') >= BufferSize
        BY DEF ExitJustified
      <3>1. buffer' = b /\ Len(b) >= BufferSize
        BY <2>1 DEF Full, Running, Failed
      <3>2. Pending' = Since(arrived', i)
        <4>1. /\ Len(arrived') - 1 = Len(a)
              /\ \A j \in 1 .. Len(a) : arrived'[j] = a[j]
          BY <2>1, <2>2, AppendFacts
        <4>2. {j \in 1 .. Len(arrived') - 1 : EndsWithAud(arrived'[j])}
                = {j \in 1 .. Len(a) : EndsWithAud(a[j])}
          BY ONLY <4>1
        <4>3. Max({0} \cup {j \in 1 .. Len(arrived') - 1 : EndsWithAud(arrived'[j])}) = i
          BY ONLY <4>2, <2>3 DEF LastEnd, Ends
        <4> QED
          BY ONLY <4>3 DEF Pending, Since
      <3> QED
        BY ONLY <3>1, <3>2, <2>4, <2>5, <2>6
    <2> QED
      BY <2>7, <2>8
  <1>2. CASE RecvFails
    <2>1. UNCHANGED <<sockLen>> /\ sockLen < 0 /\ exit' = Failed
      BY <1>2 DEF RecvFails
    <2> QED
      BY <2>1 DEF Held, ExitJustified, Running, Failed
  <1>3. CASE Send \/ Fault \/ UNCHANGED vars
    <2>1. UNCHANGED <<arrived, buffer, exit, sockLen>>
      BY <1>3 DEF Send, Fault, vars
    <2>2. UNCHANGED <<Held, ExitJustified>>
      BY <2>1 DEF Held, ExitJustified, Pending
    <2> QED
      BY <2>2
  <1> QED
    BY <1>1, <1>2, <1>3 DEF Next

(***************************************************************************)
(* The receiver gives up only if recvfrom fails or the data since the last *)
(* end of a frame fill the buffer, whatever arrives and however it is cut. *)
(***************************************************************************)
THEOREM ExitIsJustified == Spec => []ExitJustified
  BY TypeCorrect, HeldInit, HeldStep, PTL DEF Spec

-----------------------------------------------------------------------------
(***************************************************************************)
(* The frames delivered, for every stream of well-formed frames            *)
(* (StreamsWellFormed).                                                    *)
(***************************************************************************)

(***************************************************************************)
(* What precedes the end of a frame holds no AUD.                          *)
(***************************************************************************)
LEMMA NoAudBefore ==
  ASSUME NEW w \in Seq(Symbols), WellFormed(w), NEW n \in 0 .. Len(w) - 1
  PROVE  ~ HaveAud(SubSeq(w, 1, n))
  <1>1. CASE n = 0
    <2>1. Len(SubSeq(w, 1, n)) = 0
      BY <1>1
    <2> QED
      BY <2>1 DEF HaveAud
  <1>2. CASE n # 0
    <2>1. n \in 1 .. Len(w) - 1
      BY <1>2
    <2> QED
      BY <2>1 DEF WellFormed
  <1> QED
    BY <1>1, <1>2

LEMMA CutConcat ==
  ASSUME NEW x \in Seq(Symbols), NEW y \in Seq(Symbols), NEW n \in 0 .. Len(x)
  PROVE  /\ SubSeq(x \o y, 1, n) = SubSeq(x, 1, n)
         /\ SubSeq(x \o y, 1, Len(x)) = x
  OBVIOUS

(***************************************************************************)
(* The buffer holds the first m datagrams of the frame f, and the next one *)
(* arrives: the frame is complete, or it does not fit, or the buffer holds *)
(* one datagram more.                                                      *)
(***************************************************************************)
Complete(f, m, b) == m + 1 = Len(f) /\ HaveAud(b) /\ b = FlattenSeq(f)
TooLong(f, m, b)  == /\ ~ HaveAud(b) /\ Full(b)
                     /\ m + 1 = Len(f) => Len(FlattenSeq(f)) > BufferSize
Longer(f, m, b)   == /\ m + 1 < Len(f) /\ ~ HaveAud(b)
                     /\ b = Prefix(f, m + 1)

LEMMA OneMore ==
  ASSUME NEW f \in Seq(Datagram), WellFormed(FlattenSeq(f)),
         NEW m \in 0 .. Len(f) - 1,
         buffer = Prefix(f, m), Len(buffer) <= BufferSize
  PROVE  LET b == Received(f[m + 1])
         IN Complete(f, m, b) \/ TooLong(f, m, b) \/ Longer(f, m, b)
  <1>1. /\ f \in Seq(Seq(Symbols))
        /\ \A k \in 1 .. Len(f) : f[k] \in Seq(Symbols) /\ Len(f[k]) > 0
    BY DEF Datagram
  <1>2. PICK w : w = FlattenSeq(f)
    OBVIOUS
  <1>3. w \in Seq(Symbols) /\ WellFormed(w)
    BY <1>1, <1>2, FlattenType
  <1>4. PICK d : d = f[m + 1]
    OBVIOUS
  <1>5. d \in Seq(Symbols)
    BY <1>1, <1>4
  <1>6. buffer \in Seq(Symbols)
    BY <1>1, PrefixFacts
  <1>7. PICK x : x = buffer \o d
    OBVIOUS
  <1>8. PICK t \in Seq(Symbols) :
          /\ w = x \o t
          /\ m + 1 = Len(f) => t = << >>
          /\ m + 1 < Len(f) => Len(t) > 0
    <2>1. PICK t \in Seq(Symbols) :
            /\ w = x \o t
            /\ m + 1 = Len(f) => t = << >>
            /\ m + 1 < Len(f) => Len(t) >= Len(f[m + 2])
      BY <1>1, <1>2, <1>4, <1>7, WholeIs
    <2>2. m + 1 < Len(f) => Len(f[m + 2]) \in Nat /\ Len(f[m + 2]) > 0
      BY <1>1
    <2> QED
      BY ONLY <2>1, <2>2, t \in Seq(Symbols)
  <1>9. /\ x \in Seq(Symbols) /\ Len(x) = Len(buffer) + Len(d)
        /\ Len(w) = Len(x) + Len(t)
        /\ Len(x) \in Nat /\ Len(t) \in Nat /\ Len(w) \in Nat
    <2>1. x \in Seq(Symbols) /\ Len(x) = Len(buffer) + Len(d)
      BY ONLY <1>5, <1>6, <1>7, ConcatFacts
    <2>2. Len(w) = Len(x) + Len(t)
      BY ONLY <2>1, <1>8, ConcatFacts
    <2> QED
      BY <2>1, <2>2, <1>3
  <1>10. PICK b : b = Received(d)
    OBVIOUS
  <1>11. /\ Len(x) <= BufferSize => b = x
         /\ Len(x) > BufferSize => b = SubSeq(x, 1, BufferSize)
         /\ BufferSize \in Nat
    BY <1>5, <1>6, <1>7, <1>9, <1>10, ReceivedFacts, BufferSizeAssumption
  <1>12. m + 1 = Len(f) \/ m + 1 < Len(f)
    OBVIOUS
  <1>13. CASE Len(x) <= BufferSize
    <2>1. b = x /\ SubSeq(w, 1, Len(x)) = x
      BY ONLY <1>8, <1>9, <1>11, <1>13, CutConcat
    <2>2. CASE m + 1 = Len(f)
      <3>1. b = w
        <4>1. w = b \o << >> /\ b \in Seq(Symbols)
          BY <1>8, <1>9, <2>1, <2>2
        <4> QED
          BY ONLY <4>1, ConcatEmptySeq
      <3> QED
        BY <3>1, <2>2, <1>2, <1>3, <1>4, <1>10 DEF Complete, WellFormed
    <2>3. CASE m + 1 < Len(f)
      <3>1. ~ HaveAud(b)
        <4>1. Len(x) \in 0 .. Len(w) - 1
          BY ONLY <1>8, <1>9, <2>3
        <4> QED
          BY ONLY <4>1, <2>1, <1>3, NoAudBefore
      <3>2. b = Prefix(f, m + 1)
        BY ONLY <1>1, <1>4, <1>7, <2>1, PrefixStep, buffer = Prefix(f, m),
                m \in 0 .. Len(f) - 1
      <3> QED
        BY <3>1, <3>2, <2>3, <1>4, <1>10 DEF Longer
    <2> QED
      BY ONLY <2>2, <2>3, <1>12
  <1>14. CASE Len(x) > BufferSize
    <2>1. b = SubSeq(w, 1, BufferSize)
      <3>1. BufferSize \in 0 .. Len(x)
        BY ONLY <1>9, <1>11, <1>14
      <3> QED
        BY ONLY <3>1, <1>8, <1>9, <1>11, <1>14, CutConcat
    <2>2. BufferSize \in 0 .. Len(w) - 1 /\ Len(w) > BufferSize
      BY ONLY <1>9, <1>11, <1>14
    <2>3. ~ HaveAud(b)
      BY ONLY <2>1, <2>2, <1>3, NoAudBefore
    <2>4. Len(b) = BufferSize
      BY ONLY <2>1, <2>2, <1>3
    <2>5. Full(b)
      BY <2>4, <1>11 DEF Full
    <2> QED
      BY <2>2, <2>3, <2>5, <1>2, <1>4, <1>10 DEF TooLong
  <1> QED
    BY ONLY <1>9, <1>11, <1>13, <1>14

LEMMA WellFormedFacts ==
  ASSUME StreamsWellFormed, NEW st \in Streams, NEW k \in 1 .. Len(st)
  PROVE  /\ WellFormed(FlattenSeq(st[k]))
         /\ st[k] \in Seq(Datagram) /\ st[k] \in Seq(Seq(Symbols))
         /\ FlattenSeq(st[k]) \in Seq(Symbols) /\ FlattenSeq(st[k]) # << >>
         /\ Len(st[k]) \in Nat /\ Len(st[k]) > 0
  <1>1. WellFormed(FlattenSeq(st[k]))
    BY DEF StreamsWellFormed
  <1>2. PICK f : f = st[k]
    OBVIOUS
  <1>3. f \in Seq(Datagram) /\ f \in Seq(Seq(Symbols)) /\ FlattenSeq(f) \in Seq(Symbols)
    BY <1>2, StreamFacts
  <1>4. FlattenSeq(f) # << >>
    BY <1>1, <1>2 DEF WellFormed, HaveAud
  <1>5. Len(f) # 0
    <2> SUFFICES ASSUME Len(f) = 0 PROVE FALSE
      OBVIOUS
    <2>1. f = << >>
      BY <1>3
    <2> QED
      BY <2>1, <1>4, FlattenEmpty
  <1>6. Len(f) \in Nat
    BY <1>3
  <1> QED
    BY <1>1, <1>2, <1>3, <1>4, <1>5, <1>6

(***************************************************************************)
(* While the loop runs, the buffer holds what has arrived of a frame whose *)
(* datagrams come one after the other behind the end of a frame.           *)
(***************************************************************************)
AtStart(a, i)    == i = 0 \/ EndsWithAud(a[i])
HasCome(a, f, i, m) == \A j \in 1 .. m : a[i + j] = f[j]

PartHeld(a, b, f) ==
  \A m \in 0 .. Len(f) - 1 :
    LET i == Len(a) - m
    IN i >= 0 /\ AtStart(a, i) /\ HasCome(a, f, i, m) => b = Prefix(f, m)

RunHeld ==
  exit = Running =>
    \A k \in 1 .. Len(stream) : PartHeld(arrived, buffer, stream[k])

LEMMA PartHeldStep ==
  ASSUME TypeOK, RecvFrom, exit' = Running, NEW f \in Seq(Datagram),
         WellFormed(FlattenSeq(f)), PartHeld(arrived, buffer, f)
  PROVE  PartHeld(arrived', buffer', f)
  <1>1. PICK d \in Seq(Symbols), b \in Seq(Symbols) :
         /\ b = Received(d)
         /\ arrived' = Append(arrived, d)
         /\ \/ HaveAud(b) /\ buffer' = << >>
            \/ ~ HaveAud(b) /\ buffer' = b /\ ~ Full(b)
    BY RecvFromFacts DEF Running, Failed
  <1>2. PICK a \in Seq(Seq(Symbols)) : a = arrived
    BY DEF TypeOK
  <1>3. PICK a2 : a2 = arrived'
    OBVIOUS
  <1>4. /\ a2 \in Seq(Seq(Symbols)) /\ Len(a2) = Len(a) + 1
        /\ \A j \in 1 .. Len(a) : a2[j] = a[j]
        /\ a2[Len(a) + 1] = d
    BY <1>1, <1>2, <1>3, AppendFacts
  <1>5. f \in Seq(Seq(Symbols)) /\ Len(f) \in Nat
    BY DEF Datagram
  <1>6. buffer \in Seq(Symbols) /\ Len(buffer) <= BufferSize
    BY DEF TypeOK
  <1>7. ASSUME NEW m \in 0 .. Len(f) - 1, NEW i, i = Len(a2) - m, i >= 0,
               AtStart(a2, i), HasCome(a2, f, i, m)
        PROVE  buffer' = Prefix(f, m)
    <2>1. CASE m = 0
      <3>1. EndsWithAud(d)
        BY <1>4, <1>7, <2>1 DEF AtStart
      <3>2. buffer' = << >>
        <4>1. CASE Len(b) < BufferSize
          <5>1. b = buffer \o d
            BY <4>1, <1>1, <1>6, ReceivedFacts
          <5>2. HaveAud(b)
            BY ONLY <5>1, <3>1, <1>6, AudAtEnd, d \in Seq(Symbols)
          <5> QED
            BY ONLY <5>2, <1>1
        <4>2. CASE Len(b) >= BufferSize
          BY <4>2, <1>1 DEF Full
        <4>3. Len(b) \in Nat /\ BufferSize \in Nat
          BY BufferSizeAssumption
        <4> QED
          BY ONLY <4>1, <4>2, <4>3
      <3>3. Prefix(f, 0) = << >>
        BY ONLY <1>5, PrefixFacts
      <3> QED
        BY ONLY <2>1, <3>2, <3>3
    <2>2. CASE m # 0
      <3>1. PICK n \in 0 .. Len(f) - 1 : m = n + 1 /\ n + 1 < Len(f)
        <4>1. m - 1 \in 0 .. Len(f) - 1 /\ m = m - 1 + 1 /\ m - 1 + 1 < Len(f)
          BY ONLY <2>2, <1>5, m \in 0 .. Len(f) - 1
        <4> QED
          BY <4>1
      <3>2. i = Len(a) - n /\ i \in 0 .. Len(a) /\ i + n = Len(a)
        BY <1>4, <1>7, <3>1
      <3>3. AtStart(a, i)
        <4>1. i = 0 \/ i \in 1 .. Len(a)
          BY ONLY <3>2, a \in Seq(Seq(Symbols))
        <4>2. i = 0 \/ a2[i] = a[i]
          BY ONLY <4>1, <1>4
        <4>3. i = 0 \/ EndsWithAud(a2[i])
          BY <1>7 DEF AtStart
        <4>4. i # 0 => EndsWithAud(a[i])
          BY ONLY <4>2, <4>3, Zenon
        <4> QED
          BY ONLY <4>4 DEF AtStart
      <3>4. HasCome(a, f, i, n)
        <4>1. \A j \in 1 .. n : j \in 1 .. m /\ i + j \in 1 .. Len(a)
          BY ONLY <3>1, <3>2, a \in Seq(Seq(Symbols))
        <4> QED
          BY ONLY <4>1, <1>4, <1>7 DEF HasCome
      <3>5. d = f[n + 1]
        <4>1. m \in 1 .. m /\ i + m = Len(a) + 1
          BY ONLY <2>2, <3>1, <3>2, a \in Seq(Seq(Symbols))
        <4>2. a2[i + m] = f[m]
          BY <4>1, <1>7 DEF HasCome
        <4> QED
          BY ONLY <4>1, <4>2, <1>4, <3>1
      <3>6. buffer = Prefix(f, n)
        BY <3>2, <3>3, <3>4, <1>2 DEF PartHeld
      <3>7. Complete(f, n, b) \/ TooLong(f, n, b) \/ Longer(f, n, b)
        BY <3>5, <3>6, <1>1, <1>6, OneMore
      <3>8. ~ Complete(f, n, b)
        BY ONLY <3>1, <1>5 DEF Complete
      <3>9. ~ HaveAud(b)
        BY ONLY <3>7, <3>8 DEF TooLong, Longer
      <3>10. b = Prefix(f, n + 1)
        BY ONLY <3>7, <3>8, <3>9, <1>1 DEF TooLong, Longer
      <3> QED
        BY ONLY <3>1, <3>9, <3>10, <1>1
    <2> QED
      BY <2>1, <2>2
  <1>8. PartHeld(a2, buffer', f)
    BY <1>7, <1>4, <1>5 DEF PartHeld
  <1> QED
    BY ONLY <1>3, <1>8

LEMMA RunHeldInit == Init => RunHeld
  <1> SUFFICES ASSUME Init PROVE RunHeld
    OBVIOUS
  <1>1. arrived = << >> /\ buffer = << >> /\ stream \in Streams
    BY DEF Init
  <1>2. ASSUME NEW k \in 1 .. Len(stream) PROVE PartHeld(arrived, buffer, stream[k])
    <2>1. stream[k] \in Seq(Seq(Symbols))
      BY <1>1, StreamFacts
    <2>2. Prefix(stream[k], 0) = << >>
      BY ONLY <2>1, PrefixFacts
    <2>3. \A m \in 0 .. Len(stream[k]) - 1 : Len(arrived) - m >= 0 => m = 0
      BY <1>1, <2>1
    <2> QED
      BY <1>1, <2>2, <2>3 DEF PartHeld
  <1> QED
    BY <1>2 DEF RunHeld

LEMMA RunHeldStep ==
  StreamsWellFormed /\ TypeOK /\ RunHeld /\ [Next]_vars => RunHeld'
  <1> SUFFICES ASSUME StreamsWellFormed, TypeOK, RunHeld, [Next]_vars,
                      exit' = Running
               PROVE  \A k \in 1 .. Len(stream') :
                        PartHeld(arrived', buffer', stream'[k])
    BY DEF RunHeld
  <1>1. CASE RecvFrom
    <2>1. stream' = stream /\ exit = Running /\ stream \in Streams
      BY <1>1 DEF RecvFrom, TypeOK
    <2>2. ASSUME NEW k \in 1 .. Len(stream)
          PROVE  PartHeld(arrived', buffer', stream[k])
      <3>1. stream[k] \in Seq(Datagram) /\ WellFormed(FlattenSeq(stream[k]))
        BY <2>1, WellFormedFacts
      <3>2. PartHeld(arrived, buffer, stream[k])
        BY <2>1 DEF RunHeld
      <3> QED
        BY <1>1, <3>1, <3>2, PartHeldStep
    <2> QED
      BY <2>1, <2>2
  <1>2. CASE RecvFails
    BY <1>2 DEF RecvFails, Running, Failed
  <1>3. CASE Send \/ Fault \/ UNCHANGED vars
    <2>1. UNCHANGED <<stream, arrived, buffer, exit>>
      BY <1>3 DEF Send, Fault, vars
    <2> QED
      BY <2>1 DEF RunHeld
  <1> QED
    BY <1>1, <1>2, <1>3 DEF Next

(***************************************************************************)
(* A frame that has come in one run has been delivered.                    *)
(***************************************************************************)
IsDelivered(D, w) == \E n \in 1 .. Len(D) : D[n] = w

OneRun(a, f, i) ==
  /\ i + Len(f) <= Len(a)
  /\ SubSeq(a, i + 1, i + Len(f)) = f
  /\ AtStart(a, i)

RunDelivered(a, D, f) ==
  \A i \in 0 .. Len(a) :
    Headed(FlattenSeq(f)) /\ Len(FlattenSeq(f)) <= BufferSize /\ OneRun(a, f, i)
      => IsDelivered(D, FlattenSeq(f))

LEMMA ResynchronisesIs ==
  Resynchronises <=> \A k \in 1 .. Len(stream) :
                       RunDelivered(arrived, delivered, stream[k])
  <1>1. \A k, i : ArrivedInOneRun(k, i) <=> OneRun(arrived, stream[k], i)
    BY DEF ArrivedInOneRun, OneRun, AtStart
  <1> QED
    BY <1>1 DEF Resynchronises, RunDelivered, IsDelivered

LEMMA HeadedKept ==
  ASSUME NEW w \in Seq(Symbols), w # << >>, Headed(w)
  PROVE  AdjustStreamOffset(w) = w
  <1>1. AdjustStreamOffset(w) = SubSeq(w, 1, Len(w))
    BY AdjustFacts
  <1>2. SubSeq(w, 1, Len(w)) = w
    OBVIOUS
  <1> QED
    BY <1>1, <1>2

LEMMA RunDeliveredStep ==
  ASSUME TypeOK, RecvFrom, NEW f \in Seq(Datagram), Len(f) > 0,
         WellFormed(FlattenSeq(f)),
         PartHeld(arrived, buffer, f), RunDelivered(arrived, delivered, f)
  PROVE  RunDelivered(arrived', delivered', f)
  <1>1. PICK d \in Seq(Symbols), b \in Seq(Symbols) :
         /\ b = Received(d)
         /\ arrived' = Append(arrived, d)
         /\ \/ /\ HaveAud(b)
               /\ delivered' = Append(delivered, AdjustStreamOffset(b))
            \/ ~ HaveAud(b) /\ delivered' = delivered
    BY RecvFromFacts
  <1>2. PICK a \in Seq(Seq(Symbols)), D \in Seq(Seq(Symbols)) :
          a = arrived /\ D = delivered
    BY DEF TypeOK
  <1>3. PICK a2, D2 : a2 = arrived' /\ D2 = delivered'
    OBVIOUS
  <1>4. /\ a2 \in Seq(Seq(Symbols)) /\ Len(a2) = Len(a) + 1
        /\ \A j \in 1 .. Len(a) : a2[j] = a[j]
        /\ a2[Len(a) + 1] = d
        /\ Len(a) \in Nat
    BY <1>1, <1>2, <1>3, AppendFacts
  <1>5. f \in Seq(Seq(Symbols)) /\ Len(f) \in Nat
    BY DEF Datagram
  <1>6. buffer \in Seq(Symbols) /\ Len(buffer) <= BufferSize
    BY DEF TypeOK
  <1>7. PICK w \in Seq(Symbols) : w = FlattenSeq(f)
    BY <1>5, FlattenType
  <1>8. w # << >>
    BY <1>7 DEF WellFormed, HaveAud
  <1>9. IsDelivered(D, w) => IsDelivered(D2, w)
    <2> SUFFICES ASSUME IsDelivered(D, w), HaveAud(b),
                        D2 = Append(D, AdjustStreamOffset(b))
                 PROVE  IsDelivered(D2, w)
      BY <1>1, <1>2, <1>3
    <2>1. AdjustStreamOffset(b) \in Seq(Symbols)
      BY AdjustFacts
    <2>2. /\ Len(D2) = Len(D) + 1 /\ Len(D) \in Nat
          /\ \A n \in 1 .. Len(D) : D2[n] = D[n]
      BY <2>1, AppendFacts
    <2>3. PICK n \in 1 .. Len(D) : D[n] = w
      BY DEF IsDelivered
    <2>4. n \in 1 .. Len(D2) /\ D2[n] = w
      BY <2>2, <2>3
    <2> QED
      BY ONLY <2>4 DEF IsDelivered
  <1>10. ASSUME NEW i \in 0 .. Len(a2), Headed(w), Len(w) <= BufferSize,
                OneRun(a2, f, i)
         PROVE  IsDelivered(D2, w)
    <2>1. /\ i \in Nat /\ i + Len(f) <= Len(a2)
          /\ \A j \in 1 .. Len(f) : a2[i + j] = f[j]
          /\ AtStart(a2, i)
      <3>1. i + Len(f) <= Len(a2) /\ SubSeq(a2, i + 1, i + Len(f)) = f /\ AtStart(a2, i)
        BY <1>10 DEF OneRun
      <3>2. \A j \in 1 .. Len(f) : SubSeq(a2, i + 1, i + Len(f))[j] = a2[i + j]
        BY <3>1, <1>4, <1>5
      <3>3. \A j \in 1 .. Len(f) : a2[i + j] = f[j]
        BY ONLY <3>1, <3>2
      <3>4. i \in Nat
        BY <1>4
      <3> QED
        BY ONLY <3>1, <3>3, <3>4
    <2>a. /\ i \in Nat /\ i + Len(f) <= Len(a) + 1
          /\ Len(a) \in Nat /\ Len(f) \in Nat /\ Len(f) > 0
      BY ONLY <2>1, <1>4, <1>5, Len(f) > 0
    <2>2. i \in 0 .. Len(a) /\ AtStart(a, i)
      <3>1. i \in 0 .. Len(a)
        BY ONLY <2>a
      <3>2. i # 0 => i \in 1 .. Len(a)
        BY ONLY <3>1
      <3>3. i # 0 => a2[i] = a[i]
        BY ONLY <3>2, <1>4
      <3> QED
        BY ONLY <2>1, <3>1, <3>3 DEF AtStart
    <2>3. CASE i + Len(f) <= Len(a)
      <3>1. PICK s : s = SubSeq(a, i + 1, i + Len(f))
        OBVIOUS
      <3>2. /\ s \in Seq(Seq(Symbols)) /\ Len(s) = Len(f)
            /\ \A j \in 1 .. Len(f) : s[j] = a[i + j]
        <4>1. /\ i + 1 \in Nat \ {0} /\ i + Len(f) \in Nat /\ i + Len(f) <= Len(a)
              /\ i + 1 <= i + Len(f) /\ i + Len(f) - (i + 1) + 1 = Len(f)
              /\ \A j \in 1 .. Len(f) : i + 1 + j - 1 = i + j
          BY ONLY <2>a, <2>3
        <4>2. PICK n \in Nat, p \in Nat \ {0}, q \in Nat :
                n = Len(f) /\ p = i + 1 /\ q = i + Len(f)
          BY ONLY <4>1, <2>a
        <4>3. s = SubSeq(a, p, q) /\ q <= Len(a) /\ p <= q /\ q - p + 1 = n
          BY ONLY <4>1, <4>2, <3>1
        <4>4. /\ s \in Seq(Seq(Symbols)) /\ Len(s) = n
              /\ \A j \in 1 .. n : s[j] = a[p + j - 1]
          BY ONLY <4>3, a \in Seq(Seq(Symbols)), p \in Nat \ {0}, q \in Nat
        <4> QED
          BY ONLY <4>1, <4>2, <4>4
      <3>3. \A j \in 1 .. Len(f) : a[i + j] = a2[i + j]
        <4>1. \A j \in 1 .. Len(f) : i + j \in 1 .. Len(a)
          BY ONLY <2>a, <2>3
        <4> QED
          BY ONLY <4>1, <1>4
      <3>4. \A j \in 1 .. Len(s) : s[j] = f[j]
        BY ONLY <2>1, <3>2, <3>3
      <3>5. s = f
        BY ONLY <3>2, <3>4, <1>5, SeqEqual
      <3>6. OneRun(a, f, i)
        BY ONLY <3>1, <3>5, <2>2, <2>3 DEF OneRun
      <3>7. IsDelivered(D, w)
        BY <3>6, <2>2, <1>2, <1>7, <1>10 DEF RunDelivered
      <3> QED
        BY ONLY <3>7, <1>9
    <2>4. CASE i + Len(f) = Len(a) + 1
      <3>1. PICK m \in 0 .. Len(f) - 1 : m + 1 = Len(f)
        <4>1. Len(f) - 1 \in 0 .. Len(f) - 1 /\ Len(f) - 1 + 1 = Len(f)
          BY ONLY <1>5, Len(f) > 0
        <4> QED
          BY <4>1
      <3>2. Len(a) - m = i /\ i >= 0
        BY ONLY <3>1, <2>a, <2>4
      <3>3. HasCome(a, f, i, m)
        <4>1. \A j \in 1 .. m : j \in 1 .. Len(f) /\ i + j \in 1 .. Len(a)
          BY ONLY <3>1, <2>a, <2>4
        <4> QED
          BY ONLY <4>1, <2>1, <1>4 DEF HasCome
      <3>4. d = f[m + 1]
        <4>1. Len(f) \in 1 .. Len(f)
          BY ONLY <1>5, Len(f) > 0
        <4> QED
          BY ONLY <4>1, <3>1, <2>1, <2>4, <1>4
      <3>5. buffer = Prefix(f, m)
        BY <3>2, <3>3, <2>2, <1>2 DEF PartHeld
      <3>6. Complete(f, m, b) \/ TooLong(f, m, b) \/ Longer(f, m, b)
        BY <3>4, <3>5, <1>1, <1>6, OneMore
      <3>7. ~ TooLong(f, m, b)
        <4> SUFFICES ASSUME TooLong(f, m, b) PROVE FALSE
          OBVIOUS
        <4>1. Len(w) > BufferSize
          BY <3>1, <1>7 DEF TooLong
        <4>2. Len(w) \in Nat /\ BufferSize \in Nat
          BY BufferSizeAssumption
        <4> QED
          BY ONLY <4>1, <4>2, <1>10
      <3>8. ~ Longer(f, m, b)
        BY ONLY <3>1, <1>5 DEF Longer
      <3>9. HaveAud(b) /\ b = w
        BY ONLY <3>6, <3>7, <3>8, <1>7 DEF Complete
      <3>10. AdjustStreamOffset(b) = w
        BY ONLY <3>9, <1>8, <1>10, HeadedKept, w \in Seq(Symbols)
      <3>11. D2 = Append(D, w)
        BY ONLY <3>9, <3>10, <1>1, <1>2, <1>3
      <3>12. Len(D) + 1 \in 1 .. Len(D2) /\ D2[Len(D) + 1] = w
        BY <3>11, AppendFacts
      <3> QED
        BY ONLY <3>12 DEF IsDelivered
    <2>5. i + Len(f) <= Len(a) \/ i + Len(f) = Len(a) + 1
      <3>1. PICK p \in Nat, l \in Nat : p = i + Len(f) /\ l = Len(a)
        BY ONLY <2>a
      <3>2. p <= l + 1
        BY ONLY <2>a, <3>1
      <3>3. p <= l \/ p = l + 1
        BY ONLY <3>2, p \in Nat, l \in Nat
      <3> QED
        BY ONLY <3>1, <3>3
    <2> QED
      BY ONLY <2>3, <2>4, <2>5
  <1>11. RunDelivered(a2, D2, f)
    BY <1>10, <1>7 DEF RunDelivered
  <1> QED
    BY ONLY <1>3, <1>11

LEMMA ResynchronisesInit == StreamsWellFormed /\ Init => Resynchronises
  <1> SUFFICES ASSUME StreamsWellFormed, Init, NEW k \in 1 .. Len(stream)
               PROVE  RunDelivered(arrived, delivered, stream[k])
    BY ResynchronisesIs
  <1>1. arrived = << >> /\ stream \in Streams
    BY DEF Init
  <1>2. Len(stream[k]) \in Nat /\ Len(stream[k]) > 0
    BY <1>1, WellFormedFacts
  <1>3. \A i \in 0 .. Len(arrived) : ~ (i + Len(stream[k]) <= Len(arrived))
    BY <1>1, <1>2
  <1>4. \A i \in 0 .. Len(arrived) : ~ OneRun(arrived, stream[k], i)
    BY <1>3 DEF OneRun
  <1> QED
    BY ONLY <1>4 DEF RunDelivered

LEMMA ResynchronisesStep ==
  StreamsWellFormed /\ TypeOK /\ RunHeld /\ Resynchronises /\ [Next]_vars
    => Resynchronises'
  <1> SUFFICES ASSUME StreamsWellFormed, TypeOK, RunHeld, Resynchronises,
                      [Next]_vars
               PROVE  \A k \in 1 .. Len(stream') :
                        RunDelivered(arrived', delivered', stream'[k])
    BY DEF Resynchronises, ArrivedInOneRun, RunDelivered, IsDelivered, OneRun,
           AtStart
  <1>1. \A k \in 1 .. Len(stream) : RunDelivered(arrived, delivered, stream[k])
    BY ResynchronisesIs
  <1>2. CASE RecvFrom
    <2>1. stream' = stream /\ exit = Running /\ stream \in Streams
      BY <1>2 DEF RecvFrom, TypeOK
    <2>2. ASSUME NEW k \in 1 .. Len(stream)
          PROVE  RunDelivered(arrived', delivered', stream[k])
      <3>1. /\ stream[k] \in Seq(Datagram) /\ WellFormed(FlattenSeq(stream[k]))
            /\ Len(stream[k]) > 0
        BY <2>1, WellFormedFacts
      <3>2. PartHeld(arrived, buffer, stream[k])
        BY <2>1 DEF RunHeld
      <3> QED
        BY <1>1, <1>2, <3>1, <3>2, RunDeliveredStep
    <2> QED
      BY <2>1, <2>2
  <1>3. CASE RecvFails \/ Send \/ Fault \/ UNCHANGED vars
    <2>1. UNCHANGED <<stream, arrived, delivered>>
      BY <1>3 DEF RecvFails, Send, Fault, vars
    <2> QED
      BY <2>1, <1>1
  <1> QED
    BY <1>2, <1>3 DEF Next

(***************************************************************************)
(* Whatever the network loses, duplicates or reorders, a headed frame that *)
(* fits into the buffer is returned whole by recvStream if its datagrams   *)
(* arrive one after the other behind the end of a frame.                   *)
(***************************************************************************)
THEOREM ReceiverResynchronises ==
  ASSUME StreamsWellFormed
  PROVE  Spec => []Resynchronises
  BY TypeCorrect, RunHeldInit, RunHeldStep, ResynchronisesInit,
     ResynchronisesStep, PTL DEF Spec

(***************************************************************************)
(* As long as the network has committed no fault, what is under way        *)
(* follows what has arrived, and what has arrived ends in the middle of    *)
(* the frame to be delivered next.                                         *)
(***************************************************************************)
FrameOK(x, w) == IsSuffixOf(x, w) /\ (Headed(w) => x = w)

InStep(a, net, n, ds) ==
  Len(a) + Len(net) = n /\ \A j \in 1 .. Len(net) : net[j] = ds[Len(a) + j]

Amid(st, D, a, b, m) ==
  /\ Len(a) = Len(Prefix(st, Len(D))) + m
  /\ IF Len(D) < Len(st)
     THEN m < Len(st[Len(D) + 1]) /\ b = Prefix(st[Len(D) + 1], m)
     ELSE m = 0

InOrder ==
  faults = 0 /\ exit = Running =>
    /\ InStep(arrived, network, sent, Datagrams)
    /\ \E m \in Nat : Amid(stream, delivered, arrived, buffer, m)

LEMMA AdjustOK ==
  ASSUME NEW w \in Seq(Symbols), w # << >>
  PROVE  FrameOK(AdjustStreamOffset(w), w)
  <1>1. PICK i \in 1 .. Len(w) + 1 :
          AdjustStreamOffset(w) = SubSeq(w, i, Len(w)) /\ (Headed(w) => i = 1)
    BY AdjustFacts
  <1>2. PICK x : x = AdjustStreamOffset(w)
    OBVIOUS
  <1>3. x = SubSeq(w, i, Len(w)) /\ Len(x) = Len(w) - i + 1
    BY <1>1, <1>2
  <1>4. Len(x) <= Len(w) /\ Len(w) - Len(x) + 1 = i
    BY <1>3
  <1>5. Headed(w) => x = w
    <2>1. SubSeq(w, 1, Len(w)) = w
      OBVIOUS
    <2> QED
      BY <2>1, <1>1, <1>3
  <1>6. IsSuffixOf(x, w)
    BY ONLY <1>3, <1>4 DEF IsSuffixOf
  <1> QED
    BY <1>2, <1>5, <1>6 DEF FrameOK

LEMMA DatagramAt ==
  ASSUME NEW st \in Streams, NEW K \in 0 .. Len(st) - 1
  PROVE  /\ Len(Prefix(st, K)) \in Nat
         /\ Len(Prefix(st, K + 1)) = Len(Prefix(st, K)) + Len(st[K + 1])
         /\ \A m \in 0 .. Len(st[K + 1]) - 1 :
              FlattenSeq(st)[Len(Prefix(st, K)) + (m + 1)] = st[K + 1][m + 1]
  <1>1. PICK p : p = Prefix(st, K)
    OBVIOUS
  <1>2. PICK f : f = st[K + 1]
    OBVIOUS
  <1>3. st \in Seq(Seq(Datagram))
    BY StreamFacts
  <1>4. p \in Seq(Datagram) /\ f \in Seq(Datagram)
    BY ONLY <1>1, <1>2, <1>3, PrefixFacts, K \in 0 .. Len(st) - 1
  <1>5. PICK t \in Seq(Datagram) : FlattenSeq(st) = (p \o f) \o t
    BY ONLY <1>1, <1>2, <1>3, WholeIs, K \in 0 .. Len(st) - 1
  <1>6. PICK q : q = p \o f
    OBVIOUS
  <1>7. /\ q \in Seq(Datagram) /\ Len(q) = Len(p) + Len(f)
        /\ \A j \in 1 .. Len(f) : q[Len(p) + j] = f[j]
        /\ Len(p) \in Nat /\ Len(f) \in Nat
    <2>1. /\ q \in Seq(Datagram) /\ Len(q) = Len(p) + Len(f)
          /\ \A j \in 1 .. Len(f) : q[Len(p) + j] = f[j]
      BY ONLY <1>4, <1>6, ConcatFacts
    <2>2. Len(p) \in Nat /\ Len(f) \in Nat
      BY ONLY <1>4
    <2> QED
      BY ONLY <2>1, <2>2
  <1>8. \A j \in 1 .. Len(q) : FlattenSeq(st)[j] = q[j]
    BY ONLY <1>5, <1>6, <1>7, ConcatFacts
  <1>9. \A m \in 0 .. Len(f) - 1 : FlattenSeq(st)[Len(p) + (m + 1)] = f[m + 1]
    <2> TAKE m \in 0 .. Len(f) - 1
    <2>1. m + 1 \in 1 .. Len(f) /\ Len(p) + (m + 1) \in 1 .. Len(q)
      BY ONLY <1>7, m \in 0 .. Len(f) - 1
    <2>2. FlattenSeq(st)[Len(p) + (m + 1)] = q[Len(p) + (m + 1)]
      BY ONLY <2>1, <1>8
    <2>3. q[Len(p) + (m + 1)] = f[m + 1]
      BY ONLY <2>1, <1>7
    <2> QED
      BY ONLY <2>2, <2>3
  <1>10. Prefix(st, K + 1) = q
    BY ONLY <1>1, <1>2, <1>3, <1>6, PrefixStep, K \in 0 .. Len(st) - 1
  <1> QED
    BY ONLY <1>1, <1>2, <1>7, <1>9, <1>10

LEMMA InStepReceives ==
  ASSUME NEW a \in Seq(Seq(Symbols)), NEW net \in Seq(Seq(Symbols)),
         net # << >>, NEW d \in Seq(Symbols), NEW n, NEW ds,
         InStep(a, net, n, ds)
  PROVE  InStep(Append(a, d), Tail(net), n, ds)
  <1>1. PICK l \in Nat : l = Len(a)
    OBVIOUS
  <1>2. PICK k \in Nat : Len(net) = k + 1
    <2>1. Len(net) - 1 \in Nat /\ Len(net) = Len(net) - 1 + 1
      BY HeadTailFacts
    <2> QED
      BY <2>1
  <1>3. PICK tl : tl = Tail(net)
    OBVIOUS
  <1>4. Len(tl) = k /\ \A j \in 1 .. k : tl[j] = net[j + 1]
    BY <1>2, <1>3, HeadTailFacts
  <1>5. Len(Append(a, d)) = l + 1
    BY <1>1, AppendFacts
  <1>6. l + (k + 1) = n /\ \A j \in 1 .. k + 1 : net[j] = ds[l + j]
    BY ONLY <1>1, <1>2, InStep(a, net, n, ds) DEF InStep
  <1>7. \A j \in 1 .. k : j + 1 \in 1 .. k + 1 /\ l + (j + 1) = l + 1 + j
    BY ONLY l \in Nat, k \in Nat
  <1>8. \A j \in 1 .. k : tl[j] = ds[l + 1 + j]
    BY ONLY <1>4, <1>6, <1>7
  <1>9. l + 1 + k = n
    BY ONLY <1>6, l \in Nat, k \in Nat
  <1> QED
    BY ONLY <1>3, <1>4, <1>5, <1>8, <1>9 DEF InStep

LEMMA InStepSends ==
  ASSUME NEW a \in Seq(Seq(Symbols)), NEW net \in Seq(Seq(Symbols)),
         NEW n \in Nat, NEW ds, ds[n + 1] \in Seq(Symbols),
         InStep(a, net, n, ds)
  PROVE  InStep(a, Append(net, ds[n + 1]), n + 1, ds)
  <1>1. PICK l \in Nat : l = Len(a)
    OBVIOUS
  <1>2. PICK k \in Nat : k = Len(net)
    OBVIOUS
  <1>3. PICK ap : ap = Append(net, ds[n + 1])
    OBVIOUS
  <1>4. /\ Len(ap) = k + 1 /\ ap[k + 1] = ds[n + 1]
        /\ \A j \in 1 .. k : ap[j] = net[j]
    BY ONLY <1>2, <1>3, AppendFacts, ds[n + 1] \in Seq(Symbols),
            net \in Seq(Seq(Symbols))
  <1>5. l + k = n /\ \A j \in 1 .. k : net[j] = ds[l + j]
    BY ONLY <1>1, <1>2, InStep(a, net, n, ds) DEF InStep
  <1>6. l + (k + 1) = n + 1
    <2>1. l + k = n
      BY ONLY <1>5
    <2> QED
      BY ONLY <2>1, l \in Nat, k \in Nat
  <1>7. \A j \in 1 .. k + 1 : ap[j] = ds[l + j]
    <2> TAKE j \in 1 .. k + 1
    <2>1. j \in 1 .. k \/ j = k + 1
      OBVIOUS
    <2> QED
      BY ONLY <2>1, <1>4, <1>5, <1>6
  <1> QED
    BY ONLY <1>1, <1>3, <1>4, <1>6, <1>7 DEF InStep

(***************************************************************************)
(* A datagram arrives amid the frame K + 1.                                *)
(***************************************************************************)
FramesOK(st, D) ==
  Len(D) <= Len(st) /\ \A k \in 1 .. Len(D) : FrameOK(D[k], FlattenSeq(st[k]))

LEMMA FramesIntactIs == FramesIntact <=> (faults = 0 => FramesOK(stream, delivered))
  BY DEF FramesIntact, FramesOK, FrameOK

LEMMA NextFrame ==
  ASSUME StreamsWellFormed, TypeOK, network # << >>,
         InStep(arrived, network, sent, Datagrams), Len(delivered) <= Len(stream),
         NEW m \in Nat, Amid(stream, delivered, arrived, buffer, m)
  PROVE  /\ Len(delivered) < Len(stream)
         /\ LET f == stream[Len(delivered) + 1]
            IN m < Len(f) /\ buffer = Prefix(f, m) /\ Head(network) = f[m + 1]
  <1>1. /\ stream \in Streams /\ Len(arrived) \in Nat /\ Len(delivered) \in Nat
        /\ sent \in 0 .. Len(Datagrams) /\ network \in Seq(Seq(Symbols))
    BY DEF TypeOK
  <1>2. Len(stream) \in Nat /\ Len(Datagrams) \in Nat
    BY <1>1, StreamFacts DEF Datagrams
  <1>3. Len(network) \in Nat \ {0} /\ Head(network) = network[1]
    BY <1>1, HeadTailFacts
  <1>4. /\ Len(arrived) + Len(network) = sent
        /\ network[1] = Datagrams[Len(arrived) + 1]
    BY <1>3 DEF InStep
  <1>5. Len(arrived) < Len(Datagrams)
    BY ONLY <1>1, <1>2, <1>3, <1>4
  <1>6. Len(delivered) < Len(stream)
    <2> SUFFICES ASSUME Len(delivered) = Len(stream) PROVE FALSE
      BY <1>1, <1>2
    <2>1. m = 0 /\ Len(arrived) = Len(Prefix(stream, Len(stream))) + m
      BY <1>2 DEF Amid
    <2>2. Prefix(stream, Len(stream)) = Datagrams
      <3>1. stream \in Seq(Seq(Datagram))
        BY <1>1, StreamFacts
      <3> QED
        BY ONLY <3>1, PrefixFacts DEF Datagrams
    <2> QED
      BY ONLY <2>1, <2>2, <1>2, <1>5
  <1>7. PICK K \in 0 .. Len(stream) - 1 : K = Len(delivered)
    BY <1>1, <1>2, <1>6
  <1>8. PICK f : f = stream[K + 1]
    OBVIOUS
  <1>9. /\ Len(arrived) = Len(Prefix(stream, K)) + m
        /\ m < Len(f) /\ buffer = Prefix(f, m)
    BY <1>6, <1>7, <1>8 DEF Amid
  <1>10. Len(f) \in Nat
    BY <1>1, <1>2, <1>7, <1>8, WellFormedFacts
  <1>11. m \in 0 .. Len(f) - 1
    BY ONLY <1>9, <1>10, m \in Nat
  <1>12. Len(Prefix(stream, K)) \in Nat
           /\ Datagrams[Len(Prefix(stream, K)) + (m + 1)] = f[m + 1]
    BY ONLY <1>1, <1>8, <1>11, DatagramAt, K \in 0 .. Len(stream) - 1 DEF Datagrams
  <1>13. Len(arrived) + 1 = Len(Prefix(stream, K)) + (m + 1)
    BY ONLY <1>9, <1>12, m \in Nat
  <1> QED
    BY ONLY <1>3, <1>4, <1>6, <1>7, <1>8, <1>9, <1>12, <1>13

LEMMA NextFrameStep ==
  ASSUME StreamsWellFormed, TypeOK, RecvFrom, FramesOK(stream, delivered),
         InStep(arrived, network, sent, Datagrams),
         NEW m \in Nat, Amid(stream, delivered, arrived, buffer, m)
  PROVE  /\ FramesOK(stream, delivered')
         /\ exit' = Running =>
              \E n \in Nat : Amid(stream, delivered', arrived', buffer', n)
  <1>1. PICK d \in Seq(Symbols), b \in Seq(Symbols) :
         /\ d = Head(network) /\ b = Received(d) /\ network # << >>
         /\ arrived' = Append(arrived, d)
         /\ \/ /\ HaveAud(b)
               /\ delivered' = Append(delivered, AdjustStreamOffset(b))
               /\ buffer' = << >>
            \/ /\ ~ HaveAud(b)
               /\ buffer' = b
               /\ exit' = IF Full(b) THEN Failed ELSE Running
               /\ delivered' = delivered
    BY RecvFromFacts
  <1>2. /\ stream \in Streams /\ Len(stream) \in Nat /\ Len(arrived) \in Nat
        /\ arrived \in Seq(Seq(Symbols)) /\ delivered \in Seq(Seq(Symbols))
        /\ buffer \in Seq(Symbols) /\ Len(buffer) <= BufferSize
        /\ Len(delivered) \in Nat
    BY StreamFacts DEF TypeOK
  <1>3. PICK K \in 0 .. Len(stream) - 1 : K = Len(delivered)
    <2>1. Len(delivered) < Len(stream)
      BY <1>1, NextFrame DEF FramesOK
    <2>2. Len(delivered) \in 0 .. Len(stream) - 1
      BY ONLY <2>1, <1>2
    <2> QED
      BY <2>2
  <1>4. PICK f : f = stream[K + 1]
    OBVIOUS
  <1>5. m < Len(f) /\ buffer = Prefix(f, m) /\ d = f[m + 1]
    BY <1>1, <1>3, <1>4, NextFrame DEF FramesOK
  <1>6. /\ f \in Seq(Datagram) /\ f \in Seq(Seq(Symbols)) /\ Len(f) \in Nat
        /\ WellFormed(FlattenSeq(f)) /\ FlattenSeq(f) \in Seq(Symbols)
        /\ FlattenSeq(f) # << >>
    <2>1. K + 1 \in 1 .. Len(stream)
      BY ONLY <1>2, K \in 0 .. Len(stream) - 1
    <2> QED
      BY ONLY <1>2, <1>4, <2>1, WellFormedFacts, StreamsWellFormed
  <1>7. m \in 0 .. Len(f) - 1
    BY ONLY <1>5, <1>6, m \in Nat
  <1>8. Complete(f, m, b) \/ TooLong(f, m, b) \/ Longer(f, m, b)
    BY ONLY <1>1, <1>2, <1>5, <1>6, <1>7, OneMore
  <1>9. /\ Len(Prefix(stream, K)) \in Nat
        /\ Len(Prefix(stream, K + 1)) = Len(Prefix(stream, K)) + Len(f)
    BY ONLY <1>2, <1>4, DatagramAt, K \in 0 .. Len(stream) - 1
  <1>10. Len(arrived) = Len(Prefix(stream, K)) + m
    BY <1>3 DEF Amid
  <1>11. Len(arrived') = Len(Prefix(stream, K)) + (m + 1)
    <2>1. Len(arrived') = Len(arrived) + 1
      BY ONLY <1>1, <1>2, AppendFacts
    <2> QED
      BY ONLY <2>1, <1>9, <1>10, m \in Nat
  <1>12. CASE Complete(f, m, b)
    <2>1. PICK x : x = AdjustStreamOffset(FlattenSeq(f))
      OBVIOUS
    <2>2. x \in Seq(Symbols) /\ FrameOK(x, FlattenSeq(f))
      BY ONLY <2>1, <1>6, AdjustFacts, AdjustOK
    <2>3. delivered' = Append(delivered, x) /\ buffer' = << >> /\ m + 1 = Len(f)
      BY ONLY <1>1, <1>12, <2>1 DEF Complete
    <2>4. PICK D : D = delivered'
      OBVIOUS
    <2>5. /\ Len(D) = K + 1 /\ D[K + 1] = x
          /\ \A k \in 1 .. K : D[k] = delivered[k]
      BY ONLY <2>2, <2>3, <2>4, <1>2, <1>3, AppendFacts
    <2>6. FramesOK(stream, D)
      <3>1. \A k \in 1 .. K + 1 : FrameOK(D[k], FlattenSeq(stream[k]))
        <4> TAKE k \in 1 .. K + 1
        <4>1. k \in 1 .. K \/ k = K + 1
          OBVIOUS
        <4>2. CASE k \in 1 .. K
          <5>1. FrameOK(delivered[k], FlattenSeq(stream[k]))
            BY <4>2, <1>3 DEF FramesOK
          <5> QED
            BY ONLY <5>1, <4>2, <2>5
        <4>3. CASE k = K + 1
          BY ONLY <4>3, <2>2, <2>5, <1>4
        <4> QED
          BY ONLY <4>1, <4>2, <4>3
      <3>2. K + 1 <= Len(stream)
        BY ONLY <1>2, K \in 0 .. Len(stream) - 1
      <3> QED
        BY ONLY <3>1, <3>2, <2>5 DEF FramesOK
    <2>7. Amid(stream, D, arrived', buffer', 0)
      <3>1. Len(arrived') = Len(Prefix(stream, K + 1)) + 0
        <4>1. Len(f) \in Nat /\ m + 1 = Len(f)
          BY ONLY <1>6, <2>3
        <4>2. Len(arrived') = Len(Prefix(stream, K + 1))
          BY ONLY <4>1, <1>9, <1>11
        <4>3. Len(Prefix(stream, K + 1)) \in Nat
          BY ONLY <4>1, <1>9
        <4> QED
          BY ONLY <4>2, <4>3
      <3>2. ASSUME K + 1 < Len(stream)
            PROVE  /\ 0 < Len(stream[K + 1 + 1])
                   /\ buffer' = Prefix(stream[K + 1 + 1], 0)
        <4>1. K + 1 + 1 \in 1 .. Len(stream)
          BY ONLY <3>2, <1>2, K \in 0 .. Len(stream) - 1
        <4>2. PICK g : g = stream[K + 1 + 1]
          OBVIOUS
        <4>3. g \in Seq(Seq(Symbols)) /\ Len(g) > 0 /\ Len(g) \in Nat
          BY ONLY <4>1, <4>2, <1>2, WellFormedFacts, StreamsWellFormed
        <4>4. Prefix(g, 0) = << >>
          BY ONLY <4>3, PrefixFacts
        <4> QED
          BY ONLY <4>2, <4>3, <4>4, <2>3
      <3> QED
        BY ONLY <3>1, <3>2, <2>5 DEF Amid
    <2> QED
      BY ONLY <2>4, <2>6, <2>7
  <1>13. CASE TooLong(f, m, b)
    <2>1. delivered' = delivered /\ exit' = Failed
      BY ONLY <1>1, <1>13 DEF TooLong
    <2> QED
      BY <2>1 DEF Running, Failed
  <1>14. CASE Longer(f, m, b)
    <2>1. delivered' = delivered /\ buffer' = Prefix(f, m + 1) /\ m + 1 < Len(f)
      BY ONLY <1>1, <1>14 DEF Longer
    <2>2. Len(delivered') = K /\ K < Len(stream) /\ m + 1 \in Nat
      BY <2>1, <1>2, <1>3
    <2>3. Amid(stream, delivered', arrived', buffer', m + 1)
      BY ONLY <2>1, <2>2, <1>4, <1>11 DEF Amid
    <2> QED
      BY <2>1, <2>2, <2>3
  <1> QED
    BY ONLY <1>8, <1>12, <1>13, <1>14

LEMMA IntactInit == StreamsWellFormed /\ Init => FramesIntact /\ InOrder
  <1> SUFFICES ASSUME StreamsWellFormed, Init
               PROVE  FramesIntact /\ InOrder
    OBVIOUS
  <1>1. /\ stream \in Streams /\ sent = 0 /\ network = << >> /\ buffer = << >>
        /\ arrived = << >> /\ delivered = << >>
    BY DEF Init
  <1>2. Len(stream) \in Nat /\ stream \in Seq(Seq(Datagram))
    BY <1>1, StreamFacts
  <1>3. FramesOK(stream, delivered)
    BY <1>1, <1>2 DEF FramesOK
  <1>4. InStep(arrived, network, sent, Datagrams)
    BY <1>1 DEF InStep
  <1>5. Amid(stream, delivered, arrived, buffer, 0)
    <2>1. Prefix(stream, 0) = << >>
      BY ONLY <1>2, PrefixFacts
    <2>2. Len(arrived) = Len(Prefix(stream, Len(delivered))) + 0
      BY <1>1, <2>1
    <2>3. ASSUME 0 < Len(stream)
          PROVE  0 < Len(stream[1]) /\ buffer = Prefix(stream[1], 0)
      <3>1. 1 \in 1 .. Len(stream)
        BY <2>3, <1>2
      <3>2. PICK g : g = stream[1]
        OBVIOUS
      <3>3. g \in Seq(Seq(Symbols)) /\ Len(g) > 0
        BY ONLY <1>1, <3>1, <3>2, WellFormedFacts, StreamsWellFormed
      <3>4. Prefix(g, 0) = << >>
        BY ONLY <3>3, PrefixFacts
      <3> QED
        BY ONLY <3>2, <3>3, <3>4, <1>1
    <2>4. Len(delivered) = 0 /\ 0 + 1 = 1
      BY <1>1
    <2> QED
      BY ONLY <2>2, <2>3, <2>4 DEF Amid
  <1> QED
    BY <1>3, <1>4, <1>5, FramesIntactIs DEF InOrder

LEMMA IntactStep ==
  StreamsWellFormed /\ TypeOK /\ FramesIntact /\ InOrder /\ [Next]_vars
    => FramesIntact' /\ InOrder'
  <1> SUFFICES ASSUME StreamsWellFormed, TypeOK, FramesIntact, InOrder,
                      [Next]_vars
               PROVE  FramesIntact' /\ InOrder'
    OBVIOUS
  <1>1. FramesIntact' <=> (faults' = 0 => FramesOK(stream', delivered'))
    BY DEF FramesIntact, FramesOK, FrameOK
  <1>2. faults = 0 => FramesOK(stream, delivered)
    BY FramesIntactIs
  <1>3. InOrder' <=> (faults' = 0 /\ exit' = Running =>
                        /\ InStep(arrived', network', sent', Datagrams')
                        /\ \E m \in Nat : Amid(stream', delivered', arrived', buffer', m))
    BY DEF InOrder
  <1>4. CASE Send
    <2>1. /\ UNCHANGED <<stream, faults, buffer, arrived, delivered, exit>>
          /\ sent < Len(Datagrams) /\ sent' = sent + 1
          /\ network' = Append(network, Datagrams[sent + 1])
      BY <1>4 DEF Send
    <2>2. Datagrams' = Datagrams
      BY <2>1 DEF Datagrams
    <2>3. /\ arrived \in Seq(Seq(Symbols)) /\ network \in Seq(Seq(Symbols))
          /\ sent \in Nat /\ Datagrams[sent + 1] \in Seq(Symbols)
      <3>1. /\ arrived \in Seq(Seq(Symbols)) /\ network \in Seq(Seq(Symbols))
            /\ sent \in 0 .. Len(Datagrams) /\ stream \in Streams
        BY DEF TypeOK
      <3>2. Datagrams \in Seq(Datagram) /\ Len(Datagrams) \in Nat
        BY ONLY <3>1, StreamFacts DEF Datagrams
      <3>3. sent \in Nat /\ sent + 1 \in 1 .. Len(Datagrams)
        BY ONLY <2>1, <3>1, <3>2
      <3>4. Datagrams[sent + 1] \in Datagram
        BY ONLY <3>2, <3>3, ElementOfSeq
      <3> QED
        BY ONLY <3>1, <3>3, <3>4 DEF Datagram
    <2>4. InStep(arrived, network, sent, Datagrams)
            => InStep(arrived, network', sent', Datagrams)
      BY ONLY <2>1, <2>3, InStepSends
    <2> QED
      BY <1>1, <1>2, <1>3, <2>1, <2>2, <2>4 DEF InOrder
  <1>5. CASE Fault
    <2>1. faults' # 0
      BY <1>5 DEF Fault, TypeOK
    <2> QED
      BY ONLY <1>1, <1>3, <2>1
  <1>6. CASE RecvFrom
    <2>1. /\ stream' = stream /\ sent' = sent /\ faults' = faults
          /\ exit = Running /\ network # << >>
          /\ network' = Tail(network)
      BY <1>6 DEF RecvFrom
    <2>2. PICK d \in Seq(Symbols) : arrived' = Append(arrived, d)
      BY <1>6, RecvFromFacts
    <2>3. Datagrams' = Datagrams
      BY <2>1 DEF Datagrams
    <2> SUFFICES ASSUME faults = 0
                 PROVE  /\ FramesOK(stream, delivered')
                        /\ exit' = Running =>
                             /\ InStep(arrived', network', sent, Datagrams)
                             /\ \E m \in Nat :
                                  Amid(stream, delivered', arrived', buffer', m)
      BY <1>1, <1>3, <2>1, <2>3
    <2>4. PICK m \in Nat : /\ InStep(arrived, network, sent, Datagrams)
                           /\ Amid(stream, delivered, arrived, buffer, m)
      BY <2>1 DEF InOrder
    <2>5. InStep(arrived', network', sent, Datagrams)
      <3>1. arrived \in Seq(Seq(Symbols)) /\ network \in Seq(Seq(Symbols))
        BY DEF TypeOK
      <3> QED
        BY ONLY <2>1, <2>2, <2>4, <3>1, InStepReceives
    <2> QED
      BY <1>2, <1>6, <2>4, <2>5, NextFrameStep
  <1>7. CASE RecvFails
    <2>1. UNCHANGED <<stream, faults, delivered>> /\ exit' # Running
      BY <1>7 DEF RecvFails, Running, Failed
    <2> QED
      BY ONLY <1>1, <1>2, <1>3, <2>1
  <1>8. CASE UNCHANGED vars
    <2>1. /\ UNCHANGED <<stream, faults, delivered, arrived, network, sent,
                         buffer, exit>>
          /\ Datagrams' = Datagrams
      BY <1>8 DEF vars, Datagrams
    <2> QED
      BY <1>1, <1>2, <1>3, <2>1 DEF InOrder
  <1> QED
    BY <1>4, <1>5, <1>6, <1>7, <1>8 DEF Next

(***************************************************************************)
(* As long as the network commits no fault, recvStream returns the frames  *)
(* sent one for one and in order, however they are cut into datagrams:     *)
(* whole if they are headed, an end of them otherwise.                     *)
(***************************************************************************)
THEOREM FramesStayIntact ==
  ASSUME StreamsWellFormed
  PROVE  Spec => []FramesIntact
  BY TypeCorrect, IntactInit, IntactStep, PTL DEF Spec
=============================================================================
