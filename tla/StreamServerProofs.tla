-------------------------- MODULE StreamServerProofs --------------------------
(***************************************************************************)
(* The safety properties of StreamServer, for any number of connections,   *)
(* any sizes of segments, any send buffer and any number of requests.      *)
(***************************************************************************)
EXTENDS StreamServer, SequenceTheorems, TLAPS

(***************************************************************************)
(* The properties are inductive together with the discipline of            *)
(* m_callbackData: the count never passes the size, nothing is left over   *)
(* when send is off, a request is unread only when the one before it has   *)
(* been answered to the last byte, and a connection not yet accepted has   *)
(* neither.                                                                *)
(***************************************************************************)
Discipline ==
    \A c \in Conns :
        /\ m_callbackData[c].currentTxBytes <= m_callbackData[c].packetSizeToReturn
        /\ ~m_callbackData[c].send =>
              m_callbackData[c].currentTxBytes = m_callbackData[c].packetSizeToReturn
        /\ unread[c] > 0 => Remaining(c) = 0 /\ flying[c] = 0
        /\ conn[c] = "none" => ~m_callbackData[c].send /\ unread[c] = 0

IInv ==
    /\ TypeOK
    /\ ResponseExact
    /\ BufferRespected
    /\ ClientsListed
    /\ Discipline

-------------------------------------------------------------------------------
\* A connection that was never accepted is appended to the list once.
LEMMA AppendUnlisted ==
    ASSUME NEW s \in Seq(Conns), IsInjective(s), NEW c \in Conns, c \notin ToSet(s)
    PROVE  /\ Append(s, c) \in Seq(Conns)
           /\ IsInjective(Append(s, c))
           /\ ToSet(Append(s, c)) = ToSet(s) \union {c}
  <1>1. Len(s) \in Nat /\ DOMAIN s = 1..Len(s)
    OBVIOUS
  <1>2. \A i \in 1..Len(s) : s[i] # c
    BY <1>1 DEF ToSet
  <1>3. PICK t : t = Append(s, c)
    OBVIOUS
  <1>4. t \in Seq(Conns) /\ DOMAIN t = 1..(Len(s) + 1)
    BY <1>3
  <1>5. t[Len(s) + 1] = c /\ \A i \in 1..Len(s) : t[i] = s[i]
    BY <1>3
  <1>6. IsInjective(t)
    BY <1>1, <1>2, <1>4, <1>5 DEF IsInjective
  <1>7. ToSet(t) = ToSet(s) \union {c}
    <2>1. ASSUME NEW x \in ToSet(t) PROVE x \in ToSet(s) \union {c}
      BY <1>1, <1>4, <1>5, <2>1 DEF ToSet
    <2>2. ASSUME NEW x \in ToSet(s) \union {c} PROVE x \in ToSet(t)
      BY <1>1, <1>4, <1>5, <2>2 DEF ToSet
    <2> QED BY <2>1, <2>2
  <1> QED BY <1>3, <1>4, <1>6, <1>7

\* Erasing the first entry of an address from a list without repetitions leaves
\* the others, in a list without repetitions.
LEMMA RemoveListed ==
    ASSUME NEW s \in Seq(Conns), IsInjective(s), NEW c \in ToSet(s)
    PROVE  /\ RemoveFirst(s, c) \in Seq(Conns)
           /\ IsInjective(RemoveFirst(s, c))
           /\ ToSet(RemoveFirst(s, c)) = ToSet(s) \ {c}
  <1> DEFINE n == Len(s)
  <1>1. n \in Nat /\ DOMAIN s = 1..n
    OBVIOUS
  <1>2. PICK k \in 1..n : s[k] = c
    BY <1>1 DEF ToSet
  <1>3. {i \in 1..n : s[i] = c} = {k}
    BY <1>1, <1>2 DEF IsInjective
  <1>4. SelectInSeq(s, LAMBDA v : v = c) = k
    BY <1>1, <1>2, <1>3 DEF SelectInSeq, Min
  <1> DEFINE front == SubSeq(s, 1, k - 1)
             rest == SubSeq(s, k + 1, n)
  <1>5. PICK t : t = front \o rest
    OBVIOUS
  <1>6. RemoveFirst(s, c) = t
    BY <1>1, <1>2, <1>4, <1>5 DEF RemoveFirst, RemoveAt
  <1>7. /\ front \in Seq(Conns) /\ Len(front) = k - 1
        /\ \A i \in 1..(k - 1) : front[i] = s[i]
    <2>1. \A i \in 1..(k - 1) : s[i] \in Conns
      BY <1>1
    <2>2. k - 1 \in Int /\ 1 \in Int /\ (k - 1) - 1 + 1 = k - 1 /\ k - 1 >= 0
      BY <1>1
    <2>3. /\ front \in Seq(Conns)
          /\ Len(front) = IF 1 <= k - 1 THEN (k - 1) - 1 + 1 ELSE 0
          /\ \A i \in 1..((k - 1) - 1 + 1) : front[i] = s[1 + i - 1]
      BY <2>1, <2>2, SubSeqProperties
    <2> HIDE DEF front
    <2> QED BY <1>1, <2>2, <2>3
  <1>8. /\ rest \in Seq(Conns) /\ Len(rest) = n - k
        /\ \A i \in 1..(n - k) : rest[i] = s[k + i]
    <2>1. \A i \in (k + 1)..n : s[i] \in Conns
      BY <1>1
    <2>2. k + 1 \in Int /\ n \in Int /\ n - (k + 1) + 1 = n - k /\ n - k >= 0
      BY <1>1
    <2>3. /\ rest \in Seq(Conns)
          /\ Len(rest) = IF k + 1 <= n THEN n - (k + 1) + 1 ELSE 0
          /\ \A i \in 1..(n - (k + 1) + 1) : rest[i] = s[(k + 1) + i - 1]
      BY <2>1, <2>2, SubSeqProperties
    <2>4. Len(rest) = n - k
      <3>1. PICK r : r = rest
        OBVIOUS
      <3>2. Len(r) = IF k + 1 <= n THEN n - (k + 1) + 1 ELSE 0
        BY <2>3, <3>1
      <3>3. Len(r) = n - k
        <4> HIDE DEF n
        <4> QED BY <1>1, <2>2, <3>2
      <3> QED BY <3>1, <3>3
    <2>5. ASSUME NEW i \in 1..(n - k) PROVE rest[i] = s[k + i]
      <3>1. (k + 1) + i - 1 = k + i
        OBVIOUS
      <3>2. rest[i] = s[(k + 1) + i - 1]
        BY <2>2, <2>3, <2>5
      <3> HIDE DEF rest
      <3> QED BY <3>1, <3>2
    <2> QED BY <2>3, <2>4, <2>5
  <1> HIDE DEF front, rest
  <1>9. /\ t \in Seq(Conns)
        /\ Len(t) = Len(front) + Len(rest)
        /\ \A i \in 1..(Len(front) + Len(rest)) :
              t[i] = IF i <= Len(front) THEN front[i] ELSE rest[i - Len(front)]
    BY <1>5, <1>7, <1>8, ConcatProperties
  <1>10. t \in Seq(Conns) /\ Len(t) = n - 1 /\ DOMAIN t = 1..(n - 1)
    BY <1>1, <1>2, <1>7, <1>8, <1>9
  <1> HIDE DEF n
  <1>11. \A i \in 1..(n - 1) : t[i] = IF i < k THEN s[i] ELSE s[i + 1]
    <2> SUFFICES ASSUME NEW i \in 1..(n - 1)
                 PROVE  t[i] = IF i < k THEN s[i] ELSE s[i + 1]
      OBVIOUS
    <2>1. CASE i < k
      BY <1>1, <1>7, <1>8, <1>9, <2>1
    <2>2. CASE ~(i < k)
      <3>1. i - (k - 1) \in 1..(n - k) /\ k + (i - (k - 1)) = i + 1
        BY <1>1, <2>2
      <3>2. t[i] = rest[i - (k - 1)]
        BY <1>1, <1>7, <1>8, <1>9, <2>2
      <3> QED BY <1>8, <2>2, <3>1, <3>2
    <2> QED BY <2>1, <2>2
  <1>12. IsInjective(t)
    <2> SUFFICES ASSUME NEW a \in 1..(n - 1), NEW b \in 1..(n - 1), t[a] = t[b]
                 PROVE  a = b
      BY <1>10, Zenon DEF IsInjective
    <2> DEFINE at(i) == IF i < k THEN i ELSE i + 1
    <2>1. at(a) \in DOMAIN s /\ at(b) \in DOMAIN s
      BY <1>1
    <2>2. s[at(a)] = s[at(b)]
      BY <1>11
    <2>3. at(a) = at(b)
      BY <2>1, <2>2, Zenon DEF IsInjective
    <2> QED BY <1>1, <2>3
  <1>13. ToSet(t) = ToSet(s) \ {c}
    <2>1. ASSUME NEW x \in ToSet(t) PROVE x \in ToSet(s) \ {c}
      <3>1. PICK i \in 1..(n - 1) : t[i] = x
        BY <1>10, <2>1 DEF ToSet
      <3>2. PICK j \in 1..n : x = s[j] /\ j # k
        BY <1>1, <1>2, <1>11, <3>1
      <3> QED BY <1>1, <1>2, <3>2 DEF ToSet, IsInjective
    <2>2. ASSUME NEW x \in ToSet(s) \ {c} PROVE x \in ToSet(t)
      <3>1. PICK j \in 1..n : x = s[j] /\ j # k
        BY <1>1, <1>2, <2>2 DEF ToSet
      <3>2. \E i \in 1..(n - 1) : t[i] = x
        <4>1. CASE j < k
          BY <1>1, <1>2, <1>11, <3>1, <4>1
        <4>2. CASE j > k
          <5>1. j - 1 \in 1..(n - 1) /\ t[j - 1] = s[j]
            BY <1>1, <1>2, <1>11, <3>1, <4>2
          <5> QED BY <3>1, <5>1
        <4> QED BY <1>1, <1>2, <3>1, <4>1, <4>2
      <3> QED BY <1>10, <3>2 DEF ToSet
    <2> QED BY <2>1, <2>2
  <1> QED BY <1>6, <1>10, <1>12, <1>13

-------------------------------------------------------------------------------
\* What is left to write according to the callback data cbd.
Left(cbd) == IF cbd.send THEN cbd.packetSizeToReturn - cbd.currentTxBytes ELSE 0

\* Callback data that satisfies the discipline.
Sound(cbd) ==
    /\ cbd \in CallbackData
    /\ cbd.currentTxBytes <= cbd.packetSizeToReturn
    /\ ~cbd.send => cbd.currentTxBytes = cbd.packetSizeToReturn

\* The numbers of connection d, in this state and the next, are the same.
Untouched(d) == flying'[d] = flying[d] /\ m_callbackData'[d] = m_callbackData[d]

\* The callback data HandleAccept starts with has nothing left to write.
LEMMA NoDataSound ==
    /\ NoData \in CallbackData /\ Sound(NoData) /\ ~NoData.send /\ Left(NoData) = 0
    /\ NoData.currentTxBytes = 0 /\ NoData.packetSizeToReturn = 0
  BY DEF NoData, CallbackData, Sound, Left

\* HandleSend moves n bytes, no more than the buffer takes, from what is left to
\* write to what is on its way, touches no other connection, and never turns
\* send on.
LEMMA HandleSendMoves ==
    ASSUME TypeOK, NEW c \in Conns, NEW cbd, Sound(cbd), NEW available \in Nat,
           HandleSend(c, cbd, available)
    PROVE  /\ flying' \in [Conns -> Nat] /\ m_callbackData' \in [Conns -> CallbackData]
           /\ \A d \in Conns \ {c} : Untouched(d)
           /\ Sound(m_callbackData'[c])
           /\ ~cbd.send => ~m_callbackData'[c].send
           /\ flying'[c] + Left(m_callbackData'[c]) = flying[c] + Left(cbd)
           /\ flying'[c] <= flying[c] + available
           /\ flying'[c] >= flying[c]
  <1>1. flying \in [Conns -> Nat] /\ m_callbackData \in [Conns -> CallbackData]
    BY DEF TypeOK
  <1>2. CASE cbd.currentTxBytes = cbd.packetSizeToReturn
    <2>1. flying' = flying /\ m_callbackData' = [m_callbackData EXCEPT ![c] = NoData]
      BY <1>2 DEF HandleSend
    <2>2. m_callbackData'[c] = NoData
      BY <1>1, <2>1
    <2>3. \A d \in Conns \ {c} : Untouched(d)
      BY <1>1, <2>1 DEF Untouched
    <2>4. Left(cbd) = 0 /\ flying[c] \in Nat
      BY <1>1, <1>2 DEF Left, Sound, CallbackData
    <2> QED BY <1>1, <2>1, <2>2, <2>3, <2>4, NoDataSound
  <1>3. CASE cbd.currentTxBytes # cbd.packetSizeToReturn /\ available > 0 /\ cbd.send
    <2> DEFINE n == ToSend(cbd, available)
               after == [cbd EXCEPT !.currentTxBytes = @ + n]
    <2>1. /\ n \in Nat /\ n <= available
          /\ n <= cbd.packetSizeToReturn - cbd.currentTxBytes
      BY DEF ToSend, Smaller, Sound, CallbackData
    <2>2. /\ flying' = [flying EXCEPT ![c] = @ + n]
          /\ m_callbackData' = [m_callbackData EXCEPT ![c] = after]
      BY <1>3 DEF HandleSend
    <2> HIDE DEF n
    <2>3. /\ after \in CallbackData
          /\ after.currentTxBytes = cbd.currentTxBytes + n
          /\ after.packetSizeToReturn = cbd.packetSizeToReturn
          /\ after.send = cbd.send
      BY <2>1 DEF Sound, CallbackData
    <2> HIDE DEF after
    <2>4. flying'[c] = flying[c] + n /\ m_callbackData'[c] = after
      BY <1>1, <2>2
    <2>5. Sound(after) /\ Left(after) + n = Left(cbd)
      BY <1>3, <2>1, <2>3 DEF Sound, Left, CallbackData
    <2>6. \A d \in Conns \ {c} : Untouched(d)
      BY <1>1, <2>2 DEF Untouched
    <2>7. flying' \in [Conns -> Nat] /\ m_callbackData' \in [Conns -> CallbackData]
      BY <1>1, <2>1, <2>2, <2>3
    <2>8. Left(after) \in Nat /\ Left(cbd) \in Nat /\ flying[c] \in Nat
      BY <1>1, <2>5 DEF Sound, Left, CallbackData
    <2> QED BY <1>3, <2>1, <2>3, <2>4, <2>5, <2>6, <2>7, <2>8
  <1>4. CASE /\ cbd.currentTxBytes # cbd.packetSizeToReturn
             /\ ~(available > 0 /\ cbd.send)
    <2>1. flying' = flying /\ m_callbackData' = [m_callbackData EXCEPT ![c] = cbd]
      BY <1>4 DEF HandleSend
    <2>2. m_callbackData'[c] = cbd /\ cbd \in CallbackData
      BY <1>1, <2>1 DEF Sound
    <2>3. \A d \in Conns \ {c} : Untouched(d)
      BY <1>1, <2>1 DEF Untouched
    <2>4. Left(cbd) \in Int /\ flying[c] \in Nat
      BY <1>1, <2>2 DEF Left, CallbackData
    <2> QED BY <1>1, <2>1, <2>2, <2>3, <2>4
  <1> QED BY <1>2, <1>3, <1>4

\* The initial state satisfies the inductive invariant.
LEMMA InitIInv == Init => IInv
  <1> SUFFICES ASSUME Init PROVE IInv
    OBVIOUS
  <1>1. TypeOK
    <2>1. m_callbackData \in [Conns -> CallbackData]
      BY NoDataSound DEF Init
    <2>2. onOff \in BOOLEAN
      BY Zenon DEF Init
    <2>3. m_connectedClients \in Seq(Conns)
      BY DEF Init
    <2> QED BY <2>1, <2>2, <2>3 DEF Init, TypeOK
  <1>2. ResponseExact /\ BufferRespected /\ Discipline
    BY TxBufferAssumption
       DEF Init, ResponseExact, BufferRespected, Discipline, Remaining, NoData
  <1>3. ClientsListed
    BY DEF Init, ClientsListed, ToSet, IsInjective
  <1> QED BY <1>1, <1>2, <1>3 DEF IInv

\* HandleAccept lists the connection and starts its callback data from nothing.
LEMMA HandleAcceptIInv == ASSUME IInv, NEW c \in Conns, HandleAccept(c) PROVE IInv'
  <1>1. TypeOK /\ ResponseExact /\ BufferRespected /\ ClientsListed /\ Discipline
    BY DEF IInv
  <1>2. /\ m_connectedClients' \in Seq(Conns) /\ IsInjective(m_connectedClients')
        /\ ToSet(m_connectedClients') = ToSet(m_connectedClients) \union {c}
    BY <1>1, AppendUnlisted DEF TypeOK, ClientsListed, HandleAccept
  <1>3. TypeOK'
    BY <1>1, <1>2, NoDataSound DEF TypeOK, HandleAccept
  <1>4. /\ m_callbackData'[c] = NoData /\ ~m_callbackData[c].send /\ conn'[c] = "open"
        /\ unread[c] = 0
        /\ \A d \in Conns \ {c} : m_callbackData'[d] = m_callbackData[d] /\ conn'[d] = conn[d]
    BY <1>1 DEF TypeOK, HandleAccept, Discipline
  <1>7. \A d \in Conns : Remaining(d)' = Remaining(d)
    BY <1>4 DEF Remaining, NoData
  <1>8. ResponseExact'
    BY <1>1, <1>7 DEF HandleAccept, ResponseExact
  <1>9. Discipline'
    <2> SUFFICES ASSUME NEW d \in Conns
                 PROVE  /\ m_callbackData'[d].currentTxBytes <= m_callbackData'[d].packetSizeToReturn
                        /\ ~m_callbackData'[d].send =>
                              m_callbackData'[d].currentTxBytes = m_callbackData'[d].packetSizeToReturn
                        /\ unread'[d] > 0 => Remaining(d)' = 0 /\ flying'[d] = 0
                        /\ conn'[d] = "none" => ~m_callbackData'[d].send /\ unread'[d] = 0
      BY DEF Discipline
    <2>1. flying' = flying /\ unread' = unread
      BY DEF HandleAccept
    <2>2. CASE d = c
      BY <1>4, <2>1, <2>2, NoDataSound
    <2>3. CASE d # c
      BY <1>1, <1>4, <1>7, <2>1, <2>3 DEF Discipline
    <2> QED BY <2>2, <2>3
  <1>5. BufferRespected'
    BY <1>1 DEF HandleAccept, BufferRespected
  <1>6. ClientsListed'
    BY <1>1, <1>2 DEF TypeOK, HandleAccept, ClientsListed
  <1> QED BY <1>3, <1>5, <1>6, <1>8, <1>9 DEF IInv

\* A client's request finds nothing left of the one before.
LEMMA RequestIInv ==
    ASSUME IInv, NEW c \in Conns, NEW size \in Sizes, Request(c, size)
    PROVE  IInv'
  <1>1. TypeOK /\ ResponseExact /\ BufferRespected /\ ClientsListed /\ Discipline
    BY DEF IInv
  <1>2. size \in Nat /\ size > 0
    BY SizesAssumption
  <1>3. TypeOK'
    BY <1>1, <1>2 DEF TypeOK, Request
  <1>4. \A d \in Conns : Remaining(d) \in Nat /\ Remaining(d)' = Remaining(d)
    <2> SUFFICES ASSUME NEW d \in Conns
                 PROVE  Remaining(d) \in Nat /\ Remaining(d)' = Remaining(d)
      OBVIOUS
    <2>1. m_callbackData[d] \in CallbackData
      BY <1>1 DEF TypeOK
    <2>2. m_callbackData' = m_callbackData
      BY DEF Request
    <2> QED BY <1>1, <2>1, <2>2 DEF Discipline, Remaining, CallbackData
  <1>5. unread[c] = 0 /\ Remaining(c) = 0 /\ flying[c] = 0
    BY <1>1, <1>4 DEF TypeOK, Request, ResponseExact
  <1>6. ResponseExact'
    BY <1>1, <1>2, <1>4, <1>5 DEF TypeOK, Request, ResponseExact
  <1>7. Discipline'
    BY <1>1, <1>2, <1>4, <1>5 DEF TypeOK, Request, Discipline
  <1>8. BufferRespected' /\ ClientsListed'
    BY <1>1 DEF Request, BufferRespected, ClientsListed
  <1> QED BY <1>3, <1>6, <1>7, <1>8 DEF IInv

\* What is known of every connection when a handler starts.
LEMMA ConnectionFacts ==
    ASSUME IInv, NEW d \in Conns
    PROVE  /\ Sound(m_callbackData[d]) /\ Remaining(d) = Left(m_callbackData[d])
           /\ Remaining(d) \in Nat
           /\ unread[d] \in Nat /\ flying[d] \in Nat /\ unacked[d] \in Nat /\ owed[d] \in Nat
           /\ owed[d] = unread[d] + Remaining(d) + flying[d]
           /\ GetTxAvailable(d) \in Nat
           /\ flying[d] + unacked[d] + GetTxAvailable(d) = TxBuffer
           /\ unread[d] > 0 => Remaining(d) = 0 /\ flying[d] = 0
           /\ conn[d] = "none" => ~m_callbackData[d].send /\ unread[d] = 0
  <1>1. TypeOK /\ ResponseExact /\ BufferRespected /\ Discipline
    BY DEF IInv
  <1>2. m_callbackData[d] \in CallbackData
    BY <1>1 DEF TypeOK
  <1>3. Sound(m_callbackData[d])
    BY <1>1, <1>2 DEF Sound, Discipline
  <1>4. Remaining(d) = Left(m_callbackData[d])
    BY DEF Remaining, Left
  <1>5. Left(m_callbackData[d]) \in Nat
    BY <1>2, <1>3 DEF Left, Sound, CallbackData
  <1>6. unread[d] \in Nat /\ flying[d] \in Nat /\ unacked[d] \in Nat /\ owed[d] \in Nat
    BY <1>1 DEF TypeOK
  <1>7. /\ GetTxAvailable(d) \in Nat
        /\ flying[d] + unacked[d] + GetTxAvailable(d) = TxBuffer
    BY <1>1, <1>6, TxBufferAssumption DEF GetTxAvailable, BufferRespected
  <1> QED BY <1>1, <1>3, <1>4, <1>5, <1>6, <1>7 DEF ResponseExact, Discipline

\* The inductive invariant holds again when it holds of the connection a handler
\* worked on and the others are as they were.
LEMMA OneConnection ==
    ASSUME IInv, NEW c \in Conns, TypeOK', ClientsListed',
           \A d \in Conns \ {c} :
               /\ Untouched(d)
               /\ unread'[d] = unread[d] /\ unacked'[d] = unacked[d]
               /\ owed'[d] = owed[d] /\ conn'[d] = conn[d],
           Sound(m_callbackData'[c]),
           owed'[c] = unread'[c] + Left(m_callbackData'[c]) + flying'[c],
           flying'[c] + unacked'[c] <= TxBuffer,
           unread'[c] > 0 => Left(m_callbackData'[c]) = 0 /\ flying'[c] = 0,
           conn'[c] = "none" => ~m_callbackData'[c].send /\ unread'[c] = 0
    PROVE  IInv'
  <1>1. \A d \in Conns \ {c} : Remaining(d)' = Remaining(d)
    BY DEF Untouched, Remaining
  <1>2. Remaining(c)' = Left(m_callbackData'[c])
    BY DEF Remaining, Left
  <1>3. TypeOK /\ ResponseExact /\ BufferRespected /\ Discipline
    BY DEF IInv
  <1>4. ResponseExact'
    BY <1>1, <1>2, <1>3 DEF ResponseExact, Untouched
  <1>5. BufferRespected'
    BY <1>3 DEF BufferRespected, Untouched
  <1>6. Discipline'
    <2> SUFFICES ASSUME NEW d \in Conns
                 PROVE  /\ m_callbackData'[d].currentTxBytes <= m_callbackData'[d].packetSizeToReturn
                        /\ ~m_callbackData'[d].send =>
                              m_callbackData'[d].currentTxBytes = m_callbackData'[d].packetSizeToReturn
                        /\ unread'[d] > 0 => Remaining(d)' = 0 /\ flying'[d] = 0
                        /\ conn'[d] = "none" => ~m_callbackData'[d].send /\ unread'[d] = 0
      BY DEF Discipline
    <2>1. CASE d = c
      BY <1>2, <2>1 DEF Sound
    <2>2. CASE d # c
      BY <1>1, <1>3, <2>2 DEF Discipline, Untouched
    <2> QED BY <2>1, <2>2
  <1> QED BY <1>4, <1>5, <1>6 DEF IInv

\* HandleRead, the first write of the answer included, preserves it.
LEMMA HandleReadIInv == ASSUME IInv, NEW c \in Conns, HandleRead(c) PROVE IInv'
  <1> DEFINE cbd == [currentTxBytes |-> 0, packetSizeToReturn |-> unread[c], send |-> TRUE]
  <1>1. TypeOK /\ ClientsListed
    BY DEF IInv
  <1>2. unread[c] \in Nat /\ unread[c] > 0 /\ conn[c] # "none" /\ Remaining(c) = 0 /\ flying[c] = 0
    BY ConnectionFacts DEF HandleRead
  <1>3. Sound(cbd) /\ Left(cbd) = unread[c]
    BY <1>2 DEF Sound, Left, CallbackData
  <1>4. HandleSend(c, cbd, GetTxAvailable(c)) /\ GetTxAvailable(c) \in Nat
    BY ConnectionFacts DEF HandleRead
  <1> HIDE DEF cbd
  <1>5. /\ flying' \in [Conns -> Nat] /\ m_callbackData' \in [Conns -> CallbackData]
        /\ \A d \in Conns \ {c} : Untouched(d)
        /\ Sound(m_callbackData'[c])
        /\ flying'[c] + Left(m_callbackData'[c]) = flying[c] + Left(cbd)
        /\ flying'[c] <= flying[c] + GetTxAvailable(c)
    BY <1>1, <1>3, <1>4, HandleSendMoves
  <1>6. /\ unread' = [unread EXCEPT ![c] = 0]
        /\ UNCHANGED <<m_connectedClients, onOff, conn, requests, unacked, owed>>
    BY DEF HandleRead
  <1>7. TypeOK'
    BY <1>1, <1>5, <1>6 DEF TypeOK
  <1>8. ClientsListed'
    BY <1>1, <1>6 DEF ClientsListed
  <1>9. /\ unread'[c] = 0 /\ unacked'[c] = unacked[c] /\ owed'[c] = owed[c] /\ conn'[c] = conn[c]
        /\ \A d \in Conns \ {c} : /\ unread'[d] = unread[d] /\ unacked'[d] = unacked[d]
                                 /\ owed'[d] = owed[d] /\ conn'[d] = conn[d]
    BY <1>1, <1>6 DEF TypeOK
  <1>10. /\ owed[c] = unread[c] /\ flying[c] + unacked[c] + GetTxAvailable(c) = TxBuffer
         /\ unacked[c] \in Nat
    BY <1>2, ConnectionFacts
  <1>11. flying'[c] \in Nat /\ Left(m_callbackData'[c]) \in Int
    BY <1>5 DEF Sound, Left, CallbackData
  <1>12. owed'[c] = unread'[c] + Left(m_callbackData'[c]) + flying'[c]
    BY <1>2, <1>3, <1>5, <1>9, <1>10, <1>11
  <1>13. flying'[c] + unacked'[c] <= TxBuffer
    BY <1>2, <1>4, <1>5, <1>9, <1>10, <1>11
  <1> QED BY <1>2, <1>5, <1>7, <1>8, <1>9, <1>12, <1>13, OneConnection

\* Data that reach the client leave the number of bytes in the buffer as it is.
LEMMA DeliverIInv ==
    ASSUME IInv, NEW c \in Conns, NEW n \in 1..flying[c], Deliver(c, n)
    PROVE  IInv'
  <1>1. TypeOK /\ ClientsListed
    BY DEF IInv
  <1>2. /\ flying[c] \in Nat /\ unacked[c] \in Nat /\ owed[c] \in Nat /\ unread[c] \in Nat
        /\ Sound(m_callbackData[c]) /\ Left(m_callbackData[c]) \in Nat
        /\ owed[c] = unread[c] + Left(m_callbackData[c]) + flying[c]
        /\ flying[c] + unacked[c] <= TxBuffer
        /\ unread[c] = 0
        /\ conn[c] = "none" => ~m_callbackData[c].send
    BY ConnectionFacts, TxBufferAssumption
  <1>3. TypeOK'
    <2>1. flying[c] - n \in Nat /\ unacked[c] + n \in Nat /\ owed[c] - n \in Nat
      BY <1>2
    <2>2. flying' \in [Conns -> Nat] /\ unacked' \in [Conns -> Nat] /\ owed' \in [Conns -> Nat]
      BY <1>1, <2>1 DEF TypeOK, Deliver
    <2>3. UNCHANGED <<m_callbackData, m_connectedClients, onOff, conn, requests, unread>>
      BY DEF Deliver
    <2> QED BY <1>1, <2>2, <2>3 DEF TypeOK
  <1>4. ClientsListed'
    BY <1>1 DEF ClientsListed, Deliver
  <1>5. /\ flying'[c] = flying[c] - n /\ unacked'[c] = unacked[c] + n /\ owed'[c] = owed[c] - n
        /\ m_callbackData' = m_callbackData /\ unread' = unread /\ conn' = conn
        /\ \A d \in Conns \ {c} : /\ Untouched(d) /\ unread'[d] = unread[d]
                                 /\ unacked'[d] = unacked[d]
                                 /\ owed'[d] = owed[d] /\ conn'[d] = conn[d]
    BY <1>1 DEF TypeOK, Deliver, Untouched
  <1>6. owed'[c] = unread'[c] + Left(m_callbackData'[c]) + flying'[c]
    BY <1>2, <1>5
  <1>7. flying'[c] + unacked'[c] <= TxBuffer /\ unread'[c] = 0
    BY <1>2, <1>5
  <1> QED BY <1>2, <1>3, <1>4, <1>5, <1>6, <1>7, OneConnection

\* An acknowledgement, with the write it makes room for, preserves it.
LEMMA AcknowledgeIInv ==
    ASSUME IInv, NEW c \in Conns, NEW n \in 1..unacked[c], Acknowledge(c, n)
    PROVE  IInv'
  <1>1. TypeOK /\ ClientsListed
    BY DEF IInv
  <1>2. /\ Sound(m_callbackData[c]) /\ Left(m_callbackData[c]) \in Nat
        /\ Remaining(c) = Left(m_callbackData[c])
        /\ flying[c] \in Nat /\ unacked[c] \in Nat /\ owed[c] \in Nat /\ unread[c] \in Nat
        /\ owed[c] = unread[c] + Left(m_callbackData[c]) + flying[c]
        /\ flying[c] + unacked[c] + GetTxAvailable(c) = TxBuffer
        /\ GetTxAvailable(c) \in Nat
        /\ unread[c] > 0 => Left(m_callbackData[c]) = 0 /\ flying[c] = 0
        /\ conn[c] = "none" => ~m_callbackData[c].send /\ unread[c] = 0
    BY ConnectionFacts
  <1>3. HandleSend(c, m_callbackData[c], GetTxAvailable(c) + n) /\ GetTxAvailable(c) + n \in Nat
    BY <1>2 DEF Acknowledge
  <1>4. /\ flying' \in [Conns -> Nat] /\ m_callbackData' \in [Conns -> CallbackData]
        /\ \A d \in Conns \ {c} : Untouched(d)
        /\ Sound(m_callbackData'[c])
        /\ ~m_callbackData[c].send => ~m_callbackData'[c].send
        /\ flying'[c] + Left(m_callbackData'[c]) = flying[c] + Left(m_callbackData[c])
        /\ flying'[c] <= flying[c] + (GetTxAvailable(c) + n)
        /\ flying'[c] >= flying[c]
    BY <1>1, <1>2, <1>3, HandleSendMoves
  <1>5. /\ unacked' = [unacked EXCEPT ![c] = @ - n]
        /\ UNCHANGED <<m_connectedClients, onOff, conn, requests, unread, owed>>
    BY DEF Acknowledge
  <1>6. TypeOK'
    <2>1. unacked[c] - n \in Nat
      BY <1>2
    <2>2. unacked' \in [Conns -> Nat]
      BY <1>1, <1>5, <2>1 DEF TypeOK
    <2> QED BY <1>1, <1>4, <1>5, <2>2 DEF TypeOK
  <1>7. ClientsListed'
    BY <1>1, <1>5 DEF ClientsListed
  <1>8. /\ unacked'[c] = unacked[c] - n /\ owed'[c] = owed[c]
        /\ unread'[c] = unread[c] /\ conn'[c] = conn[c]
        /\ \A d \in Conns \ {c} : /\ unread'[d] = unread[d] /\ unacked'[d] = unacked[d]
                                 /\ owed'[d] = owed[d] /\ conn'[d] = conn[d]
    BY <1>1, <1>5 DEF TypeOK
  <1>9. flying'[c] \in Nat /\ Left(m_callbackData'[c]) \in Nat
    BY <1>4 DEF Sound, Left, CallbackData
  <1>10. owed'[c] = unread'[c] + Left(m_callbackData'[c]) + flying'[c]
    BY <1>2, <1>4, <1>8, <1>9
  <1>11. flying'[c] + unacked'[c] <= TxBuffer
    BY <1>2, <1>4, <1>8, <1>9
  <1>12. unread'[c] > 0 => Left(m_callbackData'[c]) = 0 /\ flying'[c] = 0
    BY <1>2, <1>4, <1>8, <1>9
  <1>13. conn'[c] = "none" => ~m_callbackData'[c].send /\ unread'[c] = 0
    BY <1>2, <1>4, <1>8
  <1> QED BY <1>4, <1>6, <1>7, <1>8, <1>10, <1>11, <1>12, <1>13, OneConnection

\* A call of the socket for more data, with the write it leads to, preserves it.
LEMMA NotifySendIInv ==
    ASSUME IInv, NEW c \in Conns, NotifySend(c)
    PROVE  IInv'
  <1>1. TypeOK /\ ClientsListed
    BY DEF IInv
  <1>2. /\ Sound(m_callbackData[c]) /\ Left(m_callbackData[c]) \in Nat
        /\ Remaining(c) = Left(m_callbackData[c])
        /\ flying[c] \in Nat /\ unacked[c] \in Nat /\ owed[c] \in Nat /\ unread[c] \in Nat
        /\ owed[c] = unread[c] + Left(m_callbackData[c]) + flying[c]
        /\ flying[c] + unacked[c] + GetTxAvailable(c) = TxBuffer
        /\ GetTxAvailable(c) \in Nat
        /\ unread[c] > 0 => Left(m_callbackData[c]) = 0 /\ flying[c] = 0
        /\ conn[c] = "none" => ~m_callbackData[c].send /\ unread[c] = 0
    BY ConnectionFacts
  <1>3. HandleSend(c, m_callbackData[c], GetTxAvailable(c))
    BY <1>2 DEF NotifySend
  <1>4. /\ flying' \in [Conns -> Nat] /\ m_callbackData' \in [Conns -> CallbackData]
        /\ \A d \in Conns \ {c} : Untouched(d)
        /\ Sound(m_callbackData'[c])
        /\ ~m_callbackData[c].send => ~m_callbackData'[c].send
        /\ flying'[c] + Left(m_callbackData'[c]) = flying[c] + Left(m_callbackData[c])
        /\ flying'[c] <= flying[c] + GetTxAvailable(c)
        /\ flying'[c] >= flying[c]
    BY <1>1, <1>2, <1>3, HandleSendMoves
  <1>5. UNCHANGED <<m_connectedClients, onOff, conn, requests, unread, unacked, owed>>
    BY DEF NotifySend
  <1>6. TypeOK'
    BY <1>1, <1>4, <1>5 DEF TypeOK
  <1>7. ClientsListed'
    BY <1>1, <1>5 DEF ClientsListed
  <1>8. /\ unacked'[c] = unacked[c] /\ owed'[c] = owed[c]
        /\ unread'[c] = unread[c] /\ conn'[c] = conn[c]
        /\ \A d \in Conns \ {c} : /\ unread'[d] = unread[d] /\ unacked'[d] = unacked[d]
                                 /\ owed'[d] = owed[d] /\ conn'[d] = conn[d]
    BY <1>1, <1>5 DEF TypeOK
  <1>9. flying'[c] \in Nat /\ Left(m_callbackData'[c]) \in Nat
    BY <1>4 DEF Sound, Left, CallbackData
  <1>10. owed'[c] = unread'[c] + Left(m_callbackData'[c]) + flying'[c]
    BY <1>2, <1>4, <1>8, <1>9
  <1>11. flying'[c] + unacked'[c] <= TxBuffer
    BY <1>2, <1>4, <1>8, <1>9
  <1>12. unread'[c] > 0 => Left(m_callbackData'[c]) = 0 /\ flying'[c] = 0
    BY <1>2, <1>4, <1>8, <1>9
  <1>13. conn'[c] = "none" => ~m_callbackData'[c].send /\ unread'[c] = 0
    BY <1>2, <1>4, <1>8
  <1> QED BY <1>4, <1>6, <1>7, <1>8, <1>10, <1>11, <1>12, <1>13, OneConnection

\* HandlePeerClose erases the connection and leaves the others listed.
LEMMA HandlePeerCloseIInv == ASSUME IInv, NEW c \in Conns, HandlePeerClose(c) PROVE IInv'
  <1>1. TypeOK /\ ClientsListed
    BY DEF IInv
  <1>2. c \in ToSet(m_connectedClients)
    BY <1>1 DEF ClientsListed, HandlePeerClose
  <1>3. /\ m_connectedClients' \in Seq(Conns) /\ IsInjective(m_connectedClients')
        /\ ToSet(m_connectedClients') = ToSet(m_connectedClients) \ {c}
    BY <1>1, <1>2, RemoveListed DEF TypeOK, ClientsListed, HandlePeerClose
  <1>4. conn' = [conn EXCEPT ![c] = "closed"]
        /\ UNCHANGED <<m_callbackData, requests, unread, flying, unacked, owed>>
    BY DEF HandlePeerClose
  <1>5. onOff' \in BOOLEAN
    <2>1. onOff' = (onOff /\ m_connectedClients' # <<>>)
      BY DEF HandlePeerClose
    <2> QED BY <2>1, Zenon
  <1>6. TypeOK'
    BY <1>1, <1>3, <1>4, <1>5 DEF TypeOK
  <1>7. ClientsListed'
    BY <1>1, <1>3, <1>4 DEF TypeOK, ClientsListed
  <1>8. /\ conn'[c] = "closed"
        /\ \A d \in Conns \ {c} : /\ Untouched(d) /\ unread'[d] = unread[d]
                                 /\ unacked'[d] = unacked[d]
                                 /\ owed'[d] = owed[d] /\ conn'[d] = conn[d]
    BY <1>1, <1>4 DEF TypeOK, Untouched
  <1>9. /\ Sound(m_callbackData[c]) /\ Remaining(c) = Left(m_callbackData[c])
        /\ owed[c] = unread[c] + Left(m_callbackData[c]) + flying[c]
        /\ flying[c] + unacked[c] <= TxBuffer
        /\ unread[c] > 0 => Left(m_callbackData[c]) = 0 /\ flying[c] = 0
    BY ConnectionFacts, TxBufferAssumption
  <1> QED BY <1>4, <1>6, <1>7, <1>8, <1>9, OneConnection

\* Every step preserves the inductive invariant.
LEMMA NextIInv == IInv /\ [Next]_vars => IInv'
  <1> SUFFICES ASSUME IInv, [Next]_vars PROVE IInv'
    OBVIOUS
  <1>1. CASE Next
    <2> PICK c \in Conns :
            \/ HandleAccept(c)
            \/ \E size \in Sizes : Request(c, size)
            \/ HandleRead(c)
            \/ \E n \in 1..flying[c] : Deliver(c, n)
            \/ \E n \in 1..unacked[c] : Acknowledge(c, n)
            \/ NotifySend(c)
            \/ HandlePeerClose(c)
      BY <1>1 DEF Next
    <2> QED BY HandleAcceptIInv, RequestIInv, HandleReadIInv, DeliverIInv, AcknowledgeIInv,
               NotifySendIInv, HandlePeerCloseIInv
  <1>2. CASE UNCHANGED vars
    BY <1>2 DEF vars, network, IInv, TypeOK, ResponseExact, BufferRespected, ClientsListed,
                Discipline, Remaining
  <1> QED BY <1>1, <1>2

\* The inductive invariant holds throughout every behaviour of the server.
THEOREM Invariance == Spec => []IInv
  BY InitIInv, NextIInv, PTL DEF Spec

\* The types hold: no count of bytes, in m_callbackData or in a buffer, is ever
\* negative.
THEOREM TypeCorrect == Spec => []TypeOK
  <1>1. IInv => TypeOK BY DEF IInv
  <1> QED BY <1>1, Invariance, PTL

\* Every client receives exactly the bytes it asked for, however the writes of
\* HandleSend are cut.
THEOREM ResponsesExact == Spec => []ResponseExact
  <1>1. IInv => ResponseExact BY DEF IInv
  <1> QED BY <1>1, Invariance, PTL

\* HandleSend never writes more than the send buffer takes.
THEOREM BuffersRespected == Spec => []BufferRespected
  <1>1. IInv => BufferRespected BY DEF IInv
  <1> QED BY <1>1, Invariance, PTL

\* GetNumberOfClients counts the open connections.
THEOREM ClientsCounted == Spec => []ClientsListed
  <1>1. IInv => ClientsListed BY DEF IInv
  <1> QED BY <1>1, Invariance, PTL
===============================================================================
