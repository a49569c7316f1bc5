-------------------------- MODULE FogControllerProofs --------------------------
(***************************************************************************)
(* Where the controller places a session, for any number of clients and    *)
(* servers, any memory and any limit on the contents.                      *)
(***************************************************************************)
EXTENDS FogController, SumTheorems, SequenceTheorems, FunctionTheorems

-------------------------------------------------------------------------------
(***************************************************************************)
(* Sequences.                                                              *)
(***************************************************************************)

\* Min picks an element of a non-empty set of natural numbers.
LEMMA MinOfNaturals ==
    ASSUME NEW I \in SUBSET Nat, I # {}
    PROVE  Min(I) \in I
  BY LeastElement DEF Min

\* Erasing an entry that is there leaves those before it and those after it.
LEMMA RemoveFirstIs ==
    ASSUME NEW S, NEW s \in Seq(S), NEW e, \E i \in 1..Len(s) : s[i] = e
    PROVE  /\ RemoveFirst(s, e) \in Seq(S) /\ Len(RemoveFirst(s, e)) = Len(s) - 1
           /\ \E k \in 1..Len(s) :
                  /\ s[k] = e
                  /\ \A i \in 1..(Len(s) - 1) :
                         RemoveFirst(s, e)[i] = IF i < k THEN s[i] ELSE s[i + 1]
  <1> DEFINE n == Len(s)
             I == {i \in 1..n : s[i] = e}
             k == SelectInSeq(s, LAMBDA v : v = e)
  <1>1. n \in Nat /\ DOMAIN s = 1..n /\ (\A i \in 1..n : s[i] \in S) /\ I # {}
    OBVIOUS
  <1>2. k = Min(I)
    BY <1>1 DEF SelectInSeq
  <1>3. k \in 1..n /\ s[k] = e
    <2>1. I \in SUBSET Nat
      BY <1>1
    <2>2. k \in I
      BY <1>1, <1>2, <2>1, MinOfNaturals
    <2> QED BY <2>2
  <1>4. RemoveFirst(s, e) = SubSeq(s, 1, k - 1) \o SubSeq(s, k + 1, n)
    BY <1>1 DEF RemoveFirst, RemoveAt
  <1> HIDE DEF k, n
  <1>5. /\ SubSeq(s, 1, k - 1) \in Seq(S) /\ Len(SubSeq(s, 1, k - 1)) = k - 1
        /\ \A i \in 1..(k - 1) : SubSeq(s, 1, k - 1)[i] = s[i]
    <2>1. k - 1 \in Int /\ 1 \in Int /\ \A i \in 1..(k - 1) : s[i] \in S
      BY <1>1, <1>3
    <2>2. /\ SubSeq(s, 1, k - 1) \in Seq(S)
          /\ Len(SubSeq(s, 1, k - 1)) = IF 1 <= k - 1 THEN (k - 1) - 1 + 1 ELSE 0
          /\ \A i \in 1..((k - 1) - 1 + 1) : SubSeq(s, 1, k - 1)[i] = s[1 + i - 1]
      BY <2>1, SubSeqProperties
    <2> QED BY <1>1, <1>3, <2>2
  <1>6. /\ SubSeq(s, k + 1, n) \in Seq(S) /\ Len(SubSeq(s, k + 1, n)) = n - k
        /\ \A i \in 1..(n - k) : SubSeq(s, k + 1, n)[i] = s[k + i]
    <2>1. k + 1 \in Int /\ n \in Int /\ \A i \in (k + 1)..n : s[i] \in S
      BY <1>1, <1>3
    <2>2. /\ SubSeq(s, k + 1, n) \in Seq(S)
          /\ Len(SubSeq(s, k + 1, n)) = IF k + 1 <= n THEN n - (k + 1) + 1 ELSE 0
          /\ \A i \in 1..(n - (k + 1) + 1) : SubSeq(s, k + 1, n)[i] = s[k + 1 + i - 1]
      BY <2>1, SubSeqProperties
    <2> QED BY <1>1, <1>3, <2>2
  <1>7. PICK a \in Seq(S), b \in Seq(S) : a = SubSeq(s, 1, k - 1) /\ b = SubSeq(s, k + 1, n)
    BY <1>5, <1>6
  <1>8. PICK r : r = RemoveFirst(s, e)
    OBVIOUS
  <1>9. /\ r \in Seq(S) /\ Len(r) = (k - 1) + (n - k)
        /\ \A i \in 1..((k - 1) + (n - k)) : r[i] = IF i <= k - 1 THEN a[i] ELSE b[i - (k - 1)]
    <2>1. r = a \o b /\ Len(a) = k - 1 /\ Len(b) = n - k
      BY <1>4, <1>5, <1>6, <1>7, <1>8
    <2>2. /\ a \o b \in Seq(S) /\ Len(a \o b) = Len(a) + Len(b)
          /\ \A i \in 1..(Len(a) + Len(b)) :
                 (a \o b)[i] = IF i <= Len(a) THEN a[i] ELSE b[i - Len(a)]
      BY ConcatProperties
    <2> QED BY <2>1, <2>2, Zenon
  <1>10. \A i \in 1..(n - 1) : r[i] = IF i < k THEN s[i] ELSE s[i + 1]
    <2> SUFFICES ASSUME NEW i \in 1..(n - 1) PROVE r[i] = IF i < k THEN s[i] ELSE s[i + 1]
      OBVIOUS
    <2>1. CASE i < k
      <3>1. r[i] = a[i] /\ i \in 1..(k - 1)
        BY <1>1, <1>3, <1>9, <2>1
      <3> QED BY <1>5, <1>7, <2>1, <3>1
    <2>2. CASE ~(i < k)
      <3>1. r[i] = b[i - (k - 1)] /\ i - (k - 1) \in 1..(n - k) /\ k + (i - (k - 1)) = i + 1
        BY <1>1, <1>3, <1>9, <2>2
      <3> QED BY <1>6, <1>7, <2>2, <3>1
    <2> QED BY <2>1, <2>2
  <1>11. Len(r) = n - 1
    BY <1>1, <1>3, <1>9
  <1> QED BY <1>3, <1>8, <1>9, <1>10, <1>11 DEF n

\* Erasing an entry (removeContent, HandlePeerClose) leaves a list that is no
\* longer than it was, of the same kind of entries.
LEMMA RemoveFirstShortens ==
    ASSUME NEW S, NEW s \in Seq(S), NEW e
    PROVE  RemoveFirst(s, e) \in Seq(S) /\ Len(RemoveFirst(s, e)) <= Len(s)
  <1>1. CASE \E i \in 1..Len(s) : s[i] = e
    <2>1. RemoveFirst(s, e) \in Seq(S) /\ Len(RemoveFirst(s, e)) = Len(s) - 1
      BY <1>1, RemoveFirstIs
    <2> QED BY <2>1
  <1>2. CASE ~\E i \in 1..Len(s) : s[i] = e
    BY <1>2 DEF RemoveFirst
  <1> QED BY <1>1, <1>2

-------------------------------------------------------------------------------
(***************************************************************************)
(* Placement.                                                              *)
(***************************************************************************)

\* The scripts leave servers out, never in: a server's index in their lists is
\* at most its number.
LEMMA PositionBelow ==
    ASSUME NEW c \in Clients, NEW s \in Servers
    PROVE  Position(s, c) \in Nat /\ Position(s, c) <= s
  <1>1. s \in Nat
    BY NumServersAssumption DEF Servers
  <1>2. {t \in Fitting(c) : t < s} \in SUBSET (0..(s - 1))
    BY <1>1, NumServersAssumption DEF Fitting, Servers
  <1>3. /\ IsFiniteSet(0..(s - 1))
        /\ Cardinality(0..(s - 1)) = IF 0 > s - 1 THEN 0 ELSE (s - 1) - 0 + 1
    <2>1. 0 \in Int /\ s - 1 \in Int
      BY <1>1
    <2> QED BY <2>1, FS_Interval
  <1>4. /\ IsFiniteSet({t \in Fitting(c) : t < s})
        /\ Cardinality({t \in Fitting(c) : t < s}) <= Cardinality(0..(s - 1))
    BY <1>2, <1>3, FS_Subset
  <1>5. Cardinality({t \in Fitting(c) : t < s}) \in Nat
    BY <1>4, FS_CardinalityType
  <1> QED BY <1>1, <1>3, <1>4, <1>5 DEF Position

\* When a script answers at all, the index it prints is the number of the server
\* it chose: freeMemory[i] is out of range as soon as the two would differ.
LEMMA AnswersRanked ==
    ASSUME NEW c \in Clients, NEW ranked \in SUBSET Fitting(c), NEW a \in Answers(c, ranked)
    PROVE  a \in ranked
  <1>1. ListsAgree(c) /\ \E s \in ranked : a = Position(s, c)
    BY DEF Answers
  <1>2. PICK s \in ranked : a = Position(s, c)
    BY <1>1
  <1>3. s \in Fitting(c) /\ s \in Servers /\ s \in Nat
    BY NumServersAssumption DEF Fitting, Servers
  <1>4. s <= Position(s, c)
    BY <1>1, <1>3 DEF ListsAgree
  <1> QED BY <1>2, <1>3, <1>4, PositionBelow

\* What sendRequest promises of its answer under each kind of policy.
LEMMA AnswerSound ==
    ASSUME TypeOK, NEW c \in Clients, NEW s \in sendRequest(c)
    PROVE  /\ s \in Servers
           /\ polId \in {4, 5, 6, 8} => memoryFree[s] >= Size[c]
           /\ polId \in {4, 8} => UnderLimit(s)
  <1>1. CASE polId \in {4, 8}
    <2>1. s \in {t \in Fitting(c) : UnderLimit(t)}
      BY <1>1, AnswersRanked DEF sendRequest, AHP
    <2> QED BY <2>1 DEF Fitting
  <1>2. CASE polId \in {5, 6}
    <2>1. s \in Fitting(c)
      BY <1>2, AnswersRanked DEF sendRequest, GulosoAleatorio
    <2> QED BY <1>2, <2>1 DEF Fitting
  <1>3. CASE polId = 7
    BY <1>3, HomeAssumption DEF sendRequest
  <1>4. CASE polId \notin {4, 5, 6, 7, 8}
    <2>1. s = 0
      BY <1>4 DEF sendRequest
    <2> QED BY <1>4, <2>1, NumServersAssumption DEF Servers
  <1> QED BY <1>1, <1>2, <1>3, <1>4

-------------------------------------------------------------------------------
(***************************************************************************)
(* Connections.                                                            *)
(***************************************************************************)
Ends == {"connecting", "open", "failed", "closed", "dropped"}

\* A connection whose client end changes is still a connection.
LEMMA EndMoved ==
    ASSUME NEW seq \in Seq(Link), NEW at \in Ends
    PROVE  /\ [seq EXCEPT ![Len(seq)].client = at] \in Seq(Link)
           /\ Len([seq EXCEPT ![Len(seq)].client = at]) = Len(seq)
  <1>1. Len(seq) \in Nat
    OBVIOUS
  <1>2. CASE Len(seq) = 0
    <2>1. seq = <<>>
      BY <1>2
    <2>2. [seq EXCEPT ![Len(seq)].client = at] = seq
      BY <2>1
    <2> QED BY <2>2
  <1>3. CASE Len(seq) # 0
    <2>1. Len(seq) \in 1..Len(seq)
      BY <1>1, <1>3
    <2>2. seq[Len(seq)] \in Link
      BY <2>1, ElementOfSeq
    <2>3. [seq[Len(seq)] EXCEPT !.client = at] \in Link
      BY <2>2 DEF Link, Ends
    <2> QED BY <2>1, <2>3, ExceptSeq
  <1> QED BY <1>2, <1>3

\* LinkMoved, Closed and HandoverApplication make sequences of connections.
LEMMA LinksTyped ==
    ASSUME NEW seq \in Seq(Link)
    PROVE  /\ Closed(seq) \in Seq(Link)
           /\ \A s \in Servers : HandoverApplication(seq, s) \in Seq(Link)
  <1>1. Closed(seq) \in Seq(Link)
    <2> DEFINE was == seq[Len(seq)].client
               at == IF was = "open" THEN "closed"
                     ELSE IF was = "connecting" THEN "dropped" ELSE was
    <2>1. Closed(seq) = [seq EXCEPT ![Len(seq)].client = at]
      BY DEF Closed
    <2>2. CASE seq = <<>>
      <3>1. DOMAIN seq = {} /\ Len(seq) = 0
        BY <2>2
      <3>2. [seq EXCEPT ![Len(seq)].client = at] = seq
        BY <2>2, <3>1
      <3> QED BY <2>1, <3>2
    <2>3. CASE seq # <<>>
      <3>1. Len(seq) \in 1..Len(seq)
        BY <2>3
      <3>2. seq[Len(seq)] \in Link
        BY <3>1, ElementOfSeq
      <3>3. at \in Ends
        BY <3>2 DEF Link, Ends
      <3> QED BY <2>1, <3>3, EndMoved
    <2> QED BY <2>2, <2>3
  <1>2. ASSUME NEW s \in Servers PROVE NewLink(s) \in Link
    BY DEF NewLink, Link
  <1> QED BY <1>1, <1>2 DEF HandoverApplication

-------------------------------------------------------------------------------
(***************************************************************************)
(* The invariant: together with the types, the room and the limit that     *)
(* each placement looks at are kept by every other step.                   *)
(***************************************************************************)
IInv ==
    /\ TypeOK
    /\ NoOvercommit
    /\ ContentsBounded

\* serverInitialise: nothing is placed and every server has all of its memory.
LEMMA InitIInv == Init => IInv
  <1> SUFFICES ASSUME Init PROVE IInv
    OBVIOUS
  <1>1. TypeOK
    <2>1. /\ aborted \in BOOLEAN /\ onOff \in [Servers -> BOOLEAN]
          /\ fetched \in [Clients -> BOOLEAN]
      BY Zenon DEF Init
    <2>2. memoryFree \in [Servers -> Int]
      BY MemorySizeAssumption DEF Init
    <2>3. /\ <<>> \in Seq(Contents) /\ <<>> \in Seq(Clients \X (Nat \ {0}))
          /\ <<>> \in Seq(Link)
      BY EmptySeq
    <2>4. /\ allocatedContentType \in [Servers -> Seq(Contents)]
          /\ m_connectedClients \in [Servers -> Seq(Clients \X (Nat \ {0}))]
          /\ links \in [Clients -> Seq(Link)]
      BY <2>3 DEF Init
    <2>5. /\ polId \in Policies /\ handovers \in Nat
          /\ phase \in [Clients -> {"idle", "initial", "streaming", "terminal"}]
          /\ serverId \in [Clients -> Servers]
          /\ handover \in [Clients -> Servers \union {None}]
      BY RegionAssumption DEF Init
    <2> QED BY <2>1, <2>2, <2>4, <2>5 DEF TypeOK
  <1>2. NoOvercommit
    BY MemorySizeAssumption DEF Init, NoOvercommit
  <1>3. ContentsBounded
    BY MaxContentsAssumption DEF Init, ContentsBounded
  <1> QED BY <1>1, <1>2, <1>3 DEF IInv

\* addContent and choiceServer on a server that sendRequest named.
LEMMA PlacedIInv ==
    ASSUME IInv, NEW c \in Clients, NEW s \in sendRequest(c), choiceServer(s, c), polId' = polId
    PROVE  /\ onOff' \in [Servers -> BOOLEAN] /\ memoryFree' \in [Servers -> Int]
           /\ allocatedContentType' \in [Servers -> Seq(Contents)]
           /\ NoOvercommit' /\ ContentsBounded'
  <1>1. TypeOK
    BY DEF IInv
  <1>2. /\ s \in Servers
        /\ polId \in {4, 5, 6, 8} => memoryFree[s] >= Size[c]
        /\ polId \in {4, 8} => UnderLimit(s)
    BY <1>1, AnswerSound
  <1>3. Size[c] \in Nat /\ Content[c] \in Contents
    BY SizeAssumption DEF Contents
  <1>4. onOff' \in [Servers -> BOOLEAN]
    BY <1>1, <1>2, Zenon DEF TypeOK, choiceServer
  <1>5. memoryFree' \in [Servers -> Int]
    BY <1>1, <1>2, <1>3 DEF TypeOK, choiceServer, addContent
  <1>6. /\ allocatedContentType' \in [Servers -> Seq(Contents)]
        /\ \A t \in Servers \ {s} : allocatedContentType'[t] = allocatedContentType[t]
        /\ Len(allocatedContentType'[s]) = Len(allocatedContentType[s]) + 1
    BY <1>1, <1>2, <1>3 DEF TypeOK, choiceServer, addContent
  <1>7. NoOvercommit'
    BY <1>1, <1>2, <1>3 DEF IInv, TypeOK, NoOvercommit, choiceServer, addContent
  <1>8. ContentsBounded'
    <2> SUFFICES ASSUME polId \in {4, 8}, NEW t \in Servers
                 PROVE  Len(allocatedContentType'[t]) <= MaxContents
      BY DEF ContentsBounded
    <2>1. Len(allocatedContentType[t]) \in Nat /\ Len(allocatedContentType[t]) <= MaxContents
      BY <1>1 DEF IInv, TypeOK, ContentsBounded
    <2>2. CASE t = s
      <3>1. Band(s) < MaxContents
        BY <1>2 DEF UnderLimit
      <3>2. Len(allocatedContentType[s]) <= Band(s)
        BY <1>1, <1>2 DEF Band, TypeOK
      <3>3. Band(s) \in Nat
        BY <1>1, <1>2 DEF Band, TypeOK
      <3> QED BY <1>6, <2>1, <2>2, <3>1, <3>2, <3>3, MaxContentsAssumption
    <2>3. CASE t # s
      BY <1>6, <2>1, <2>3
    <2> QED BY <2>2, <2>3
  <1> QED BY <1>4, <1>5, <1>6, <1>7, <1>8

\* removeContent gives memory back and shortens the list.
LEMMA RemoveContentIInv ==
    ASSUME IInv, NEW c \in Clients, NEW s \in Servers, removeContent(s, c), polId' = polId
    PROVE  /\ onOff' \in [Servers -> BOOLEAN] /\ memoryFree' \in [Servers -> Int]
           /\ allocatedContentType' \in [Servers -> Seq(Contents)]
           /\ NoOvercommit' /\ ContentsBounded'
  <1>1. TypeOK
    BY DEF IInv
  <1>2. Size[c] \in Nat
    BY SizeAssumption
  <1>3. onOff' \in [Servers -> BOOLEAN]
    BY <1>1, Zenon DEF TypeOK, removeContent
  <1>4. memoryFree' \in [Servers -> Int]
    BY <1>1, <1>2 DEF TypeOK, removeContent
  <1>5. NoOvercommit'
    BY <1>1, <1>2 DEF IInv, TypeOK, NoOvercommit, removeContent
  <1>6. /\ allocatedContentType' \in [Servers -> Seq(Contents)]
        /\ \A t \in Servers \ {s} : allocatedContentType'[t] = allocatedContentType[t]
        /\ Len(allocatedContentType'[s]) <= Len(allocatedContentType[s])
    <2>1. allocatedContentType[s] \in Seq(Contents)
      BY <1>1 DEF TypeOK
    <2>2. /\ RemoveFirst(allocatedContentType[s], Content[c]) \in Seq(Contents)
          /\ Len(RemoveFirst(allocatedContentType[s], Content[c])) <= Len(allocatedContentType[s])
      BY <2>1, RemoveFirstShortens
    <2> QED BY <1>1, <2>2 DEF TypeOK, removeContent
  <1>7. ContentsBounded'
    <2> SUFFICES ASSUME polId \in {4, 8}, NEW t \in Servers
                 PROVE  Len(allocatedContentType'[t]) <= MaxContents
      BY DEF ContentsBounded
    <2>1. Len(allocatedContentType[t]) \in Nat /\ Len(allocatedContentType[t]) <= MaxContents
      BY <1>1 DEF IInv, TypeOK, ContentsBounded
    <2>2. Len(allocatedContentType'[t]) \in Nat
      BY <1>6
    <2> QED BY <1>6, <2>1, <2>2, MaxContentsAssumption
  <1> QED BY <1>3, <1>4, <1>5, <1>6, <1>7

\* A step that leaves memory, contents and policy alone keeps what is said of them.
LEMMA TableKept ==
    ASSUME IInv, TypeOK', UNCHANGED <<polId, memoryFree, allocatedContentType>>
    PROVE  IInv'
  BY DEF IInv, NoOvercommit, ContentsBounded

\* StartApplication connects to the home server.
LEMMA StartApplicationIInv == ASSUME IInv, NEW c \in Clients, StartApplication(c) PROVE IInv'
  <1>1. TypeOK
    BY DEF IInv
  <1>2. <<NewLink(Home)>> \in Seq(Link)
    BY HomeAssumption DEF NewLink, Link
  <1>3. TypeOK'
    <2>1. links' \in [Clients -> Seq(Link)]
      BY <1>1, <1>2 DEF TypeOK, StartApplication
    <2>2. phase' \in [Clients -> {"idle", "initial", "streaming", "terminal"}]
      BY <1>1 DEF TypeOK, StartApplication
    <2> QED BY <1>1, <2>1, <2>2, Zenon DEF TypeOK, StartApplication, serverData
  <1> QED BY <1>3, TableKept, Zenon DEF StartApplication, serverData

\* ConnectionSucceeded, the placement of a client that asks for the first time
\* included.
LEMMA ConnectionSucceededIInv ==
    ASSUME IInv, NEW c \in Clients, ConnectionSucceeded(c)
    PROVE  IInv'
  <1>1. TypeOK
    BY DEF IInv
  <1>2. links[c] \in Seq(Link) /\ LinkMoved(c, "open") \in Seq(Link)
    <2>1. links[c] \in Seq(Link) /\ "open" \in Ends
      BY <1>1 DEF TypeOK, Ends
    <2> QED BY <2>1, EndMoved DEF LinkMoved
  <1>3. UNCHANGED <<polId, m_connectedClients, fetched, handovers>>
    BY DEF ConnectionSucceeded
  <1>4. ASSUME NEW s \in sendRequest(c), Placed(c, s) PROVE IInv'
    <2>1. s \in Servers
      BY <1>1, AnswerSound
    <2>2. /\ onOff' \in [Servers -> BOOLEAN] /\ memoryFree' \in [Servers -> Int]
          /\ allocatedContentType' \in [Servers -> Seq(Contents)]
          /\ NoOvercommit' /\ ContentsBounded'
      BY <1>3, <1>4, PlacedIInv DEF Placed
    <2>3. links' \in [Clients -> Seq(Link)]
      <3> DEFINE moved == HandoverApplication(LinkMoved(c, "open"), s)
      <3>1. moved \in Seq(Link)
        BY <1>2, <2>1, LinksTyped
      <3>2. handover[c] # None => HandoverApplication(moved, handover[c]) \in Seq(Link)
        <4>1. handover[c] \in Servers \union {None}
          BY <1>1 DEF TypeOK
        <4> HIDE DEF moved
        <4> QED BY <3>1, <4>1, LinksTyped
      <3>3. links' = [links EXCEPT ![c] =
                IF handover[c] = None THEN moved ELSE HandoverApplication(moved, handover[c])]
        BY <1>4 DEF Placed
      <3> HIDE DEF moved
      <3> QED BY <1>1, <3>1, <3>2, <3>3 DEF TypeOK
    <2>4. /\ serverId' \in [Clients -> Servers]
          /\ phase' \in [Clients -> {"idle", "initial", "streaming", "terminal"}]
          /\ handover' \in [Clients -> Servers \union {None}]
      BY <1>1, <1>4, <2>1 DEF TypeOK, Placed
    <2>5. UNCHANGED aborted
      BY <1>4 DEF Placed
    <2>6. TypeOK'
      BY <1>1, <1>3, <2>2, <2>3, <2>4, <2>5, Zenon DEF TypeOK
    <2> QED BY <2>2, <2>6 DEF IInv
  <1>5. ASSUME Aborted PROVE IInv'
    <2>1. aborted' \in BOOLEAN
      BY <1>5, Zenon DEF Aborted
    <2>2. TypeOK'
      BY <1>1, <1>3, <1>5, <2>1, Zenon DEF TypeOK, Aborted, serverData
    <2> QED BY <1>3, <1>5, <2>2, TableKept, Zenon DEF Aborted, serverData
  <1>6. ASSUME links' = [links EXCEPT ![c] = LinkMoved(c, "open")],
               UNCHANGED <<aborted, serverData, phase, serverId, handover>>
        PROVE  IInv'
    <2>1. links' \in [Clients -> Seq(Link)]
      BY <1>1, <1>2, <1>6 DEF TypeOK
    <2>2. TypeOK'
      BY <1>1, <1>3, <1>6, <2>1, Zenon DEF TypeOK, serverData
    <2> QED BY <1>3, <1>6, <2>2, TableKept, Zenon DEF serverData
  <1> QED BY <1>4, <1>5, <1>6 DEF ConnectionSucceeded

\* ConnectionFailed.
LEMMA ConnectionFailedIInv == ASSUME IInv, NEW c \in Clients, ConnectionFailed(c) PROVE IInv'
  <1>1. TypeOK
    BY DEF IInv
  <1>2. LinkMoved(c, "failed") \in Seq(Link)
    <2>1. links[c] \in Seq(Link) /\ "failed" \in Ends
      BY <1>1 DEF TypeOK, Ends
    <2> QED BY <2>1, EndMoved DEF LinkMoved
  <1>3. links' \in [Clients -> Seq(Link)]
    BY <1>1, <1>2 DEF TypeOK, ConnectionFailed
  <1>4. TypeOK'
    BY <1>1, <1>3, Zenon DEF TypeOK, ConnectionFailed, serverData, clients
  <1> QED BY <1>4, TableKept, Zenon DEF ConnectionFailed, serverData

\* SetHandover.
LEMMA SetHandoverIInv ==
    ASSUME IInv, NEW c \in Clients, NEW s \in Servers, SetHandover(c, s)
    PROVE  IInv'
  <1>1. TypeOK
    BY DEF IInv
  <1>2. handovers' \in Nat /\ handover' \in [Clients -> Servers \union {None}]
    BY <1>1 DEF TypeOK, SetHandover
  <1>3. TypeOK'
    BY <1>1, <1>2, Zenon DEF TypeOK, SetHandover, serverData
  <1> QED BY <1>3, TableKept, Zenon DEF SetHandover, serverData

\* DownloadFinished, which carries out a pending change of server.
LEMMA DownloadFinishedIInv == ASSUME IInv, NEW c \in Clients, DownloadFinished(c) PROVE IInv'
  <1>1. TypeOK
    BY DEF IInv
  <1>2. fetched' \in [Clients -> BOOLEAN]
    BY <1>1, Zenon DEF TypeOK, DownloadFinished
  <1>3. handover' \in [Clients -> Servers \union {None}]
    BY <1>1 DEF TypeOK, DownloadFinished
  <1>4. links' \in [Clients -> Seq(Link)]
    <2>1. links[c] \in Seq(Link) /\ handover[c] \in Servers \union {None}
      BY <1>1 DEF TypeOK
    <2>2. handover[c] # None => HandoverApplication(links[c], handover[c]) \in Seq(Link)
      BY <2>1, LinksTyped
    <2> QED BY <1>1, <2>2 DEF TypeOK, DownloadFinished
  <1>5. TypeOK'
    BY <1>1, <1>2, <1>3, <1>4, Zenon DEF TypeOK, DownloadFinished, serverData
  <1> QED BY <1>5, TableKept, Zenon DEF DownloadFinished, serverData

\* SessionFinished: finishedRequest and StopApplication.
LEMMA SessionFinishedIInv == ASSUME IInv, NEW c \in Clients, SessionFinished(c) PROVE IInv'
  <1>1. TypeOK /\ serverId[c] \in Servers
    BY DEF IInv, TypeOK
  <1>2. /\ onOff' \in [Servers -> BOOLEAN] /\ memoryFree' \in [Servers -> Int]
        /\ allocatedContentType' \in [Servers -> Seq(Contents)]
        /\ NoOvercommit' /\ ContentsBounded'
    BY <1>1, RemoveContentIInv DEF SessionFinished
  <1>3. phase' \in [Clients -> {"idle", "initial", "streaming", "terminal"}]
    BY <1>1 DEF TypeOK, SessionFinished
  <1>4. links' \in [Clients -> Seq(Link)]
    <2>1. links[c] \in Seq(Link)
      BY <1>1 DEF TypeOK
    <2>2. Closed(links[c]) \in Seq(Link)
      BY <2>1, LinksTyped
    <2> QED BY <1>1, <2>2 DEF TypeOK, SessionFinished
  <1>5. TypeOK'
    BY <1>1, <1>2, <1>3, <1>4, Zenon DEF TypeOK, SessionFinished
  <1> QED BY <1>2, <1>5 DEF IInv

\* The server's end of a connection changes.
LEMMA ServerEndMoved ==
    ASSUME NEW seq \in Seq(Link), NEW k \in 1..Len(seq), NEW at \in {"accepted", "closed"}
    PROVE  seq[k] \in Link /\ [seq EXCEPT ![k].server = at] \in Seq(Link)
  <1>1. seq[k] \in Link
    BY ElementOfSeq
  <1>2. [seq[k] EXCEPT !.server = at] \in Link
    BY <1>1 DEF Link
  <1> QED BY <1>1, <1>2, ExceptSeq

\* HandleAccept, which turns the server on.
LEMMA HandleAcceptIInv ==
    ASSUME IInv, NEW c \in Clients, NEW k \in 1..Len(links[c]), HandleAccept(c, k)
    PROVE  IInv'
  <1>1. TypeOK /\ links[c] \in Seq(Link)
    BY DEF IInv, TypeOK
  <1>2. /\ links[c][k].to \in Servers /\ k \in Nat \ {0}
        /\ [links[c] EXCEPT ![k].server = "accepted"] \in Seq(Link)
    <2>1. links[c][k] \in Link /\ [links[c] EXCEPT ![k].server = "accepted"] \in Seq(Link)
      BY <1>1, ServerEndMoved
    <2>2. links[c][k].to \in Servers
      BY <2>1 DEF Link
    <2>3. k \in Nat \ {0}
      BY <1>1
    <2> QED BY <2>1, <2>2, <2>3
  <1>3. onOff' \in [Servers -> BOOLEAN]
    BY <1>1, <1>2, Zenon DEF TypeOK, HandleAccept
  <1>4. m_connectedClients' \in [Servers -> Seq(Clients \X (Nat \ {0}))]
    <2>1. <<c, k>> \in Clients \X (Nat \ {0})
      BY <1>2
    <2>2. Append(m_connectedClients[links[c][k].to], <<c, k>>) \in Seq(Clients \X (Nat \ {0}))
      BY <1>1, <1>2, <2>1 DEF TypeOK
    <2> QED BY <1>1, <1>2, <2>2 DEF TypeOK, HandleAccept
  <1>5. links' \in [Clients -> Seq(Link)]
    BY <1>1, <1>2 DEF TypeOK, HandleAccept
  <1>6. TypeOK'
    BY <1>1, <1>3, <1>4, <1>5, Zenon DEF TypeOK, HandleAccept, clients
  <1> QED BY <1>6, TableKept, Zenon DEF HandleAccept

\* HandlePeerClose, which may turn it off.
LEMMA HandlePeerCloseIInv ==
    ASSUME IInv, NEW c \in Clients, NEW k \in 1..Len(links[c]), HandlePeerClose(c, k)
    PROVE  IInv'
  <1>1. TypeOK /\ links[c] \in Seq(Link)
    BY DEF IInv, TypeOK
  <1>2. /\ links[c][k].to \in Servers
        /\ [links[c] EXCEPT ![k].server = "closed"] \in Seq(Link)
    BY <1>1, ServerEndMoved DEF Link
  <1>3. onOff' \in [Servers -> BOOLEAN]
    BY <1>1, <1>2, Zenon DEF TypeOK, HandlePeerClose
  <1>4. m_connectedClients' \in [Servers -> Seq(Clients \X (Nat \ {0}))]
    <2>1. m_connectedClients[links[c][k].to] \in Seq(Clients \X (Nat \ {0}))
      BY <1>1, <1>2 DEF TypeOK
    <2>2. RemoveFirst(m_connectedClients[links[c][k].to], <<c, k>>) \in Seq(Clients \X (Nat \ {0}))
      BY <2>1, RemoveFirstShortens
    <2> QED BY <1>1, <1>2, <2>2 DEF TypeOK, HandlePeerClose
  <1>5. links' \in [Clients -> Seq(Link)]
    BY <1>1, <1>2 DEF TypeOK, HandlePeerClose
  <1>6. TypeOK'
    BY <1>1, <1>3, <1>4, <1>5, Zenon DEF TypeOK, HandlePeerClose, clients
  <1> QED BY <1>6, TableKept, Zenon DEF HandlePeerClose

\* Every step keeps the invariant.
LEMMA NextIInv == IInv /\ [Next]_vars => IInv'
  <1> SUFFICES ASSUME IInv, [Next]_vars PROVE IInv'
    OBVIOUS
  <1>1. CASE Next
    <2> PICK c \in Clients :
            \/ StartApplication(c)
            \/ ConnectionSucceeded(c)
            \/ ConnectionFailed(c)
            \/ \E s \in Servers : SetHandover(c, s)
            \/ DownloadFinished(c)
            \/ SessionFinished(c)
            \/ \E k \in 1..Len(links[c]) : HandleAccept(c, k)
            \/ \E k \in 1..Len(links[c]) : HandlePeerClose(c, k)
      BY <1>1, Zenon DEF Next
    <2> QED BY StartApplicationIInv, ConnectionSucceededIInv, ConnectionFailedIInv,
               SetHandoverIInv, DownloadFinishedIInv, SessionFinishedIInv, HandleAcceptIInv,
               HandlePeerCloseIInv, Zenon
  <1>2. CASE UNCHANGED vars
    <2>1. TypeOK'
      BY <1>2, Zenon DEF IInv, TypeOK, vars, serverData, clients
    <2> QED BY <1>2, <2>1, TableKept, Zenon DEF vars, serverData
  <1> QED BY <1>1, <1>2

\* The invariant holds in every behaviour of controller, clients and servers.
THEOREM Invariance == Spec => []IInv
  BY InitIInv, NextIInv, PTL DEF Spec

\* The types hold: every answer the controller acts on is the number of a server.
THEOREM TypeCorrect == Spec => []TypeOK
  <1>1. IInv => TypeOK BY DEF IInv
  <1> QED BY <1>1, Invariance, PTL

\* The policies that use a script's answer never place a session on a server
\* without room for it, although sendRequest takes an index into a shortened
\* list for the number of a server.
THEOREM RoomRespected == Spec => []NoOvercommit
  <1>1. IInv => NoOvercommit BY DEF IInv
  <1> QED BY <1>1, Invariance, PTL

\* AHP and PLI never exceed their limit on the contents of a server, whatever
\* the limit is.
THEOREM LimitRespected == Spec => []ContentsBounded
  <1>1. IInv => ContentsBounded BY DEF IInv
  <1> QED BY <1>1, Invariance, PTL

-------------------------------------------------------------------------------
(***************************************************************************)
(* The table and the sessions.  A step takes memory for a client that      *)
(* waits, gives back that of a session, or does neither.                   *)
(***************************************************************************)
Takes(c, s) ==
    /\ phase[c] = "initial" /\ phase' = [phase EXCEPT ![c] = "streaming"]
    /\ serverId' = [serverId EXCEPT ![c] = s]
    /\ addContent(s, c)

Gives(c) ==
    /\ phase[c] = "streaming" /\ phase' = [phase EXCEPT ![c] = "terminal"]
    /\ UNCHANGED serverId
    /\ removeContent(serverId[c], c)

SessionsKept ==
    /\ UNCHANGED <<serverId, memoryFree, allocatedContentType>>
    /\ \A c \in Clients : phase'[c] = "streaming" <=> phase[c] = "streaming"

\* Every step places a session, ends one, or leaves the table of servers alone.
LEMMA StepKinds ==
    ASSUME IInv, [Next]_vars
    PROVE  \/ \E c \in Clients, s \in Servers : Takes(c, s)
           \/ \E c \in Clients : Gives(c)
           \/ SessionsKept
  <1>1. TypeOK
    BY DEF IInv
  <1>2. CASE UNCHANGED vars
    BY <1>2 DEF vars, serverData, clients, SessionsKept
  <1>3. CASE Next
    <2>1. PICK c \in Clients :
            \/ StartApplication(c)
            \/ ConnectionSucceeded(c)
            \/ ConnectionFailed(c)
            \/ \E s \in Servers : SetHandover(c, s)
            \/ DownloadFinished(c)
            \/ SessionFinished(c)
            \/ \E k \in 1..Len(links[c]) : HandleAccept(c, k)
            \/ \E k \in 1..Len(links[c]) : HandlePeerClose(c, k)
      BY <1>3, Zenon DEF Next
    <2>2. CASE StartApplication(c)
      <3>1. \A d \in Clients : phase'[d] = "streaming" <=> phase[d] = "streaming"
        BY <1>1, <2>2 DEF TypeOK, StartApplication
      <3> QED BY <2>2, <3>1 DEF StartApplication, serverData, SessionsKept
    <2>3. CASE ConnectionSucceeded(c)
      <3>1. ASSUME phase[c] = "initial", NEW s \in sendRequest(c), Placed(c, s)
            PROVE  s \in Servers /\ Takes(c, s)
        BY <1>1, <3>1, AnswerSound DEF Placed, choiceServer, Takes
      <3>2. CASE Aborted
        BY <3>2 DEF Aborted, serverData, SessionsKept
      <3>3. CASE UNCHANGED <<aborted, serverData, phase, serverId, handover>>
        BY <3>3 DEF serverData, SessionsKept
      <3> QED BY <2>3, <3>1, <3>2, <3>3 DEF ConnectionSucceeded
    <2>4. CASE ConnectionFailed(c) \/ \E s \in Servers : SetHandover(c, s)
      BY <2>4 DEF ConnectionFailed, SetHandover, serverData, clients, SessionsKept
    <2>5. CASE DownloadFinished(c)
      BY <2>5 DEF DownloadFinished, serverData, SessionsKept
    <2>6. CASE SessionFinished(c)
      BY <2>6 DEF SessionFinished, Gives
    <2>7. CASE \E k \in 1..Len(links[c]) : HandleAccept(c, k) \/ HandlePeerClose(c, k)
      BY <2>7 DEF HandleAccept, HandlePeerClose, clients, SessionsKept
    <2> QED BY <2>1, <2>2, <2>3, <2>4, <2>5, <2>6, <2>7
  <1> QED BY <1>2, <1>3

\* The sessions of a server are finitely many, and each kind of step adds one,
\* ends one or leaves them.
LEMMA UsersFinite == \A s : IsFiniteSet(Users(s)) /\ Users(s) \in SUBSET Clients
  <1> SUFFICES ASSUME NEW s PROVE IsFiniteSet(Users(s)) /\ Users(s) \in SUBSET Clients
    OBVIOUS
  <1>1. Users(s) \in SUBSET Clients
    BY DEF Users
  <1> QED BY <1>1, ClientsAssumption, FS_Subset

\* Placing a session adds its client to the users of that server only.
LEMMA UsersAfterTaking ==
    ASSUME IInv, NEW c \in Clients, NEW s \in Servers, Takes(c, s)
    PROVE  /\ c \notin Users(s) /\ Users(s)' = Users(s) \cup {c}
           /\ \A t \in Servers \ {s} : Users(t)' = Users(t)
  <1>1. TypeOK
    BY DEF IInv
  <1>2. /\ phase'[c] = "streaming" /\ serverId'[c] = s /\ phase[c] # "streaming"
        /\ \A d \in Clients \ {c} : phase'[d] = phase[d] /\ serverId'[d] = serverId[d]
    BY <1>1 DEF TypeOK, Takes
  <1> QED BY <1>2 DEF Users

\* Ending a session takes its client from the users of that server only.
LEMMA UsersAfterGiving ==
    ASSUME IInv, NEW c \in Clients, Gives(c), NEW s \in Servers, s = serverId[c]
    PROVE  /\ c \in Users(s) /\ Users(s)' = Users(s) \ {c}
           /\ \A t \in Servers \ {s} : Users(t)' = Users(t)
  <1>1. TypeOK
    BY DEF IInv
  <1>2. /\ phase'[c] = "terminal" /\ serverId' = serverId /\ phase[c] = "streaming"
        /\ \A d \in Clients \ {c} : phase'[d] = phase[d]
    BY <1>1 DEF TypeOK, Gives
  <1> QED BY <1>2 DEF Users

-------------------------------------------------------------------------------
(***************************************************************************)
(* Memory.                                                                 *)
(***************************************************************************)
MemoryUsed(s) == SumFunctionOnSet(Size, Users(s))

MemoryExact == \A s \in Servers : memoryFree[s] + MemoryUsed(s) = MemorySize[s]

\* The sum of MemoryConserved is that of the sizes of the sessions.
LEMMA MemoryIsSum == MemoryExact <=> MemoryConserved
  <1>1. \A S : MapThenSumSet(LAMBDA c : Size[c], S) = SumFunctionOnSet(Size, S)
    BY Zenon DEF MapThenSumSet, SumFunctionOnSet, FoldFunctionOnSet
  <1> QED BY <1>1 DEF MemoryExact, MemoryUsed, MemoryConserved

\* The sizes of some clients add up to a number, which one more adds to.
LEMMA SizesAdd ==
    ASSUME NEW S \in SUBSET Clients, NEW c \in S
    PROVE  /\ SumFunctionOnSet(Size, S) \in Int
           /\ SumFunctionOnSet(Size, S) = SumFunctionOnSet(Size, S \ {c}) + Size[c]
  <1>1. IsFiniteSet(S)
    BY ClientsAssumption, FS_Subset
  <1>2. \A x \in S : Size[x] \in Int
    BY SizeAssumption
  <1> QED BY <1>1, <1>2, SumFacts

\* Before the first session every server has all of its memory.
LEMMA MemoryInit == Init => MemoryExact
  <1> SUFFICES ASSUME Init, NEW s \in Servers
               PROVE  memoryFree[s] + MemoryUsed(s) = MemorySize[s]
    BY DEF MemoryExact
  <1>1. Users(s) = {}
    BY DEF Init, Users
  <1>2. SumFunctionOnSet(Size, {}) = 0
    BY FS_EmptySet, SumFacts
  <1> QED BY <1>1, <1>2, MemorySizeAssumption DEF Init, MemoryUsed

\* Every step keeps the accounts of memory.
LEMMA MemoryNext == IInv /\ MemoryExact /\ [Next]_vars => MemoryExact'
  <1> SUFFICES ASSUME IInv, MemoryExact, [Next]_vars PROVE MemoryExact'
    OBVIOUS
  <1>1. memoryFree \in [Servers -> Int] /\ \A s \in Servers : MemorySize[s] \in Int
    BY MemorySizeAssumption DEF IInv, TypeOK
  <1>2. ASSUME NEW c \in Clients, NEW s \in Servers, Takes(c, s) PROVE MemoryExact'
    <2>1. /\ c \notin Users(s) /\ Users(s)' = Users(s) \cup {c}
          /\ \A t \in Servers \ {s} : Users(t)' = Users(t)
      BY <1>2, UsersAfterTaking
    <2>2. /\ memoryFree'[s] = memoryFree[s] - Size[c] /\ Size[c] \in Int
          /\ \A t \in Servers \ {s} : memoryFree'[t] = memoryFree[t]
      BY <1>1, <1>2, SizeAssumption DEF Takes, addContent
    <2>3. PICK S : S = Users(s)'
      OBVIOUS
    <2>4. S \in SUBSET Clients /\ c \in S /\ S \ {c} = Users(s)
      BY <2>1, <2>3, UsersFinite
    <2>5. MemoryUsed(s)' = MemoryUsed(s) + Size[c] /\ MemoryUsed(s) \in Int
      <3>1. SumFunctionOnSet(Size, S) = SumFunctionOnSet(Size, Users(s)) + Size[c]
        BY <2>4, SizesAdd
      <3>2. SumFunctionOnSet(Size, Users(s)) \in Int
        <4>1. IsFiniteSet(Users(s)) /\ \A x \in Users(s) : Size[x] \in Int
          BY UsersFinite, SizeAssumption
        <4> QED BY <4>1, SumFacts
      <3> QED BY <2>3, <3>1, <3>2 DEF MemoryUsed
    <2>6. \A t \in Servers \ {s} : MemoryUsed(t)' = MemoryUsed(t)
      BY <2>1 DEF MemoryUsed
    <2>7. memoryFree'[s] + MemoryUsed(s)' = MemorySize[s]
      BY <1>1, <2>2, <2>5 DEF MemoryExact
    <2> QED BY <2>2, <2>6, <2>7 DEF MemoryExact
  <1>3. ASSUME NEW c \in Clients, Gives(c) PROVE MemoryExact'
    <2>1. PICK s \in Servers : s = serverId[c]
      BY DEF IInv, TypeOK
    <2>2. /\ c \in Users(s) /\ Users(s)' = Users(s) \ {c}
          /\ \A t \in Servers \ {s} : Users(t)' = Users(t)
      BY <1>3, <2>1, UsersAfterGiving
    <2>3. /\ memoryFree'[s] = memoryFree[s] + Size[c] /\ Size[c] \in Int
          /\ \A t \in Servers \ {s} : memoryFree'[t] = memoryFree[t]
      BY <1>1, <1>3, <2>1, SizeAssumption DEF Gives, removeContent
    <2>4. MemoryUsed(s) = MemoryUsed(s)' + Size[c] /\ MemoryUsed(s)' \in Int
      <3>1. SumFunctionOnSet(Size, Users(s)) = SumFunctionOnSet(Size, Users(s) \ {c}) + Size[c]
        BY <2>2, UsersFinite, SizesAdd
      <3>2. SumFunctionOnSet(Size, Users(s) \ {c}) \in Int
        <4>1. PICK S : S = Users(s) \ {c}
          OBVIOUS
        <4>2. IsFiniteSet(S) /\ \A x \in S : Size[x] \in Int
          BY <4>1, UsersFinite, SizeAssumption, FS_RemoveElement
        <4> QED BY <4>1, <4>2, SumFacts
      <3> QED BY <2>2, <3>1, <3>2 DEF MemoryUsed
    <2>5. \A t \in Servers \ {s} : MemoryUsed(t)' = MemoryUsed(t)
      BY <2>2 DEF MemoryUsed
    <2>6. memoryFree'[s] + MemoryUsed(s)' = MemorySize[s]
      BY <1>1, <2>3, <2>4 DEF MemoryExact
    <2> QED BY <2>3, <2>5, <2>6 DEF MemoryExact
  <1>4. ASSUME SessionsKept PROVE MemoryExact'
    <2>1. \A s \in Servers : Users(s)' = Users(s)
      BY <1>4 DEF SessionsKept, Users
    <2>2. \A s \in Servers : MemoryUsed(s)' = MemoryUsed(s)
      BY <2>1 DEF MemoryUsed
    <2> QED BY <1>4, <2>2 DEF MemoryExact, SessionsKept
  <1> QED BY <1>2, <1>3, <1>4, StepKinds

\* addContent and removeContent of a session go to the same server, once each:
\* free memory and the sizes of the sessions placed always add up.
THEOREM MemoryAccounts == Spec => []MemoryConserved
  <1>1. Spec => []MemoryExact
    BY MemoryInit, MemoryNext, Invariance, PTL DEF Spec
  <1> QED BY <1>1, MemoryIsSum, PTL

-------------------------------------------------------------------------------
(***************************************************************************)
(* Contents.                                                               *)
(***************************************************************************)
Entries(seq, x) == {i \in DOMAIN seq : seq[i] = x}

\* The places of a content in a list are finitely many.
LEMMA EntriesFinite ==
    ASSUME NEW S, NEW seq \in Seq(S), NEW x
    PROVE  IsFiniteSet(Entries(seq, x)) /\ Cardinality(Entries(seq, x)) \in Nat
  <1>1. Len(seq) \in Nat /\ Entries(seq, x) \in SUBSET (1..Len(seq))
    BY DEF Entries
  <1>2. IsFiniteSet(1..Len(seq))
    BY <1>1, FS_Interval
  <1> QED BY <1>1, <1>2, FS_Subset, FS_CardinalityType

\* push_back adds an entry.
LEMMA EntriesAppended ==
    ASSUME NEW S, NEW seq \in Seq(S), NEW e \in S, NEW x
    PROVE  Cardinality(Entries(Append(seq, e), x))
               = Cardinality(Entries(seq, x)) + (IF e = x THEN 1 ELSE 0)
  <1>1. PICK n \in Nat : n = Len(seq)
    OBVIOUS
  <1>2. /\ DOMAIN seq = 1..n /\ DOMAIN Append(seq, e) = 1..(n + 1)
        /\ Append(seq, e)[n + 1] = e /\ \A i \in 1..n : Append(seq, e)[i] = seq[i]
    BY <1>1
  <1>3. /\ IsFiniteSet(Entries(seq, x)) /\ Cardinality(Entries(seq, x)) \in Nat
        /\ n + 1 \notin Entries(seq, x)
    <2>1. n + 1 \notin Entries(seq, x)
      BY <1>2 DEF Entries
    <2> QED BY <2>1, EntriesFinite
  <1>4. CASE e = x
    <2>1. Entries(Append(seq, e), x) = Entries(seq, x) \cup {n + 1}
      BY <1>2, <1>4 DEF Entries
    <2> QED BY <1>3, <1>4, <2>1, FS_AddElement
  <1>5. CASE e # x
    <2>1. Entries(Append(seq, e), x) = Entries(seq, x)
      BY <1>2, <1>5 DEF Entries
    <2> QED BY <1>3, <1>5, <2>1
  <1> QED BY <1>4, <1>5

\* erase of the first entry found removes one entry of that content and none of
\* another: the entries after it move down one place.
LEMMA EntriesRemoved ==
    ASSUME NEW S, NEW seq \in Seq(S), NEW e, Entries(seq, e) # {}, NEW x
    PROVE  Cardinality(Entries(RemoveFirst(seq, e), x))
               = Cardinality(Entries(seq, x)) - (IF e = x THEN 1 ELSE 0)
  <1>1. PICK n \in Nat : n = Len(seq) /\ DOMAIN seq = 1..n
    OBVIOUS
  <1>2. PICK r : r = RemoveFirst(seq, e)
    OBVIOUS
  <1>3. /\ r \in Seq(S) /\ Len(r) = n - 1
        /\ \E k \in 1..n :
               /\ seq[k] = e
               /\ \A i \in 1..(n - 1) : r[i] = IF i < k THEN seq[i] ELSE seq[i + 1]
    <2>1. \E i \in 1..Len(seq) : seq[i] = e
      BY <1>1 DEF Entries
    <2>2. /\ RemoveFirst(seq, e) \in Seq(S) /\ Len(RemoveFirst(seq, e)) = Len(seq) - 1
          /\ \E k \in 1..Len(seq) :
                 /\ seq[k] = e
                 /\ \A i \in 1..(Len(seq) - 1) :
                        RemoveFirst(seq, e)[i] = IF i < k THEN seq[i] ELSE seq[i + 1]
      BY <2>1, RemoveFirstIs
    <2> QED BY <1>1, <1>2, <2>2, Zenon
  <1>4. DOMAIN r = 1..(n - 1)
    BY <1>3
  <1>5. PICK k \in 1..n : /\ seq[k] = e
                          /\ \A i \in 1..(n - 1) : r[i] = IF i < k THEN seq[i] ELSE seq[i + 1]
    BY <1>3
  <1> DEFINE A == Entries(r, x)
             B == Entries(seq, x) \ {k}
             f == [i \in A |-> IF i < k THEN i ELSE i + 1]
  <1>6. f \in [A -> B]
    <2> SUFFICES ASSUME NEW i \in A PROVE (IF i < k THEN i ELSE i + 1) \in B
      OBVIOUS
    <2>1. i \in 1..(n - 1) /\ r[i] = x
      BY <1>4 DEF Entries
    <2> QED BY <1>1, <1>5, <2>1 DEF Entries
  <1>7. \A i, j \in A : f[i] = f[j] => i = j
    <2>1. A \in SUBSET Nat
      BY <1>4 DEF Entries
    <2> QED BY <2>1
  <1>8. \A b \in B : \E i \in A : f[i] = b
    <2> SUFFICES ASSUME NEW b \in B PROVE \E i \in A : f[i] = b
      OBVIOUS
    <2>1. b \in 1..n /\ b # k /\ seq[b] = x
      BY <1>1 DEF Entries
    <2>2. CASE b < k
      <3>1. b \in 1..(n - 1) /\ r[b] = x
        BY <1>5, <2>1, <2>2
      <3>2. b \in A
        BY <1>4, <3>1 DEF Entries
      <3> QED BY <2>2, <3>2
    <2>3. CASE b > k
      <3>1. b - 1 \in 1..(n - 1) /\ ~(b - 1 < k) /\ (b - 1) + 1 = b
        BY <1>5, <2>1, <2>3
      <3>2. r[b - 1] = x
        BY <1>5, <2>1, <3>1
      <3>3. b - 1 \in A
        BY <1>4, <3>1, <3>2 DEF Entries
      <3> QED BY <3>1, <3>3
    <2> QED BY <2>1, <2>2, <2>3
  <1>9. Cardinality(A) = Cardinality(B)
    <2>1. IsFiniteSet(A)
      BY <1>3, EntriesFinite
    <2> HIDE DEF A, B, f
    <2>2. f \in Bijection(A, B)
      BY <1>6, <1>7, <1>8, Fun_IsBij
    <2>3. ExistsBijection(A, B)
      BY <2>2 DEF ExistsBijection
    <2> QED BY <2>1, <2>3, FS_Bijection
  <1>10. Cardinality(B) = Cardinality(Entries(seq, x)) - (IF e = x THEN 1 ELSE 0)
    <2>1. IsFiniteSet(Entries(seq, x)) /\ Cardinality(Entries(seq, x)) \in Nat
      BY EntriesFinite
    <2>2. k \in Entries(seq, x) <=> e = x
      BY <1>1, <1>5 DEF Entries
    <2>3. Cardinality(B) = IF k \in Entries(seq, x) THEN Cardinality(Entries(seq, x)) - 1
                           ELSE Cardinality(Entries(seq, x))
      BY <2>1, FS_RemoveElement
    <2> HIDE DEF B
    <2> QED BY <2>1, <2>2, <2>3
  <1> QED BY <1>2, <1>9, <1>10

\* The sessions of a server that show a content.
Showing(s, x) == {c \in Users(s) : Content[c] = x}

\* The sessions that show a content on a server are finitely many.
LEMMA ShowingFinite == \A s, x : IsFiniteSet(Showing(s, x)) /\ Cardinality(Showing(s, x)) \in Nat
  <1> SUFFICES ASSUME NEW s, NEW x
               PROVE  IsFiniteSet(Showing(s, x)) /\ Cardinality(Showing(s, x)) \in Nat
    OBVIOUS
  <1>1. Showing(s, x) \in SUBSET Clients
    BY UsersFinite DEF Showing
  <1> QED BY <1>1, ClientsAssumption, FS_Subset, FS_CardinalityType

\* ContentsMatch for one server and one content.
Matches(s, x) ==
    Cardinality(Entries(allocatedContentType[s], x)) = Cardinality(Showing(s, x))

\* Before the first session no server has contents.
LEMMA ContentsInit == Init => ContentsMatch
  <1> SUFFICES ASSUME Init, NEW s \in Servers, NEW x \in Contents PROVE Matches(s, x)
    BY DEF ContentsMatch, Matches, Entries, Showing
  <1>1. Entries(allocatedContentType[s], x) = {}
    BY DEF Init, Entries
  <1>2. Showing(s, x) = {}
    BY DEF Init, Showing, Users
  <1> QED BY <1>1, <1>2 DEF Matches

\* Every step keeps the lists of contents those of the sessions.
LEMMA ContentsNext == IInv /\ ContentsMatch /\ [Next]_vars => ContentsMatch'
  <1> SUFFICES ASSUME IInv, ContentsMatch, [Next]_vars, NEW t \in Servers, NEW x \in Contents
               PROVE  Matches(t, x)'
    BY DEF ContentsMatch, Matches, Entries, Showing
  <1>1. Matches(t, x) /\ TypeOK
    BY DEF IInv, ContentsMatch, Matches, Entries, Showing
  <1>2. ASSUME allocatedContentType'[t] = allocatedContentType[t], Users(t)' = Users(t)
        PROVE  Matches(t, x)'
    BY <1>1, <1>2 DEF Matches, Showing
  <1>3. IsFiniteSet(Showing(t, x)) /\ Cardinality(Showing(t, x)) \in Nat
    BY ShowingFinite
  <1>4. allocatedContentType[t] \in Seq(Contents)
    BY <1>1 DEF TypeOK
  <1>5. ASSUME NEW c \in Clients, NEW s \in Servers, Takes(c, s) PROVE Matches(t, x)'
    <2>1. /\ c \notin Users(s) /\ Users(s)' = Users(s) \cup {c}
          /\ \A d \in Servers \ {s} : Users(d)' = Users(d)
      BY <1>5, UsersAfterTaking
    <2>2. CASE t # s
      BY <1>1, <1>2, <1>5, <2>1, <2>2 DEF Takes, addContent, TypeOK
    <2>3. CASE t = s
      <3>1. allocatedContentType'[t] = Append(allocatedContentType[t], Content[c])
        BY <1>1, <1>5, <2>3 DEF Takes, addContent, TypeOK
      <3>2. Content[c] \in Contents
        BY DEF Contents
      <3>3. Cardinality(Entries(allocatedContentType'[t], x))
                = Cardinality(Entries(allocatedContentType[t], x))
                  + (IF Content[c] = x THEN 1 ELSE 0)
        BY <1>4, <3>1, <3>2, EntriesAppended
      <3>4. Cardinality(Showing(t, x)')
                = Cardinality(Showing(t, x)) + (IF Content[c] = x THEN 1 ELSE 0)
        <4>1. CASE Content[c] = x
          <5>1. Showing(t, x)' = Showing(t, x) \cup {c} /\ c \notin Showing(t, x)
            BY <2>1, <2>3, <4>1 DEF Showing
          <5> QED BY <1>3, <4>1, <5>1, FS_AddElement
        <4>2. CASE Content[c] # x
          <5>1. Showing(t, x)' = Showing(t, x)
            BY <2>1, <2>3, <4>2 DEF Showing
          <5> QED BY <1>3, <4>2, <5>1
        <4> QED BY <4>1, <4>2
      <3> QED BY <1>1, <1>3, <3>3, <3>4 DEF Matches
    <2> QED BY <2>2, <2>3
  <1>6. ASSUME NEW c \in Clients, Gives(c) PROVE Matches(t, x)'
    <2>1. PICK s \in Servers : s = serverId[c]
      BY <1>1 DEF TypeOK
    <2>2. /\ c \in Users(s) /\ Users(s)' = Users(s) \ {c}
          /\ \A d \in Servers \ {s} : Users(d)' = Users(d)
      BY <1>6, <2>1, UsersAfterGiving
    <2>3. CASE t # s
      BY <1>1, <1>2, <1>6, <2>1, <2>2, <2>3 DEF Gives, removeContent, TypeOK
    <2>4. CASE t = s
      <3>1. allocatedContentType'[t] = RemoveFirst(allocatedContentType[t], Content[c])
        BY <1>1, <1>6, <2>1, <2>4 DEF Gives, removeContent, TypeOK
      <3>2. Entries(allocatedContentType[t], Content[c]) # {}
        <4>1. PICK e \in Contents : e = Content[c]
          BY DEF Contents
        <4>2. Matches(t, e)
          BY DEF ContentsMatch, Matches, Entries, Showing
        <4>3. c \in Showing(t, e) /\ IsFiniteSet(Showing(t, e))
          <5>1. c \in Showing(t, e)
            BY <2>2, <2>4, <4>1 DEF Showing
          <5> QED BY <5>1, ShowingFinite
        <4>4. Cardinality(Showing(t, e)) # 0
          BY <4>3, FS_EmptySet
        <4>5. Cardinality({}) = 0
          BY FS_EmptySet
        <4> QED BY <4>1, <4>2, <4>4, <4>5 DEF Matches
      <3>3. Cardinality(Entries(allocatedContentType'[t], x))
                = Cardinality(Entries(allocatedContentType[t], x))
                  - (IF Content[c] = x THEN 1 ELSE 0)
        BY <1>4, <3>1, <3>2, EntriesRemoved
      <3>4. Cardinality(Showing(t, x)')
                = Cardinality(Showing(t, x)) - (IF Content[c] = x THEN 1 ELSE 0)
        <4>1. CASE Content[c] = x
          <5>1. Showing(t, x)' = Showing(t, x) \ {c} /\ c \in Showing(t, x)
            BY <2>2, <2>4, <4>1 DEF Showing
          <5> QED BY <1>3, <4>1, <5>1, FS_RemoveElement
        <4>2. CASE Content[c] # x
          <5>1. Showing(t, x)' = Showing(t, x)
            BY <2>2, <2>4, <4>2 DEF Showing
          <5> QED BY <1>3, <4>2, <5>1
        <4> QED BY <4>1, <4>2
      <3> QED BY <1>1, <1>3, <3>3, <3>4 DEF Matches
    <2> QED BY <2>3, <2>4
  <1>7. ASSUME SessionsKept PROVE Matches(t, x)'
    <2>1. Users(t)' = Users(t)
      BY <1>7 DEF SessionsKept, Users
    <2> QED BY <1>2, <1>7, <2>1 DEF SessionsKept
  <1> QED BY <1>5, <1>6, <1>7, StepKinds

\* A server's list of contents is that of its sessions, so that removeContent
\* finds the entry it erases.
THEOREM ContentsAccounts == Spec => []ContentsMatch
  BY ContentsInit, ContentsNext, Invariance, PTL DEF Spec

-------------------------------------------------------------------------------
(***************************************************************************)
(* When the scripts fail.                                                  *)
(***************************************************************************)

\* With room and few contents everywhere, no server is left out of a list, the
\* index of a server is its number, and every policy has an answer.
LEMMA AnswerWithoutLoad ==
    ASSUME TypeOK, NEW c \in Clients, \A s \in Servers : s \in Fitting(c) /\ UnderLimit(s)
    PROVE  sendRequest(c) # {}
  <1>1. Fitting(c) = Servers /\ 0 \in Servers
    BY NumServersAssumption DEF Fitting, Servers
  <1>2. ASSUME NEW s \in Servers PROVE Position(s, c) = s
    <2>1. s \in Nat /\ {t \in Fitting(c) : t < s} = 0..(s - 1)
      BY <1>1, NumServersAssumption DEF Servers
    <2>2. Cardinality(0..(s - 1)) = IF 0 > s - 1 THEN 0 ELSE (s - 1) - 0 + 1
      <3>1. 0 \in Int /\ s - 1 \in Int
        BY <2>1
      <3> QED BY <3>1, FS_Interval
    <2>3. Position(s, c) = Cardinality(0..(s - 1))
      BY <2>1 DEF Position
    <2> QED BY <2>1, <2>2, <2>3
  <1>3. ListsAgree(c)
    BY <1>1, <1>2, NumServersAssumption DEF ListsAgree, Servers
  <1>4. ASSUME NEW ranked, 0 \in ranked PROVE Answers(c, ranked) # {}
    BY <1>3, <1>4 DEF Answers
  <1>5. AHP(c) # {} /\ GulosoAleatorio(c) # {}
    BY <1>1, <1>4 DEF AHP, GulosoAleatorio
  <1>6. CASE polId \in {4, 8}
    BY <1>5, <1>6 DEF sendRequest
  <1>7. CASE polId \in {5, 6}
    BY <1>5, <1>7 DEF sendRequest
  <1>8. CASE polId = 7
    BY <1>5, <1>8 DEF sendRequest
  <1>9. CASE polId \notin {4, 5, 6, 7, 8}
    BY <1>9 DEF sendRequest
  <1> QED BY <1>6, <1>7, <1>8, <1>9

\* stoul throws only while some server lacks room for the client that waits or
\* has as many contents as the policies allow.
THEOREM AbortsExplained == Spec => []AbortsOnlyUnderLoad
  <1>1. Init => AbortsOnlyUnderLoad
    BY DEF Init, AbortsOnlyUnderLoad
  <1>2. IInv /\ AbortsOnlyUnderLoad /\ [Next]_vars => AbortsOnlyUnderLoad'
    <2> SUFFICES ASSUME IInv, AbortsOnlyUnderLoad, [Next]_vars, aborted'
                 PROVE  (\E c \in Clients :
                            /\ phase[c] = "initial"
                            /\ \E s \in Servers : s \notin Fitting(c) \/ ~UnderLimit(s))'
      BY DEF AbortsOnlyUnderLoad
    <2>1. CASE UNCHANGED vars
      BY <2>1 DEF AbortsOnlyUnderLoad, vars, serverData, clients, Fitting, UnderLimit, Band
    <2>2. CASE Next
      <3>1. ~aborted
        BY <2>2 DEF Next
      <3>2. PICK c \in Clients : ConnectionSucceeded(c)
        BY <2>2, <3>1 DEF Next, StartApplication, ConnectionFailed, SetHandover,
                          DownloadFinished, SessionFinished, HandleAccept, HandlePeerClose
      <3>3. phase[c] = "initial" /\ sendRequest(c) = {} /\ Aborted
        BY <3>1, <3>2 DEF ConnectionSucceeded, Placed
      <3>4. PICK s \in Servers : s \notin Fitting(c) \/ ~UnderLimit(s)
        BY <3>3, AnswerWithoutLoad DEF IInv
      <3>5. (s \notin Fitting(c) \/ ~UnderLimit(s))'
        BY <3>3, <3>4 DEF Aborted, serverData, Fitting, UnderLimit, Band
      <3> QED BY <3>3, <3>5 DEF Aborted
    <2> QED BY <2>1, <2>2
  <1> QED BY <1>1, <1>2, Invariance, PTL DEF Spec
===============================================================================
