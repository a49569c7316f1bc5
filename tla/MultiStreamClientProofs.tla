------------------------ MODULE MultiStreamClientProofs ------------------------
(***************************************************************************)
(* The safety properties of MultiStreamClient, for every set of servers,   *)
(* every video and any number of changes of server: the exchanges permute  *)
(* the sockets, and as long as no server is chosen a second time at most   *)
(* one request is outstanding, and only on m_socket.                       *)
(***************************************************************************)
EXTENDS MultiStreamClient, TLAPS

Segments == 0..LastSegment
Reps == 0..HighestRep

\* OneSocketPerServer of a value of conn, with its type.
Permuted(c) ==
    /\ c \in [peer : Servers, socket : Servers, aux : [Peers -> Servers]]
    /\ \A p, q \in Peers : c.aux[p] = c.aux[q] => p = q
    /\ \A s \in Servers : s # c.socket <=> \E p \in Peers : c.aux[p] = s

\* m_socket is connected to m_peerAddress, and the auxiliary sockets of the
\* servers not chosen yet are where m_auxiliary_peers has them.
Unmoved(c, chosen) ==
    /\ c.socket = c.peer
    /\ \A p \in Peers \ chosen : c.aux[p] = p

SocketStates == {"none", "connecting", "established", "failed"}

BytesTyped ==
    /\ wire \in [Servers -> Nat] /\ m_socketBytesReceived \in [Servers -> Nat]
    /\ m_subsegment_size \in [Servers -> Nat] /\ m_bytesReceived \in Nat
    /\ sockets \in [Servers -> SocketStates]

(***************************************************************************)
(* What each state of the machine says of the rest of the client: which    *)
(* events can be pending in it, and that the segments played and buffered  *)
(* are those before m_segmentCounter wherever it is going to be raised or  *)
(* requested, so that the segment asked for exists.                        *)
(***************************************************************************)
StateShape ==
    /\ state \in Player!States
    /\ m_segmentCounter \in Segments /\ m_currentRepIndex \in Reps /\ m_bDelay \in {0, 1}
    /\ m_segmentsInBuffer \in Nat /\ m_currentPlaybackIndex \in Nat
    /\ startSends \in {0, 1} /\ irdTimers \in {0, 1}
    /\ state = "initial" =>
          /\ m_segmentCounter = 0 /\ m_currentPlaybackIndex = 0 /\ m_segmentsInBuffer = 0
          /\ startSends = 0 /\ playbackTimers = 0 /\ irdTimers = 0
    /\ state = "downloading" =>
          /\ m_segmentsInBuffer = 0 /\ m_currentPlaybackIndex = m_segmentCounter
          /\ playbackTimers = 0 /\ irdTimers = 0
    /\ state = "downloadingPlaying" =>
          /\ m_currentPlaybackIndex + m_segmentsInBuffer = m_segmentCounter
          /\ startSends = 0 /\ playbackTimers = 1 /\ irdTimers = 0
    /\ state = "playing" =>
          /\ irdTimers = 1 => m_currentPlaybackIndex + m_segmentsInBuffer = m_segmentCounter
          /\ startSends = 0 /\ playbackTimers = 1
    /\ state = "terminal" => startSends = 0 /\ playbackTimers = 0

\* Nothing was read from a connection that is not established.
ReadOnlyConnected ==
    sockets[conn.socket] \in {"connecting", "failed"} => m_bytesReceived = 0

\* Nothing is claimed of a session in which a server was chosen a second time:
\* the requests then go to another server than the sizes are noted for.
IInv ==
    /\ Permuted(conn)
    /\ ~revisited =>
          /\ Unmoved(conn, visited)
          /\ BytesTyped
          /\ OneRequestOutstanding
          /\ ~aborted => StateShape /\ ReadOnlyConnected

-------------------------------------------------------------------------------
(***************************************************************************)
(* The exchange of sockets.                                                *)
(***************************************************************************)

\* An exchange of m_socket with an auxiliary socket loses no socket.
LEMMA ExchangePermutes ==
    ASSUME NEW c, Permuted(c), NEW ip \in Peers
    PROVE  Permuted(Exchange(c, ip))
  <1> DEFINE e == Exchange(c, ip)
  <1> SUFFICES Permuted(e)
    OBVIOUS
  <1> USE DEF Peers
  <1>1. /\ c.socket \in Servers /\ c.aux \in [Peers -> Servers] /\ ip \in Servers
        /\ c.aux[ip] \in Servers
    BY DEF Permuted
  <1>2. /\ e.peer = ip /\ e.socket = c.aux[ip] /\ e.aux = [c.aux EXCEPT ![ip] = c.socket]
        /\ e = [peer |-> ip, socket |-> c.aux[ip], aux |-> [c.aux EXCEPT ![ip] = c.socket]]
    BY DEF Exchange
  <1>3. [c.aux EXCEPT ![ip] = c.socket] \in [Peers -> Servers]
    BY <1>1
  <1>4. e \in [peer : Servers, socket : Servers, aux : [Peers -> Servers]]
    <2> HIDE DEF e
    <2> QED BY <1>1, <1>2, <1>3
  <1>5. \A p \in Peers : e.aux[p] = IF p = ip THEN c.socket ELSE c.aux[p]
    <2> HIDE DEF e
    <2> QED BY <1>1, <1>2
  <1> HIDE DEF e
  <1>6. \A p \in Peers : c.aux[p] # c.socket
    BY <1>1 DEF Permuted
  <1>7. \A p, q \in Peers : e.aux[p] = e.aux[q] => p = q
    BY <1>5, <1>6 DEF Permuted
  <1>8. ASSUME NEW s \in Servers PROVE s # e.socket <=> \E p \in Peers : e.aux[p] = s
    <2>1. CASE s = c.socket
      <3>1. s # e.socket
        BY <2>1, <1>2, <1>6
      <3>2. e.aux[ip] = s
        BY <2>1, <1>5
      <3> QED BY <3>1, <3>2
    <2>2. CASE s # c.socket
      <3>1. PICK p \in Peers : c.aux[p] = s
        BY <2>2 DEF Permuted
      <3>2. CASE p = ip
        BY <2>2, <3>1, <3>2, <1>2, <1>5 DEF Permuted
      <3>3. CASE p # ip
        BY <3>1, <3>3, <1>2, <1>5 DEF Permuted
      <3> QED BY <3>2, <3>3
    <2> QED BY <2>1, <2>2
  <1> QED BY <1>4, <1>7, <1>8 DEF Permuted

\* A server chosen for the first time is the one its auxiliary socket is for.
LEMMA ExchangeUnmoved ==
    ASSUME NEW c, Permuted(c), NEW chosen, Unmoved(c, chosen), NEW ip \in Peers \ chosen
    PROVE  Unmoved(Exchange(c, ip), chosen \cup {ip})
  <1>1. c.aux \in [Peers -> Servers]
    BY DEF Permuted
  <1>2. /\ Exchange(c, ip).peer = ip /\ Exchange(c, ip).socket = c.aux[ip]
        /\ Exchange(c, ip).aux = [c.aux EXCEPT ![ip] = c.socket]
    BY DEF Exchange
  <1>3. \A p \in Peers \ {ip} : [c.aux EXCEPT ![ip] = c.socket][p] = c.aux[p]
    BY <1>1
  <1> QED BY <1>2, <1>3 DEF Unmoved

\* HandoverApplication, called once or twice in a callback.
LEMMA HandoverMoves ==
    ASSUME Permuted(conn), NEW ips, HandoverApplication(ips),
           \/ \E a : ips = <<a>>
           \/ \E a, b : ips = <<a, b>>
    PROVE  /\ Permuted(conn')
           /\ revisited => revisited'
           /\ Unmoved(conn, visited) /\ ~revisited' => Unmoved(conn', visited')
  <1>1. CASE \E a : ips = <<a>>
    <2>1. PICK a : ips = <<a>>
      BY <1>1
    <2>2. Range(ips) = {a} /\ Len(ips) = 1 /\ ips[1] = a
      BY <2>1 DEF Range
    <2>3. a \in Peers /\ conn' = Exchange(conn, a) /\ visited' = visited \cup {a}
      BY <2>2 DEF HandoverApplication
    <2>4. (revisited => revisited') /\ (~revisited' => a \notin visited)
      BY <2>2 DEF HandoverApplication
    <2>5. Permuted(Exchange(conn, a))
      BY <2>3, ExchangePermutes
    <2>6. Unmoved(conn, visited) /\ a \notin visited => Unmoved(Exchange(conn, a), visited \cup {a})
      BY <2>3, ExchangeUnmoved
    <2> QED BY <2>3, <2>4, <2>5, <2>6
  <1>2. CASE \E a, b : ips = <<a, b>>
    <2>1. PICK a, b : ips = <<a, b>>
      BY <1>2
    <2>2. Range(ips) = {a, b} /\ Len(ips) = 2 /\ ips[1] = a /\ ips[2] = b
      BY <2>1 DEF Range
    <2>3. /\ a \in Peers /\ b \in Peers /\ conn' = Exchange(Exchange(conn, a), b)
          /\ visited' = visited \cup {a, b}
      BY <2>2 DEF HandoverApplication
    <2>4. /\ revisited => revisited'
          /\ ~revisited' => a \notin visited /\ b \notin visited /\ a # b
      <3>1. revisited' = (revisited \/ {a, b} \cap visited # {} \/ ~IsInjective(ips))
        BY <2>2 DEF HandoverApplication
      <3>2. IsInjective(ips) => a # b
        BY <2>1 DEF IsInjective
      <3> QED BY <3>1, <3>2
    <2>5. PICK c : c = Exchange(conn, a)
      OBVIOUS
    <2>6. Permuted(c)
      BY <2>3, <2>5, ExchangePermutes
    <2>7. Permuted(Exchange(c, b))
      BY <2>3, <2>6, ExchangePermutes
    <2>8. Unmoved(conn, visited) /\ ~revisited' => Unmoved(c, visited \cup {a})
      BY <2>3, <2>4, <2>5, ExchangeUnmoved
    <2>9. Unmoved(c, visited \cup {a}) /\ ~revisited' =>
              Unmoved(Exchange(c, b), (visited \cup {a}) \cup {b})
      BY <2>3, <2>4, <2>6, ExchangeUnmoved
    <2>10. (visited \cup {a}) \cup {b} = visited \cup {a, b}
      OBVIOUS
    <2> QED BY <2>3, <2>4, <2>5, <2>7, <2>8, <2>9, <2>10
  <1> QED BY <1>1, <1>2

\* The same of TakeHandover.
LEMMA TakeHandoverMoves ==
    ASSUME Permuted(conn), TakeHandover
    PROVE  /\ Permuted(conn')
           /\ revisited => revisited'
           /\ Unmoved(conn, visited) /\ ~revisited' => Unmoved(conn', visited')
  <1>1. CASE handover
    <2>1. HandoverApplication(<<newip>>)
      BY <1>1 DEF TakeHandover
    <2> QED BY <2>1, HandoverMoves
  <1>2. CASE ~handover
    BY <1>2 DEF TakeHandover, connection
  <1> QED BY <1>1, <1>2

\* Controller changes the sockets by HandoverApplication or not at all.
LEMMA ControllerMoves ==
    ASSUME Permuted(conn), NEW event, NEW owed, Controller(event, owed)
    PROVE  /\ Permuted(conn')
           /\ revisited => revisited'
           /\ Unmoved(conn, visited) /\ ~revisited' => Unmoved(conn', visited')
  <1>1. CASE UNCHANGED connection
    BY <1>1 DEF connection
  <1>2. CASE TakeHandover
    BY <1>2, TakeHandoverMoves
  <1>3. CASE ControllerInitial
    <2>1. PICK server \in Servers :
              HandoverApplication(IF handover THEN <<server, newip>> ELSE <<server>>)
      BY <1>3 DEF ControllerInitial
    <2>2. HandoverApplication(<<server, newip>>) \/ HandoverApplication(<<server>>)
      BY <2>1
    <2> QED BY <2>2, HandoverMoves
  <1>4. UNCHANGED connection \/ TakeHandover \/ ControllerInitial
    BY DEF Controller, Abort, Ignore, ControllerDownloading, ControllerDownloadingPlaying,
           DownloadFinishedWhilePlaying, PlaybackFinishedWhileDownloading, ControllerPlaying,
           IrdFinishedWhilePlaying, PlaybackFinishedWhilePlaying, SessionFinished
  <1> QED BY <1>1, <1>2, <1>3, <1>4

-------------------------------------------------------------------------------
(***************************************************************************)
(* The bytes.                                                              *)
(***************************************************************************)
Nothing(table) == table \in [Servers -> Nat] /\ \A s \in Servers : table[s] = 0

\* The segment asked for has a size.
LEMMA SizeIsPositive ==
    ASSUME NEW r \in Reps, NEW s \in Segments
    PROVE  SegmentSize[r][s] \in Nat /\ SegmentSize[r][s] > 0
  BY VideoAssumption DEF Reps, Segments

\* A client that does not wait for a segment has nothing outstanding.
LEMMA Idle ==
    ASSUME Permuted(conn), BytesTyped, OneRequestOutstanding, ~revisited,
           ~(Player!Awaiting /\ ~aborted)
    PROVE  Nothing(wire) /\ Nothing(m_socketBytesReceived) /\ m_bytesReceived = 0
  <1>1. conn.socket \in Servers
    BY DEF Permuted
  <1>2. PICK k : k = conn.socket
    OBVIOUS
  <1>3. /\ \A s \in Servers \ {k} : wire[s] = 0 /\ m_socketBytesReceived[s] = 0
        /\ m_socketBytesReceived[k] = m_bytesReceived
        /\ wire[k] = 0 /\ m_bytesReceived = 0
    BY <1>2 DEF OneRequestOutstanding
  <1> QED BY <1>1, <1>2, <1>3 DEF BytesTyped, Nothing

\* After a step that leaves nothing outstanding and does not wait.
LEMMA NothingOutstanding ==
    ASSUME Permuted(conn'), Unmoved(conn', visited'), Nothing(wire'),
           Nothing(m_socketBytesReceived'), m_bytesReceived' = 0,
           ~((Player!Awaiting)' /\ ~aborted')
    PROVE  OneRequestOutstanding'
  <1>1. conn'.socket \in Servers
    BY DEF Permuted
  <1> QED BY <1>1 DEF Unmoved, Nothing, OneRequestOutstanding

\* After a step that asks for a segment when nothing was outstanding.
LEMMA RequestSent ==
    ASSUME BytesTyped, Permuted(conn'), Unmoved(conn', visited'), NEW owed, Nothing(owed),
           SendMultiple(owed), UNCHANGED sockets, m_currentRepIndex' \in Reps,
           m_segmentCounter' \in Segments, Nothing(m_socketBytesReceived'),
           m_bytesReceived' = 0, (Player!Awaiting)', ~aborted'
    PROVE  BytesTyped' /\ OneRequestOutstanding' /\ ReadOnlyConnected'
  <1>1. PICK k, size : k = conn'.socket /\ size = SegmentSize[m_currentRepIndex'][m_segmentCounter']
    OBVIOUS
  <1>2. k \in Servers /\ conn'.peer = k
    BY <1>1 DEF Permuted, Unmoved
  <1>3. size \in Nat /\ CurrentSize' = size
    BY <1>1, SizeIsPositive DEF CurrentSize
  <1>4. /\ wire' = [owed EXCEPT ![k] = IF sockets[k] = "failed" THEN @ ELSE @ + size]
        /\ m_subsegment_size' = [m_subsegment_size EXCEPT ![k] = size]
    BY <1>1, <1>2 DEF SendMultiple
  <1>5. /\ wire' \in [Servers -> Nat] /\ m_subsegment_size' \in [Servers -> Nat]
        /\ m_subsegment_size'[k] = size
        /\ \A s \in Servers \ {k} : wire'[s] = 0
        /\ wire'[k] = IF sockets[k] = "failed" THEN 0 ELSE size
    BY <1>2, <1>3, <1>4 DEF BytesTyped, Nothing
  <1>6. BytesTyped'
    BY <1>5 DEF BytesTyped, Nothing
  <1>7. OneRequestOutstanding'
    BY <1>1, <1>2, <1>3, <1>5 DEF OneRequestOutstanding, Nothing
  <1> QED BY <1>6, <1>7 DEF ReadOnlyConnected

-------------------------------------------------------------------------------
(***************************************************************************)
(* The steps.  Session is what IInv says of a session that is still        *)
(* running with no server chosen twice.                                    *)
(***************************************************************************)
Session ==
    /\ ~revisited /\ ~aborted
    /\ Permuted(conn) /\ Unmoved(conn, visited) /\ BytesTyped /\ OneRequestOutstanding
    /\ StateShape /\ ReadOnlyConnected

\* It is enough to look at sessions in which no server has been chosen twice.
LEMMA SessionIs ==
    /\ IInv /\ ~revisited /\ ~aborted => Session
    /\ Session => IInv
    /\ IInv => Permuted(conn)
  BY DEF IInv, Session

\* StartApplication opens a connection to every server.
LEMMA StartApplicationIInv == ASSUME IInv, StartApplication PROVE IInv'
  <1> USE DEF StartApplication, connection, request, download, playback, bytes, received, timers
  <1>1. CASE revisited
    BY <1>1 DEF IInv
  <1>2. CASE ~revisited
    <2>1. Session
      BY <1>2, SessionIs
    <2>2. ~Player!Awaiting
      BY DEF Player!Awaiting
    <2>3. Nothing(wire) /\ Nothing(m_socketBytesReceived) /\ m_bytesReceived = 0
      BY <2>1, <2>2, Idle DEF Session
    <2>4. Permuted(conn') /\ Unmoved(conn', visited') /\ StateShape'
      BY <2>1 DEF Session, StateShape
    <2>5. BytesTyped' /\ ReadOnlyConnected'
      BY <2>1, <2>3 DEF Session, BytesTyped, ReadOnlyConnected, SocketStates
    <2>6. ~(Player!Awaiting)'
      BY DEF Player!Awaiting
    <2>7. OneRequestOutstanding'
      BY <2>3, <2>4, <2>6, NothingOutstanding
    <2> QED BY <2>4, <2>5, <2>7 DEF IInv
  <1> QED BY <1>1, <1>2

\* SetHandover only notes the new server.
LEMMA SetHandoverIInv == ASSUME IInv, NEW ip, SetHandover(ip) PROVE IInv'
  <1> USE DEF SetHandover, download, playback, bytes, received, timers
  <1>1. /\ UNCHANGED <<conn, visited, revisited, aborted, sockets, state>>
        /\ UNCHANGED <<download, playback, bytes, received, timers>>
    OBVIOUS
  <1> QED BY <1>1 DEF IInv, BytesTyped, OneRequestOutstanding, Player!Awaiting, CurrentSize,
                      StateShape, ReadOnlyConnected

\* ConnectionFailed: what was written to the socket is lost.
LEMMA ConnectionFailedIInv == ASSUME IInv, NEW s \in Servers, ConnectionFailed(s) PROVE IInv'
  <1> USE DEF ConnectionFailed, connection, request, download, playback, received, timers
  <1>1. CASE revisited
    BY <1>1 DEF IInv
  <1>2. CASE ~revisited
    <2>1. Session
      BY <1>2, SessionIs
    <2>2. Permuted(conn') /\ Unmoved(conn', visited') /\ StateShape'
      BY <2>1 DEF Session, StateShape
    <2>3. BytesTyped'
      BY <2>1 DEF Session, BytesTyped, SocketStates
    <2>4. PICK k : k = conn.socket
      OBVIOUS
    <2>5. k \in Servers /\ sockets[s] = "connecting"
      BY <2>1, <2>4 DEF Session, Permuted
    <2>6. /\ wire' = [wire EXCEPT ![s] = 0] /\ sockets' = [sockets EXCEPT ![s] = "failed"]
          /\ UNCHANGED <<conn, m_socketBytesReceived, m_bytesReceived, m_subsegment_size, aborted>>
          /\ (Player!Awaiting)' = Player!Awaiting /\ CurrentSize' = CurrentSize
      BY DEF Player!Awaiting, CurrentSize
    <2>7. s = k => m_bytesReceived = 0
      BY <2>1, <2>4, <2>5 DEF Session, ReadOnlyConnected
    <2>8. OneRequestOutstanding'
      BY <2>1, <2>4, <2>5, <2>6, <2>7 DEF Session, OneRequestOutstanding, BytesTyped
    <2>9. ReadOnlyConnected'
      BY <2>1, <2>4, <2>5, <2>6, <2>7 DEF Session, ReadOnlyConnected, BytesTyped
    <2> QED BY <2>2, <2>3, <2>8, <2>9 DEF IInv
  <1> QED BY <1>1, <1>2

\* StartSend: the request of the first segment.
LEMMA StartSendIInv == ASSUME IInv, StartSend PROVE IInv'
  <1> USE DEF StartSend, connection, request, download, playback, received
  <1>1. CASE revisited
    BY <1>1 DEF IInv
  <1>2. CASE ~revisited
    <2>1. Session
      BY <1>2, SessionIs
    <2>2. startSends = 1 /\ startSends' = 0 /\ state = "downloading" /\ state' = "downloading"
      BY <2>1 DEF Session, StateShape, Player!States
    <2>3. ~Player!Awaiting /\ (Player!Awaiting)'
      BY <2>2 DEF Player!Awaiting
    <2>4. Nothing(wire) /\ Nothing(m_socketBytesReceived) /\ m_bytesReceived = 0
      BY <2>1, <2>3, Idle DEF Session
    <2>5. Permuted(conn') /\ Unmoved(conn', visited') /\ StateShape'
      BY <2>1, <2>2 DEF Session, StateShape
    <2>6. /\ m_currentRepIndex' \in Reps /\ m_segmentCounter' \in Segments
          /\ Nothing(m_socketBytesReceived') /\ m_bytesReceived' = 0 /\ ~aborted'
          /\ UNCHANGED sockets
      BY <2>1, <2>4 DEF Session, StateShape
    <2>7. BytesTyped' /\ OneRequestOutstanding' /\ ReadOnlyConnected'
      BY <2>1, <2>3, <2>4, <2>5, <2>6, RequestSent DEF Session
    <2> QED BY <2>5, <2>7 DEF IInv
  <1> QED BY <1>1, <1>2

\* An assertion that fails stops the client with nothing outstanding.
LEMMA AbortIInv ==
    ASSUME Session, NEW event, NEW owed, Nothing(owed), Abort(event, owed),
           sockets' \in [Servers -> SocketStates],
           Nothing(m_socketBytesReceived'), m_bytesReceived' = 0
    PROVE  IInv'
  <1>1. /\ conn' = conn /\ visited' = visited /\ wire' = owed
        /\ m_subsegment_size' = m_subsegment_size /\ aborted'
    BY DEF Abort, Ignore, SendNothing, connection
  <1>2. Permuted(conn') /\ Unmoved(conn', visited')
    BY <1>1 DEF Session
  <1>3. BytesTyped'
    BY <1>1 DEF Session, BytesTyped, Nothing
  <1>4. OneRequestOutstanding'
    BY <1>1, <1>2, NothingOutstanding
  <1> QED BY <1>1, <1>2, <1>3, <1>4 DEF IInv

\* ConnectionSucceeded: the first connection starts the controller, which asks
\* the fog controller for a server.
LEMMA ConnectionSucceededIInv ==
    ASSUME IInv, NEW s \in Servers, ConnectionSucceeded(s) PROVE IInv'
  <1> USE DEF ConnectionSucceeded, request, received
  <1>1. CASE ~(state = "initial" /\ s = conn.socket)
    <2> USE DEF connection, download, playback, bytes, timers
    <2>1. UNCHANGED <<state, aborted, connection, download, playback, bytes, timers>>
      BY <1>1
    <2>2. CASE revisited
      BY <2>1, <2>2 DEF IInv
    <2>3. CASE ~revisited
      <3>1. Session
        BY <2>3, SessionIs
      <3>2. Permuted(conn') /\ Unmoved(conn', visited') /\ StateShape'
        BY <2>1, <3>1 DEF Session, StateShape
      <3>3. BytesTyped'
        BY <2>1, <3>1 DEF Session, BytesTyped, SocketStates
      <3>4. PICK k : k = conn.socket
        OBVIOUS
      <3>5. k \in Servers /\ sockets[s] = "connecting"
        BY <3>1, <3>4 DEF Session, Permuted
      <3>6. /\ sockets' = [sockets EXCEPT ![s] = "established"]
            /\ UNCHANGED <<conn, wire, m_socketBytesReceived, m_bytesReceived, m_subsegment_size,
                           aborted>>
            /\ (Player!Awaiting)' = Player!Awaiting /\ CurrentSize' = CurrentSize
        BY <2>1 DEF Player!Awaiting, CurrentSize
      <3>7. OneRequestOutstanding'
        BY <3>1, <3>4, <3>5, <3>6 DEF Session, OneRequestOutstanding, BytesTyped
      <3>8. ReadOnlyConnected'
        BY <3>1, <3>4, <3>5, <3>6 DEF Session, ReadOnlyConnected, BytesTyped
      <3> QED BY <3>2, <3>3, <3>7, <3>8 DEF IInv
    <2> QED BY <2>2, <2>3
  <1>2. CASE state = "initial" /\ s = conn.socket
    <2>1. Controller("init", wire)
      BY <1>2
    <2>2. /\ Permuted(conn') /\ (revisited => revisited')
          /\ Unmoved(conn, visited) /\ ~revisited' => Unmoved(conn', visited')
      BY <2>1, SessionIs, ControllerMoves
    <2>3. CASE revisited'
      BY <2>2, <2>3 DEF IInv
    <2>4. CASE ~revisited'
      <3>1. Session
        BY <2>2, <2>4, SessionIs
      <3>2. Unmoved(conn', visited')
        BY <2>2, <2>4, <3>1 DEF Session
      <3>3. ~Player!Awaiting
        BY <1>2 DEF Player!Awaiting
      <3>4. Nothing(wire) /\ Nothing(m_socketBytesReceived) /\ m_bytesReceived = 0
        BY <3>1, <3>3, Idle DEF Session
      <3>5. /\ sockets' \in [Servers -> SocketStates]
            /\ Nothing(m_socketBytesReceived') /\ m_bytesReceived' = 0
        BY <3>1, <3>4 DEF Session, BytesTyped, SocketStates
      <3>6. CASE Abort("init", wire)
        BY <3>1, <3>4, <3>5, <3>6, AbortIInv
      <3>7. CASE ~aborted' /\ ControllerInitial
        <4>1. /\ state' = "downloading" /\ startSends' = 1 /\ playbackTimers' = 0 /\ irdTimers' = 0
              /\ m_segmentCounter' = 0 /\ m_currentRepIndex' \in Reps /\ m_bDelay' \in {0, 1}
              /\ m_segmentsInBuffer' = 0 /\ m_currentPlaybackIndex' = 0
              /\ UNCHANGED <<wire, m_subsegment_size>>
          BY <1>2, <3>1, <3>7 DEF ControllerInitial, Session, StateShape, Player!RequestRepIndex,
                             Player!PlaybackKept, Player!Reps, Reps, bytes
        <4>2. StateShape'
          BY <4>1, VideoAssumption DEF StateShape, Player!States, Segments
        <4>3. BytesTyped' /\ ReadOnlyConnected'
          BY <3>1, <3>5, <4>1 DEF Session, BytesTyped, ReadOnlyConnected, Nothing
        <4>4. ~(Player!Awaiting)' /\ Nothing(wire')
          BY <3>4, <4>1 DEF Player!Awaiting
        <4>5. OneRequestOutstanding'
          BY <2>2, <3>2, <3>5, <4>4, NothingOutstanding
        <4> QED BY <2>2, <3>2, <4>2, <4>3, <4>5 DEF IInv
      <3> QED BY <1>2, <2>1, <3>1, <3>6, <3>7 DEF Controller, Session
    <2> QED BY <2>3, <2>4
  <1> QED BY <1>1, <1>2

\* A read that does not complete the segment leaves the connection alone; one
\* that does runs Controller.
LEMMA ReadMoves ==
    ASSUME IInv, NEW s, NEW n, HandleRead(s, n)
    PROVE  /\ Permuted(conn')
           /\ revisited => revisited'
           /\ Unmoved(conn, visited) /\ ~revisited' => Unmoved(conn', visited')
  <1>1. CASE Controller("downloadFinished", [wire EXCEPT ![s] = @ - n])
    BY <1>1, SessionIs, ControllerMoves
  <1>2. CASE UNCHANGED connection
    BY <1>2 DEF IInv, connection
  <1> QED BY <1>1, <1>2 DEF HandleRead

\* What can be read comes from m_socket and belongs to the segment waited for.
LEMMA ReadIsOwed ==
    ASSUME Session, NEW s \in Servers, NEW n \in 1..wire[s]
    PROVE  /\ s = conn.socket /\ Player!Awaiting
           /\ CurrentSize \in Nat
           /\ m_subsegment_size[s] = CurrentSize
           /\ m_socketBytesReceived[s] = m_bytesReceived
           /\ wire[s] + m_bytesReceived = CurrentSize
  <1>1. PICK k : k = conn.socket
    OBVIOUS
  <1>2. wire[s] \in Nat /\ wire[s] # 0
    BY DEF Session, BytesTyped
  <1>3. s = k /\ Player!Awaiting
    BY <1>1, <1>2 DEF Session, OneRequestOutstanding
  <1>4. CurrentSize \in Nat
    BY SizeIsPositive DEF Session, StateShape, CurrentSize
  <1> QED BY <1>1, <1>2, <1>3, <1>4 DEF Session, OneRequestOutstanding

\* What PlaybackHandle does to the buffer: it plays a segment of it or nothing.
LEMMA PlaybackHandleIs ==
    ASSUME NEW buf \in Nat, NEW underruns, Player!PlaybackHandle(buf, underruns),
           m_currentPlaybackIndex \in Nat
    PROVE  /\ m_segmentsInBuffer' \in Nat /\ m_currentPlaybackIndex' \in Nat
           /\ m_currentPlaybackIndex' + m_segmentsInBuffer' = m_currentPlaybackIndex + buf
           /\ buf > 0 => m_currentPlaybackIndex' = m_currentPlaybackIndex + 1
           /\ buf = 0 => m_currentPlaybackIndex' = m_currentPlaybackIndex
  BY DEF Player!PlaybackHandle, Player!BeginUnderrun, Player!PlayNext, Player!KeepWaiting,
         Player!NothingToPlay

\* The segment is complete and the player was waiting for it.
LEMMA DownloadingShape ==
    ASSUME Session, state = "downloading", startSends = 0, NEW owed, Nothing(owed),
           ControllerDownloading("downloadFinished", owed), ~aborted',
           Permuted(conn'), Unmoved(conn', visited'), UNCHANGED sockets,
           Nothing(m_socketBytesReceived'), m_bytesReceived' = 0
    PROVE  StateShape' /\ BytesTyped' /\ OneRequestOutstanding' /\ ReadOnlyConnected'
  <1> USE DEF ControllerDownloading
  <1>1. /\ m_segmentCounter \in Segments /\ m_currentRepIndex \in Reps /\ m_bDelay \in {0, 1}
        /\ m_segmentsInBuffer = 0 /\ m_currentPlaybackIndex = m_segmentCounter
        /\ playbackTimers = 0 /\ irdTimers = 0
    BY DEF Session, StateShape
  <1>2. m_segmentCounter \in Nat /\ LastSegment \in Nat /\ m_segmentCounter <= LastSegment
    BY <1>1, VideoAssumption DEF Segments
  <1>3. /\ m_segmentsInBuffer' = 0 /\ m_currentPlaybackIndex' = m_segmentCounter + 1
    <2>1. Player!PlaybackHandle(1, Player!UnderrunsAfterHandover)
      BY <1>1 DEF Player!BufferAt
    <2>2. PICK u : u = Player!UnderrunsAfterHandover
      OBVIOUS
    <2>3. Player!PlaybackHandle(1, u)
      BY <2>1, <2>2
    <2> QED BY <1>1, <1>2, <2>3, PlaybackHandleIs
  <1>4. startSends' = 0 /\ playbackTimers' = 1 /\ irdTimers' = 0
    BY <1>1 DEF Player!PlaybackTimersAt, Player!IrdTimersAt
  <1>5. CASE m_currentPlaybackIndex' <= LastSegment
    <2>1. /\ state' = "downloadingPlaying" /\ SendMultiple(owed)
          /\ m_segmentCounter' = m_segmentCounter + 1 /\ m_currentRepIndex' \in Reps
          /\ m_bDelay' \in {0, 1}
      BY <1>5 DEF Player!RequestRepIndex, Player!Reps, Reps
    <2>2. m_segmentCounter' \in Segments
      BY <1>2, <1>3, <1>5, <2>1 DEF Segments
    <2>3. StateShape'
      BY <1>2, <1>3, <1>4, <2>1, <2>2 DEF StateShape, Player!States
    <2>4. (Player!Awaiting)'
      BY <2>1 DEF Player!Awaiting
    <2> QED BY <2>1, <2>2, <2>3, <2>4, RequestSent DEF Session
  <1>6. CASE ~(m_currentPlaybackIndex' <= LastSegment)
    <2>1. /\ state' = "playing" /\ wire' = owed
          /\ UNCHANGED <<m_subsegment_size, m_segmentCounter, m_currentRepIndex>>
          /\ m_bDelay' = Player!DelayAt("downloadFinished")
      BY <1>6 DEF SendNothing
    <2>2. m_bDelay' \in {0, 1}
      BY <1>1, <2>1 DEF Player!DelayAt
    <2>3. StateShape'
      BY <1>1, <1>2, <1>3, <1>4, <2>1, <2>2 DEF StateShape, Player!States
    <2>4. ~(Player!Awaiting)'
      BY <2>1 DEF Player!Awaiting
    <2>5. OneRequestOutstanding'
      BY <2>1, <2>4, NothingOutstanding
    <2> QED BY <2>1, <2>3, <2>5 DEF Session, BytesTyped, Nothing, ReadOnlyConnected
  <1> QED BY <1>5, <1>6

\* The segment is complete while an earlier one is played.
LEMMA DownloadingPlayingShape ==
    ASSUME Session, state = "downloadingPlaying", NEW owed, Nothing(owed),
           DownloadFinishedWhilePlaying(owed), ~aborted',
           Permuted(conn'), Unmoved(conn', visited'), UNCHANGED sockets,
           Nothing(m_socketBytesReceived'), m_bytesReceived' = 0
    PROVE  StateShape' /\ BytesTyped' /\ OneRequestOutstanding' /\ ReadOnlyConnected'
  <1> USE DEF DownloadFinishedWhilePlaying
  <1>1. /\ m_segmentCounter \in Segments /\ m_currentRepIndex \in Reps /\ m_bDelay \in {0, 1}
        /\ m_segmentsInBuffer \in Nat /\ m_currentPlaybackIndex \in Nat
        /\ m_currentPlaybackIndex + m_segmentsInBuffer = m_segmentCounter
        /\ startSends = 0 /\ playbackTimers = 1 /\ irdTimers = 0
    BY DEF Session, StateShape
  <1>2. m_segmentCounter \in Nat /\ LastSegment \in Nat /\ m_segmentCounter <= LastSegment
    BY <1>1, VideoAssumption DEF Segments
  <1>3. /\ m_segmentsInBuffer' = m_segmentsInBuffer + 1
        /\ m_currentPlaybackIndex' = m_currentPlaybackIndex
        /\ startSends' = 0 /\ playbackTimers' = 1
    BY <1>1 DEF Player!PlaybackKept, Player!BufferAt
  <1>4. /\ m_currentRepIndex' \in Reps /\ m_bDelay' \in {0, 1}
        /\ \/ m_segmentCounter < LastSegment /\ m_segmentCounter' = m_segmentCounter + 1
           \/ /\ m_segmentCounter = LastSegment /\ m_segmentCounter' = m_segmentCounter
              /\ m_bDelay' = 0
    BY <1>1, <1>2 DEF Player!RequestRepIndex, Player!DelayAt, Player!Reps, Reps
  <1>5. m_segmentCounter' \in Segments
    BY <1>2, <1>4 DEF Segments
  <1>6. CASE state' = "playing" /\ SendNothing(owed) /\ irdTimers' \in {0, 1}
             /\ (irdTimers' = 1 => m_bDelay' > 0)
    <2>1. StateShape'
      BY <1>1, <1>2, <1>3, <1>4, <1>5, <1>6 DEF StateShape, Player!States
    <2>2. ~(Player!Awaiting)' /\ wire' = owed /\ UNCHANGED m_subsegment_size
      BY <1>6 DEF Player!Awaiting, SendNothing
    <2>3. OneRequestOutstanding'
      BY <2>2, NothingOutstanding
    <2> QED BY <2>1, <2>2, <2>3 DEF Session, BytesTyped, Nothing, ReadOnlyConnected
  <1>7. CASE /\ m_bDelay' = 0 /\ m_segmentCounter' # LastSegment
             /\ UNCHANGED <<state, irdTimers>> /\ SendMultiple(owed)
    <2>1. StateShape'
      BY <1>1, <1>2, <1>3, <1>4, <1>5, <1>7 DEF StateShape, Player!States
    <2>2. (Player!Awaiting)'
      BY <1>7 DEF Player!Awaiting
    <2> QED BY <1>4, <1>5, <1>7, <2>1, <2>2, RequestSent DEF Session
  <1>8. \/ m_bDelay' > 0 /\ state' = "playing" /\ irdTimers' = 1 /\ SendNothing(owed)
        \/ state' = "playing" /\ irdTimers' = 0 /\ SendNothing(owed)
        \/ /\ m_bDelay' = 0 /\ m_segmentCounter' # LastSegment
           /\ UNCHANGED <<state, irdTimers>> /\ SendMultiple(owed)
    BY <1>1
  <1> QED BY <1>6, <1>7, <1>8

\* HandleRead preserves the invariant.
LEMMA HandleReadIInv ==
    ASSUME IInv, NEW s \in Servers, NEW n \in 1..wire[s], HandleRead(s, n)
    PROVE  IInv'
  <1>1. /\ Permuted(conn') /\ (revisited => revisited')
        /\ Unmoved(conn, visited) /\ ~revisited' => Unmoved(conn', visited')
    BY ReadMoves
  <1>2. CASE revisited'
    BY <1>1, <1>2 DEF IInv
  <1>3. CASE ~revisited'
    <2>1. Session
      BY <1>1, <1>3, SessionIs DEF HandleRead
    <2>2. Unmoved(conn', visited')
      BY <1>1, <1>3, <2>1 DEF Session
    <2>3. PICK size, k : size = CurrentSize /\ k = conn.socket
      OBVIOUS
    <2>4. /\ s = k /\ Player!Awaiting /\ size \in Nat /\ m_subsegment_size[s] = size
          /\ m_socketBytesReceived[s] = m_bytesReceived /\ wire[s] + m_bytesReceived = size
      BY <2>1, <2>3, ReadIsOwed
    <2>5. /\ wire \in [Servers -> Nat] /\ m_socketBytesReceived \in [Servers -> Nat]
          /\ m_bytesReceived \in Nat /\ n \in Nat /\ n >= 1 /\ n <= wire[s] /\ wire[s] \in Nat
          /\ \A t \in Servers \ {s} : wire[t] = 0 /\ m_socketBytesReceived[t] = 0
      BY <2>1, <2>3, <2>4 DEF Session, BytesTyped, OneRequestOutstanding
    <2>6. PICK owed : owed = [wire EXCEPT ![s] = @ - n]
      OBVIOUS
    <2>7. /\ owed \in [Servers -> Nat] /\ owed[s] = wire[s] - n
          /\ \A t \in Servers \ {s} : owed[t] = 0
      BY <2>5, <2>6
    <2>8. UNCHANGED sockets /\ sockets[s] = "established"
      BY DEF HandleRead
    <2>9. CASE m_bytesReceived + n = size
      <3>1. /\ m_socketBytesReceived' = [m_socketBytesReceived EXCEPT ![s] = 0]
            /\ m_bytesReceived' = 0 /\ Controller("downloadFinished", owed)
        BY <2>3, <2>4, <2>6, <2>9 DEF HandleRead, CurrentSize
      <3>2. Nothing(m_socketBytesReceived')
        BY <2>5, <3>1 DEF Nothing
      <3>3. Nothing(owed)
        BY <2>4, <2>5, <2>7, <2>9 DEF Nothing
      <3>4. sockets' \in [Servers -> SocketStates]
        BY <2>1, <2>8 DEF Session, BytesTyped
      <3>5. CASE Abort("downloadFinished", owed)
        BY <2>1, <3>1, <3>2, <3>3, <3>4, <3>5, AbortIInv
      <3>6. CASE ~aborted' /\ state = "downloading" /\ ControllerDownloading("downloadFinished", owed)
        <4>1. startSends = 0
          BY <2>4, <3>6 DEF Player!Awaiting
        <4>2. StateShape' /\ BytesTyped' /\ OneRequestOutstanding' /\ ReadOnlyConnected'
          BY <1>1, <2>1, <2>2, <2>8, <3>1, <3>2, <3>3, <3>6, <4>1, DownloadingShape
        <4> QED BY <1>1, <2>2, <4>2 DEF IInv
      <3>7. CASE ~aborted' /\ state = "downloadingPlaying" /\ DownloadFinishedWhilePlaying(owed)
        <4>1. StateShape' /\ BytesTyped' /\ OneRequestOutstanding' /\ ReadOnlyConnected'
          BY <1>1, <2>1, <2>2, <2>8, <3>1, <3>2, <3>3, <3>7, DownloadingPlayingShape
        <4> QED BY <1>1, <2>2, <4>1 DEF IInv
      <3>8. state \in {"downloading", "downloadingPlaying"}
        BY <2>4 DEF Player!Awaiting
      <3>9. ControllerDownloadingPlaying("downloadFinished", owed) => DownloadFinishedWhilePlaying(owed)
        BY DEF ControllerDownloadingPlaying
      <3> QED BY <2>1, <3>1, <3>5, <3>6, <3>7, <3>8, <3>9 DEF Controller, Session
    <2>10. CASE m_bytesReceived + n # size
      <3>1. /\ m_socketBytesReceived' = [m_socketBytesReceived EXCEPT ![s] = m_bytesReceived + n]
            /\ m_bytesReceived' = m_bytesReceived + n /\ wire' = owed
            /\ UNCHANGED <<state, aborted, conn, visited, m_subsegment_size, m_segmentCounter,
                           m_currentRepIndex, m_bDelay>>
            /\ UNCHANGED <<playback, timers>>
        BY <2>3, <2>4, <2>6, <2>10 DEF HandleRead, CurrentSize, SendNothing, connection, download
      <3>2. BytesTyped'
        BY <2>1, <2>5, <2>7, <2>8, <3>1 DEF Session, BytesTyped
      <3>3. StateShape'
        BY <2>1, <3>1 DEF Session, StateShape, playback, timers
      <3>4. ReadOnlyConnected'
        BY <2>3, <2>4, <2>8, <3>1 DEF ReadOnlyConnected
      <3>5. Player!Awaiting' /\ CurrentSize' = size /\ conn'.socket = s /\ ~aborted'
        BY <2>1, <2>3, <2>4, <3>1 DEF Session, Player!Awaiting, CurrentSize, timers
      <3>6. OneRequestOutstanding'
        <4>1. /\ conn'.socket = conn'.peer
              /\ \A t \in Servers \ {s} : wire'[t] = 0 /\ m_socketBytesReceived'[t] = 0
              /\ m_socketBytesReceived'[s] = m_bytesReceived'
              /\ m_subsegment_size'[s] = size
              /\ wire'[s] + m_bytesReceived' = size
          BY <2>2, <2>4, <2>5, <2>7, <3>1 DEF Unmoved
        <4> QED BY <3>5, <4>1 DEF OneRequestOutstanding
      <3> QED BY <1>1, <2>2, <3>2, <3>3, <3>4, <3>6 DEF IInv
    <2> QED BY <2>9, <2>10
  <1> QED BY <1>2, <1>3

\* A step that leaves the connection and the bytes alone, and waits for a segment
\* exactly if the client did before.
LEMMA BytesKept ==
    ASSUME Session, UNCHANGED <<connection, bytes, sockets, aborted>>, UNCHANGED received,
           UNCHANGED <<m_segmentCounter, m_currentRepIndex>>,
           (Player!Awaiting)' = Player!Awaiting, StateShape'
    PROVE  IInv'
  <1> USE DEF Session, connection, bytes, received
  <1>1. Permuted(conn') /\ Unmoved(conn', visited')
    OBVIOUS
  <1>2. BytesTyped' /\ ReadOnlyConnected'
    BY DEF BytesTyped, ReadOnlyConnected
  <1>3. OneRequestOutstanding'
    BY DEF OneRequestOutstanding, CurrentSize
  <1> QED BY <1>1, <1>2, <1>3 DEF IInv

\* PlaybackFinished: the timer of the player fires only while it plays.
LEMMA PlaybackFinishedIInv == ASSUME IInv, PlaybackFinished PROVE IInv'
  <1>1. Controller("playbackFinished", wire) /\ ~aborted /\ UNCHANGED received
    BY DEF PlaybackFinished
  <1>2. /\ Permuted(conn') /\ (revisited => revisited')
        /\ Unmoved(conn, visited) /\ ~revisited' => Unmoved(conn', visited')
    BY <1>1, SessionIs, ControllerMoves
  <1>3. CASE revisited'
    BY <1>2, <1>3 DEF IInv
  <1>4. CASE ~revisited'
    <2>1. Session
      BY <1>1, <1>2, <1>4, SessionIs
    <2>2. state \in {"downloadingPlaying", "playing"} /\ playbackTimers = 1 /\ startSends = 0
      BY <2>1 DEF Session, StateShape, Player!States, PlaybackFinished
    <2>3. /\ m_segmentsInBuffer \in Nat /\ m_currentPlaybackIndex \in Nat
          /\ m_segmentCounter \in Segments /\ m_currentRepIndex \in Reps /\ m_bDelay \in {0, 1}
          /\ irdTimers \in {0, 1}
      BY <2>1 DEF Session, StateShape
    <2>4. ~OffThePeerList("playbackFinished")
      BY <2>2 DEF OffThePeerList
    <2>5. UNCHANGED aborted
      BY <1>1, <2>4 DEF Controller, Abort
    <2>6. CASE state = "downloadingPlaying"
      <3>1. PlaybackFinishedWhileDownloading
        BY <1>1, <2>4, <2>6 DEF Controller, Abort, ControllerDownloadingPlaying
      <3>2. /\ UNCHANGED <<connection, bytes, m_segmentCounter, m_currentRepIndex, m_bDelay>>
            /\ startSends' = 0 /\ irdTimers' = irdTimers
        BY <2>2, <3>1 DEF PlaybackFinishedWhileDownloading, download
      <3>3. /\ m_segmentsInBuffer' \in Nat /\ m_currentPlaybackIndex' \in Nat
            /\ m_currentPlaybackIndex' + m_segmentsInBuffer' =
                  m_currentPlaybackIndex + m_segmentsInBuffer
            /\ m_segmentsInBuffer = 0 => m_currentPlaybackIndex' = m_currentPlaybackIndex
        <4>1. PICK u : u = bufferUnderrunCount
          OBVIOUS
        <4>2. Player!PlaybackHandle(m_segmentsInBuffer, u)
          BY <3>1, <4>1 DEF PlaybackFinishedWhileDownloading
        <4> QED BY <2>3, <4>2, PlaybackHandleIs
      <3>4. \/ m_segmentsInBuffer = 0 /\ state' = "downloading" /\ playbackTimers' = 0
            \/ UNCHANGED <<state, playbackTimers>>
        BY <2>2, <3>1 DEF PlaybackFinishedWhileDownloading, Player!NothingToPlay,
                          Player!PlaybackTimersAt
      <3>5. m_currentPlaybackIndex + m_segmentsInBuffer = m_segmentCounter /\ irdTimers = 0
        BY <2>1, <2>6 DEF Session, StateShape
      <3>6. StateShape'
        <4>1. CASE m_segmentsInBuffer = 0 /\ state' = "downloading" /\ playbackTimers' = 0
          <5>1. m_segmentsInBuffer' = 0 /\ m_currentPlaybackIndex' = m_segmentCounter'
            BY <2>3, <3>2, <3>3, <3>5, <4>1
          <5> QED BY <2>3, <3>2, <3>5, <4>1, <5>1 DEF StateShape, Player!States
        <4>2. CASE UNCHANGED <<state, playbackTimers>>
          BY <2>2, <2>3, <2>6, <3>2, <3>3, <3>5, <4>2 DEF StateShape, Player!States
        <4> QED BY <3>4, <4>1, <4>2
      <3>7. (Player!Awaiting)' = Player!Awaiting
        BY <2>2, <2>6, <3>2, <3>4 DEF Player!Awaiting
      <3>8. UNCHANGED sockets
        BY <2>6, <3>4 DEF PlaybackFinished
      <3> QED BY <1>1, <2>1, <2>5, <3>2, <3>6, <3>7, <3>8, BytesKept
    <2>7. CASE state = "playing" /\ PlaybackFinishedWhilePlaying
      <3>1. /\ UNCHANGED <<state, connection, bytes, m_segmentCounter, m_currentRepIndex, m_bDelay>>
            /\ startSends' = startSends /\ irdTimers' = irdTimers /\ playbackTimers' = playbackTimers
        BY <2>7 DEF PlaybackFinishedWhilePlaying, download, timers
      <3>2. /\ m_segmentsInBuffer' \in Nat /\ m_currentPlaybackIndex' \in Nat
            /\ m_currentPlaybackIndex' + m_segmentsInBuffer' =
                  m_currentPlaybackIndex + m_segmentsInBuffer
        <4>1. PICK u : u = bufferUnderrunCount
          OBVIOUS
        <4>2. Player!PlaybackHandle(m_segmentsInBuffer, u)
          BY <2>7, <4>1 DEF PlaybackFinishedWhilePlaying
        <4> QED BY <2>3, <4>2, PlaybackHandleIs
      <3>3. irdTimers = 1 => m_currentPlaybackIndex + m_segmentsInBuffer = m_segmentCounter
        BY <2>1, <2>7 DEF Session, StateShape
      <3>4. StateShape'
        BY <2>2, <2>3, <2>7, <3>1, <3>2, <3>3 DEF StateShape, Player!States
      <3>5. (Player!Awaiting)' = Player!Awaiting
        BY <3>1 DEF Player!Awaiting
      <3>6. UNCHANGED sockets
        BY <2>7, <3>1 DEF PlaybackFinished
      <3> QED BY <1>1, <2>1, <2>5, <3>1, <3>4, <3>5, <3>6, BytesKept
    <2>8. CASE state = "playing" /\ SessionFinished
      <3>1. ~Player!Awaiting
        BY <2>8 DEF Player!Awaiting
      <3>2. Nothing(wire) /\ Nothing(m_socketBytesReceived) /\ m_bytesReceived = 0
        BY <2>1, <3>1, Idle DEF Session
      <3>3. /\ state' = "terminal" /\ wire' = [wire EXCEPT ![conn.socket] = 0]
            /\ UNCHANGED <<connection, m_subsegment_size, download, playback>>
            /\ playbackTimers' = 0 /\ startSends' = 0 /\ irdTimers' = irdTimers
        BY <2>2, <2>8 DEF SessionFinished, Player!PlaybackTimersAt
      <3>4. StateShape'
        BY <2>3, <3>3 DEF StateShape, Player!States, download, playback
      <3>5. Nothing(wire') /\ Nothing(m_socketBytesReceived') /\ m_bytesReceived' = 0
        BY <1>1, <3>2, <3>3 DEF Nothing, received
      <3>6. sockets' \in [Servers -> SocketStates]
        BY <2>1, <3>3 DEF PlaybackFinished, Session, BytesTyped, SocketStates
      <3>7. BytesTyped' /\ ReadOnlyConnected'
        BY <2>1, <3>3, <3>5, <3>6 DEF Session, BytesTyped, ReadOnlyConnected, Nothing
      <3>8. Unmoved(conn', visited') /\ ~(Player!Awaiting)'
        BY <2>1, <1>2, <1>4, <3>3 DEF Session, Player!Awaiting
      <3>9. OneRequestOutstanding'
        BY <1>2, <3>5, <3>8, NothingOutstanding
      <3> QED BY <1>2, <3>4, <3>7, <3>8, <3>9 DEF IInv
    <2>9. state = "playing" => PlaybackFinishedWhilePlaying \/ SessionFinished
      BY <1>1, <2>4 DEF Controller, Abort, ControllerPlaying
    <2> QED BY <2>2, <2>6, <2>7, <2>8, <2>9
  <1> QED BY <1>3, <1>4

\* IrdFinished: the delayed request is sent, unless the session has ended.
LEMMA IrdFinishedIInv == ASSUME IInv, IrdFinished PROVE IInv'
  <1>1. Controller("irdFinished", wire) /\ ~aborted /\ UNCHANGED received /\ UNCHANGED sockets
    BY DEF IrdFinished
  <1>2. /\ Permuted(conn') /\ (revisited => revisited')
        /\ Unmoved(conn, visited) /\ ~revisited' => Unmoved(conn', visited')
    BY <1>1, SessionIs, ControllerMoves
  <1>3. CASE revisited'
    BY <1>2, <1>3 DEF IInv
  <1>4. CASE ~revisited'
    <2>1. Session
      BY <1>1, <1>2, <1>4, SessionIs
    <2>2. state \in {"playing", "terminal"} /\ irdTimers = 1 /\ startSends = 0
      BY <2>1 DEF Session, StateShape, Player!States, IrdFinished
    <2>3. /\ m_segmentsInBuffer \in Nat /\ m_currentPlaybackIndex \in Nat
          /\ m_segmentCounter \in Segments /\ m_currentRepIndex \in Reps /\ m_bDelay \in {0, 1}
      BY <2>1 DEF Session, StateShape
    <2>4. ~OffThePeerList("irdFinished")
      BY <2>2 DEF OffThePeerList
    <2>5. UNCHANGED aborted
      BY <1>1, <2>4 DEF Controller, Abort
    <2>6. CASE state = "playing"
      <3>1. IrdFinishedWhilePlaying
        BY <1>1, <2>4, <2>6 DEF Controller, Abort, ControllerPlaying
      <3>2. /\ state' = "downloadingPlaying" /\ irdTimers' = 0 /\ SendMultiple(wire)
            /\ UNCHANGED <<connection, download, playback, playbackTimers, startSends>>
        BY <2>2, <3>1 DEF IrdFinishedWhilePlaying, Player!IrdTimersAt
      <3>3. /\ m_currentPlaybackIndex + m_segmentsInBuffer = m_segmentCounter /\ playbackTimers = 1
        BY <2>1, <2>2, <2>6 DEF Session, StateShape
      <3>4. StateShape'
        BY <2>2, <2>3, <3>2, <3>3 DEF StateShape, Player!States, download, playback
      <3>5. ~Player!Awaiting /\ (Player!Awaiting)'
        BY <2>6, <3>2 DEF Player!Awaiting
      <3>6. Nothing(wire) /\ Nothing(m_socketBytesReceived) /\ m_bytesReceived = 0
        BY <2>1, <3>5, Idle DEF Session
      <3>7. /\ Nothing(m_socketBytesReceived') /\ m_bytesReceived' = 0 /\ ~aborted'
            /\ m_currentRepIndex' \in Reps /\ m_segmentCounter' \in Segments
            /\ Unmoved(conn', visited')
        BY <1>1, <1>2, <1>4, <2>1, <2>3, <2>5, <3>2, <3>6 DEF received, download, Session
      <3>8. BytesTyped' /\ OneRequestOutstanding' /\ ReadOnlyConnected'
        BY <1>1, <1>2, <2>1, <3>2, <3>5, <3>6, <3>7, RequestSent DEF Session
      <3> QED BY <1>2, <3>4, <3>7, <3>8 DEF IInv
    <2>7. CASE state = "terminal"
      <3>1. Ignore("irdFinished", wire)
        BY <1>1, <2>4, <2>7 DEF Controller, Abort
      <3>2. /\ UNCHANGED <<state, connection, bytes, m_segmentCounter, m_currentRepIndex, startSends>>
            /\ m_bDelay' = m_bDelay /\ playbackTimers' = playbackTimers /\ irdTimers' = 0
            /\ m_segmentsInBuffer' = m_segmentsInBuffer
            /\ m_currentPlaybackIndex' = m_currentPlaybackIndex
        <4>1. UNCHANGED <<bytes, connection>>
          BY <3>1 DEF Ignore, SendNothing, bytes
        <4> QED BY <2>1, <2>2, <2>3, <2>7, <3>1, <4>1
            DEF Ignore, Player!DelayAt, Player!PlaybackTimersAt, Player!IrdTimersAt,
                Player!PlaybackKept, Player!BufferAt, Session, StateShape
      <3>3. StateShape'
        BY <2>1, <2>2, <2>7, <3>2 DEF Session, StateShape
      <3>4. (Player!Awaiting)' = Player!Awaiting
        BY <3>2 DEF Player!Awaiting
      <3> QED BY <1>1, <2>1, <2>5, <3>2, <3>3, <3>4, BytesKept
    <2> QED BY <2>2, <2>6, <2>7
  <1> QED BY <1>3, <1>4

-------------------------------------------------------------------------------
(***************************************************************************)
(* The theorems.                                                           *)
(***************************************************************************)

\* The members as the constructor and the scenario leave them.
LEMMA InitIInv == ASSUME Init PROVE IInv
  <1> USE DEF Init
  <1>1. /\ conn.peer = Home /\ conn.socket = Home /\ conn.aux = [p \in Peers |-> p]
        /\ Home \in Servers /\ Peers = Servers \ {Home}
    BY HomeAssumption DEF Peers
  <1>2. Permuted(conn)
    <2>1. conn.aux \in [Peers -> Servers] /\ \A p \in Peers : conn.aux[p] = p
      BY <1>1
    <2>2. conn \in [peer : Servers, socket : Servers, aux : [Peers -> Servers]]
      BY <1>1, <2>1
    <2>3. \A p, q \in Peers : conn.aux[p] = conn.aux[q] => p = q
      BY <2>1
    <2>4. \A s \in Servers : s # conn.socket <=> \E p \in Peers : conn.aux[p] = s
      BY <1>1, <2>1
    <2> QED BY <2>2, <2>3, <2>4 DEF Permuted
  <1>3. Unmoved(conn, visited)
    BY <1>1 DEF Unmoved
  <1>4. BytesTyped
    BY DEF BytesTyped, SocketStates
  <1>5. OneRequestOutstanding
    <2>1. ~Player!Awaiting
      BY DEF Player!Awaiting
    <2> QED BY <1>1, <2>1 DEF OneRequestOutstanding
  <1>6. StateShape
    BY VideoAssumption DEF StateShape, Player!States, Segments, Reps
  <1>7. ReadOnlyConnected
    BY DEF ReadOnlyConnected
  <1> QED BY <1>2, <1>3, <1>4, <1>5, <1>6, <1>7 DEF IInv

\* The inductive invariant holds of every session.
THEOREM MultiStreamInvariance == Spec => []IInv
  <1>1. Init => IInv
    BY InitIInv
  <1>2. IInv /\ [Next]_vars => IInv'
    <2> SUFFICES ASSUME IInv, [Next]_vars PROVE IInv'
      OBVIOUS
    <2>1. CASE StartApplication
      BY <2>1, StartApplicationIInv
    <2>2. ASSUME NEW s \in Servers, ConnectionSucceeded(s) PROVE IInv'
      BY <2>2, ConnectionSucceededIInv
    <2>3. ASSUME NEW s \in Servers, ConnectionFailed(s) PROVE IInv'
      BY <2>3, ConnectionFailedIInv
    <2>4. CASE StartSend
      BY <2>4, StartSendIInv
    <2>5. CASE Read
      <3>1. PICK s \in Servers : \E n \in 1..wire[s] : HandleRead(s, n)
        BY <2>5 DEF Read
      <3>2. PICK n \in 1..wire[s] : HandleRead(s, n)
        BY <3>1
      <3> QED BY <3>2, HandleReadIInv
    <2>6. CASE PlaybackFinished
      BY <2>6, PlaybackFinishedIInv
    <2>7. CASE IrdFinished
      BY <2>7, IrdFinishedIInv
    <2>8. ASSUME NEW ip \in Servers, SetHandover(ip) PROVE IInv'
      BY <2>8, SetHandoverIInv
    <2>9. CASE UNCHANGED vars
      <3>1. /\ UNCHANGED <<conn, visited, revisited, aborted, sockets, state>>
            /\ UNCHANGED <<download, playback, bytes, received, timers>>
        BY <2>9 DEF vars, connection
      <3> QED BY <3>1 DEF IInv, BytesTyped, OneRequestOutstanding, Player!Awaiting, CurrentSize,
              StateShape, ReadOnlyConnected, download, playback, bytes, received, timers
    <2> QED BY <2>1, <2>2, <2>3, <2>4, <2>5, <2>6, <2>7, <2>8, <2>9 DEF Next
  <1> QED BY <1>1, <1>2, PTL DEF Spec

\* However often servers are changed, and chosen again, no socket is lost or kept
\* twice by the exchanges of HandoverApplication.
THEOREM SocketsPermuted == Spec => []OneSocketPerServer
  <1>1. IInv => OneSocketPerServer
    <2> SUFFICES ASSUME IInv PROVE OneSocketPerServer
      OBVIOUS
    <2>1. Permuted(conn)
      BY DEF IInv
    <2>2. PICK aux, k : aux = conn.aux /\ k = conn.socket
      OBVIOUS
    <2>3. /\ DOMAIN aux = Peers /\ aux \in [Peers -> Servers]
          /\ \A p, q \in Peers : aux[p] = aux[q] => p = q
          /\ \A s \in Servers : s # k <=> \E p \in Peers : aux[p] = s
      BY <2>1, <2>2 DEF Permuted
    <2>4. IsInjective(aux)
      BY <2>3 DEF IsInjective
    <2>5. Range(aux) = Servers \ {k}
      BY <2>3 DEF Range
    <2> QED BY <2>2, <2>4, <2>5 DEF OneSocketPerServer
  <1> QED BY <1>1, MultiStreamInvariance, PTL

\* As long as no server is chosen a second time there is one request at a time,
\* to the server m_peerAddress names, and HandleRead's two comparisons agree.
THEOREM RequestsOneAtATime == Spec => []OneRequestOutstanding
  <1>1. IInv => OneRequestOutstanding
    <2>1. CASE revisited
      BY <2>1 DEF OneRequestOutstanding
    <2>2. CASE ~revisited
      BY <2>2 DEF IInv
    <2> QED BY <2>1, <2>2
  <1> QED BY <1>1, MultiStreamInvariance, PTL
===============================================================================
