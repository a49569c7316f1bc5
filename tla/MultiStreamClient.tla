-------------------------- MODULE MultiStreamClient --------------------------
(***************************************************************************)
(* The client that keeps a connection to every server open                 *)
(* (TcpMultiStreamClient).  Playback, adaptation and the timers are those  *)
(* of StreamClient, the class this one was copied from, and are taken from *)
(* there; what differs is modelled here: one socket per server, the change *)
(* of server as an exchange of sockets, and the count of the bytes by      *)
(* sender.  As in StreamClient an action is one event of the simulator.    *)
(***************************************************************************)
EXTENDS Integers, Sequences, FiniteSets, Functions

CONSTANTS Servers, HighestRep, LastSegment, SegmentSize, MaxHandovers,
    Home            \* RemoteAddress of the scenario: the server connected to first

\* m_auxiliary_peers; the scenario takes Home out of it.
Peers == Servers \ {Home}

ASSUME HomeAssumption == Home \in Servers
ASSUME PeersAssumption == IsFiniteSet(Servers) /\ Peers # {}
\* What StreamClient assumes of the video.
ASSUME VideoAssumption ==
    /\ HighestRep \in Nat /\ LastSegment \in Nat /\ MaxHandovers \in Nat
    /\ SegmentSize \in [0..HighestRep -> [0..LastSegment -> Nat \ {0}]]

VARIABLES
    state, m_segmentCounter, m_currentRepIndex, m_bDelay, playbackIndex, m_bytesReceived,
    transmissions, m_segmentsInBuffer, m_currentPlaybackIndex, m_bufferUnderrun,
    bufferUnderrunCount, startSends, playbackTimers, irdTimers, handover, newip, handovers,
                        \* as in StreamClient
    conn,               \* m_peerAddress, m_socket and m_auxiliary_sockets (below)
    sockets,            \* by server: the state of the socket connected to it
    wire,               \* by server: bytes requested from it and not yet read
    m_socketBytesReceived,
    m_subsegment_size,
    visited,            \* history: the servers HandoverApplication was called with
    revisited,          \* history: ... and whether one of them twice
    aborted             \* an assertion has ended the program

(***************************************************************************)
(* A socket is named by the server it was connected to: conn.socket is     *)
(* m_socket, and conn.aux[p] the entry of m_auxiliary_sockets at the index *)
(* that p has in m_auxiliary_peers.                                        *)
(***************************************************************************)
Player == INSTANCE StreamClient WITH
    socket <- sockets[conn.socket],
    m_peerAddress <- conn.peer,
    wire <- wire[conn.socket]

connection == <<conn, handover, visited, revisited>>
request    == <<newip, handovers>>
download   == <<m_segmentCounter, m_currentRepIndex, m_bDelay, playbackIndex>>
playback   == <<m_segmentsInBuffer, m_currentPlaybackIndex, m_bufferUnderrun,
                bufferUnderrunCount>>
bytes      == <<wire, m_subsegment_size>>
received   == <<m_bytesReceived, m_socketBytesReceived, transmissions>>
timers     == <<startSends, playbackTimers, irdTimers>>
vars == <<state, aborted, sockets, connection, request, download, playback, bytes, received, timers>>

Init ==
    /\ state = "initial"
    /\ conn = [peer |-> Home, socket |-> Home, aux |-> [p \in Peers |-> p]]
    /\ sockets = [s \in Servers |-> "none"]
    /\ handover = FALSE /\ newip = Home /\ handovers = 0
    /\ visited = {} /\ revisited = FALSE /\ aborted = FALSE
    /\ m_segmentCounter = 0 /\ m_currentRepIndex = 0 /\ m_bDelay = 0 /\ playbackIndex = 0
    /\ m_segmentsInBuffer = 0 /\ m_currentPlaybackIndex = 0
    /\ m_bufferUnderrun = FALSE /\ bufferUnderrunCount = 0
    /\ wire = [s \in Servers |-> 0]
    /\ m_socketBytesReceived = [s \in Servers |-> 0]
    /\ m_subsegment_size = [s \in Servers |-> 0]
    /\ m_bytesReceived = 0 /\ transmissions = 0
    /\ startSends = 0 /\ playbackTimers = 0 /\ irdTimers = 0

-------------------------------------------------------------------------------
\* Mutant: the old main socket is forgotten.
ExchangeOneWay(c, ip) == [peer |-> ip, socket |-> c.aux[ip], aux |-> c.aux]

\* The exchange of HandoverApplication: the peer list is not changed with it.
Exchange(c, ip) ==
    [peer |-> ip, socket |-> c.aux[ip], aux |-> [c.aux EXCEPT ![ip] = c.socket]]

\* HandoverApplication for the addresses ips in turn (one of them, or two).
HandoverApplication(ips) ==
    /\ Range(ips) \subseteq Peers
    /\ conn' = IF Len(ips) = 1 THEN Exchange(conn, ips[1])
               ELSE Exchange(Exchange(conn, ips[1]), ips[2])
    /\ visited' = visited \cup Range(ips)
    /\ revisited' = (revisited \/ Range(ips) \cap visited # {} \/ ~IsInjective(ips))
    /\ handover' = FALSE

TakeHandover ==
    IF handover THEN HandoverApplication(<<newip>>) ELSE UNCHANGED connection

\* Mutant: the size is noted for the server that the socket used to be for.
SendMultipleToOldPeer(owed) ==
    /\ wire' = [owed EXCEPT ![conn'.socket] = IF sockets[conn'.socket] = "failed" THEN @
                   ELSE @ + SegmentSize[m_currentRepIndex'][m_segmentCounter']]
    /\ m_subsegment_size' =
          [m_subsegment_size EXCEPT ![conn.peer] =
              SegmentSize[m_currentRepIndex'][m_segmentCounter']]

\* SendMultiple without further servers, as every caller has it: the whole
\* segment from m_socket, and its size noted under m_peerAddress.
SendMultiple(owed) ==
    /\ wire' = [owed EXCEPT ![conn'.socket] = IF sockets[conn'.socket] = "failed" THEN @
                   ELSE @ + SegmentSize[m_currentRepIndex'][m_segmentCounter']]
    /\ m_subsegment_size' =
          [m_subsegment_size EXCEPT ![conn'.peer] =
              SegmentSize[m_currentRepIndex'][m_segmentCounter']]

SendNothing(owed) == wire' = owed /\ UNCHANGED m_subsegment_size

-------------------------------------------------------------------------------
(***************************************************************************)
(* Controller (event), one operator per state; owed is what the servers    *)
(* still have to send.                                                     *)
(***************************************************************************)
ControllerInitial ==
    /\ \E server \in Servers :
          HandoverApplication(IF handover THEN <<server, newip>> ELSE <<server>>)
    /\ Player!RequestRepIndex(m_segmentCounter)
    /\ state' = "downloading"
    /\ Player!PlaybackKept(m_segmentsInBuffer, 0)
    /\ startSends' = startSends + 1
    /\ UNCHANGED <<bytes, playbackTimers, irdTimers>>

ControllerDownloading(event, owed) ==
    /\ TakeHandover
    /\ Player!PlaybackHandle(Player!BufferAt(event), Player!UnderrunsAfterHandover)
    /\ IF m_currentPlaybackIndex' <= LastSegment
       THEN /\ Player!RequestRepIndex(m_segmentCounter + 1)
            /\ state' = "downloadingPlaying"
            /\ SendMultiple(owed)
       ELSE /\ state' = "playing"
            /\ SendNothing(owed)
            /\ m_bDelay' = Player!DelayAt(event)
            /\ UNCHANGED <<m_segmentCounter, m_currentRepIndex, playbackIndex>>
    /\ playbackTimers' = Player!PlaybackTimersAt(event) + 1
    /\ irdTimers' = Player!IrdTimersAt(event)
    /\ UNCHANGED startSends

DownloadFinishedWhilePlaying(owed) ==
    /\ TakeHandover
    /\ IF m_segmentCounter < LastSegment
       THEN Player!RequestRepIndex(m_segmentCounter + 1)
       ELSE /\ m_bDelay' = Player!DelayAt("downloadFinished")
            /\ UNCHANGED <<m_segmentCounter, m_currentRepIndex, playbackIndex>>
    /\ \/ /\ m_bDelay' > 0
          /\ state' = "playing" /\ irdTimers' = irdTimers + 1 /\ SendNothing(owed)
       \/ /\ m_bDelay' = 0 /\ m_segmentCounter' = LastSegment
          /\ state' = "playing" /\ UNCHANGED irdTimers /\ SendNothing(owed)
       \/ /\ m_bDelay' = 0 /\ m_segmentCounter' # LastSegment
          /\ UNCHANGED <<state, irdTimers>> /\ SendMultiple(owed)
    /\ Player!PlaybackKept(Player!BufferAt("downloadFinished"), Player!UnderrunsAfterHandover)
    /\ UNCHANGED <<playbackTimers, startSends>>

PlaybackFinishedWhileDownloading ==
    /\ Player!PlaybackHandle(m_segmentsInBuffer, bufferUnderrunCount)
    /\ IF Player!NothingToPlay(m_segmentsInBuffer)
       THEN /\ state' = "downloading"
            /\ playbackTimers' = Player!PlaybackTimersAt("playbackFinished")
       ELSE UNCHANGED <<state, playbackTimers>>
    /\ UNCHANGED <<connection, bytes, download, startSends, irdTimers>>

\* A state that has no branch for the event ignores it.
Ignore(event, owed) ==
    /\ SendNothing(owed)
    /\ m_bDelay' = Player!DelayAt(event)
    /\ playbackTimers' = Player!PlaybackTimersAt(event)
    /\ irdTimers' = Player!IrdTimersAt(event)
    /\ Player!PlaybackKept(Player!BufferAt(event), bufferUnderrunCount)
    /\ UNCHANGED <<state, connection, m_segmentCounter, m_currentRepIndex, playbackIndex,
                   startSends>>

ControllerDownloadingPlaying(event, owed) ==
    \/ event = "downloadFinished" /\ DownloadFinishedWhilePlaying(owed)
    \/ event = "playbackFinished" /\ PlaybackFinishedWhileDownloading
    \/ event \notin {"downloadFinished", "playbackFinished"} /\ Ignore(event, owed)

IrdFinishedWhilePlaying ==
    /\ state' = "downloadingPlaying"
    /\ irdTimers' = Player!IrdTimersAt("irdFinished")
    /\ UNCHANGED <<connection, download, playback, playbackTimers, startSends>>
    /\ SendMultiple(wire)

PlaybackFinishedWhilePlaying ==
    /\ m_currentPlaybackIndex < LastSegment
    /\ Player!PlaybackHandle(m_segmentsInBuffer, bufferUnderrunCount)
    /\ UNCHANGED <<state, connection, bytes, download, timers>>

\* e_pf: release the server's memory (finishedRequest) and StopApplication.
SessionFinished ==
    /\ m_currentPlaybackIndex >= LastSegment
    /\ state' = "terminal"
    /\ wire' = [wire EXCEPT ![conn.socket] = 0]
    /\ playbackTimers' = Player!PlaybackTimersAt("playbackFinished")
    /\ UNCHANGED <<connection, m_subsegment_size, download, playback, startSends, irdTimers>>

ControllerPlaying(event, owed) ==
    \/ event = "irdFinished" /\ IrdFinishedWhilePlaying
    \/ event = "playbackFinished" /\ PlaybackFinishedWhilePlaying
    \/ event = "playbackFinished" /\ SessionFinished
    \/ event \notin {"irdFinished", "playbackFinished"} /\ Ignore(event, owed)

\* HandoverApplication is called with a server that is not on the peer list:
\* by the fog controller's choice, or by a change of server that is due.
OffThePeerList(event) ==
    \/ state = "initial"
    \/ /\ handover /\ newip \notin Peers
       /\ state = "downloading" \/ (state = "downloadingPlaying" /\ event = "downloadFinished")

\* The assertion ends the program in the middle of the callback.
Abort(event, owed) == OffThePeerList(event) /\ aborted' = TRUE /\ Ignore(event, owed)

Controller(event, owed) ==
    \/ Abort(event, owed)
    \/ /\ UNCHANGED aborted
       /\ \/ state = "initial" /\ ControllerInitial
          \/ state = "downloading" /\ ControllerDownloading(event, owed)
          \/ state = "downloadingPlaying" /\ ControllerDownloadingPlaying(event, owed)
          \/ state = "playing" /\ ControllerPlaying(event, owed)
          \/ state = "terminal" /\ Ignore(event, owed)

-------------------------------------------------------------------------------
(***************************************************************************)
(* The simulator's events.                                                 *)
(***************************************************************************)
StartApplication ==
    /\ ~aborted /\ state = "initial" /\ sockets[conn.socket] = "none"
    /\ sockets' = [s \in Servers |-> "connecting"]
    /\ UNCHANGED <<state, aborted, connection, request, download, playback, bytes, received,
                   timers>>

ConnectionSucceeded(s) ==
    /\ ~aborted /\ sockets[s] = "connecting"
    /\ sockets' = [sockets EXCEPT ![s] = "established"]
    /\ IF state = "initial" /\ s = conn.socket
       THEN Controller("init", wire)
       ELSE UNCHANGED <<state, aborted, connection, download, playback, bytes, timers>>
    /\ UNCHANGED <<request, received>>

\* The callback only logs; what was written to the socket is lost.
ConnectionFailed(s) ==
    /\ ~aborted /\ sockets[s] = "connecting"
    /\ sockets' = [sockets EXCEPT ![s] = "failed"]
    /\ wire' = [wire EXCEPT ![s] = 0]
    /\ UNCHANGED <<state, aborted, connection, request, download, playback, m_subsegment_size,
                   received, timers>>

StartSend ==
    /\ ~aborted /\ startSends > 0
    /\ startSends' = startSends - 1
    /\ UNCHANGED <<state, aborted, sockets, connection, request, download, playback, received,
                   playbackTimers, irdTimers>>
    /\ SendMultiple(wire)

\* Mutant: the count of the sender is not reset.
HandleReadKeepingCount(s, n) ==
    LET fromSender == m_socketBytesReceived[s] + n
        complete == fromSender = m_subsegment_size[s]
        owed == [wire EXCEPT ![s] = @ - n]
    IN  /\ ~aborted /\ sockets[s] = "established" /\ n \in 1..wire[s]
        /\ m_socketBytesReceived' =
              [m_socketBytesReceived EXCEPT ![s] = fromSender]
        /\ IF /\ complete
              /\ m_bytesReceived + n = SegmentSize[m_currentRepIndex][m_segmentCounter]
           THEN /\ m_bytesReceived' = 0
                /\ transmissions' = transmissions + 1
                /\ Controller("downloadFinished", owed)
           ELSE /\ m_bytesReceived' = m_bytesReceived + n
                /\ SendNothing(owed)
                /\ UNCHANGED <<state, aborted, connection, download, playback, timers,
                               transmissions>>
        /\ UNCHANGED <<sockets, request>>

\* n bytes from server s.  The bytes of the sender are compared with the size
\* noted for it, and only if they agree all bytes with the size of the segment.
HandleRead(s, n) ==
    LET fromSender == m_socketBytesReceived[s] + n
        complete == fromSender = m_subsegment_size[s]
        owed == [wire EXCEPT ![s] = @ - n]
    IN  /\ ~aborted /\ sockets[s] = "established" /\ n \in 1..wire[s]
        /\ m_socketBytesReceived' =
              [m_socketBytesReceived EXCEPT ![s] = IF complete THEN 0 ELSE fromSender]
        /\ IF /\ complete
              /\ m_bytesReceived + n = SegmentSize[m_currentRepIndex][m_segmentCounter]
           THEN /\ m_bytesReceived' = 0
                /\ transmissions' = transmissions + 1
                /\ Controller("downloadFinished", owed)
           ELSE /\ m_bytesReceived' = m_bytesReceived + n
                /\ SendNothing(owed)
                /\ UNCHANGED <<state, aborted, connection, download, playback, timers,
                               transmissions>>
        /\ UNCHANGED <<sockets, request>>

Read == \E s \in Servers : \E n \in 1..wire[s] : HandleRead(s, n)

\* StopApplication closes m_socket; the auxiliary sockets stay as they are.
PlaybackFinished ==
    /\ ~aborted /\ playbackTimers > 0
    /\ Controller("playbackFinished", wire)
    /\ sockets' = IF state' = "terminal" THEN [sockets EXCEPT ![conn.socket] = "none"]
                  ELSE sockets
    /\ UNCHANGED <<request, received>>

IrdFinished ==
    /\ ~aborted /\ irdTimers > 0
    /\ Controller("irdFinished", wire)
    /\ UNCHANGED <<sockets, request, received>>

\* Called by the scenario at any time of the simulation.
SetHandover(ip) ==
    /\ ~aborted /\ handovers < MaxHandovers
    /\ handovers' = handovers + 1
    /\ handover' = TRUE
    /\ newip' = ip
    /\ UNCHANGED <<state, aborted, conn, sockets, visited, revisited, download, playback, bytes,
                   received, timers>>

Next ==
    \/ StartApplication
    \/ \E s \in Servers : ConnectionSucceeded(s)
    \/ \E s \in Servers : ConnectionFailed(s)
    \/ StartSend
    \/ Read
    \/ PlaybackFinished
    \/ IrdFinished
    \/ \E ip \in Servers : SetHandover(ip)

Spec == Init /\ [][Next]_vars

\* As in StreamClient: the simulator runs every pending event, a connection
\* attempt ends, TCP delivers.
Fairness ==
    /\ WF_vars(StartApplication)
    /\ \A s \in Servers : WF_vars(ConnectionSucceeded(s) \/ ConnectionFailed(s))
    /\ WF_vars(StartSend)
    /\ WF_vars(Read)
    /\ WF_vars(PlaybackFinished)
    /\ WF_vars(IrdFinished)

FairSpec == Spec /\ Fairness

-------------------------------------------------------------------------------
(***************************************************************************)
(* Properties.                                                             *)
(***************************************************************************)
\* However often servers are changed, the exchanges only permute the sockets:
\* the connection to every server is m_socket or one auxiliary socket.
OneSocketPerServer ==
    /\ IsInjective(conn.aux)
    /\ Range(conn.aux) = Servers \ {conn.socket}

CurrentSize == SegmentSize[m_currentRepIndex][m_segmentCounter]

\* As long as no server is chosen a second time, the requests go to the server
\* that m_peerAddress names, and while the client waits the bytes received and
\* those on their way make up one segment, all from that server, whose own count
\* and expected size HandleRead finds equal in the end; no other server owes or
\* has half delivered anything.
OneRequestOutstanding ==
    ~revisited =>
        /\ conn.socket = conn.peer
        /\ \A s \in Servers \ {conn.socket} : wire[s] = 0 /\ m_socketBytesReceived[s] = 0
        /\ m_socketBytesReceived[conn.socket] = m_bytesReceived
        /\ IF Player!Awaiting /\ ~aborted
           THEN /\ m_subsegment_size[conn.socket] = CurrentSize
                /\ \/ wire[conn.socket] + m_bytesReceived = CurrentSize
                   \/ /\ sockets[conn.socket] = "failed"
                      /\ wire[conn.socket] = 0 /\ m_bytesReceived = 0
           ELSE wire[conn.socket] = 0 /\ m_bytesReceived = 0

\* Every session ends, unless a connection could not be established, a server
\* was chosen a second time or the program ended.
SessionEnds ==
    <>(state = "terminal" \/ sockets[conn.socket] = "failed" \/ revisited \/ aborted)
===============================================================================
