----------------------------- MODULE StreamClient -----------------------------
(***************************************************************************)
(* The adaptive-streaming client of Fog4VR (TcpStreamClient): the finite   *)
(* state machine Controller(event), the events it leaves in the simulator, *)
(* the download of one segment at a time over the current TCP connection,  *)
(* the simulated playback, and the change of server by HandoverApplication.*)
(*                                                                         *)
(* Every action is one event of the discrete-event simulator: a callback   *)
(* runs to its end before the next one starts, so an action is a whole     *)
(* callback, the synchronous calls it makes included.  Times are left out: *)
(* the pending events may run in any order, which includes the order that  *)
(* any bandwidth, segment duration and request delay produce.              *)
(***************************************************************************)
EXTENDS Integers

CONSTANTS
    Servers,        \* addresses of the fog servers
    HighestRep,     \* m_highestRepIndex
    LastSegment,    \* m_lastSegmentIndex
    SegmentSize,    \* m_videoData.segmentSize: bytes, by representation and segment
    MaxHandovers    \* bound on the calls of SetHandover by the scenario

Segments == 0..LastSegment
Reps == 0..HighestRep

ASSUME ServersAssumption == Servers # {}
ASSUME HighestRepAssumption == HighestRep \in Nat
ASSUME LastSegmentAssumption == LastSegment \in Nat
ASSUME SegmentSizeAssumption == SegmentSize \in [Reps -> [Segments -> Nat \ {0}]]
ASSUME MaxHandoversAssumption == MaxHandovers \in Nat

VARIABLES
    state,                  \* controllerState
    \* the connection
    socket,                 \* m_socket: "none", "connecting", "established" or "failed"
    m_peerAddress,          \* the server m_socket was connected to
    wire,                   \* bytes requested on m_socket and not yet read from it
    handover,               \* a change of server was asked for
    newip,                  \* ... to this server
    handovers,              \* calls of SetHandover so far
    \* the download
    m_segmentCounter,       \* index of the segment being, or next to be, downloaded
    m_currentRepIndex,      \* its representation
    m_bDelay,               \* inter-request delay: 0, or 1 for every positive delay
    m_bytesReceived,        \* bytes of it received
    playbackIndex,          \* number of entries of m_playbackData.playbackIndex
    transmissions,          \* number of entries of m_throughput's and m_bufferData's vectors
    \* the playback
    m_segmentsInBuffer,
    m_currentPlaybackIndex,
    m_bufferUnderrun,
    bufferUnderrunCount,
    \* events pending in the simulator
    startSends,             \* calls of StartSend
    playbackTimers,         \* calls of Controller(playbackFinished)
    irdTimers               \* calls of Controller(irdFinished)

connection == <<socket, m_peerAddress, handover>>
request    == <<newip, handovers>>
download   == <<m_segmentCounter, m_currentRepIndex, m_bDelay, playbackIndex>>
playback   == <<m_segmentsInBuffer, m_currentPlaybackIndex, m_bufferUnderrun,
                bufferUnderrunCount>>
received   == <<m_bytesReceived, transmissions>>
timers     == <<startSends, playbackTimers, irdTimers>>
vars == <<state, connection, wire, request, download, received, playback, timers>>

States == {"initial", "downloading", "downloadingPlaying", "playing", "terminal"}
Events == {"init", "downloadFinished", "playbackFinished", "irdFinished"}

Init ==
    /\ state = "initial"
    /\ socket = "none"
    /\ m_peerAddress \in Servers
    /\ wire = 0
    /\ handover = FALSE
    /\ newip \in Servers
    /\ handovers = 0
    /\ m_segmentCounter = 0
    /\ m_currentRepIndex = 0
    /\ m_bDelay = 0
    /\ m_bytesReceived = 0
    /\ playbackIndex = 0
    /\ transmissions = 0
    /\ m_segmentsInBuffer = 0
    /\ m_currentPlaybackIndex = 0
    /\ m_bufferUnderrun = FALSE
    /\ bufferUnderrunCount = 0
    /\ startSends = 0
    /\ playbackTimers = 0
    /\ irdTimers = 0

-------------------------------------------------------------------------------
(***************************************************************************)
(* What an event has already done when Controller(event) starts: a timer   *)
(* has left the simulator's queue; SegmentReceivedHandle, the only caller  *)
(* with downloadFinished, has put the segment in the buffer and, after the *)
(* last segment, cleared the inter-request delay.                          *)
(***************************************************************************)
BufferAt(event) ==
    m_segmentsInBuffer + (IF event = "downloadFinished" THEN 1 ELSE 0)

\* Mutant: the delay before the last segment survives it.
DelayKept(event) == m_bDelay

DelayAt(event) ==
    IF event = "downloadFinished" /\ m_segmentCounter = LastSegment THEN 0 ELSE m_bDelay

PlaybackTimersAt(event) ==
    playbackTimers - (IF event = "playbackFinished" THEN 1 ELSE 0)

IrdTimersAt(event) ==
    irdTimers - (IF event = "irdFinished" THEN 1 ELSE 0)

\* Mutant: the new socket is never connected.
HandoverApplicationUnconnected(ip) ==
    /\ m_peerAddress' = ip
    /\ socket' = "none"

(***************************************************************************)
(* HandoverApplication(ip): drop the socket, whatever was still to come on *)
(* it is never read, and open a connection to ip.  The underrun statistics *)
(* restart from zero.                                                      *)
(***************************************************************************)
HandoverApplication(ip) ==
    /\ m_peerAddress' = ip
    /\ socket' = IF socket = "none" THEN "none" ELSE "connecting"

\* Mutant: a change of server closes the socket and only notes the new address.
TakeHandoverUnconnected ==
    IF handover
    THEN m_peerAddress' = newip /\ socket' = "none" /\ handover' = FALSE
    ELSE UNCHANGED connection

\* if (handover) { HandoverApplication (newip); handover = false; }
TakeHandover ==
    IF handover
    THEN HandoverApplication(newip) /\ handover' = FALSE
    ELSE UNCHANGED connection

UnderrunsAfterHandover == IF handover THEN 0 ELSE bufferUnderrunCount
WireAfterHandover(owed) == IF handover THEN 0 ELSE owed

\* Mutant: the decision is not appended to m_playbackData.playbackIndex.
RequestRepIndexUnlogged(seg) ==
    /\ m_segmentCounter' = seg
    /\ m_currentRepIndex' \in Reps
    /\ m_bDelay' \in {0, 1}
    /\ UNCHANGED playbackIndex

\* Ask the adaptation algorithm for the representation of segment seg.
RequestRepIndex(seg) ==
    /\ m_segmentCounter' = seg
    /\ m_currentRepIndex' \in Reps
    /\ m_bDelay' \in {0, 1}
    /\ playbackIndex' = playbackIndex + 1

\* Ask the server for the current segment; owed bytes were on their way before.
\* A socket whose connection failed refuses the packet.
Send(owed) ==
    wire' = IF socket' = "failed" THEN owed
            ELSE owed + SegmentSize[m_currentRepIndex'][m_segmentCounter']

\* PlaybackHandle with buf segments in the buffer returns true: nothing to play.
NothingToPlay(buf) == buf = 0

\* Mutant: the underrun is registered again at every tick of the stall.
BeginUnderrunAgain(buf, underruns) ==
    /\ NothingToPlay(buf) /\ m_currentPlaybackIndex < LastSegment
    /\ bufferUnderrunCount' = underruns + 1
    /\ m_bufferUnderrun' = TRUE
    /\ m_segmentsInBuffer' = buf
    /\ UNCHANGED m_currentPlaybackIndex

\* Mutant: the stall is counted and not remembered.
BeginUnderrunUnflagged(buf, underruns) ==
    /\ NothingToPlay(buf) /\ m_currentPlaybackIndex < LastSegment /\ ~m_bufferUnderrun
    /\ bufferUnderrunCount' = underruns + 1
    /\ UNCHANGED m_bufferUnderrun
    /\ m_segmentsInBuffer' = buf
    /\ UNCHANGED m_currentPlaybackIndex

BeginUnderrun(buf, underruns) ==
    /\ NothingToPlay(buf) /\ m_currentPlaybackIndex < LastSegment /\ ~m_bufferUnderrun
    /\ bufferUnderrunCount' = underruns + 1
    /\ m_bufferUnderrun' = TRUE
    /\ m_segmentsInBuffer' = buf
    /\ UNCHANGED m_currentPlaybackIndex

\* Mutant: the buffer is decremented without a look at it.
PlayNextUnchecked(buf, underruns) ==
    /\ bufferUnderrunCount' = underruns
    /\ m_bufferUnderrun' = FALSE
    /\ m_segmentsInBuffer' = buf - 1
    /\ m_currentPlaybackIndex' = m_currentPlaybackIndex + 1

PlayNext(buf, underruns) ==
    /\ buf > 0
    /\ bufferUnderrunCount' = underruns
    /\ m_bufferUnderrun' = FALSE
    /\ m_segmentsInBuffer' = buf - 1
    /\ m_currentPlaybackIndex' = m_currentPlaybackIndex + 1

KeepWaiting(buf, underruns) ==
    /\ NothingToPlay(buf)
    /\ m_currentPlaybackIndex >= LastSegment \/ m_bufferUnderrun
    /\ bufferUnderrunCount' = underruns
    /\ m_segmentsInBuffer' = buf
    /\ UNCHANGED <<m_bufferUnderrun, m_currentPlaybackIndex>>

\* PlaybackHandle: begin an underrun, play the next segment, or (the buffer is
\* empty and no underrun may begin) do nothing.
PlaybackHandle(buf, underruns) ==
    \/ BeginUnderrun(buf, underruns)
    \/ PlayNext(buf, underruns)
    \/ KeepWaiting(buf, underruns)

\* The playback is left alone, save for what the caller did to the buffer.
PlaybackKept(buf, underruns) ==
    /\ m_segmentsInBuffer' = buf
    /\ bufferUnderrunCount' = underruns
    /\ UNCHANGED <<m_currentPlaybackIndex, m_bufferUnderrun>>

-------------------------------------------------------------------------------
(***************************************************************************)
(* Controller (event), one operator per state.  Its branches for states    *)
(* initial and downloading do not look at the event.                       *)
(***************************************************************************)

\* The fog controller names a server; the client moves to it (and at once to
\* newip when a handover is pending) and requests the first segment later.
ControllerInitial ==
    /\ \E server \in Servers : HandoverApplication(IF handover THEN newip ELSE server)
    /\ handover' = FALSE
    /\ wire' = 0
    /\ RequestRepIndex(m_segmentCounter)
    /\ state' = "downloading"
    /\ PlaybackKept(m_segmentsInBuffer, 0)
    /\ startSends' = startSends + 1
    /\ UNCHANGED <<playbackTimers, irdTimers>>

ControllerDownloading(event, owed) ==
    /\ TakeHandover
    /\ PlaybackHandle(BufferAt(event), UnderrunsAfterHandover)
    /\ IF m_currentPlaybackIndex' <= LastSegment
       THEN /\ RequestRepIndex(m_segmentCounter + 1)
            /\ state' = "downloadingPlaying"
            /\ Send(WireAfterHandover(owed))
       ELSE /\ state' = "playing"
            /\ wire' = WireAfterHandover(owed)
            /\ m_bDelay' = DelayAt(event)
            /\ UNCHANGED <<m_segmentCounter, m_currentRepIndex, playbackIndex>>
    /\ playbackTimers' = PlaybackTimersAt(event) + 1
    /\ irdTimers' = IrdTimersAt(event)
    /\ UNCHANGED startSends

DownloadFinishedWhilePlaying(owed) ==
    /\ TakeHandover
    /\ IF m_segmentCounter < LastSegment
       THEN RequestRepIndex(m_segmentCounter + 1)
       ELSE /\ m_bDelay' = DelayAt("downloadFinished")
            /\ UNCHANGED <<m_segmentCounter, m_currentRepIndex, playbackIndex>>
    /\ \/ /\ m_bDelay' > 0 /\ m_segmentCounter' <= LastSegment
          /\ state' = "playing"
          /\ irdTimers' = irdTimers + 1
          /\ wire' = WireAfterHandover(owed)
       \/ /\ ~(m_bDelay' > 0 /\ m_segmentCounter' <= LastSegment)
          /\ m_segmentCounter' = LastSegment
          /\ state' = "playing"
          /\ wire' = WireAfterHandover(owed)
          /\ UNCHANGED irdTimers
       \/ /\ ~(m_bDelay' > 0 /\ m_segmentCounter' <= LastSegment)
          /\ m_segmentCounter' # LastSegment
          /\ Send(WireAfterHandover(owed))
          /\ UNCHANGED <<state, irdTimers>>
    /\ PlaybackKept(BufferAt("downloadFinished"), UnderrunsAfterHandover)
    /\ UNCHANGED <<playbackTimers, startSends>>

\* Mutant: the timer is set again although the player waits for a segment.
PlaybackFinishedRearmed ==
    /\ PlaybackHandle(m_segmentsInBuffer, bufferUnderrunCount)
    /\ state' = IF NothingToPlay(m_segmentsInBuffer) THEN "downloading" ELSE state
    /\ playbackTimers' = PlaybackTimersAt("playbackFinished") + 1
    /\ UNCHANGED <<connection, wire, download, startSends, irdTimers>>

PlaybackFinishedWhileDownloading ==
    /\ PlaybackHandle(m_segmentsInBuffer, bufferUnderrunCount)
    /\ IF NothingToPlay(m_segmentsInBuffer)
       THEN /\ state' = "downloading"
            /\ playbackTimers' = PlaybackTimersAt("playbackFinished")
       ELSE /\ playbackTimers' = PlaybackTimersAt("playbackFinished") + 1
            /\ UNCHANGED state
    /\ UNCHANGED <<connection, wire, download, startSends, irdTimers>>

\* A state that has no branch for the event ignores it.
Ignore(event, owed) ==
    /\ wire' = owed
    /\ m_bDelay' = DelayAt(event)
    /\ playbackTimers' = PlaybackTimersAt(event)
    /\ irdTimers' = IrdTimersAt(event)
    /\ PlaybackKept(BufferAt(event), bufferUnderrunCount)
    /\ UNCHANGED <<state, connection, m_segmentCounter, m_currentRepIndex, playbackIndex, startSends>>

ControllerDownloadingPlaying(event, owed) ==
    \/ event = "downloadFinished" /\ DownloadFinishedWhilePlaying(owed)
    \/ event = "playbackFinished" /\ PlaybackFinishedWhileDownloading
    \/ event \notin {"downloadFinished", "playbackFinished"} /\ Ignore(event, owed)

IrdFinishedWhilePlaying ==
    /\ state' = "downloadingPlaying"
    /\ irdTimers' = IrdTimersAt("irdFinished")
    /\ UNCHANGED <<connection, download, playback, playbackTimers, startSends>>
    /\ Send(wire)

PlaybackFinishedWhilePlaying ==
    /\ m_currentPlaybackIndex < LastSegment
    /\ PlaybackHandle(m_segmentsInBuffer, bufferUnderrunCount)
    /\ playbackTimers' = PlaybackTimersAt("playbackFinished") + 1
    /\ UNCHANGED <<state, connection, wire, download, startSends, irdTimers>>

\* Mutant: the session may finish one segment earlier.
SessionFinishedEarly ==
    /\ m_currentPlaybackIndex >= LastSegment - 1
    /\ state' = "terminal"
    /\ socket' = "none"
    /\ wire' = 0
    /\ playbackTimers' = PlaybackTimersAt("playbackFinished")
    /\ UNCHANGED <<m_peerAddress, handover, download, playback, startSends, irdTimers>>

\* e_pf: release the server's memory (finishedRequest) and StopApplication.
SessionFinished ==
    /\ m_currentPlaybackIndex >= LastSegment
    /\ state' = "terminal"
    /\ socket' = "none"
    /\ wire' = 0
    /\ playbackTimers' = PlaybackTimersAt("playbackFinished")
    /\ UNCHANGED <<m_peerAddress, handover, download, playback, startSends, irdTimers>>

ControllerPlaying(event, owed) ==
    \/ event = "irdFinished" /\ IrdFinishedWhilePlaying
    \/ event = "playbackFinished" /\ PlaybackFinishedWhilePlaying
    \/ event = "playbackFinished" /\ SessionFinished
    \/ event \notin {"irdFinished", "playbackFinished"} /\ Ignore(event, owed)

Controller(event, owed) ==
    \/ state = "initial" /\ ControllerInitial
    \/ state = "downloading" /\ ControllerDownloading(event, owed)
    \/ state = "downloadingPlaying" /\ ControllerDownloadingPlaying(event, owed)
    \/ state = "playing" /\ ControllerPlaying(event, owed)
    \/ state = "terminal" /\ Ignore(event, owed)

-------------------------------------------------------------------------------
(***************************************************************************)
(* The simulator's events.                                                 *)
(***************************************************************************)
StartApplication ==
    /\ state = "initial" /\ socket = "none"
    /\ socket' = "connecting"
    /\ UNCHANGED <<state, m_peerAddress, handover, wire, request, download, received,
                   playback, timers>>

ConnectionSucceeded ==
    /\ socket = "connecting"
    /\ IF state = "initial"
       THEN Controller("init", wire)
       ELSE /\ socket' = "established"
            /\ UNCHANGED <<state, m_peerAddress, handover, wire, download, playback, timers>>
    /\ UNCHANGED <<request, received>>

\* The callback only logs; what was written to the socket is lost.
ConnectionFailed ==
    /\ socket = "connecting"
    /\ socket' = "failed"
    /\ wire' = 0
    /\ UNCHANGED <<state, m_peerAddress, handover, request, download, received, playback, timers>>

\* Runs whatever the state of the client is by then.
StartSend ==
    /\ startSends > 0
    /\ startSends' = startSends - 1
    /\ UNCHANGED <<state, connection, request, download, received, playback,
                   playbackTimers, irdTimers>>
    /\ Send(wire)

\* RecvFrom hands over the n bytes that have arrived, the loop's next call finds
\* none; the segment is complete when the count of bytes equals the size of the
\* segment requested last.
HandleRead(n) ==
    /\ socket = "established" /\ n \in 1..wire
    /\ IF m_bytesReceived + n = SegmentSize[m_currentRepIndex][m_segmentCounter]
       THEN /\ m_bytesReceived' = 0
            /\ transmissions' = transmissions + 1
            /\ Controller("downloadFinished", wire - n)
       ELSE /\ m_bytesReceived' = m_bytesReceived + n
            /\ wire' = wire - n
            /\ UNCHANGED <<state, connection, download, playback, timers, transmissions>>
    /\ UNCHANGED request

PlaybackFinished ==
    /\ playbackTimers > 0
    /\ Controller("playbackFinished", wire)
    /\ UNCHANGED <<request, received>>

IrdFinished ==
    /\ irdTimers > 0
    /\ Controller("irdFinished", wire)
    /\ UNCHANGED <<request, received>>

\* Mutant: the change of server is carried out at once, not between two segments.
SetHandoverAtOnce(ip) ==
    /\ handovers < MaxHandovers
    /\ handovers' = handovers + 1
    /\ HandoverApplication(ip)
    /\ wire' = 0
    /\ UNCHANGED <<state, handover, newip, download, received, playback, timers>>

\* Called by the scenario at any time of the simulation.
SetHandover(ip) ==
    /\ handovers < MaxHandovers
    /\ handovers' = handovers + 1
    /\ handover' = TRUE
    /\ newip' = ip
    /\ UNCHANGED <<state, socket, m_peerAddress, wire, download, received, playback, timers>>

Read == \E n \in 1..wire : HandleRead(n)

Next ==
    \/ StartApplication
    \/ ConnectionSucceeded
    \/ ConnectionFailed
    \/ StartSend
    \/ Read
    \/ PlaybackFinished
    \/ IrdFinished
    \/ \E ip \in Servers : SetHandover(ip)

Spec == Init /\ [][Next]_vars

(***************************************************************************)
(* The simulator runs every pending event; a connection attempt ends one   *)
(* way or the other (TCP's retry limit); TCP delivers what was written to  *)
(* an established connection.  Nobody has to call SetHandover.             *)
(***************************************************************************)
Fairness ==
    /\ WF_vars(StartApplication)
    /\ WF_vars(ConnectionSucceeded \/ ConnectionFailed)
    /\ WF_vars(StartSend)
    /\ WF_vars(Read)
    /\ WF_vars(PlaybackFinished)
    /\ WF_vars(IrdFinished)

FairSpec == Spec /\ Fairness
-------------------------------------------------------------------------------
(***************************************************************************)
(* Properties.                                                             *)
(***************************************************************************)

\* Every variable has the type of the member it models.
TypeOK ==
    /\ state \in States
    /\ socket \in {"none", "connecting", "established", "failed"}
    /\ m_peerAddress \in Servers /\ newip \in Servers
    /\ handover \in BOOLEAN
    /\ wire \in Nat /\ handovers \in Nat
    /\ m_segmentCounter \in Segments /\ m_currentRepIndex \in Reps
    /\ m_bDelay \in {0, 1}
    /\ m_bytesReceived \in Nat /\ playbackIndex \in Nat /\ transmissions \in Nat
    /\ m_segmentsInBuffer \in Nat /\ m_currentPlaybackIndex \in Nat
    /\ m_bufferUnderrun \in BOOLEAN /\ bufferUnderrunCount \in Nat
    /\ startSends \in Nat /\ playbackTimers \in Nat /\ irdTimers \in Nat

\* The playback has one clock: exactly one playbackFinished event is pending in
\* the states that play, none in the others.  A second one would play two
\* segments per duration; in state downloading, whose branch of Controller does
\* not look at the event, it would request a segment that was not asked for.
PlaybackClock ==
    playbackTimers = IF state \in {"downloadingPlaying", "playing"} THEN 1 ELSE 0

\* The client waits for the bytes of a segment.
Awaiting ==
    state = "downloadingPlaying" \/ (state = "downloading" /\ startSends = 0)

\* Requests are never pipelined: while the client waits, the bytes received and
\* the bytes still owed on the current connection make up exactly the segment
\* HandleRead compares with; otherwise nothing is owed.  (HandleRead tests the
\* sum for equality: one byte of another segment and it never completes.)
OneRequestOutstanding ==
    IF Awaiting
    THEN \/ wire + m_bytesReceived = SegmentSize[m_currentRepIndex][m_segmentCounter]
         \/ socket = "failed" /\ wire = 0 /\ m_bytesReceived = 0
    ELSE wire = 0 /\ m_bytesReceived = 0

\* Every segment downloaded is in the buffer or has been played, and the
\* download runs at most one segment ahead of m_segmentCounter.
SegmentAccounting ==
    /\ m_segmentsInBuffer + m_currentPlaybackIndex = transmissions
    /\ transmissions \in {m_segmentCounter, m_segmentCounter + 1}
    /\ transmissions = m_segmentCounter + 1 =>
          m_segmentCounter = LastSegment /\ state \in {"playing", "terminal"} /\ irdTimers = 0

\* The adaptation algorithm is asked for segment i when it has seen exactly the
\* i decisions and the i transmissions before it, and playback has begun: the
\* vectors it indexes with i - 1 and reads with back() have those lengths, and
\* playbackStart, whose size Festive subtracts 1 from, is not empty.
AlgorithmSeesHistory ==
    [][m_segmentCounter' # m_segmentCounter =>
          /\ m_segmentCounter' = m_segmentCounter + 1
          /\ playbackIndex = m_segmentCounter'
          /\ transmissions' = m_segmentCounter'
          /\ m_currentPlaybackIndex' > 0]_vars

\* A stall is counted once: since the last change of server there have been no
\* more underruns than segments whose playback ended, and while none is under
\* way the segment on screen has not been one of them.
UnderrunsCountedOnce ==
    bufferUnderrunCount <=
        IF m_bufferUnderrun \/ m_currentPlaybackIndex = 0
        THEN m_currentPlaybackIndex
        ELSE m_currentPlaybackIndex - 1

\* Whoever waits in state downloading after playback began has registered an
\* underrun, before and after a change of server; the wait for the last segment
\* alone is not one.
StallIsRegistered ==
    state = "downloading" /\ m_currentPlaybackIndex \in 1..(LastSegment - 1) =>
        m_bufferUnderrun

SessionPhase ==
    IF state = "initial" THEN "idle"
    ELSE IF state = "terminal" THEN "finished" ELSE "streaming"

\* The client's session, as its abstract specification sees it.
Session == INSTANCE PlaybackSession WITH
    N <- LastSegment + 1,
    phase <- SessionPhase,
    downloaded <- transmissions,
    played <- m_currentPlaybackIndex,
    stalled <- m_bufferUnderrun

\* The client implements the abstract playback session.
ImplementsSession == Session!Spec

\* Every session ends, unless a connection could not be established: neither a
\* stall, nor a pending delay, nor a change of server leaves the state machine
\* without an event to continue with.
SessionEnds == <>(state = "terminal" \/ socket = "failed")

\* A registered underrun ends with a segment played.
StallsEnd == m_bufferUnderrun ~> (~m_bufferUnderrun \/ socket = "failed")

-------------------------------------------------------------------------------
(***************************************************************************)
(* What tcp-stream-client.h says of the state machine.                     *)
(***************************************************************************)

\* "downloadingPlaying downloadFinished-> playing: download of the last segment
\* is finished": without a delay pending, state playing is entered when every
\* segment has been downloaded.
LastSegmentDownloaded ==
    state = "playing" /\ irdTimers = 0 => transmissions = LastSegment + 1
===============================================================================
