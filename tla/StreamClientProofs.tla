-------------------------- MODULE StreamClientProofs --------------------------
(***************************************************************************)
(* The safety properties of StreamClient, for every video, every set of    *)
(* servers and any number of changes of server.                            *)
(***************************************************************************)
EXTENDS StreamClient, TLAPS

(***************************************************************************)
(* What each state of the machine says of the rest of the client.  The     *)
(* properties of StreamClient are inductive only together with it: why     *)
(* nothing is owed when an event fires, for instance, depends on which     *)
(* events can be pending in which state.                                   *)
(***************************************************************************)
StateShape ==
    /\ state = "initial" =>
          /\ m_segmentCounter = 0 /\ playbackIndex = 0 /\ transmissions = 0
          /\ m_currentPlaybackIndex = 0 /\ startSends = 0 /\ irdTimers = 0
    /\ state # "initial" => playbackIndex = m_segmentCounter + 1
    /\ state = "downloading" =>
          m_segmentsInBuffer = 0 /\ transmissions = m_segmentCounter
    /\ state \in {"downloadingPlaying", "playing"} => m_currentPlaybackIndex >= 1
    /\ state = "playing" /\ irdTimers = 0 => m_segmentCounter = LastSegment
    /\ state = "terminal" => socket = "none"
    /\ state \in {"downloading", "downloadingPlaying", "playing"} => socket # "none"
    /\ startSends \in {0, 1}
    /\ startSends = 1 => state = "downloading"
    /\ irdTimers \in {0, 1}
    /\ irdTimers = 1 => state \in {"playing", "terminal"}
    /\ m_bufferUnderrun => m_currentPlaybackIndex < LastSegment
    /\ state = "initial" => ~m_bufferUnderrun
    /\ socket \in {"connecting", "failed"} => m_bytesReceived = 0
    /\ socket = "failed" => wire = 0

IInv ==
    /\ TypeOK
    /\ PlaybackClock
    /\ OneRequestOutstanding
    /\ SegmentAccounting
    /\ UnderrunsCountedOnce
    /\ StateShape

-------------------------------------------------------------------------------
\* The size of the segment the client asks for is a positive number.
LEMMA SizeIsPositive ==
    ASSUME NEW r \in Reps, NEW s \in Segments
    PROVE  SegmentSize[r][s] \in Nat /\ SegmentSize[r][s] > 0
  BY SegmentSizeAssumption

\* The initial state (the members as Initialise leaves them) satisfies the
\* inductive invariant.
LEMMA InitIInv == Init => IInv
  <1> SUFFICES ASSUME Init PROVE IInv
    OBVIOUS
  <1>1. 0 \in Segments /\ 0 \in Reps
    BY LastSegmentAssumption, HighestRepAssumption DEF Segments, Reps
  <1>2. TypeOK
    BY <1>1 DEF Init, TypeOK, States
  <1>3. PlaybackClock /\ OneRequestOutstanding /\ SegmentAccounting /\ UnderrunsCountedOnce
    BY LastSegmentAssumption DEF Init, PlaybackClock, OneRequestOutstanding, Awaiting,
       SegmentAccounting, UnderrunsCountedOnce
  <1>4. StateShape
    BY LastSegmentAssumption DEF Init, StateShape
  <1> QED BY <1>2, <1>3, <1>4 DEF IInv

\* Bytes are on their way only when the client waits for them, and then a read
\* that completes the segment leaves none.
LEMMA ReadIsOwed ==
    ASSUME IInv, wire > 0, socket = "established"
    PROVE  /\ state \in {"downloading", "downloadingPlaying"}
           /\ startSends = 0
           /\ wire + m_bytesReceived = SegmentSize[m_currentRepIndex][m_segmentCounter]
           /\ irdTimers = 0
  BY DEF IInv, OneRequestOutstanding, Awaiting, StateShape, TypeOK, States

\* StartApplication, which opens the first connection, preserves it.
LEMMA StartApplicationIInv == IInv /\ StartApplication => IInv'
  BY DEF IInv, TypeOK, PlaybackClock, OneRequestOutstanding, Awaiting, SegmentAccounting,
         UnderrunsCountedOnce, StateShape, States,
         StartApplication, request, download, received, playback, timers

\* ConnectionFailed, which loses what was written to the socket, preserves it.
LEMMA ConnectionFailedIInv == IInv /\ ConnectionFailed => IInv'
  BY DEF IInv, TypeOK, PlaybackClock, OneRequestOutstanding, Awaiting, SegmentAccounting,
         UnderrunsCountedOnce, StateShape, States,
         ConnectionFailed, request, download, received, playback, timers

\* SetHandover, which only notes the new server, preserves it.
LEMMA SetHandoverIInv == ASSUME NEW ip \in Servers PROVE IInv /\ SetHandover(ip) => IInv'
  BY DEF IInv, TypeOK, PlaybackClock, OneRequestOutstanding, Awaiting, SegmentAccounting,
         UnderrunsCountedOnce, StateShape, States,
         SetHandover, request, download, received, playback, timers

\* StartSend, the delayed request of the first segment, preserves it.
LEMMA StartSendIInv == IInv /\ StartSend => IInv'
  BY SizeIsPositive
     DEF IInv, TypeOK, PlaybackClock, OneRequestOutstanding, Awaiting, SegmentAccounting,
         UnderrunsCountedOnce, StateShape, States,
         StartSend, Send, connection, request, download, received, playback

\* Controller in state initial (the fog controller names a server) preserves it.
LEMMA ControllerInitialIInv ==
    ASSUME IInv, state = "initial", socket = "connecting", ControllerInitial,
           UNCHANGED <<request, received>>
    PROVE  IInv'
  <1> USE DEF IInv, StateShape, ControllerInitial, request, received
  <1>1. /\ m_peerAddress' \in Servers /\ socket' = "connecting"
        /\ m_segmentCounter' = 0 /\ m_currentRepIndex' \in Reps /\ m_bDelay' \in {0, 1}
        /\ playbackIndex' = 1
    BY DEF HandoverApplication, RequestRepIndex, TypeOK
  <1>2. /\ m_segmentsInBuffer' = m_segmentsInBuffer /\ bufferUnderrunCount' = 0
        /\ UNCHANGED <<m_currentPlaybackIndex, m_bufferUnderrun>>
    BY DEF PlaybackKept
  <1>3. m_bytesReceived = 0 /\ transmissions = 0 /\ m_segmentsInBuffer = 0
    BY DEF OneRequestOutstanding, Awaiting, SegmentAccounting, TypeOK
  <1>4. TypeOK'
    <2>1. handover' \in BOOLEAN /\ m_bufferUnderrun' \in BOOLEAN
      BY <1>2 DEF TypeOK
    <2>2. wire' \in Nat /\ handovers' \in Nat /\ newip' \in Servers /\ m_bytesReceived' \in Nat
      BY DEF TypeOK
    <2>3. startSends' \in Nat /\ playbackTimers' \in Nat /\ irdTimers' \in Nat /\ transmissions' \in Nat
      BY DEF TypeOK
    <2>4. m_segmentsInBuffer' \in Nat /\ m_currentPlaybackIndex' \in Nat /\ bufferUnderrunCount' \in Nat
      BY <1>2 DEF TypeOK
    <2>5. m_segmentCounter' \in Segments /\ playbackIndex' \in Nat
      BY <1>1 DEF TypeOK
    <2> QED BY <1>1, <2>1, <2>2, <2>3, <2>4, <2>5 DEF TypeOK, States
  <1>5. PlaybackClock' /\ SegmentAccounting' /\ UnderrunsCountedOnce'
    BY <1>1, <1>2, <1>3 DEF PlaybackClock, SegmentAccounting, UnderrunsCountedOnce, TypeOK
  <1>6. OneRequestOutstanding' /\ StateShape'
    BY <1>1, <1>2, <1>3 DEF OneRequestOutstanding, Awaiting, TypeOK
  <1> QED BY <1>4, <1>5, <1>6

\* ConnectionSucceeded, which runs Controller (init) the first time, preserves it.
LEMMA ConnectionSucceededIInv == IInv /\ ConnectionSucceeded => IInv'
  <1> SUFFICES ASSUME IInv, ConnectionSucceeded PROVE IInv'
    OBVIOUS
  <1>1. CASE state = "initial"
    BY <1>1, ControllerInitialIInv DEF ConnectionSucceeded, Controller
  <1>2. CASE state # "initial"
    BY <1>2 DEF IInv, TypeOK, PlaybackClock, OneRequestOutstanding, Awaiting,
         SegmentAccounting, UnderrunsCountedOnce, StateShape, States, ConnectionSucceeded,
         request, received, download, playback, timers
  <1> QED BY <1>1, <1>2

-------------------------------------------------------------------------------
\* Completing a segment.  In state downloading the player waits for it.
LEMMA DownloadedWhileStalled ==
    ASSUME IInv, state = "downloading", startSends = 0, socket = "established",
           ControllerDownloading("downloadFinished", 0),
           m_bytesReceived' = 0, transmissions' = transmissions + 1, UNCHANGED request
    PROVE  IInv'
  <1> USE DEF IInv, StateShape, ControllerDownloading
  <1>1. /\ m_segmentsInBuffer = 0 /\ transmissions = m_segmentCounter
        /\ m_currentPlaybackIndex = m_segmentCounter
        /\ playbackTimers = 0 /\ irdTimers = 0
    BY DEF SegmentAccounting, PlaybackClock, TypeOK
  <1>2. /\ m_segmentsInBuffer' = 0 /\ m_currentPlaybackIndex' = m_currentPlaybackIndex + 1
        /\ m_bufferUnderrun' = FALSE /\ bufferUnderrunCount' = UnderrunsAfterHandover
    BY <1>1 DEF PlaybackHandle, BeginUnderrun, PlayNext, KeepWaiting, NothingToPlay, BufferAt
  <1>3. playbackTimers' = 1 /\ irdTimers' = 0 /\ startSends' = 0
    BY <1>1 DEF PlaybackTimersAt, IrdTimersAt
  <1>4. /\ socket' \in {"connecting", "established"} /\ m_peerAddress' \in Servers
        /\ handover' \in BOOLEAN
    BY DEF TakeHandover, HandoverApplication, connection, TypeOK
  <1>5. /\ bufferUnderrunCount' \in Nat /\ bufferUnderrunCount' <= m_currentPlaybackIndex
    BY <1>2 DEF UnderrunsAfterHandover, UnderrunsCountedOnce, TypeOK
  <1>6. WireAfterHandover(0) = 0
    BY DEF WireAfterHandover
  <1>7. m_segmentCounter \in Nat /\ LastSegment \in Nat /\ m_segmentCounter <= LastSegment
    BY LastSegmentAssumption DEF TypeOK, Segments
  <1>8. CASE m_currentPlaybackIndex' <= LastSegment
    <2>1. /\ m_segmentCounter' = m_segmentCounter + 1 /\ m_currentRepIndex' \in Reps
          /\ m_bDelay' \in {0, 1} /\ playbackIndex' = playbackIndex + 1
          /\ state' = "downloadingPlaying"
      BY <1>8 DEF RequestRepIndex
    <2>2. m_segmentCounter' \in Segments
      BY <1>1, <1>2, <1>7, <1>8, <2>1 DEF Segments
    <2>3. wire' = SegmentSize[m_currentRepIndex'][m_segmentCounter'] /\ wire' \in Nat
      BY <1>4, <1>6, <1>8, <2>1, <2>2, SizeIsPositive DEF Send
    <2>4. TypeOK'
      <3>1. m_bufferUnderrun' \in BOOLEAN
        BY <1>2
      <3>2. m_segmentsInBuffer' \in Nat /\ m_currentPlaybackIndex' \in Nat /\ transmissions' \in Nat
        BY <1>2 DEF TypeOK
      <3>3. playbackIndex' \in Nat
        BY <2>1 DEF TypeOK
      <3> QED BY <1>3, <1>4, <1>5, <2>1, <2>2, <2>3, <3>1, <3>2, <3>3 DEF TypeOK, States, request
    <2>5. PlaybackClock' /\ SegmentAccounting' /\ UnderrunsCountedOnce'
      BY <1>1, <1>2, <1>3, <1>5, <1>7, <2>1
         DEF PlaybackClock, SegmentAccounting, UnderrunsCountedOnce
    <2>6. OneRequestOutstanding' /\ StateShape'
      BY <1>1, <1>2, <1>3, <1>4, <1>7, <2>1, <2>3 DEF OneRequestOutstanding, Awaiting
    <2> QED BY <2>4, <2>5, <2>6
  <1>9. CASE ~(m_currentPlaybackIndex' <= LastSegment)
    <2>1. /\ state' = "playing" /\ wire' = 0 /\ m_bDelay' \in {0, 1}
          /\ UNCHANGED <<m_segmentCounter, m_currentRepIndex, playbackIndex>>
      BY <1>6, <1>9 DEF DelayAt, TypeOK
    <2>2. m_segmentCounter = LastSegment
      BY <1>1, <1>2, <1>7, <1>9
    <2>3. TypeOK'
      <3>1. m_bufferUnderrun' \in BOOLEAN
        BY <1>2
      <3>2. m_segmentsInBuffer' \in Nat /\ m_currentPlaybackIndex' \in Nat /\ transmissions' \in Nat
        BY <1>2 DEF TypeOK
      <3> QED BY <1>3, <1>4, <1>5, <2>1, <3>1, <3>2 DEF TypeOK, States, request
    <2>4. PlaybackClock' /\ SegmentAccounting' /\ UnderrunsCountedOnce'
      BY <1>1, <1>2, <1>3, <1>5, <1>7, <2>1, <2>2
         DEF PlaybackClock, SegmentAccounting, UnderrunsCountedOnce
    <2>5. OneRequestOutstanding' /\ StateShape'
      BY <1>1, <1>2, <1>3, <1>4, <1>7, <2>1, <2>2 DEF OneRequestOutstanding, Awaiting
    <2> QED BY <2>3, <2>4, <2>5
  <1> QED BY <1>8, <1>9

\* A segment completed in state downloadingPlaying, with a delay, without one or
\* at the end of the video, preserves the inductive invariant.
LEMMA DownloadedWhilePlaying ==
    ASSUME IInv, state = "downloadingPlaying", socket = "established",
           DownloadFinishedWhilePlaying(0),
           m_bytesReceived' = 0, transmissions' = transmissions + 1, UNCHANGED request
    PROVE  IInv'
  <1> USE DEF IInv, StateShape, DownloadFinishedWhilePlaying
  <1>1. /\ transmissions = m_segmentCounter /\ playbackTimers = 1
        /\ irdTimers = 0 /\ startSends = 0 /\ playbackIndex = m_segmentCounter + 1
        /\ m_currentPlaybackIndex >= 1
    BY DEF SegmentAccounting, PlaybackClock, TypeOK
  <1>2. /\ m_segmentsInBuffer' = m_segmentsInBuffer + 1
        /\ UNCHANGED <<m_currentPlaybackIndex, m_bufferUnderrun, playbackTimers, startSends>>
        /\ bufferUnderrunCount' = UnderrunsAfterHandover
    BY DEF PlaybackKept, BufferAt
  <1>3. /\ socket' \in {"connecting", "established"} /\ m_peerAddress' \in Servers
        /\ handover' \in BOOLEAN
    BY DEF TakeHandover, HandoverApplication, connection, TypeOK
  <1>4. bufferUnderrunCount' \in Nat /\ bufferUnderrunCount' <= bufferUnderrunCount
    BY <1>2 DEF UnderrunsAfterHandover, TypeOK
  <1>5. m_segmentCounter \in Nat /\ LastSegment \in Nat /\ m_segmentCounter <= LastSegment
    BY LastSegmentAssumption DEF TypeOK, Segments
  <1>6. /\ m_currentRepIndex' \in Reps /\ m_bDelay' \in {0, 1}
        /\ m_segmentCounter' \in Segments /\ playbackIndex' = m_segmentCounter' + 1
        /\ \/ m_segmentCounter' = m_segmentCounter + 1
           \/ m_segmentCounter' = m_segmentCounter /\ m_segmentCounter = LastSegment
              /\ m_bDelay' = 0
    <2>1. CASE m_segmentCounter < LastSegment
      BY <1>1, <1>5, <2>1 DEF RequestRepIndex, Segments
    <2>2. CASE ~(m_segmentCounter < LastSegment)
      BY <1>1, <1>5, <2>2 DEF DelayAt, TypeOK
    <2> QED BY <2>1, <2>2
  <1>7. WireAfterHandover(0) = 0
    BY DEF WireAfterHandover
  <1>8. \/ /\ state' = "playing" /\ irdTimers' = 1 /\ wire' = 0
           /\ m_segmentCounter' = m_segmentCounter + 1
        \/ /\ state' = "playing" /\ irdTimers' = 0 /\ wire' = 0
           /\ m_segmentCounter' = LastSegment
        \/ /\ state' = "downloadingPlaying" /\ irdTimers' = 0
           /\ m_segmentCounter' = m_segmentCounter + 1
           /\ wire' = SegmentSize[m_currentRepIndex'][m_segmentCounter'] /\ wire' \in Nat
    BY <1>1, <1>3, <1>5, <1>6, <1>7, SizeIsPositive DEF Send
  <1>9. TypeOK'
    <2>1. m_bufferUnderrun' \in BOOLEAN
      BY <1>2 DEF TypeOK
    <2>2. m_segmentsInBuffer' \in Nat /\ m_currentPlaybackIndex' \in Nat /\ transmissions' \in Nat
      BY <1>2 DEF TypeOK
    <2>3. playbackIndex' \in Nat /\ irdTimers' \in Nat /\ wire' \in Nat /\ state' \in States
      BY <1>5, <1>6, <1>8 DEF Segments, States
    <2> QED BY <1>1, <1>2, <1>3, <1>4, <1>6, <2>1, <2>2, <2>3 DEF TypeOK, request
  <1>10. PlaybackClock' /\ SegmentAccounting'
    BY <1>1, <1>2, <1>5, <1>6, <1>8 DEF PlaybackClock, SegmentAccounting, TypeOK
  <1>11. UnderrunsCountedOnce'
    BY <1>2, <1>4 DEF UnderrunsCountedOnce, TypeOK
  <1>12. OneRequestOutstanding'
    BY <1>1, <1>2, <1>8 DEF OneRequestOutstanding, Awaiting, TypeOK
  <1>13. StateShape'
    BY <1>1, <1>2, <1>3, <1>5, <1>6, <1>8
  <1> QED BY <1>9, <1>10, <1>11, <1>12, <1>13

\* HandleRead, the packet that completes a segment included, preserves it.
LEMMA ReadIInv == IInv /\ Read => IInv'
  <1> SUFFICES ASSUME IInv, NEW n \in 1..wire, HandleRead(n) PROVE IInv'
    BY DEF Read
  <1>1. /\ wire \in Nat /\ wire > 0 /\ n \in Nat /\ n >= 1 /\ n <= wire
        /\ socket = "established"
    BY DEF HandleRead, IInv, TypeOK
  <1>2. /\ state \in {"downloading", "downloadingPlaying"} /\ startSends = 0 /\ irdTimers = 0
        /\ wire + m_bytesReceived = SegmentSize[m_currentRepIndex][m_segmentCounter]
    BY <1>1, ReadIsOwed
  <1>3. m_bytesReceived \in Nat
    BY DEF IInv, TypeOK
  <1>4. CASE m_bytesReceived + n = SegmentSize[m_currentRepIndex][m_segmentCounter]
    <2>1. /\ Controller("downloadFinished", wire - n) /\ wire - n = 0
          /\ m_bytesReceived' = 0 /\ transmissions' = transmissions + 1 /\ UNCHANGED request
      BY <1>1, <1>2, <1>3, <1>4 DEF HandleRead
    <2>2. Controller("downloadFinished", 0)
      BY <2>1
    <2>3. CASE state = "downloading"
      BY <1>1, <1>2, <2>1, <2>2, <2>3, DownloadedWhileStalled DEF Controller
    <2>4. CASE state = "downloadingPlaying"
      BY <1>1, <2>1, <2>2, <2>4, DownloadedWhilePlaying
         DEF Controller, ControllerDownloadingPlaying
    <2> QED BY <1>2, <2>3, <2>4
  <1>5. CASE m_bytesReceived + n # SegmentSize[m_currentRepIndex][m_segmentCounter]
    BY <1>1, <1>2, <1>3, <1>5
       DEF HandleRead, IInv, TypeOK, PlaybackClock, OneRequestOutstanding, Awaiting,
           SegmentAccounting, UnderrunsCountedOnce, StateShape, States,
           connection, request, download, playback, timers
  <1> QED BY <1>4, <1>5

-------------------------------------------------------------------------------
\* What PlaybackHandle does when the playback clock ticks: it keeps the sum of
\* the segments buffered and played, and the bound on the underruns counted.
LEMMA PlaybackHandleKeeps ==
    ASSUME IInv, state \in {"downloadingPlaying", "playing"},
           PlaybackHandle(m_segmentsInBuffer, bufferUnderrunCount)
    PROVE  /\ m_segmentsInBuffer' \in Nat /\ m_currentPlaybackIndex' \in Nat
           /\ bufferUnderrunCount' \in Nat
           /\ m_bufferUnderrun' \in BOOLEAN
           /\ m_segmentsInBuffer' + m_currentPlaybackIndex'
                = m_segmentsInBuffer + m_currentPlaybackIndex
           /\ m_currentPlaybackIndex' >= 1
           /\ UnderrunsCountedOnce'
           /\ m_bufferUnderrun' => m_currentPlaybackIndex' < LastSegment
           /\ m_segmentsInBuffer = 0 => m_segmentsInBuffer' = 0
  <1> USE DEF IInv, StateShape, TypeOK
  <1>1. CASE BeginUnderrun(m_segmentsInBuffer, bufferUnderrunCount)
    BY <1>1 DEF BeginUnderrun, UnderrunsCountedOnce, NothingToPlay
  <1>2. CASE PlayNext(m_segmentsInBuffer, bufferUnderrunCount)
    <2>1. /\ m_segmentsInBuffer > 0 /\ bufferUnderrunCount' = bufferUnderrunCount
          /\ m_segmentsInBuffer' = m_segmentsInBuffer - 1
          /\ m_currentPlaybackIndex' = m_currentPlaybackIndex + 1
          /\ ~m_bufferUnderrun'
      BY <1>2 DEF PlayNext
    <2>2. m_bufferUnderrun' \in BOOLEAN
      BY <1>2 DEF PlayNext
    <2>3. bufferUnderrunCount <= m_currentPlaybackIndex
      BY DEF UnderrunsCountedOnce
    <2>4. UnderrunsCountedOnce'
      BY <2>1, <2>3 DEF UnderrunsCountedOnce
    <2> QED BY <2>1, <2>2, <2>4
  <1>3. CASE KeepWaiting(m_segmentsInBuffer, bufferUnderrunCount)
    BY <1>3 DEF KeepWaiting, UnderrunsCountedOnce, NothingToPlay
  <1> QED BY <1>1, <1>2, <1>3 DEF PlaybackHandle

\* Controller (playbackFinished), in every state it can be pending in, preserves
\* the inductive invariant.
LEMMA PlaybackFinishedIInv == IInv /\ PlaybackFinished => IInv'
  <1> SUFFICES ASSUME IInv, PlaybackFinished PROVE IInv'
    OBVIOUS
  <1>1. state \in {"downloadingPlaying", "playing"} /\ playbackTimers = 1
    BY DEF PlaybackFinished, IInv, PlaybackClock, TypeOK
  <1>2. UNCHANGED <<newip, handovers, m_bytesReceived, transmissions>>
    BY DEF PlaybackFinished, request, received
  <1> USE DEF IInv, StateShape
  <1>3. CASE state = "downloadingPlaying" /\ PlaybackFinishedWhileDownloading
    <2> USE DEF PlaybackFinishedWhileDownloading
    <2>1. UNCHANGED <<socket, m_peerAddress, handover, wire, m_segmentCounter,
                      m_currentRepIndex, m_bDelay, playbackIndex, startSends, irdTimers>>
      BY <1>3 DEF connection, download
    <2>2. PlaybackHandle(m_segmentsInBuffer, bufferUnderrunCount)
      BY <1>3
    <2>3. \/ m_segmentsInBuffer = 0 /\ state' = "downloading" /\ playbackTimers' = 0
          \/ m_segmentsInBuffer # 0 /\ state' = "downloadingPlaying" /\ playbackTimers' = 1
      BY <1>1, <1>3 DEF NothingToPlay, PlaybackTimersAt
    <2>4. startSends = 0 /\ irdTimers = 0 /\ transmissions = m_segmentCounter
      BY <1>3 DEF TypeOK, SegmentAccounting
    <2>5. TypeOK'
      BY <1>1, <1>2, <2>1, <2>2, <2>3, PlaybackHandleKeeps DEF TypeOK, States
    <2>6. PlaybackClock' /\ OneRequestOutstanding'
      BY <1>2, <1>3, <2>1, <2>3, <2>4 DEF PlaybackClock, OneRequestOutstanding, Awaiting
    <2>7. SegmentAccounting' /\ UnderrunsCountedOnce'
      BY <1>1, <1>2, <2>1, <2>2, <2>3, <2>4, PlaybackHandleKeeps DEF SegmentAccounting, TypeOK
    <2>8. StateShape'
      BY <1>1, <1>2, <1>3, <2>1, <2>2, <2>3, <2>4, PlaybackHandleKeeps
    <2> QED BY <2>5, <2>6, <2>7, <2>8
  <1>4. CASE state = "playing" /\ PlaybackFinishedWhilePlaying
    <2> USE DEF PlaybackFinishedWhilePlaying
    <2>1. UNCHANGED <<state, socket, m_peerAddress, handover, wire, m_segmentCounter,
                      m_currentRepIndex, m_bDelay, playbackIndex, startSends, irdTimers>>
      BY <1>4 DEF connection, download
    <2>2. PlaybackHandle(m_segmentsInBuffer, bufferUnderrunCount) /\ playbackTimers' = 1
      BY <1>1, <1>4 DEF PlaybackTimersAt
    <2>3. TypeOK'
      BY <1>1, <1>2, <2>1, <2>2, PlaybackHandleKeeps DEF TypeOK, States
    <2>4. PlaybackClock' /\ OneRequestOutstanding'
      BY <1>2, <1>4, <2>1, <2>2 DEF PlaybackClock, OneRequestOutstanding, Awaiting
    <2>5. SegmentAccounting' /\ UnderrunsCountedOnce'
      BY <1>1, <1>2, <2>1, <2>2, PlaybackHandleKeeps DEF SegmentAccounting, TypeOK
    <2>6. StateShape'
      BY <1>1, <1>2, <1>4, <2>1, <2>2, PlaybackHandleKeeps
    <2> QED BY <2>3, <2>4, <2>5, <2>6
  <1>5. CASE state = "playing" /\ SessionFinished
    <2>1. state' = "terminal" /\ socket' = "none" /\ wire' = 0 /\ playbackTimers' = 0
      BY <1>1, <1>5 DEF SessionFinished, PlaybackTimersAt
    <2>2. UNCHANGED <<m_peerAddress, handover, m_segmentCounter, m_currentRepIndex, m_bDelay,
                      playbackIndex, m_segmentsInBuffer, m_currentPlaybackIndex,
                      m_bufferUnderrun, bufferUnderrunCount, startSends, irdTimers>>
      BY <1>5 DEF SessionFinished, download, playback
    <2>3. m_bytesReceived = 0
      BY <1>5 DEF OneRequestOutstanding, Awaiting
    <2> QED BY <1>2, <1>5, <2>1, <2>2, <2>3
            DEF TypeOK, PlaybackClock, OneRequestOutstanding, Awaiting, SegmentAccounting,
                UnderrunsCountedOnce, States
  <1> QED
    BY <1>1, <1>3, <1>4, <1>5
       DEF PlaybackFinished, Controller, ControllerDownloadingPlaying, ControllerPlaying

\* Controller (irdFinished), the end of an inter-request delay, preserves it.
LEMMA IrdFinishedIInv == IInv /\ IrdFinished => IInv'
  <1> SUFFICES ASSUME IInv, IrdFinished PROVE IInv'
    OBVIOUS
  <1> USE DEF IInv, StateShape
  <1>1. state \in {"playing", "terminal"} /\ irdTimers = 1
    BY DEF IrdFinished, TypeOK
  <1>2. UNCHANGED <<newip, handovers, m_bytesReceived, transmissions>>
    BY DEF IrdFinished, request, received
  <1>3. wire = 0 /\ m_bytesReceived = 0 /\ startSends = 0 /\ transmissions = m_segmentCounter
    BY <1>1 DEF OneRequestOutstanding, Awaiting, SegmentAccounting, TypeOK
  <1>4. CASE state = "playing"
    <2>1. IrdFinishedWhilePlaying
      BY <1>4 DEF IrdFinished, Controller, ControllerPlaying
    <2>2. /\ state' = "downloadingPlaying" /\ irdTimers' = 0
          /\ UNCHANGED <<socket, m_peerAddress, handover, m_segmentCounter, m_currentRepIndex,
                         m_bDelay, playbackIndex, m_segmentsInBuffer, m_currentPlaybackIndex,
                         m_bufferUnderrun, bufferUnderrunCount, playbackTimers, startSends>>
      BY <1>1, <2>1 DEF IrdFinishedWhilePlaying, IrdTimersAt, connection, download, playback
    <2>3. /\ wire' = IF socket = "failed" THEN 0
                     ELSE SegmentSize[m_currentRepIndex][m_segmentCounter]
          /\ wire' \in Nat
      BY <1>3, <2>1, <2>2, SizeIsPositive DEF IrdFinishedWhilePlaying, Send, TypeOK
    <2> QED BY <1>2, <1>3, <1>4, <2>2, <2>3
            DEF TypeOK, PlaybackClock, OneRequestOutstanding, Awaiting, SegmentAccounting,
                UnderrunsCountedOnce, States
  <1>5. CASE state = "terminal"
    <2>1. Ignore("irdFinished", wire)
      BY <1>5 DEF IrdFinished, Controller
    <2>2. /\ irdTimers' = 0
          /\ UNCHANGED <<state, socket, m_peerAddress, handover, wire, m_segmentCounter,
                         m_currentRepIndex, m_bDelay, playbackIndex, m_segmentsInBuffer,
                         m_currentPlaybackIndex, m_bufferUnderrun, bufferUnderrunCount,
                         playbackTimers, startSends>>
      BY <1>1, <2>1 DEF Ignore, IrdTimersAt, PlaybackTimersAt, DelayAt, BufferAt, PlaybackKept,
                        connection, TypeOK
    <2> QED BY <1>2, <1>3, <1>5, <2>2
            DEF TypeOK, PlaybackClock, OneRequestOutstanding, Awaiting, SegmentAccounting,
                UnderrunsCountedOnce, States
  <1> QED BY <1>1, <1>4, <1>5

-------------------------------------------------------------------------------
\* Every event of the simulator preserves the inductive invariant.
LEMMA NextIInv == IInv /\ [Next]_vars => IInv'
  <1> SUFFICES ASSUME IInv, [Next]_vars PROVE IInv'
    OBVIOUS
  <1>1. CASE StartApplication BY <1>1, StartApplicationIInv
  <1>2. CASE ConnectionSucceeded BY <1>2, ConnectionSucceededIInv
  <1>3. CASE ConnectionFailed BY <1>3, ConnectionFailedIInv
  <1>4. CASE StartSend BY <1>4, StartSendIInv
  <1>5. CASE Read BY <1>5, ReadIInv
  <1>6. CASE PlaybackFinished BY <1>6, PlaybackFinishedIInv
  <1>7. CASE IrdFinished BY <1>7, IrdFinishedIInv
  <1>8. CASE \E ip \in Servers : SetHandover(ip) BY <1>8, SetHandoverIInv
  <1>9. CASE UNCHANGED vars
    BY <1>9 DEF vars, connection, request, download, received, playback, timers,
         IInv, TypeOK, PlaybackClock, OneRequestOutstanding, Awaiting, SegmentAccounting,
         UnderrunsCountedOnce, StateShape, States
  <1> QED BY <1>1, <1>2, <1>3, <1>4, <1>5, <1>6, <1>7, <1>8, <1>9 DEF Next

\* The inductive invariant holds throughout every run of the client.
THEOREM Invariance == Spec => []IInv
  BY InitIInv, NextIInv, PTL DEF Spec

\* Every member keeps its type; in particular m_segmentCounter never leaves the
\* video, so that segmentSize.at (m_segmentCounter) does not throw.
THEOREM TypeCorrect == Spec => []TypeOK
  BY Invariance, PTL DEF IInv

\* In every state there is exactly the playback timer the state calls for.
THEOREM OneClock == Spec => []PlaybackClock
  BY Invariance, PTL DEF IInv

\* The client never has two requests outstanding, and HandleRead's comparison
\* for equality always comes true.
THEOREM NoPipelining == Spec => []OneRequestOutstanding
  BY Invariance, PTL DEF IInv

\* No segment is lost, downloaded twice or played before it was downloaded.
THEOREM SegmentsConserved == Spec => []SegmentAccounting
  BY Invariance, PTL DEF IInv

\* A stall is counted once, however many timers expire while it lasts.
THEOREM UnderrunBound == Spec => []UnderrunsCountedOnce
  BY Invariance, PTL DEF IInv

\* Every event keeps the stalls registered: state downloading is entered with an
\* empty buffer, where PlaybackHandle sets the flag or finds it set, and left by
\* the segment that clears it.
LEMMA StallStep == IInv /\ StallIsRegistered /\ [Next]_vars => StallIsRegistered'
  <1> SUFFICES ASSUME IInv, StallIsRegistered, [Next]_vars PROVE StallIsRegistered'
    OBVIOUS
  <1> USE DEF IInv, StateShape, StallIsRegistered
  <1>1. CASE StartApplication \/ ConnectionFailed \/ StartSend \/ \E ip \in Servers : SetHandover(ip)
    BY <1>1 DEF StartApplication, ConnectionFailed, StartSend, SetHandover, playback
  <1>2. CASE ConnectionSucceeded
    BY <1>2 DEF ConnectionSucceeded, Controller, ControllerInitial, PlaybackKept, playback
  <1>3. CASE Read
    <2> PICK n \in 1..wire : HandleRead(n)
      BY <1>3 DEF Read
    <2>1. state \in {"downloading", "downloadingPlaying"}
      BY ReadIsOwed DEF HandleRead, TypeOK
    <2>2. CASE Controller("downloadFinished", wire - n)
      BY <2>1, <2>2 DEF Controller, ControllerDownloading, ControllerDownloadingPlaying,
                        DownloadFinishedWhilePlaying
    <2>3. CASE UNCHANGED <<state, m_currentPlaybackIndex, m_bufferUnderrun>>
      BY <2>3
    <2> QED BY <2>2, <2>3 DEF HandleRead, playback
  <1>4. CASE PlaybackFinished
    <2>1. CASE state = "downloadingPlaying"
      <3>1. PlaybackFinishedWhileDownloading
        BY <1>4, <2>1 DEF PlaybackFinished, Controller, ControllerDownloadingPlaying
      <3>2. state' = "downloading" => NothingToPlay(m_segmentsInBuffer)
        BY <2>1, <3>1 DEF PlaybackFinishedWhileDownloading
      <3> QED BY <3>1, <3>2, LastSegmentAssumption
              DEF PlaybackFinishedWhileDownloading, PlaybackHandle, BeginUnderrun, PlayNext,
                  KeepWaiting, NothingToPlay, TypeOK
    <2>2. CASE state = "playing"
      BY <1>4, <2>2 DEF PlaybackFinished, Controller, ControllerPlaying,
                        PlaybackFinishedWhilePlaying, SessionFinished
    <2>3. state \in {"downloadingPlaying", "playing"}
      BY <1>4 DEF PlaybackFinished, PlaybackClock, TypeOK
    <2> QED BY <2>1, <2>2, <2>3
  <1>5. CASE IrdFinished
    <2>1. state \in {"playing", "terminal"}
      BY <1>5 DEF IrdFinished, TypeOK
    <2> QED BY <1>5, <2>1
            DEF IrdFinished, Controller, ControllerPlaying, IrdFinishedWhilePlaying, Ignore
  <1>6. CASE UNCHANGED vars
    BY <1>6 DEF vars, playback
  <1> QED BY <1>1, <1>2, <1>3, <1>4, <1>5, <1>6 DEF Next

\* Every wait but the one for the last segment is registered as a stall.
THEOREM StallsRegistered == Spec => []StallIsRegistered
  <1>1. Init => StallIsRegistered
    BY DEF Init, StallIsRegistered
  <1> QED BY <1>1, StallStep, Invariance, PTL DEF Spec

-------------------------------------------------------------------------------
\* Only ConnectionSucceeded in state initial and a completed segment choose a
\* segment; the history the adaptation algorithm reads is then complete.
LEMMA HistoryStep ==
    ASSUME IInv, Next, m_segmentCounter' # m_segmentCounter
    PROVE  /\ m_segmentCounter' = m_segmentCounter + 1
           /\ playbackIndex = m_segmentCounter'
           /\ transmissions' = m_segmentCounter'
           /\ m_currentPlaybackIndex' > 0
  <1> USE DEF IInv, StateShape
  <1>1. CASE StartApplication \/ ConnectionFailed \/ StartSend \/ \E ip \in Servers : SetHandover(ip)
    BY <1>1 DEF StartApplication, ConnectionFailed, StartSend, SetHandover, download
  <1>2. CASE ConnectionSucceeded
    BY <1>2 DEF ConnectionSucceeded, Controller, ControllerInitial, RequestRepIndex, download
  <1>3. CASE Read
    <2> PICK n \in 1..wire : HandleRead(n)
      BY <1>3 DEF Read
    <2>1. /\ wire > 0 /\ socket = "established"
      BY DEF HandleRead, TypeOK
    <2>2. /\ state \in {"downloading", "downloadingPlaying"}
      BY <2>1, ReadIsOwed
    <2>3. transmissions = m_segmentCounter /\ playbackIndex = m_segmentCounter + 1
      BY <2>2 DEF SegmentAccounting, TypeOK
    <2>4. /\ Controller("downloadFinished", wire - n)
          /\ transmissions' = transmissions + 1
      BY DEF HandleRead, download
    <2>5. m_segmentCounter' = m_segmentCounter + 1
      BY <2>2, <2>4 DEF Controller, ControllerDownloading, ControllerDownloadingPlaying,
                        DownloadFinishedWhilePlaying, RequestRepIndex, download
    <2>6. m_currentPlaybackIndex' > 0
      <3>1. CASE state = "downloading"
        BY <2>4, <3>1 DEF Controller, ControllerDownloading, PlaybackHandle, BeginUnderrun,
                          PlayNext, KeepWaiting, NothingToPlay, BufferAt, TypeOK
      <3>2. CASE state = "downloadingPlaying"
        BY <2>4, <2>5, <3>2 DEF Controller, ControllerDownloadingPlaying,
                          DownloadFinishedWhilePlaying, PlaybackKept, TypeOK
      <3> QED BY <2>2, <3>1, <3>2
    <2> QED BY <2>3, <2>4, <2>5, <2>6
  <1>4. CASE PlaybackFinished
    <2>1. state \in {"downloadingPlaying", "playing"}
      BY <1>4 DEF PlaybackFinished, PlaybackClock, TypeOK
    <2> QED BY <1>4, <2>1
            DEF PlaybackFinished, Controller, ControllerDownloadingPlaying, ControllerPlaying,
                PlaybackFinishedWhileDownloading, PlaybackFinishedWhilePlaying,
                SessionFinished, download
  <1>5. CASE IrdFinished
    <2>1. state \in {"playing", "terminal"}
      BY <1>5 DEF IrdFinished, TypeOK
    <2> QED BY <1>5, <2>1
            DEF IrdFinished, Controller, ControllerPlaying, IrdFinishedWhilePlaying, Ignore, download
  <1> QED BY <1>1, <1>2, <1>3, <1>4, <1>5 DEF Next

\* When the adaptation algorithm is asked for a segment, its vectors have the
\* lengths it indexes them with.
THEOREM HistoryComplete == Spec => AlgorithmSeesHistory
  <1>1. IInv /\ [Next]_vars =>
          [m_segmentCounter' # m_segmentCounter =>
              /\ m_segmentCounter' = m_segmentCounter + 1
              /\ playbackIndex = m_segmentCounter'
              /\ transmissions' = m_segmentCounter'
              /\ m_currentPlaybackIndex' > 0]_vars
    BY HistoryStep
  <1> QED BY <1>1, Invariance, PTL DEF Spec, AlgorithmSeesHistory

-------------------------------------------------------------------------------
(***************************************************************************)
(* Refinement: every event of the client is a step of PlaybackSession or   *)
(* changes nothing it can see.                                             *)
(***************************************************************************)
LEMMA SessionInit == Init => Session!Init
  BY DEF Init, Session!Init, SessionPhase

\* PlaybackHandle plays a segment, begins a stall or changes nothing of the
\* abstract session.
LEMMA PlaybackHandleStep ==
    ASSUME IInv, state \in {"downloadingPlaying", "playing"}, SessionPhase' = "streaming",
           UNCHANGED transmissions,
           PlaybackHandle(m_segmentsInBuffer, bufferUnderrunCount)
    PROVE  Session!Next \/ UNCHANGED Session!vars
  <1> USE DEF IInv, TypeOK
  <1>1. SessionPhase = "streaming"
    BY DEF SessionPhase
  <1>2. m_segmentsInBuffer + m_currentPlaybackIndex = transmissions /\ LastSegment \in Nat
    BY LastSegmentAssumption DEF SegmentAccounting
  <1>3. CASE BeginUnderrun(m_segmentsInBuffer, bufferUnderrunCount)
    <2>1. Session!Stall
      BY <1>1, <1>2, <1>3 DEF BeginUnderrun, NothingToPlay, Session!Stall
    <2> QED BY <2>1 DEF Session!Next
  <1>4. CASE PlayNext(m_segmentsInBuffer, bufferUnderrunCount)
    <2>1. Session!Play
      BY <1>1, <1>2, <1>4 DEF PlayNext, Session!Play
    <2> QED BY <2>1 DEF Session!Next
  <1>5. CASE KeepWaiting(m_segmentsInBuffer, bufferUnderrunCount)
    BY <1>1, <1>5 DEF KeepWaiting, Session!vars
  <1> QED BY <1>3, <1>4, <1>5 DEF PlaybackHandle

\* HandleRead downloads a segment, downloads and plays it, or changes nothing of
\* the abstract session.
LEMMA ReadSessionStep ==
    ASSUME IInv, Read PROVE Session!Next \/ UNCHANGED Session!vars
  <1> USE DEF IInv, StateShape
  <1> PICK n \in 1..wire : HandleRead(n)
    BY DEF Read
  <1>1. wire > 0 /\ socket = "established"
    BY DEF HandleRead, TypeOK
  <1>2. state \in {"downloading", "downloadingPlaying"}
    BY <1>1, ReadIsOwed
  <1>3. SessionPhase = "streaming"
    BY <1>2 DEF SessionPhase
  <1>4. /\ transmissions = m_segmentCounter /\ m_segmentCounter \in Nat /\ LastSegment \in Nat
        /\ m_segmentCounter <= LastSegment
        /\ m_segmentsInBuffer + m_currentPlaybackIndex = transmissions
    BY <1>2, LastSegmentAssumption DEF SegmentAccounting, TypeOK, Segments
  <1>5. CASE m_bytesReceived + n # SegmentSize[m_currentRepIndex][m_segmentCounter]
    BY <1>5 DEF HandleRead, playback, Session!vars, SessionPhase
  <1>6. CASE m_bytesReceived + n = SegmentSize[m_currentRepIndex][m_segmentCounter]
    <2>1. Controller("downloadFinished", wire - n) /\ transmissions' = transmissions + 1
      BY <1>6 DEF HandleRead
    <2>2. CASE state = "downloading"
      <3>1. ControllerDownloading("downloadFinished", wire - n)
        BY <2>1, <2>2 DEF Controller
      <3>2. /\ m_currentPlaybackIndex' = m_currentPlaybackIndex + 1
            /\ m_bufferUnderrun' = FALSE
        BY <2>2, <3>1 DEF ControllerDownloading, BufferAt, PlaybackHandle, BeginUnderrun,
                          PlayNext, KeepWaiting, NothingToPlay
      <3>3. SessionPhase' = "streaming"
        BY <3>1 DEF ControllerDownloading, SessionPhase
      <3>4. m_currentPlaybackIndex = transmissions
        BY <1>4, <2>2 DEF TypeOK
      <3>5. Session!DownloadAndPlay
        BY <1>3, <1>4, <2>1, <3>2, <3>3, <3>4 DEF Session!DownloadAndPlay
      <3> QED BY <3>5 DEF Session!Next
    <2>3. CASE state = "downloadingPlaying"
      <3>1. DownloadFinishedWhilePlaying(wire - n)
        BY <2>1, <2>3 DEF Controller, ControllerDownloadingPlaying
      <3>2. UNCHANGED <<m_currentPlaybackIndex, m_bufferUnderrun>>
        BY <3>1 DEF DownloadFinishedWhilePlaying, PlaybackKept
      <3>3. SessionPhase' = "streaming"
        BY <2>3, <3>1 DEF DownloadFinishedWhilePlaying, SessionPhase
      <3>4. Session!Download
        BY <1>3, <1>4, <2>1, <3>2, <3>3 DEF Session!Download
      <3> QED BY <3>4 DEF Session!Next
    <2> QED BY <1>2, <2>2, <2>3
  <1> QED BY <1>5, <1>6

\* Every event of the simulator is a step of the abstract session or a stutter.
LEMMA SessionStep ==
    ASSUME IInv, [Next]_vars PROVE Session!Next \/ UNCHANGED Session!vars
  <1> USE DEF IInv, StateShape
  <1>1. CASE StartApplication \/ ConnectionFailed \/ StartSend \/ \E ip \in Servers : SetHandover(ip)
    BY <1>1 DEF StartApplication, ConnectionFailed, StartSend, SetHandover, playback, received,
                Session!vars, SessionPhase
  <1>2. CASE ConnectionSucceeded
    <2>1. CASE state = "initial"
      <3>1. /\ SessionPhase = "idle" /\ SessionPhase' = "streaming"
            /\ UNCHANGED <<transmissions, m_currentPlaybackIndex, m_bufferUnderrun>>
        BY <1>2, <2>1 DEF ConnectionSucceeded, Controller, ControllerInitial, PlaybackKept,
                          received, SessionPhase
      <3>2. Session!Begin
        BY <3>1 DEF Session!Begin
      <3> QED BY <3>2 DEF Session!Next
    <2>2. CASE state # "initial"
      BY <1>2, <2>2 DEF ConnectionSucceeded, playback, received, Session!vars, SessionPhase
    <2> QED BY <2>1, <2>2
  <1>3. CASE Read
    BY <1>3, ReadSessionStep
  <1>4. CASE PlaybackFinished
    <2>1. state \in {"downloadingPlaying", "playing"}
      BY <1>4 DEF PlaybackFinished, PlaybackClock, TypeOK
    <2>2. UNCHANGED transmissions
      BY <1>4 DEF PlaybackFinished, received
    <2>3. CASE PlaybackFinishedWhileDownloading \/ PlaybackFinishedWhilePlaying
      <3>1. SessionPhase' = "streaming"
        BY <2>1, <2>3 DEF PlaybackFinishedWhileDownloading, PlaybackFinishedWhilePlaying, SessionPhase
      <3>2. PlaybackHandle(m_segmentsInBuffer, bufferUnderrunCount)
        BY <2>3 DEF PlaybackFinishedWhileDownloading, PlaybackFinishedWhilePlaying
      <3> QED BY <2>1, <2>2, <3>1, <3>2, PlaybackHandleStep
    <2>4. CASE state = "playing" /\ SessionFinished
      <3>1. /\ SessionPhase = "streaming" /\ SessionPhase' = "finished"
            /\ UNCHANGED <<m_currentPlaybackIndex, m_bufferUnderrun>>
            /\ m_currentPlaybackIndex >= LastSegment
        BY <2>4 DEF SessionFinished, SessionPhase, playback
      <3>2. ~m_bufferUnderrun /\ m_currentPlaybackIndex >= (LastSegment + 1) - 1
        BY <3>1, LastSegmentAssumption DEF TypeOK
      <3>3. Session!Finish
        BY <2>2, <3>1, <3>2 DEF Session!Finish
      <3> QED BY <3>3 DEF Session!Next
    <2> QED BY <1>4, <2>1, <2>3, <2>4
            DEF PlaybackFinished, Controller, ControllerDownloadingPlaying, ControllerPlaying
  <1>5. CASE IrdFinished
    <2>1. state \in {"playing", "terminal"}
      BY <1>5 DEF IrdFinished, TypeOK
    <2>2. UNCHANGED <<transmissions, m_currentPlaybackIndex, m_bufferUnderrun>>
      BY <1>5, <2>1 DEF IrdFinished, Controller, ControllerPlaying, IrdFinishedWhilePlaying,
                        Ignore, PlaybackKept, received, playback
    <2>3. UNCHANGED SessionPhase
      BY <1>5, <2>1 DEF IrdFinished, Controller, ControllerPlaying, IrdFinishedWhilePlaying,
                        Ignore, SessionPhase
    <2> QED BY <2>2, <2>3 DEF Session!vars
  <1>6. CASE UNCHANGED vars
    BY <1>6 DEF vars, received, playback, Session!vars, SessionPhase
  <1> QED BY <1>1, <1>2, <1>3, <1>4, <1>5, <1>6 DEF Next

\* The client implements the abstract playback session.
THEOREM Refinement == Spec => ImplementsSession
  <1>1. IInv /\ [Next]_vars => [Session!Next]_(Session!vars)
    BY SessionStep
  <1> QED BY <1>1, SessionInit, Invariance, PTL DEF Spec, Session!Spec, ImplementsSession
===============================================================================
