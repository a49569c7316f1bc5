------------------------------ MODULE Adaptation ------------------------------
(***************************************************************************)
(* The adaptation algorithms of Fog4VR (TobascoAlgorithm, FestiveAlgorithm *)
(* and PandaAlgorithm) in a client's download loop: a segment arrives, the *)
(* level of the playback buffer is updated, and GetNextRep answers with    *)
(* the representation of the next segment and the delay before its         *)
(* request.  What an algorithm estimates of the throughput is any value:   *)
(* it depends on the network and on sizes that are read from a file.       *)
(* Times are integers of any unit.                                         *)
(***************************************************************************)
EXTENDS Integers, FiniteSetsExt

CONSTANTS
    Algorithms,         \* subset of {"tobasco", "festive", "panda"}
    HighestRep,         \* m_highestRepIndex
    Rate,               \* averageBitrate, by representation
    Mega,               \* 10^6 in the unit of Rate
    Estimates,          \* estimates of the throughput, in the unit of Rate
    Transfers,          \* times from the request of a segment to its end
    Targets,            \* inter-request times that Panda computes
    segmentDuration,
    m_bMin, m_bLow, m_bOpt, m_bHigh, m_deltaBeta,       \* of Tobasco
    m_targetBuf,                                        \* of Festive
    MaxLevel            \* bound on the buffer of a client that uses Panda

Reps == 0..HighestRep
None == -1

ASSUME AlgorithmsAssumption == Algorithms \subseteq {"tobasco", "festive", "panda"}
ASSUME RatesAssumption == HighestRep \in Nat /\ Rate \in [Reps -> Nat] /\ Mega \in Nat \ {0}
ASSUME EstimatesAssumption == Estimates \subseteq Int
ASSUME TimesAssumption ==
    /\ Transfers \subseteq Nat /\ Targets \subseteq Nat /\ segmentDuration \in Nat
    /\ m_deltaBeta \in Nat /\ m_targetBuf \in Nat /\ MaxLevel \in Nat
ASSUME LevelsAssumption ==
    /\ m_bMin \in Nat /\ m_bLow \in Nat /\ m_bOpt \in Nat /\ m_bHigh \in Nat
    /\ m_bMin <= m_bLow /\ m_bLow <= m_bOpt /\ m_bOpt <= m_bHigh
    /\ m_bLow + segmentDuration <= m_bHigh

VARIABLES
    algorithm,
    rep,                \* the last answer: m_lastRepIndex, playbackIndex.back ()
    previous,           \* the answer before it, or None
    bufferLevel,        \* bufferLevelNew.back (), 0 before the first segment
    delay,              \* how long the next request is put off
    downloads,          \* segments downloaded: none, one, or more
    m_runningFastStart,
    m_lastTarget        \* Panda's m_lastTargetInterrequestTime

vars == <<algorithm, rep, previous, bufferLevel, delay, downloads, m_runningFastStart,
          m_lastTarget>>

\* The first segment is requested in representation 0, without delay.
Init ==
    /\ algorithm \in Algorithms
    /\ rep = 0
    /\ previous = None
    /\ bufferLevel = 0
    /\ delay = 0
    /\ downloads = 0
    /\ m_runningFastStart = TRUE
    /\ m_lastTarget = 0

Maximum(x, y) == IF x > y THEN x ELSE y
Minimum(x, y) == IF x < y THEN x ELSE y
Distance(x, y) == Maximum(x, y) - Minimum(x, y)
NextRate == Rate[Minimum(rep + 1, HighestRep)]

-------------------------------------------------------------------------------
(***************************************************************************)
(* Tobasco.  level is the buffer now, thr the average throughput, gap the  *)
(* time between the ends of the last two downloads.                        *)
(***************************************************************************)
MinimumBufferLevelObserved(gap) ==
    downloads = 0 \/ gap < Minimum(m_deltaBeta, segmentDuration)

FastStart(thr, gap) ==
    /\ m_runningFastStart /\ rep # HighestRep
    /\ MinimumBufferLevelObserved(gap)
    /\ 100 * Rate[rep] <= 75 * thr

\* m_a2, m_a3 and m_a4 in percent.
FastStartShare(level) == IF level < m_bMin THEN 33 ELSE IF level < m_bLow THEN 50 ELSE 75

\* Mutant: the level that is aimed at is taken for the delay.
DelayOf(level, target) == IF target > level THEN 0 ELSE target

\* The level that the delay is to lead to; a level above the present one means
\* no delay.
DelayTo(level, target) == IF target > level THEN 0 ELSE level - target

FastStartReply(level, thr) ==
    [rep |-> IF 100 * NextRate <= FastStartShare(level) * thr THEN rep + 1 ELSE rep,
     delay |-> IF level > m_bHigh THEN DelayTo(level, m_bHigh - segmentDuration) ELSE 0]

\* The highest representation, or the next one is more than m_a5 of thr.
NoHigher(thr) == rep = HighestRep \/ 100 * NextRate >= 90 * thr

Hold(level) ==
    [rep |-> rep, delay |-> DelayTo(level, Maximum(level - segmentDuration, m_bOpt))]

\* Case 5: a representation that the last transfer would have allowed, by the
\* sizes of the segment, but at most the next lower one.
Lower == 0..(rep - 1)

\* Mutant: the next higher representation whether or not there is one.
SteadyRepliesUnchecked(level, thr, transfer) ==
    {[rep |-> IF level >= m_bHigh THEN rep + 1 ELSE rep, delay |-> 0]}

\* The answers after the fast start.  The transfer of a segment that takes
\* longer than its duration was slower than its bitrate.
SteadyReplies(level, thr, transfer) ==
    IF level < m_bMin THEN {[rep |-> 0, delay |-> 0]}
    ELSE IF level < m_bLow
         THEN [rep : IF rep # 0 /\ transfer >= segmentDuration THEN Lower ELSE {rep},
               delay : {0}]
    ELSE IF NoHigher(thr) THEN {Hold(level)}
    ELSE {[rep |-> IF level < m_bHigh THEN rep ELSE rep + 1, delay |-> 0]}

\* transmissionStart is between the request and the end of the transfer.
Tobasco(level, thr, transfer, gap) ==
    IF FastStart(thr, gap) THEN {FastStartReply(level, thr)}
    ELSE UNION {SteadyReplies(level, thr, t) : t \in 0..transfer}

-------------------------------------------------------------------------------
(***************************************************************************)
(* Festive.  thr is the harmonic mean of the last throughputs.             *)
(***************************************************************************)
Decrease(thr) == rep > 0 /\ 100 * Rate[rep] > 85 * thr

Increase(thr) ==
    rep < HighestRep /\ ~Decrease(thr) /\ previous = rep /\ Rate[rep + 1] <= thr

\* The scores, their common denominator multiplied out.  Every earlier segment
\* began to play before now, so that numberOfSwitches is 0, and the stability
\* scores are 1 and 2.
StaysByScore(ref, thr) ==
    LET m == Minimum(thr, Rate[ref])
    IN  12 * (Distance(Rate[rep], m) - Distance(Rate[ref], m)) < m

FestiveRep(thr) ==
    LET ref == IF Decrease(thr) THEN rep - 1 ELSE IF Increase(thr) THEN rep + 1 ELSE rep
    IN  IF ref = rep \/ StaysByScore(ref, thr) THEN rep ELSE ref

\* Mutant: the delay is half of what exceeds the level aimed at.
FestiveDelayHalf(level, randBuf) == IF level > randBuf THEN (level - randBuf) \div 2 ELSE 0

FestiveDelay(level, randBuf) == IF level > randBuf THEN level - randBuf ELSE 0

Festive(level, thr) ==
    [rep : {FestiveRep(thr)},
     delay : {FestiveDelay(level, randBuf) :
                randBuf \in (m_targetBuf - segmentDuration)..(m_targetBuf + segmentDuration)}]

-------------------------------------------------------------------------------
(***************************************************************************)
(* Panda.  share is smoothBandwidthShare.                                  *)
(***************************************************************************)
Megabits(r) == (Rate[r] \div Mega) * Mega

\* percent of share, less m_omega, is what the bitrate may be.
FindLargest(share, percent) ==
    Max({0} \cup {r \in Reps : 100 * Megabits(r) <= percent * share - 30 * Mega})

PandaRep(share) ==
    LET rUp == FindLargest(share, 85)
        rDown == FindLargest(share, 100)
    IN  IF Rate[rep] < Rate[rUp] THEN rUp
        ELSE IF Rate[rep] <= Rate[rDown] THEN rep ELSE rDown

Panda(share, transfer) ==
    {[rep |-> PandaRep(share),
      delay |-> IF transfer < m_lastTarget THEN m_lastTarget - transfer ELSE 0]}

-------------------------------------------------------------------------------
\* SegmentReceivedHandle: what is left of the buffer when a download ends.
LevelOld(gap) == Maximum(bufferLevel - gap, 0)

\* The answer of GetNextRep is taken over by RequestRepIndex.  Controller ignores
\* the delay in state downloading, which is entered when the buffer is empty.
Request(answer, level) ==
    /\ rep' = answer.rep
    /\ previous' = rep
    /\ bufferLevel' = level
    /\ delay' \in IF level = segmentDuration THEN {answer.delay, 0} ELSE {answer.delay}
    /\ downloads' = Minimum(downloads + 1, 2)
    /\ UNCHANGED algorithm

TobascoNext(transfer, thr) ==
    LET gap == delay + transfer
        level == LevelOld(gap) + segmentDuration
    IN  /\ algorithm = "tobasco"
        /\ \E answer \in Tobasco(level, thr, transfer, gap) : Request(answer, level)
        /\ m_runningFastStart' = FastStart(thr, gap)
        /\ UNCHANGED m_lastTarget

FestiveNext(transfer, thr) ==
    LET level == LevelOld(delay + transfer) + segmentDuration
    IN  /\ algorithm = "festive"
        /\ \E answer \in Festive(level, thr) : Request(answer, level)
        /\ UNCHANGED <<m_runningFastStart, m_lastTarget>>

PandaNext(transfer, share) ==
    LET level == LevelOld(delay + transfer) + segmentDuration
    IN  /\ algorithm = "panda" /\ level <= MaxLevel
        /\ \E answer \in Panda(share, transfer) : Request(answer, level)
        /\ m_lastTarget' \in Targets
        /\ UNCHANGED m_runningFastStart

Next ==
    \E transfer \in Transfers :
        \/ \E thr \in Estimates : TobascoNext(transfer, thr)
        \/ \E thr \in Estimates : FestiveNext(transfer, thr)
        \/ \E share \in Estimates : PandaNext(transfer, share)

Spec == Init /\ [][Next]_vars
-------------------------------------------------------------------------------
\* The representation exists (the assertion of RequestRepIndex), and no delay is
\* negative.
TypeOK ==
    /\ algorithm \in Algorithms
    /\ rep \in Reps /\ previous \in Reps \cup {None}
    /\ bufferLevel \in Nat /\ delay \in Nat
    /\ downloads \in 0..2
    /\ m_runningFastStart \in BOOLEAN
    /\ m_lastTarget \in Nat

\* Tobasco never puts a request off so long that the buffer falls below m_bLow
\* while the client waits.
DelayKeepsBuffer ==
    algorithm = "tobasco" /\ delay > 0 => bufferLevel - delay >= m_bLow

\* The buffer does not grow without bound, however fast the network is: Tobasco
\* and Festive hold the requests back.
BufferBounded ==
    /\ algorithm = "tobasco" => bufferLevel <= m_bHigh + (HighestRep + 1) * segmentDuration
    /\ algorithm = "festive" => bufferLevel <= m_targetBuf + 2 * segmentDuration
===============================================================================
