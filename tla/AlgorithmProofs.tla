---------------------------- MODULE AlgorithmProofs ----------------------------
(***************************************************************************)
(* The algorithms that stand alone: the adaptation of the clients and the  *)
(* placing of the drones, with the genetic search.                         *)
(*                                                                         *)
(* What holds of the adaptation algorithms for every set of bitrates, any  *)
(* duration of the segments, any levels and whatever the network does: the *)
(* representation answered exists, Tobasco's delay leaves the buffer       *)
(* filled, and the buffer is bounded.                                      *)
(*                                                                         *)
(* The bound on the buffer is not inductive.  What is bounded is what a    *)
(* delay leaves of the buffer (Left); Tobasco may ask for the next segment *)
(* at once although the buffer is above m_bHigh, but answers with a higher *)
(* representation each time, so that the number of representations bounds  *)
(* how often it can.                                                       *)
(*                                                                         *)
(* The modules of the drones share no state with Adaptation; what they     *)
(* need is short, and each has an inductive invariant of its own.          *)
(***************************************************************************)
EXTENDS Adaptation, GeneticPlacement, UavPlacement, SumTheorems, SequenceTheorems, FunctionTheorems

\* What the buffer holds when the delay is over.
Left == bufferLevel - delay

\* Every step above m_bHigh without a delay has raised the representation.
LeftBounded ==
    /\ algorithm = "tobasco" => Left <= m_bHigh + rep * segmentDuration
    /\ algorithm = "festive" => Left <= m_targetBuf + segmentDuration

IInv == TypeOK /\ DelayKeepsBuffer /\ LeftBounded /\ BufferBounded

USE DEF Reps, None

-------------------------------------------------------------------------------
(***************************************************************************)
(* The answers of the algorithms.                                          *)
(***************************************************************************)

\* An integer is one of two; the larger is at least both.
LEMMA MaximumIs ==
    ASSUME NEW x \in Int, NEW y \in Int
    PROVE  /\ Maximum(x, y) \in {x, y} /\ Maximum(x, y) >= x /\ Maximum(x, y) >= y
           /\ Minimum(x, y) \in {x, y} /\ Minimum(x, y) <= x /\ Minimum(x, y) <= y
  BY DEF Maximum, Minimum

\* A delay that leads to a level never leads below it.
LEMMA DelayToIs ==
    ASSUME NEW level \in Nat, NEW target \in Int
    PROVE  /\ target >= 0 => DelayTo(level, target) \in Nat
           /\ DelayTo(level, target) > 0 => level - DelayTo(level, target) = target
           /\ target <= level => level - DelayTo(level, target) = target
           /\ target > level => DelayTo(level, target) = 0
  BY DEF DelayTo

\* What Tobasco answers: a representation that exists and a delay that leaves at
\* least m_bLow.  What is left of the buffer is at most m_bHigh, or one segment
\* less than there was, or else the representation is the next higher one.
Fits(level, answer) ==
    /\ answer.rep \in Reps /\ answer.delay \in Nat
    /\ answer.delay > 0 => level - answer.delay >= m_bLow
    /\ \/ level - answer.delay <= m_bHigh
       \/ answer.rep = rep /\ level - answer.delay = level - segmentDuration
       \/ answer.rep = rep + 1 /\ answer.delay = 0

\* The fast start ends at the highest representation, and its delay leaves one
\* segment less than m_bHigh.
LEMMA FastStartFits ==
    ASSUME TypeOK, NEW level \in Nat, NEW thr, NEW gap, FastStart(thr, gap)
    PROVE  Fits(level, FastStartReply(level, thr))
  <1> DEFINE answer == FastStartReply(level, thr)
  <1> SUFFICES Fits(level, answer)
    OBVIOUS
  <1>1. rep \in Reps /\ rep # HighestRep /\ HighestRep \in Nat
    BY RatesAssumption DEF TypeOK, FastStart
  <1>2. answer.rep \in {rep, rep + 1}
    BY DEF FastStartReply
  <1>3. m_bHigh \in Nat /\ segmentDuration \in Nat /\ m_bLow \in Nat
        /\ m_bLow + segmentDuration <= m_bHigh
    BY LevelsAssumption, TimesAssumption
  <1>4. CASE level > m_bHigh
    <2> DEFINE target == m_bHigh - segmentDuration
    <2>1. answer.delay = DelayTo(level, target)
      BY <1>4 DEF FastStartReply
    <2>2. target \in Int /\ target >= 0 /\ target <= level /\ target >= m_bLow /\ target <= m_bHigh
      BY <1>3, <1>4
    <2>3. answer.delay \in Nat /\ level - answer.delay = target
      <3> HIDE DEF target, answer
      <3> QED BY <2>1, <2>2, DelayToIs
    <2> HIDE DEF target, answer
    <2> QED BY <1>1, <1>2, <1>3, <2>2, <2>3 DEF Fits
  <1>5. CASE level <= m_bHigh
    <2>1. answer.delay = 0
      BY <1>5, <1>3 DEF FastStartReply
    <2> HIDE DEF answer
    <2> QED BY <1>1, <1>2, <1>3, <1>5, <2>1 DEF Fits
  <1> QED BY <1>3, <1>4, <1>5

\* After the fast start.
LEMMA SteadyFits ==
    ASSUME TypeOK, NEW level \in Nat, NEW thr, NEW transfer,
           NEW answer \in SteadyReplies(level, thr, transfer)
    PROVE  Fits(level, answer)
  <1>1. rep \in Reps /\ HighestRep \in Nat
    BY RatesAssumption DEF TypeOK
  <1>2. /\ m_bHigh \in Nat /\ segmentDuration \in Nat /\ m_bLow \in Nat /\ m_bMin \in Nat
        /\ m_bOpt \in Nat /\ m_bMin <= m_bLow /\ m_bLow <= m_bOpt /\ m_bOpt <= m_bHigh
    BY LevelsAssumption, TimesAssumption
  <1>3. CASE level < m_bMin
    <2>1. answer.rep = 0 /\ answer.delay = 0
      BY <1>3 DEF SteadyReplies
    <2> QED BY <1>1, <1>2, <1>3, <2>1 DEF Fits
  <1>4. CASE ~(level < m_bMin) /\ level < m_bLow
    <2>1. answer.rep \in Lower \cup {rep} /\ answer.delay = 0
      BY <1>4 DEF SteadyReplies
    <2>2. answer.rep \in Reps
      BY <1>1, <2>1 DEF Lower
    <2> QED BY <1>2, <1>4, <2>1, <2>2 DEF Fits
  <1>5. CASE level >= m_bLow /\ NoHigher(thr)
    <2> DEFINE target == Maximum(level - segmentDuration, m_bOpt)
    <2>1. answer = Hold(level)
      BY <1>2, <1>5 DEF SteadyReplies
    <2>2. answer.rep = rep /\ answer.delay = DelayTo(level, target)
      BY <2>1 DEF Hold
    <2>3. target \in {level - segmentDuration, m_bOpt} /\ target >= m_bOpt
          /\ target >= level - segmentDuration
      BY <1>2, MaximumIs
    <2> HIDE DEF target
    <2>4. target \in Int /\ target >= 0 /\ target >= m_bLow
      BY <1>2, <2>3
    <2>5. /\ answer.delay \in Nat
          /\ answer.delay > 0 => level - answer.delay = target
          /\ target <= level => level - answer.delay = target
          /\ target > level => answer.delay = 0
      BY <2>2, <2>4, DelayToIs
    <2> QED BY <1>1, <1>2, <2>2, <2>3, <2>4, <2>5 DEF Fits
  <1>6. CASE level >= m_bLow /\ ~NoHigher(thr)
    <2>1. answer = [rep |-> IF level < m_bHigh THEN rep ELSE rep + 1, delay |-> 0]
      BY <1>2, <1>6 DEF SteadyReplies
    <2>2. answer.rep = (IF level < m_bHigh THEN rep ELSE rep + 1) /\ answer.delay = 0
      BY <2>1
    <2>3. rep # HighestRep
      BY <1>6 DEF NoHigher
    <2> QED BY <1>1, <1>2, <2>2, <2>3 DEF Fits
  <1> QED BY <1>2, <1>3, <1>4, <1>5, <1>6

\* Whichever of its cases answers, Tobasco answers as Fits says.
LEMMA TobascoFits ==
    ASSUME TypeOK, NEW level \in Nat, NEW thr, NEW transfer, NEW gap,
           NEW answer \in Tobasco(level, thr, transfer, gap)
    PROVE  Fits(level, answer)
  <1>1. CASE FastStart(thr, gap)
    <2>1. answer = FastStartReply(level, thr)
      BY <1>1 DEF Tobasco
    <2> QED BY <1>1, <2>1, FastStartFits
  <1>2. CASE ~FastStart(thr, gap)
    <2>1. PICK t \in 0..transfer : answer \in SteadyReplies(level, thr, t)
      BY <1>2 DEF Tobasco
    <2> QED BY <2>1, SteadyFits
  <1> QED BY <1>1, <1>2

\* Festive's answer: a neighbouring representation, and what is left is at most
\* the largest level that the random one can be.
LEMMA FestiveFits ==
    ASSUME TypeOK, NEW level \in Nat, NEW thr, NEW answer \in Festive(level, thr)
    PROVE  /\ answer.rep \in Reps /\ answer.delay \in Nat
           /\ level - answer.delay <= m_targetBuf + segmentDuration
  <1>1. rep \in Reps /\ HighestRep \in Nat
    BY RatesAssumption DEF TypeOK
  <1>2. FestiveRep(thr) \in Reps
    BY <1>1 DEF FestiveRep, Decrease, Increase
  <1>3. PICK randBuf \in (m_targetBuf - segmentDuration)..(m_targetBuf + segmentDuration) :
            answer.rep = FestiveRep(thr) /\ answer.delay = FestiveDelay(level, randBuf)
    BY DEF Festive
  <1>4. m_targetBuf \in Nat /\ segmentDuration \in Nat
    BY TimesAssumption
  <1>5. answer.delay \in Nat /\ level - answer.delay <= randBuf
    BY <1>3, <1>4 DEF FestiveDelay
  <1> QED BY <1>2, <1>3, <1>4, <1>5

\* The largest representation that a share allows exists: 0 is always allowed.
LEMMA FindLargestIs ==
    ASSUME NEW share, NEW percent
    PROVE  FindLargest(share, percent) \in Reps
  <1> DEFINE S == {0} \cup {r \in Reps : 100 * Megabits(r) <= percent * share - 30 * Mega}
             Less == {HighestRep - r : r \in S}
  <1>1. HighestRep \in Nat
    BY RatesAssumption
  <1>2. S \subseteq Reps /\ S # {}
    BY <1>1
  <1> HIDE DEF S
  <1>3. Less \in SUBSET Nat /\ Less # {}
    <2>1. ASSUME NEW r \in S PROVE HighestRep - r \in Nat
      BY <1>1, <1>2
    <2> QED BY <1>2, <2>1, Zenon
  <1>4. PICK m \in Less : \A k \in Less : m <= k
    BY <1>3, LeastElement
  <1>5. \E x \in S : \A y \in S : y <= x
    <2>1. PICK x \in S : m = HighestRep - x
      BY <1>4
    <2>2. \A y \in S : HighestRep - x <= HighestRep - y
      BY <1>4, <2>1
    <2> QED BY <1>1, <1>2, <2>2
  <1>6. \E x \in S : \A y \in S : x >= y
    BY <1>1, <1>2, <1>5
  <1>7. Max(S) \in S
    BY <1>6 DEF Max
  <1>8. FindLargest(share, percent) = Max(S)
    BY DEF FindLargest, S
  <1> QED BY <1>2, <1>7, <1>8

\* Panda's answer is one of three representations that exist.
LEMMA PandaFits ==
    ASSUME TypeOK, NEW share, NEW transfer \in Nat, NEW answer \in Panda(share, transfer)
    PROVE  answer.rep \in Reps /\ answer.delay \in Nat
  <1>1. answer.rep = PandaRep(share)
        /\ answer.delay = (IF transfer < m_lastTarget THEN m_lastTarget - transfer ELSE 0)
    BY DEF Panda
  <1>2. PandaRep(share) \in Reps
    <2>1. PandaRep(share) \in {FindLargest(share, 85), rep, FindLargest(share, 100)}
      BY DEF PandaRep
    <2> QED BY <2>1, FindLargestIs DEF TypeOK
  <1> QED BY <1>1, <1>2 DEF TypeOK

-------------------------------------------------------------------------------
(***************************************************************************)
(* The inductive invariant.                                                *)
(***************************************************************************)

\* The product of the bound: its terms, one of them at a time.
LEMMA Products ==
    ASSUME NEW r \in Reps
    PROVE  /\ r * segmentDuration \in Nat
           /\ (r + 1) * segmentDuration = r * segmentDuration + segmentDuration
           /\ r * segmentDuration <= HighestRep * segmentDuration
           /\ HighestRep * segmentDuration \in Nat
           /\ (HighestRep + 1) * segmentDuration = HighestRep * segmentDuration + segmentDuration
  <1>1. r \in Nat /\ HighestRep \in Nat /\ HighestRep - r \in Nat /\ segmentDuration \in Nat
    BY RatesAssumption, TimesAssumption
  <1>2. (HighestRep - r) * segmentDuration \in Nat
    BY <1>1, SMT
  <1>3. (HighestRep - r) * segmentDuration = HighestRep * segmentDuration - r * segmentDuration
    BY <1>1, SMT
  <1>4. r * segmentDuration \in Nat /\ HighestRep * segmentDuration \in Nat
    BY <1>1, SMT
  <1>5. \A x \in Nat : (x + 1) * segmentDuration = x * segmentDuration + segmentDuration
    BY <1>1, SMT
  <1> QED BY <1>1, <1>2, <1>3, <1>4, <1>5

\* A download leaves at most what the delay left, and adds a segment.
LEMMA LevelIs ==
    ASSUME TypeOK, NEW transfer \in Nat
    PROVE  /\ LevelOld(delay + transfer) + segmentDuration \in Nat
           /\ \/ LevelOld(delay + transfer) + segmentDuration = segmentDuration
              \/ LevelOld(delay + transfer) + segmentDuration <= Left + segmentDuration
  <1>1. bufferLevel \in Nat /\ delay \in Nat /\ segmentDuration \in Nat
    BY TimesAssumption DEF TypeOK
  <1> QED BY <1>1 DEF LevelOld, Maximum, Left

\* What every answer that is taken over does to the types.
LEMMA RequestTypes ==
    ASSUME TypeOK, NEW level \in Nat, NEW answer, answer.rep \in Reps, answer.delay \in Nat,
           Request(answer, level), m_runningFastStart' \in BOOLEAN, m_lastTarget' \in Nat
    PROVE  TypeOK'
  <1>1. delay' \in Nat
    BY DEF Request
  <1>2. downloads' \in 0..2
    BY DEF Request, TypeOK, Minimum
  <1> QED BY <1>1, <1>2 DEF Request, TypeOK

\* A download with Tobasco keeps the invariant: what is left grows by a segment only
\* when the representation goes up.
LEMMA TobascoStep ==
    ASSUME IInv, NEW transfer \in Nat, NEW thr, TobascoNext(transfer, thr)
    PROVE  IInv'
  <1> DEFINE gap == delay + transfer
  <1>1. PICK level : level = LevelOld(gap) + segmentDuration
    OBVIOUS
  <1>2. PICK answer \in Tobasco(level, thr, transfer, gap) : Request(answer, level)
    BY <1>1 DEF TobascoNext
  <1>3. algorithm = "tobasco" /\ algorithm' = "tobasco"
    BY <1>2 DEF TobascoNext, Request
  <1>4. TypeOK
    BY DEF IInv
  <1>5. level \in Nat /\ (level = segmentDuration \/ level <= Left + segmentDuration)
    BY <1>1, <1>4, LevelIs
  <1>6. Fits(level, answer)
    BY <1>4, <1>5, TobascoFits
  <1>7. TypeOK'
    <2>1. m_runningFastStart' \in BOOLEAN
      BY Zenon DEF TobascoNext, FastStart
    <2>2. m_lastTarget' \in Nat
      BY <1>4 DEF TobascoNext, TypeOK
    <2> QED BY <1>2, <1>4, <1>5, <1>6, <2>1, <2>2, RequestTypes DEF Fits
  <1>8. /\ bufferLevel' = level /\ rep' = answer.rep
        /\ delay' = answer.delay \/ (delay' = 0 /\ level = segmentDuration)
    BY <1>2 DEF Request
  <1>9. DelayKeepsBuffer'
    BY <1>6, <1>8 DEF Fits, DelayKeepsBuffer
  <1>10. /\ rep \in Reps /\ rep' \in Reps /\ answer.delay \in Nat /\ segmentDuration \in Nat
         /\ Left \in Int /\ m_bHigh \in Nat /\ m_bLow \in Nat
         /\ m_bLow + segmentDuration <= m_bHigh
         /\ Left <= m_bHigh + rep * segmentDuration
    BY <1>3, <1>4, <1>6, <1>7, TimesAssumption, LevelsAssumption
    DEF TypeOK, IInv, LeftBounded, Fits, Left
  <1>11. PICK p, q, h : /\ p = rep * segmentDuration /\ q = rep' * segmentDuration
                        /\ h = HighestRep * segmentDuration
    OBVIOUS
  <1>12. /\ p \in Nat /\ q \in Nat /\ h \in Nat /\ p <= h
         /\ (HighestRep + 1) * segmentDuration = h + segmentDuration
         /\ rep' = rep + 1 => q = p + segmentDuration
         /\ rep' = rep => q = p
    <2>1. \A r \in Reps :
             /\ r * segmentDuration \in Nat
             /\ (r + 1) * segmentDuration = r * segmentDuration + segmentDuration
             /\ r * segmentDuration <= HighestRep * segmentDuration
             /\ HighestRep * segmentDuration \in Nat
             /\ (HighestRep + 1) * segmentDuration = HighestRep * segmentDuration + segmentDuration
      BY Products
    <2>2. rep' = rep + 1 => q = (rep + 1) * segmentDuration
      BY <1>11
    <2> QED BY <1>10, <1>11, <2>1, <2>2
  <1>13. level <= m_bHigh + p + segmentDuration
    BY <1>5, <1>10, <1>11, <1>12
  <1>14. LeftBounded'
    <2> SUFFICES level - delay' <= m_bHigh + q
      BY <1>3, <1>8, <1>11 DEF LeftBounded, Left
    <2>1. CASE delay' = 0 /\ level = segmentDuration
      BY <2>1, <1>10, <1>12
    <2>2. CASE delay' = answer.delay
      BY <2>2, <1>5, <1>6, <1>8, <1>10, <1>12, <1>13 DEF Fits
    <2> QED BY <1>8, <2>1, <2>2
  <1>15. BufferBounded'
    <2>1. level <= m_bHigh + (HighestRep + 1) * segmentDuration
      BY <1>5, <1>10, <1>12, <1>13
    <2> QED BY <1>3, <1>8, <2>1 DEF BufferBounded
  <1> QED BY <1>7, <1>9, <1>14, <1>15 DEF IInv

\* A download with Festive keeps it: the delay cuts the buffer to the random level.
LEMMA FestiveStep ==
    ASSUME IInv, NEW transfer \in Nat, NEW thr, FestiveNext(transfer, thr)
    PROVE  IInv'
  <1>1. PICK level : level = LevelOld(delay + transfer) + segmentDuration
    OBVIOUS
  <1>2. PICK answer \in Festive(level, thr) : Request(answer, level)
    BY <1>1 DEF FestiveNext
  <1>3. algorithm = "festive" /\ algorithm' = "festive"
    BY <1>2 DEF FestiveNext, Request
  <1>4. TypeOK
    BY DEF IInv
  <1>5. level \in Nat /\ (level = segmentDuration \/ level <= Left + segmentDuration)
    BY <1>1, <1>4, LevelIs
  <1>6. /\ answer.rep \in Reps /\ answer.delay \in Nat
        /\ level - answer.delay <= m_targetBuf + segmentDuration
    BY <1>4, <1>5, FestiveFits
  <1>7. TypeOK'
    <2>1. m_runningFastStart' \in BOOLEAN
      BY <1>4, Zenon DEF FestiveNext, TypeOK
    <2>2. m_lastTarget' \in Nat
      BY <1>4 DEF FestiveNext, TypeOK
    <2> QED BY <1>2, <1>4, <1>5, <1>6, <2>1, <2>2, RequestTypes
  <1>8. /\ bufferLevel' = level
        /\ delay' = answer.delay \/ (delay' = 0 /\ level = segmentDuration)
    BY <1>2 DEF Request
  <1>9. /\ segmentDuration \in Nat /\ m_targetBuf \in Nat /\ Left \in Int
        /\ Left <= m_targetBuf + segmentDuration
    BY <1>3, <1>4, TimesAssumption DEF TypeOK, IInv, LeftBounded, Left
  <1>10. level - delay' <= m_targetBuf + segmentDuration
    BY <1>5, <1>6, <1>8, <1>9
  <1>11. level <= m_targetBuf + 2 * segmentDuration
    BY <1>5, <1>9
  <1>12. DelayKeepsBuffer' /\ LeftBounded' /\ BufferBounded'
    BY <1>3, <1>8, <1>10, <1>11 DEF DelayKeepsBuffer, LeftBounded, BufferBounded, Left
  <1> QED BY <1>7, <1>12 DEF IInv

\* A download with Panda keeps it: only the types say anything of Panda.
LEMMA PandaStep ==
    ASSUME IInv, NEW transfer \in Nat, NEW share, PandaNext(transfer, share)
    PROVE  IInv'
  <1>1. PICK level : level = LevelOld(delay + transfer) + segmentDuration
    OBVIOUS
  <1>2. PICK answer \in Panda(share, transfer) : Request(answer, level)
    BY <1>1 DEF PandaNext
  <1>3. algorithm = "panda" /\ algorithm' = "panda"
    BY <1>2 DEF PandaNext, Request
  <1>4. TypeOK
    BY DEF IInv
  <1>5. level \in Nat
    BY <1>1, <1>4, LevelIs
  <1>6. answer.rep \in Reps /\ answer.delay \in Nat
    BY <1>4, PandaFits
  <1>7. m_runningFastStart' \in BOOLEAN
    BY <1>4, Zenon DEF PandaNext, TypeOK
  <1>8. m_lastTarget' \in Nat
    BY TimesAssumption DEF PandaNext
  <1>9. TypeOK'
    BY <1>2, <1>4, <1>5, <1>6, <1>7, <1>8, RequestTypes
  <1>10. DelayKeepsBuffer' /\ LeftBounded' /\ BufferBounded'
    BY <1>3 DEF DelayKeepsBuffer, LeftBounded, BufferBounded
  <1> QED BY <1>9, <1>10 DEF IInv

-------------------------------------------------------------------------------
\* The inductive invariant holds of every session of every algorithm.
THEOREM AdaptationInvariance == Spec => []IInv
  <1>1. Init => IInv
    <2> SUFFICES ASSUME Init PROVE IInv
      OBVIOUS
    <2>1. TypeOK
      BY RatesAssumption DEF Init, TypeOK
    <2>2. DelayKeepsBuffer
      BY DEF Init, DelayKeepsBuffer
    <2>3. 0 \in Reps
      BY RatesAssumption
    <2>4. /\ 0 * segmentDuration \in Nat /\ HighestRep * segmentDuration \in Nat
          /\ (HighestRep + 1) * segmentDuration = HighestRep * segmentDuration + segmentDuration
      BY <2>3, Products
    <2>5. /\ segmentDuration \in Nat /\ m_targetBuf \in Nat /\ m_bHigh \in Nat
          /\ rep = 0 /\ bufferLevel = 0 /\ delay = 0
      BY TimesAssumption, LevelsAssumption DEF Init
    <2>6. LeftBounded
      BY <2>4, <2>5 DEF LeftBounded, Left
    <2>7. BufferBounded
      BY <2>4, <2>5 DEF BufferBounded
    <2> QED BY <2>1, <2>2, <2>6, <2>7 DEF IInv
  <1>2. IInv /\ [Next]_vars => IInv'
    <2> SUFFICES ASSUME IInv, [Next]_vars PROVE IInv'
      OBVIOUS
    <2>1. CASE Next
      <3>1. PICK transfer \in Transfers :
                \/ \E thr \in Estimates : TobascoNext(transfer, thr)
                \/ \E thr \in Estimates : FestiveNext(transfer, thr)
                \/ \E share \in Estimates : PandaNext(transfer, share)
        BY <2>1 DEF Next
      <3>2. transfer \in Nat
        BY TimesAssumption
      <3> QED BY <3>1, <3>2, TobascoStep, FestiveStep, PandaStep
    <2>2. CASE UNCHANGED vars
      BY <2>2 DEF vars, IInv, TypeOK, DelayKeepsBuffer, LeftBounded, BufferBounded, Left
    <2> QED BY <2>1, <2>2
  <1> QED BY <1>1, <1>2, PTL DEF Spec

\* GetNextRep answers with a representation that exists, which RequestRepIndex
\* asserts, and never with a negative delay.
THEOREM AdaptationTypeCorrect == Spec => []TypeOK
  <1>1. IInv => TypeOK
    BY DEF IInv
  <1> QED BY <1>1, AdaptationInvariance, PTL

\* Tobasco's delay never lets the buffer fall below m_bLow.
THEOREM TobascoDelay == Spec => []DelayKeepsBuffer
  <1>1. IInv => DelayKeepsBuffer
    BY DEF IInv
  <1> QED BY <1>1, AdaptationInvariance, PTL

\* With Tobasco and with Festive the buffer is bounded, whatever the throughput.
THEOREM BufferBound == Spec => []BufferBounded
  <1>1. IInv => BufferBounded
    BY DEF IInv
  <1> QED BY <1>1, AdaptationInvariance, PTL

-------------------------------------------------------------------------------
(***************************************************************************)
(* The genetic search.                                                     *)
(***************************************************************************)
\* The first solution is as good as all that were sorted, and nothing is written
\* before it is final.
BestFirst ==
    /\ solutions \in [1..NumSolutions -> Scores]
    /\ seen \subseteq Scores
    /\ \A x \in seen : x <= solutions[1]
    /\ output = IF call = "done" THEN {solutions[1]} ELSE {}

\* A list in which no element is larger than the one before it begins with the
\* largest.
LEMMA FirstIsLargest ==
    ASSUME NEW n \in Nat, NEW f, \A k \in 1..n : f[k] \in Int,
           \A k \in 1..(n - 1) : f[k] >= f[k + 1]
    PROVE  \A k \in 1..n : f[k] <= f[1]
  <1> DEFINE P == {m \in Nat : m + 1 <= n => f[m + 1] <= f[1]}
  <1>1. 0 \in P
    BY DEF P
  <1>2. ASSUME NEW m \in Nat, m \in P PROVE m + 1 \in P
    <2> SUFFICES ASSUME (m + 1) + 1 <= n PROVE f[(m + 1) + 1] <= f[1]
      OBVIOUS
    <2>1. f[m + 1] <= f[1]
      BY <1>2
    <2>2. m + 1 \in 1..(n - 1) /\ m + 1 \in 1..n /\ (m + 1) + 1 \in 1..n /\ 1 \in 1..n
      OBVIOUS
    <2>3. f[m + 1] >= f[(m + 1) + 1]
      BY <2>2
    <2>4. f[m + 1] \in Int /\ f[(m + 1) + 1] \in Int /\ f[1] \in Int
      BY <2>2
    <2> QED BY <2>1, <2>3, <2>4
  <1>3. P \in SUBSET Nat
    OBVIOUS
  <1> HIDE DEF P
  <1>4. \A m \in Nat : m \in P
    BY <1>1, <1>2, <1>3, SetInduction
  <1>5. ASSUME NEW k \in 1..n PROVE f[k] <= f[1]
    <2>1. k - 1 \in P
      BY <1>4
    <2>2. (k - 1) + 1 = k /\ (k - 1) + 1 <= n
      OBVIOUS
    <2> QED BY <2>1, <2>2 DEF P
  <1> QED BY <1>5

\* sort_solutions brings the largest to the front.
LEMMA SortKeepsBest ==
    ASSUME BestFirst, sort_solutions
    PROVE  BestFirst'
  <1> USE NumSolutionsAssumption, ScoresAssumption DEF Indices
  <1>1. PICK p \in Bijection(Indices, Indices) :
            solutions' = [k \in Indices |-> solutions[p[k]]]
    BY DEF sort_solutions
  <1>2. p \in [Indices -> Indices] /\ \A j \in Indices : \E k \in Indices : p[k] = j
    BY DEF Bijection, Surjection, Indices
  <1>3. solutions' = [k \in Indices |-> solutions[p[k]]]
    BY <1>1 DEF Indices
  <1>4. 1 \in Indices /\ \A k \in Indices : solutions[k] \in Scores /\ solutions[k] \in Int
    <2>1. 1 \in Indices
      OBVIOUS
    <2>2. solutions \in [Indices -> Scores]
      BY DEF BestFirst
    <2> HIDE DEF Indices
    <2>3. \A k \in Indices : solutions[k] \in Scores
      BY <2>2
    <2> QED BY <2>1, <2>3
  <1> HIDE DEF Indices
  <1>5. solutions' \in [Indices -> Scores]
    BY <1>2, <1>3, <1>4
  <1>6. PICK f : f = solutions'
    OBVIOUS
  <1>7. \A k \in 1..NumSolutions : f[k] <= f[1]
    <2>1. \A k \in 1..NumSolutions : f[k] \in Int
      BY <1>5, <1>6 DEF Indices
    <2>2. \A k \in 1..(NumSolutions - 1) : f[k] >= f[k + 1]
      BY <1>6 DEF sort_solutions
    <2> QED BY <2>1, <2>2, FirstIsLargest
  <1>8. \A j \in Indices : solutions[j] <= solutions'[1]
    <2> SUFFICES ASSUME NEW j \in Indices PROVE solutions[j] <= solutions'[1]
      OBVIOUS
    <2>1. PICK k \in Indices : p[k] = j
      BY <1>2
    <2>2. solutions'[k] = solutions[j]
      BY <1>3, <2>1
    <2> QED BY <1>6, <1>7, <2>2 DEF Indices
  <1>9. seen' = seen \cup {solutions[j] : j \in Indices}
    <2>1. DOMAIN solutions = Indices
      BY DEF BestFirst, Indices
    <2> QED BY <2>1 DEF sort_solutions, Range
  <1>10. seen' \subseteq Scores
    BY <1>4, <1>9 DEF BestFirst
  <1>11. ASSUME NEW x \in seen' PROVE x <= solutions'[1]
    <2>1. CASE x \in seen
      <3>1. x <= solutions[1] /\ solutions[1] <= solutions'[1]
        BY <1>4, <1>8, <2>1 DEF BestFirst
      <3>2. x \in Int /\ solutions[1] \in Int /\ solutions'[1] \in Int
        BY <1>4, <1>5, <1>10
      <3> QED BY <3>1, <3>2
    <2>2. CASE x \notin seen
      BY <1>8, <1>9, <2>2
    <2> QED BY <2>1, <2>2
  <1>12. output' = {} /\ call' = "mutate"
    BY DEF sort_solutions, BestFirst
  <1> QED BY <1>5, <1>10, <1>11, <1>12 DEF BestFirst, Indices

\* The steps that put other solutions in some places, never in the first.
LEMMA ReplaceKeepsBest ==
    ASSUME BestFirst, mutate \/ crossover \/ prune
    PROVE  BestFirst'
  <1> USE NumSolutionsAssumption DEF Indices
  <1>1. solutions \in [Indices -> Scores] /\ 1 \in Indices
    BY DEF BestFirst
  <1>2. UNCHANGED <<output, seen>> /\ call # "done" /\ call' # "done"
    BY DEF mutate, crossover, prune
  <1>3. solutions' \in [Indices -> Scores] /\ solutions'[1] = solutions[1]
    <2>1. CASE mutate
      <3>1. PICK S \in SUBSET (Indices \ {1}) : \E new \in [S -> Scores] :
                solutions' = [k \in Indices |-> IF k \in S THEN new[k] ELSE solutions[k]]
        BY <2>1 DEF mutate, Indices
      <3>2. PICK new \in [S -> Scores] :
                solutions' = [k \in Indices |-> IF k \in S THEN new[k] ELSE solutions[k]]
        BY <3>1
      <3> HIDE DEF Indices
      <3> QED BY <1>1, <3>1, <3>2
    <2>2. CASE crossover
      <3>1. PICK S \in SUBSET {k \in Indices : k % 2 = 1 /\ k > 1 /\ k < NumSolutions} :
                solutions' = [k \in Indices |-> IF k \in S THEN solutions[k + 1] ELSE solutions[k]]
        BY <2>2 DEF crossover, Indices
      <3>2. \A k \in S : k > 1 /\ k + 1 \in Indices
        BY <3>1
      <3>3. 1 \notin S
        BY <3>2
      <3> HIDE DEF Indices
      <3> QED BY <1>1, <3>1, <3>2, <3>3
    <2>3. CASE prune
      <3>1. PICK new \in [Pruned -> Scores] :
                solutions' = [k \in Indices |-> IF k \in Pruned THEN new[k] ELSE solutions[k]]
        BY <2>3 DEF prune, Indices
      <3>2. 1 \notin Pruned
        BY DEF Pruned
      <3> HIDE DEF Indices
      <3> QED BY <1>1, <3>1, <3>2
    <2> QED BY <2>1, <2>2, <2>3
  <1> QED BY <1>2, <1>3 DEF BestFirst

\* The best solution that was ever sorted is the one written for the drones,
\* for any number of solutions and of rounds.
THEOREM BestSolutionSurvives ==
    SearchSpec => []BestSurvives
  <1>1. SearchInit => BestFirst
    BY DEF SearchInit, Indices, BestFirst
  <1>2. BestFirst /\ [SearchNext]_searchVars => BestFirst'
    <2> SUFFICES ASSUME BestFirst, [SearchNext]_searchVars PROVE BestFirst'
      OBVIOUS
    <2>1. CASE sort_solutions
      BY <2>1, SortKeepsBest
    <2>2. CASE mutate \/ crossover \/ prune
      BY <2>2, ReplaceKeepsBest
    <2>3. CASE write
      BY <2>3 DEF write, BestFirst
    <2>4. CASE UNCHANGED searchVars
      BY <2>4 DEF searchVars, BestFirst
    <2> QED BY <2>1, <2>2, <2>3, <2>4 DEF SearchNext
  <1>3. BestFirst => BestSurvives
    BY DEF BestFirst, BestSurvives
  <1> QED BY <1>1, <1>2, <1>3, PTL DEF SearchSpec

-------------------------------------------------------------------------------
(***************************************************************************)
(* The placing of the drones.                                              *)
(***************************************************************************)
\* A file that a script of this run has written has a row for every drone, if
\* there are at least as many clusters.
FileLongEnough ==
    NumDrones <= Clusters /\ written =>
        Len(centroids) \in Nat /\ Len(centroids) >= NumDrones /\ ~wild

\* As many hot spots are served as drones are in use.
Paired ==
    /\ IsFiniteSet(drones_in_use) /\ IsFiniteSet(hot_spots_served)
    /\ Cardinality(drones_in_use) = Cardinality(hot_spots_served)

\* The rows of a file.
LEMMA Rows ==
    ASSUME NEW n \in Nat, NEW S, NEW file \in [1..n -> S]
    PROVE  Len(file) = n
  OBVIOUS

\* UAVManager reads past the end of the file that it finds only if no script of
\* this run has written it.
LEMMA ManagerReads ==
    ASSUME FileLongEnough, UAVManager
    PROVE  FileLongEnough'
  <1> USE NumDronesAssumption, ClustersAssumption
  <1> SUFFICES ASSUME NumDrones <= Clusters, written'
               PROVE  Len(centroids') \in Nat /\ Len(centroids') >= NumDrones /\ ~wild'
    BY DEF FileLongEnough
  <1>1. PICK file : file = centroids'
    OBVIOUS
  <1>2. wild' => Len(file) < NumDrones \/ (wild /\ file = <<>>)
    <2>1. \/ MoveAll(file)
          \/ MoveToHotSpots(file)
          \/ file = <<>> /\ UNCHANGED wild
      BY <1>1 DEF UAVManager
    <2>2. MoveAll(file) \/ MoveToHotSpots(file)
              => wild' = (Len(file) < NumDrones)
      BY DEF MoveAll, MoveToHotSpots
    <2> QED BY <2>1, <2>2
  <1>3. CASE UNCHANGED <<centroids, written>>
    <2>1. Len(file) \in Nat /\ Len(file) >= NumDrones /\ ~wild
      BY <1>1, <1>3 DEF FileLongEnough
    <2>2. ~(Len(file) < NumDrones)
      BY <2>1
    <2> QED BY <1>1, <1>2, <2>1, <2>2
  <1>4. CASE file \in IF uav_algorithm = "genetic" THEN Genetic ELSE Clustering
    <2>1. PICK n \in Nat : n >= NumDrones /\ file \in [1..n -> Places]
      BY <1>4 DEF Genetic, Drones, Clustering
    <2>2. Len(file) = n
      BY <2>1, Rows
    <2>3. file # <<>>
      BY <2>1, <2>2
    <2>4. Len(file) \in Nat /\ Len(file) >= NumDrones /\ ~(Len(file) < NumDrones)
      BY <2>1, <2>2
    <2> QED BY <1>1, <1>2, <2>3, <2>4
  <1> QED BY <1>1, <1>3, <1>4 DEF UAVManager

\* The drones assigned in an interval are as many as the hot spots they get.
LEMMA AssignedPaired ==
    ASSUME Paired, NEW closest, NEW A, A = Assigned(closest),
           drones_in_use' = drones_in_use \cup A,
           hot_spots_served' = hot_spots_served \cup {closest[d] : d \in A}
    PROVE  Paired'
  <1> USE NumDronesAssumption
  <1> DEFINE H == {closest[d] : d \in A}
             f == [d \in A |-> closest[d]]
  <1>1. /\ A \subseteq 1..NumDrones /\ A \cap drones_in_use = {}
        /\ \A d \in A : closest[d] \notin hot_spots_served
        /\ \A d \in A : \A e \in A : e < d => closest[e] # closest[d]
    BY DEF Assigned, Drones
  <1>2. IsFiniteSet(A)
    <2>1. IsFiniteSet(1..NumDrones)
      BY FS_Interval
    <2> QED BY <1>1, <2>1, FS_Subset
  <1>3. \A d \in A : \A e \in A : closest[d] = closest[e] => d = e
    BY <1>1
  <1>4. f \in Bijection(A, H)
    BY <1>3 DEF Bijection, Injection, Surjection, IsInjective
  <1>5. ExistsBijection(A, H)
    BY <1>4 DEF ExistsBijection
  <1> HIDE DEF H, f
  <1>6. IsFiniteSet(H) /\ Cardinality(H) = Cardinality(A)
    BY <1>2, <1>5, FS_Bijection
  <1>7. A \cap drones_in_use = {} /\ H \cap hot_spots_served = {}
    BY <1>1 DEF H
  <1>8. PICK D, S : D = drones_in_use /\ S = hot_spots_served
    OBVIOUS
  <1>9. IsFiniteSet(D) /\ IsFiniteSet(S) /\ Cardinality(D) = Cardinality(S)
    BY <1>8 DEF Paired
  <1>10. /\ Cardinality(A) \in Nat /\ Cardinality(D) \in Nat /\ Cardinality({}) = 0
         /\ IsFiniteSet(D \cup A) /\ IsFiniteSet(S \cup H)
    BY <1>2, <1>6, <1>9, FS_Union, FS_CardinalityType, FS_EmptySet
  <1>11. Cardinality(D \cup A) = Cardinality(D) + Cardinality(A) - Cardinality(D \cap A)
    BY <1>2, <1>9, FS_Union
  <1>12. Cardinality(S \cup H) = Cardinality(S) + Cardinality(H) - Cardinality(S \cap H)
    BY <1>6, <1>9, FS_Union
  <1>13. D \cap A = {} /\ S \cap H = {}
    BY <1>7, <1>8
  <1>14. Cardinality(D \cup A) = Cardinality(S \cup H)
    BY <1>6, <1>9, <1>10, <1>11, <1>12, <1>13
  <1>15. drones_in_use' = D \cup A /\ hot_spots_served' = S \cup H
    BY <1>8 DEF H
  <1> QED BY <1>10, <1>14, <1>15 DEF Paired

\* UAVManager gives a hot spot one drone and a drone one hot spot.
LEMMA ManagerPairs ==
    ASSUME Paired, UAVManager
    PROVE  Paired'
  <1>1. CASE UNCHANGED <<drones_in_use, hot_spots_served>>
    BY <1>1 DEF Paired
  <1>2. CASE MoveToHotSpots(centroids')
    <2>1. PICK closest :
             /\ drones_in_use' = drones_in_use \cup Assigned(closest)
             /\ hot_spots_served' =
                   hot_spots_served \cup {closest[d] : d \in Assigned(closest)}
      BY <1>2 DEF MoveToHotSpots
    <2>2. PICK A : A = Assigned(closest)
      OBVIOUS
    <2> QED BY <2>1, <2>2, AssignedPaired
  <1> QED BY <1>1, <1>2 DEF UAVManager, MoveAll

\* The management intervals keep both.
LEMMA ManagementInvariance ==
    ManagementSpec => [](FileLongEnough /\ Paired)
  <1>1. ManagementInit => FileLongEnough /\ Paired
    BY FS_EmptySet DEF ManagementInit, FileLongEnough, Paired
  <1>2. FileLongEnough /\ Paired /\ [ManagementNext]_managementVars => (FileLongEnough /\ Paired)'
    <2> SUFFICES ASSUME FileLongEnough, Paired, [ManagementNext]_managementVars
                 PROVE  FileLongEnough' /\ Paired'
      OBVIOUS
    <2>1. CASE ThroughputMonitor
      BY <2>1 DEF ThroughputMonitor, FileLongEnough, Paired
    <2>2. CASE UAVManager
      BY <2>2, ManagerReads, ManagerPairs
    <2>3. CASE just_a_monitor
      BY <2>3 DEF just_a_monitor, FileLongEnough, Paired
    <2>4. CASE UNCHANGED managementVars
      BY <2>4 DEF managementVars, FileLongEnough, Paired
    <2> QED BY <2>1, <2>2, <2>3, <2>4 DEF ManagementNext
  <1> QED BY <1>1, <1>2, PTL DEF ManagementSpec

\* Once a script of this run has written the centroids, none is read past the
\* end of the file again, however many scripts fail.
THEOREM CentersRead ==
    ManagementSpec => []ReadsInRange
  <1>1. FileLongEnough => ReadsInRange
    BY DEF FileLongEnough, ReadsInRange
  <1> QED BY <1>1, ManagementInvariance, PTL

\* A hot spot gets one drone and a drone one hot spot, whatever is read.
THEOREM DronesPaired ==
    ManagementSpec => []OneDronePerHotSpot
  <1>1. Paired => OneDronePerHotSpot
    BY DEF Paired, OneDronePerHotSpot
  <1> QED BY <1>1, ManagementInvariance, PTL
===============================================================================
