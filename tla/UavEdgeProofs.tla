----------------------------- MODULE UavEdgeProofs -----------------------------
(***************************************************************************)
(* The cell tables and the handover manager of the simulation, and that    *)
(* the cells its callbacks record are those the edge side assumes, for any *)
(* number of users, cells and failures and any received powers.            *)
(***************************************************************************)
EXTENDS UavEdge, SumTheorems

\* What the provers need of the constants.
LEMMA CellConstants ==
    /\ NumCells \in Nat /\ MaxRnti \in Nat /\ NoUser \notin Users
    /\ NoCell \notin Cells /\ Levels \in SUBSET Int
    /\ \A r \in 1..MaxRnti : r \in Rntis
    /\ \A r \in Rntis : r \in Nat /\ r # 0 /\ r <= MaxRnti
  BY NumCellsAssumption, BoundsAssumption, NoUserAssumption, LevelsAssumption
     DEF NoCell, Cells, Rntis

-------------------------------------------------------------------------------
(***************************************************************************)
(* The invariant.  What is true of the stack (the RNTIs a cell gives out   *)
(* are its users' alone), of the rows of the tables in every state of the  *)
(* radio, and of the requests that wait.                                   *)
(***************************************************************************)
Types ==
    /\ rrc \in [Users -> {"idle", "connected", "handover", "failed"}]
    /\ cell \in [Users -> Cells \cup {NoCell}]
    /\ rnti \in [Users -> 0..MaxRnti]
    /\ lastRnti \in [Cells -> 0..MaxRnti]
    /\ requests \in SUBSET [user : Users, source : Cells, target : Cells]
    /\ IsFiniteSet(requests)
    /\ linkFailures \in Nat
    /\ aborted \in BOOLEAN
    /\ handover_policy \in Policies
    /\ path_imsi \in [Users -> Users \cup {NoUser}]
    /\ rnti_cells \in [Cells -> [Rntis -> Users \cup {NoUser}]]
    /\ cellUe \in [Cells -> [Users -> 0..MaxRnti]]
    /\ neighbors \in [Cells -> [Users -> Int]]
    /\ handover_pending \in [Users -> BOOLEAN]

RadioOf(u) ==
    /\ rrc[u] = "idle" => cell[u] = NoCell /\ rnti[u] = 0
    /\ rrc[u] # "idle" => cell[u] \in Cells /\ rnti[u] \in 1..lastRnti[cell[u]]

Twins(u, v) ==
    rrc[u] # "idle" /\ rrc[v] # "idle" /\ cell[u] = cell[v] /\ rnti[u] = rnti[v]

\* The RNTIs in use have been given out, each to one user of the cell, and so
\* have those that rnti_cells knows.
RntisGiven ==
    /\ \A u \in Users : RadioOf(u)
    /\ \A u, v \in Users : Twins(u, v) => u = v
    /\ \A c \in Cells : \A r \in Rntis : rnti_cells[c][r] # NoUser => r <= lastRnti[c]

\* The tables on a user: exact while it is connected, empty in a handover, and
\* at most one cell, the one of the connection that failed, when it is idle.
RowOf(u) ==
    /\ rrc[u] = "connected" =>
           /\ \A c \in Cells : cellUe[c][u] = IF c = cell[u] THEN rnti[u] ELSE 0
           /\ rnti_cells[cell[u]][rnti[u]] = u
    /\ rrc[u] = "idle" =>
           \A c, d \in Cells : cellUe[c][u] # 0 /\ cellUe[d][u] # 0 => c = d
    /\ rrc[u] \in {"handover", "failed"} =>
           /\ \A c \in Cells : cellUe[c][u] = 0
           /\ rnti_cells[cell[u]][rnti[u]] = NoUser

Rows == \A u \in Users : RowOf(u)

\* A request that waits: the user is where it was, unless its link failed.
Stands(q) ==
    /\ handover_pending[q.user]
    /\ q.source # q.target
    /\ \/ rrc[q.user] = "connected" /\ cell[q.user] = q.source
       \/ rrc[q.user] = "idle" /\ linkFailures > 0

RequestsStand ==
    /\ \A q \in requests : Stands(q)
    /\ \A p, q \in requests : p.user = q.user => p = q

IInv == /\ Types /\ RntisGiven /\ Rows /\ RequestsStand
        /\ AbortsOnlyAfterLinkFailure /\ PendingIsReal /\ TakenForRntiTwin

-------------------------------------------------------------------------------
(***************************************************************************)
(* The getters and the handover manager.                                   *)
(***************************************************************************)

\* get_cell, for any table: it is read in the state before a step and after it.
FirstCell(table, u) ==
    LET serving == {c \in Cells : table[c][u] # 0}
    IN  IF serving = {} THEN NoCell ELSE CHOOSE c \in serving : \A d \in serving : c <= d

\* get_cell is that search, in the state before a step and in the one after it.
LEMMA GetCellIs ==
    \A u : get_cell(u) = FirstCell(cellUe, u) /\ get_cell(u)' = FirstCell(cellUe', u)
  BY Zenon DEF get_cell, FirstCell

\* A row without an entry has no cell; with one entry, it has that one.
LEMMA CellOfRow ==
    ASSUME NEW table, NEW u
    PROVE  /\ (\A c \in Cells : table[c][u] = 0) => FirstCell(table, u) = NoCell
           /\ \A c \in Cells : table[c][u] # 0
                                /\ (\A d \in Cells \ {c} : table[d][u] = 0)
                                    => FirstCell(table, u) = c
  <1>1. ASSUME \A c \in Cells : table[c][u] = 0 PROVE FirstCell(table, u) = NoCell
    <2>1. {c \in Cells : table[c][u] # 0} = {}
      BY <1>1
    <2> QED BY <2>1 DEF FirstCell
  <1>2. ASSUME NEW c \in Cells, table[c][u] # 0, \A d \in Cells \ {c} : table[d][u] = 0
        PROVE  FirstCell(table, u) = c
    <2> DEFINE S == {d \in Cells : table[d][u] # 0}
    <2>1. S = {c} /\ c \in Int
      BY <1>2, CellConstants DEF Cells
    <2>2. FirstCell(table, u) = IF S = {} THEN NoCell ELSE CHOOSE e \in S : \A d \in S : e <= d
      BY DEF FirstCell
    <2> HIDE DEF S
    <2>3. c \in S /\ \A d \in S : c <= d
      BY <2>1
    <2> QED BY <2>1, <2>2, <2>3
  <1> QED BY <1>1, <1>2

\* Rows with the same entries have the same cell.
LEMMA CellOfSameRow ==
    ASSUME NEW table, NEW other, NEW u, \A c \in Cells : table[c][u] = other[c][u]
    PROVE  FirstCell(table, u) = FirstCell(other, u)
  <1> DEFINE S == {c \in Cells : table[c][u] # 0}
             T == {c \in Cells : other[c][u] # 0}
  <1>1. S = T
    OBVIOUS
  <1>2. /\ FirstCell(table, u) = IF S = {} THEN NoCell ELSE CHOOSE c \in S : \A d \in S : c <= d
        /\ FirstCell(other, u) = IF T = {} THEN NoCell ELSE CHOOSE c \in T : \A d \in T : c <= d
    BY Zenon DEF FirstCell
  <1> HIDE DEF S, T
  <1> QED BY <1>1, <1>2

\* get_cell answers a connected user's cell, and none for a user in a handover.
LEMMA GetCellExact ==
    ASSUME Types, RntisGiven, Rows, NEW u \in Users
    PROVE  /\ rrc[u] = "connected" => get_cell(u) = cell[u]
           /\ rrc[u] \in {"handover", "failed"} => get_cell(u) = NoCell
  <1>1. RowOf(u) /\ RadioOf(u)
    BY DEF Rows, RntisGiven
  <1>2. ASSUME rrc[u] = "connected" PROVE get_cell(u) = cell[u]
    <2>1. cell[u] \in Cells /\ rnti[u] # 0
      BY <1>1, <1>2 DEF RadioOf, Types
    <2>2. cellUe[cell[u]][u] # 0 /\ \A d \in Cells \ {cell[u]} : cellUe[d][u] = 0
      BY <1>1, <1>2, <2>1 DEF RowOf
    <2> QED BY <2>1, <2>2, CellOfRow, GetCellIs
  <1>3. ASSUME rrc[u] \in {"handover", "failed"} PROVE get_cell(u) = NoCell
    BY <1>1, <1>3, CellOfRow, GetCellIs DEF RowOf
  <1> QED BY <1>2, <1>3

\* The strongest of some cells is one of them.
LEMMA StrongestIn ==
    ASSUME NEW S \in SUBSET Cells, S # {}, NEW u, NEW levels,
           \A c \in S : levels[c][u] \in Int
    PROVE  Strongest(S, u, levels) \in S
  <1> DEFINE f == [c \in S |-> levels[c][u]]
  <1>1. S \in SUBSET (1..NumCells) /\ NumCells \in Nat /\ \A c \in S : f[c] \in Int
    BY CellConstants DEF Cells
  <1>2. PICK c \in S : \A d \in S : f[d] < f[c] \/ (f[d] = f[c] /\ c <= d)
    <2> HIDE DEF f
    <2> QED BY <1>1, FirstBest
  <1>3. \A d \in S : \/ levels[d][u] < levels[c][u]
                     \/ levels[d][u] = levels[c][u] /\ c <= d
    BY <1>2
  <1> HIDE DEF f
  <1> QED BY <1>3, Zenon DEF Strongest

\* A policy answers no cell or another cell than the serving one.
LEMMA TargetsElsewhere ==
    ASSUME Types, NEW u \in Users, NEW serving \in Cells, NEW levels \in [Cells -> [Users -> Int]],
           NEW t \in Targets(u, serving, levels), t # NoCell
    PROVE  t \in Cells \ {serving}
  <1>1. ASSUME NEW S \in SUBSET (Cells \ {serving})
        PROVE  StrongerIn(S, u, serving, levels) \in (Cells \ {serving}) \cup {NoCell}
    <2> DEFINE heard == {c \in S : levels[c][u] > ZERO_SIGNAL_LEVEL}
    <2>1. CASE heard = {}
      BY <2>1 DEF StrongerIn
    <2>2. CASE heard # {}
      <3>1. heard \in SUBSET Cells /\ heard \in SUBSET S /\ \A c \in heard : levels[c][u] \in Int
        OBVIOUS
      <3>2. Strongest(heard, u, levels) \in heard
        <4> HIDE DEF heard
        <4> QED BY <2>2, <3>1, StrongestIn
      <3>3. StrongerIn(S, u, serving, levels) \in heard \cup {NoCell}
        BY <3>2 DEF StrongerIn
      <3> QED BY <3>1, <3>3
    <2> QED BY <2>1, <2>2
  <1>2. handover_policy \in {"classic", "competing", "iuavbs"}
    BY PoliciesAssumption DEF Types
  <1>3. CASE handover_policy = "classic"
    <2>1. t = StrongerIn(Cells \ {serving}, u, serving, levels)
      BY <1>3 DEF Targets
    <2> QED BY <1>1, <2>1
  <1>4. CASE handover_policy = "competing"
    <2>1. PICK S \in SUBSET (Cells \ {serving}) : t = StrongerIn(S, u, serving, levels)
      BY <1>4 DEF Targets
    <2> QED BY <1>1, <2>1
  <1>5. CASE handover_policy = "iuavbs"
    BY <1>5 DEF Targets
  <1> QED BY <1>2, <1>3, <1>4, <1>5

\* The manager asks for nothing, or for a handover of a connected user who has
\* none pending, from its cell to another.
Asks(u) ==
    \E t \in Cells \ {cell[u]} :
        /\ u \in Users /\ ~handover_pending[u] /\ rrc[u] = "connected"
        /\ requests' = requests \cup {[user |-> u, source |-> cell[u], target |-> t]}
        /\ handover_pending' = [handover_pending EXCEPT ![u] = TRUE]

\* handoverManager asks for nothing, or for one handover of its user away from
\* the cell the user is in.
LEMMA ManagerAsks ==
    ASSUME IInv, NEW u \in Users \cup {NoUser}, NEW levels \in [Cells -> [Users -> Int]],
           handoverManager(u, levels)
    PROVE  UNCHANGED <<requests, handover_pending>> \/ Asks(u)
  <1> USE DEF asked
  <1>1. CASE u = NoUser \/ handover_pending[u] \/ get_cell(u) = NoCell
             \/ levels[get_cell(u)][u] < CONNECTED_SIGNAL_LEVEL
    BY <1>1 DEF handoverManager
  <1>2. CASE ~(u = NoUser \/ handover_pending[u] \/ get_cell(u) = NoCell
               \/ levels[get_cell(u)][u] < CONNECTED_SIGNAL_LEVEL)
    <2>1. PICK t \in Targets(u, get_cell(u), levels) :
              IF t = NoCell THEN UNCHANGED asked ELSE schedule_handover(u, t)
      BY <1>2 DEF handoverManager
    <2>2. CASE t = NoCell
      BY <2>1, <2>2
    <2>3. CASE t # NoCell /\ rrc[u] # "connected"
      BY <2>1, <2>3 DEF schedule_handover
    <2>4. CASE t # NoCell /\ rrc[u] = "connected"
      <3>1. u \in Users /\ Types /\ RntisGiven /\ Rows
        BY <1>2 DEF IInv
      <3>2. get_cell(u) = cell[u] /\ cell[u] \in Cells
        BY <2>4, <3>1, GetCellExact DEF RntisGiven, RadioOf
      <3>3. t \in Cells \ {cell[u]}
        BY <2>1, <2>4, <3>1, <3>2, TargetsElsewhere
      <3>4. schedule_handover(u, t)
        BY <2>1, <2>4
      <3> QED BY <1>2, <2>4, <3>1, <3>2, <3>3, <3>4 DEF schedule_handover, Asks
    <2> QED BY <2>2, <2>3, <2>4
  <1> QED BY <1>1, <1>2

-------------------------------------------------------------------------------
(***************************************************************************)
(* The initial states and the steps.                                       *)
(***************************************************************************)

\* At the start no radio is connected and the tables are empty.
LEMMA InitCells == Init => IInv
  <1> SUFFICES ASSUME Init PROVE IInv
    OBVIOUS
  <1> USE CellConstants
  <1>1. Types
    <2>1. IsFiniteSet({})
      BY FS_EmptySet
    <2>2. handover_pending \in [Users -> BOOLEAN] /\ aborted \in BOOLEAN
      BY Zenon DEF Init
    <2> QED BY <2>1, <2>2 DEF Init, Types, ZERO_SIGNAL_LEVEL
  <1>2. RntisGiven
    BY DEF Init, RntisGiven, RadioOf, Twins
  <1>3. Rows
    BY DEF Init, Rows, RowOf
  <1>4. RequestsStand /\ AbortsOnlyAfterLinkFailure /\ PendingIsReal
    BY DEF Init, RequestsStand, AbortsOnlyAfterLinkFailure, PendingIsReal
  <1>5. TakenForRntiTwin
    BY DEF Init, TakenForRntiTwin
  <1> QED BY <1>1, <1>2, <1>3, <1>4, <1>5 DEF IInv

\* A step that changes nothing of the radios and the tables keeps what is said
\* of them.
LEMMA RadiosKept ==
    ASSUME RntisGiven, Rows, UNCHANGED <<rrc, cell, rnti, lastRnti, rnti_cells, cellUe>>
    PROVE  RntisGiven' /\ Rows'
  BY DEF RntisGiven, RadioOf, Twins, Rows, RowOf

\* A step that overwrites no entry of rnti_cells, and takes no RNTI from a user
\* that rnti_cells does not know by it, keeps the twins.
LEMMA TwinsKept ==
    ASSUME Types, TakenForRntiTwin, UNCHANGED path_imsi,
           \A c \in Cells : \A r \in Rntis :
               rnti_cells[c][r] # NoUser => rnti_cells'[c][r] = rnti_cells[c][r],
           \A u \in Users : \/ rnti'[u] = rnti[u]
                            \/ rnti[u] \notin Rntis
                            \/ \E d \in Cells : rnti_cells[d][rnti[u]] = u
    PROVE  TakenForRntiTwin'
  <1> SUFFICES ASSUME NEW u \in Users, path_imsi[u] \notin {u, NoUser}
               PROVE  \E r \in Rntis, c, d \in Cells :
                          /\ rnti_cells'[c][r] = path_imsi[u]
                          /\ rnti_cells'[d][r] = u \/ rnti'[u] = r
    BY DEF TakenForRntiTwin
  <1>1. PICK r \in Rntis, c \in Cells, d \in Cells :
                          /\ rnti_cells[c][r] = path_imsi[u]
                          /\ rnti_cells[d][r] = u \/ rnti[u] = r
    BY DEF TakenForRntiTwin
  <1>2. rnti_cells'[c][r] = path_imsi[u] /\ u # NoUser
    BY <1>1, CellConstants
  <1>3. CASE rnti_cells[d][r] = u
    BY <1>1, <1>2, <1>3
  <1>4. CASE rnti[u] = r /\ rnti'[u] = rnti[u]
    BY <1>1, <1>2, <1>4
  <1>5. CASE rnti[u] = r /\ rnti'[u] # rnti[u]
    <2>1. PICK e \in Cells : rnti_cells[e][r] = u
      BY <1>1, <1>5
    <2> QED BY <1>1, <1>2, <2>1
  <1> QED BY <1>1, <1>3, <1>4, <1>5

\* A flag of one user is set or cleared.
LEMMA FlagChanged ==
    ASSUME Types, NEW u \in Users, NEW b \in BOOLEAN,
           handover_pending' = [handover_pending EXCEPT ![u] = b]
    PROVE  /\ handover_pending' \in [Users -> BOOLEAN]
           /\ handover_pending'[u] = b
           /\ \A v \in Users \ {u} : handover_pending'[v] = handover_pending[v]
  <1>1. handover_pending \in [Users -> BOOLEAN]
    BY DEF Types
  <1> QED BY <1>1, Zenon

\* A step under which no RNTI, request or table of a user changes, apart from
\* those of one user, needs to be looked at for that user only.
LEMMA OtherRadios ==
    ASSUME Types, RntisGiven, Rows, Types', NEW u \in Users,
           \A v \in Users \ {u} : /\ rrc'[v] = rrc[v] /\ cell'[v] = cell[v] /\ rnti'[v] = rnti[v]
                                  /\ \A c \in Cells : cellUe'[c][v] = cellUe[c][v],
           \A c \in Cells : lastRnti[c] <= lastRnti'[c],
           \A c \in Cells : \A r \in Rntis :
               rnti_cells'[c][r] # NoUser => r <= lastRnti'[c],
           \A v \in Users \ {u} : rrc[v] # "idle" =>
               rnti_cells'[cell[v]][rnti[v]] = rnti_cells[cell[v]][rnti[v]],
           \A v \in Users \ {u} : ~Twins(u, v)',
           RadioOf(u)', RowOf(u)'
    PROVE  RntisGiven' /\ Rows'
  <1>1. \A v \in Users : RadioOf(v)'
    <2> SUFFICES ASSUME NEW v \in Users \ {u} PROVE RadioOf(v)'
      OBVIOUS
    <2>1. RadioOf(v)
      BY DEF RntisGiven
    <2>2. \A c \in Cells : \A r \in 1..lastRnti[c] : r \in 1..lastRnti'[c]
      BY DEF Types
    <2> QED BY <2>1, <2>2 DEF RadioOf
  <1>2. \A v, w \in Users : Twins(v, w)' => v = w
    <2> SUFFICES ASSUME NEW v \in Users, NEW w \in Users, Twins(v, w)', v # w PROVE FALSE
      OBVIOUS
    <2>1. v # u /\ w # u
      BY DEF Twins
    <2>2. Twins(v, w)
      BY <2>1 DEF Twins
    <2> QED BY <2>2 DEF RntisGiven
  <1>3. \A v \in Users : RowOf(v)'
    <2> SUFFICES ASSUME NEW v \in Users \ {u} PROVE RowOf(v)'
      OBVIOUS
    <2>1. RowOf(v)
      BY DEF Rows
    <2> QED BY <2>1 DEF RowOf
  <1> QED BY <1>1, <1>2, <1>3 DEF RntisGiven, Rows

\* The next RNTI of a cell is new: no radio has it, and rnti_cells has no user
\* for it.
LEMMA NextRntiNew ==
    ASSUME Types, RntisGiven, NEW c \in Cells, lastRnti[c] < MaxRnti
    PROVE  /\ lastRnti[c] \in Nat /\ lastRnti[c] + 1 \in Rntis /\ lastRnti[c] + 1 \in 0..MaxRnti
           /\ rnti_cells[c][lastRnti[c] + 1] = NoUser
           /\ \A v \in Users : rrc[v] # "idle" /\ cell[v] = c => rnti[v] # lastRnti[c] + 1
  <1>1. /\ lastRnti[c] \in Nat /\ lastRnti[c] + 1 \in Rntis /\ lastRnti[c] + 1 \in 0..MaxRnti
    BY CellConstants DEF Types, Rntis
  <1>2. rnti_cells[c][lastRnti[c] + 1] = NoUser
    BY <1>1 DEF RntisGiven
  <1>3. ASSUME NEW v \in Users, rrc[v] # "idle", cell[v] = c PROVE rnti[v] # lastRnti[c] + 1
    BY <1>1, <1>3 DEF RntisGiven, RadioOf
  <1> QED BY <1>1, <1>2, <1>3

\* A cell with an RNTI left has not given out all of them.
LEMMA RntiLeftBound ==
    ASSUME Types, NEW c \in Cells, RntiLeft(c)
    PROVE  lastRnti[c] < MaxRnti
  <1> DEFINE T == {q \in requests : q.target = c}
  <1>1. IsFiniteSet(T) /\ Cardinality(T) \in Nat
    <2>1. T \in SUBSET requests /\ IsFiniteSet(requests)
      BY DEF Types
    <2> HIDE DEF T
    <2> QED BY <2>1, FS_Subset, FS_CardinalityType
  <1>2. lastRnti[c] + Cardinality(T) < MaxRnti
    BY DEF RntiLeft
  <1> HIDE DEF T
  <1> QED BY <1>1, <1>2, CellConstants DEF Types

\* A connection: the row left by one that failed unseen is replaced.
LEMMA ConnectCells ==
    ASSUME IInv, NEW u \in Users, NEW c \in Cells, Connect(u, c), UNCHANGED options
    PROVE  IInv'
  <1> USE CellConstants
  <1>1. /\ Types /\ RntisGiven /\ Rows /\ RequestsStand
        /\ AbortsOnlyAfterLinkFailure /\ PendingIsReal /\ TakenForRntiTwin
    BY DEF IInv
  <1>2. PICK r \in Rntis : r = lastRnti[c] + 1
    BY <1>1, NextRntiNew, RntiLeftBound DEF Connect
  <1>3. /\ lastRnti[c] \in Nat /\ r \in 0..MaxRnti /\ rnti_cells[c][r] = NoUser
        /\ \A v \in Users : rrc[v] # "idle" /\ cell[v] = c => rnti[v] # r
    BY <1>1, <1>2, NextRntiNew, RntiLeftBound DEF Connect
  <1>4. /\ rrc' = [rrc EXCEPT ![u] = "connected"] /\ cell' = [cell EXCEPT ![u] = c]
        /\ rnti' = [rnti EXCEPT ![u] = r] /\ lastRnti' = [lastRnti EXCEPT ![c] = r]
        /\ rnti_cells' = [rnti_cells EXCEPT ![c][r] = u]
        /\ handover_pending' = [handover_pending EXCEPT ![u] = FALSE]
        /\ UNCHANGED <<requests, linkFailures, aborted, handover_policy, path_imsi, neighbors>>
    BY <1>1, <1>2 DEF Connect, NotifyConnectionEstablishedUe, options, Types
  <1>5. /\ handover_pending' \in [Users -> BOOLEAN] /\ ~handover_pending'[u]
        /\ \A v \in Users \ {u} : handover_pending'[v] = handover_pending[v]
    BY <1>1, <1>4, FlagChanged
  <1>6. /\ cellUe' \in [Cells -> [Users -> 0..MaxRnti]]
        /\ \A d \in Cells : \A v \in Users \ {u} : cellUe'[d][v] = cellUe[d][v]
        /\ \A d \in Cells : cellUe'[d][u] = IF d = c THEN r ELSE 0
    <2>1. cellUe' = [d \in Cells |->
              [cellUe[d] EXCEPT ![u] = IF d = c THEN r ELSE IF d = get_cell(u) THEN 0 ELSE @]]
      BY <1>2 DEF Connect, NotifyConnectionEstablishedUe
    <2>2. \A d \in Cells : cellUe[d] \in [Users -> 0..MaxRnti]
      BY <1>1 DEF Types
    <2>3. /\ cellUe' \in [Cells -> [Users -> 0..MaxRnti]]
          /\ \A d \in Cells : \A v \in Users \ {u} : cellUe'[d][v] = cellUe[d][v]
          /\ \A d \in Cells : cellUe'[d][u] = IF d = c THEN r ELSE
                                              IF d = get_cell(u) THEN 0 ELSE cellUe[d][u]
      BY <1>3, <2>1, <2>2
    <2>4. ASSUME NEW d \in Cells, cellUe[d][u] # 0 PROVE d = get_cell(u)
      <3>1. \A e \in Cells \ {d} : cellUe[e][u] = 0
        BY <1>1, <2>4 DEF Rows, RowOf, Connect
      <3> QED BY <2>4, <3>1, CellOfRow, GetCellIs
    <2> QED BY <2>3, <2>4
  <1>7. Types'
    <2>1. rnti_cells' \in [Cells -> [Rntis -> Users \cup {NoUser}]]
      BY <1>1, <1>4 DEF Types
    <2> QED BY <1>1, <1>3, <1>4, <1>5, <1>6, <2>1 DEF Types
  <1>8. RntisGiven' /\ Rows'
    <2>1. /\ rrc'[u] = "connected" /\ cell'[u] = c /\ rnti'[u] = r /\ lastRnti'[c] = r
          /\ rnti_cells'[c][r] = u
          /\ \A d \in Cells : \A s \in Rntis :
                 ~(d = c /\ s = r) => rnti_cells'[d][s] = rnti_cells[d][s]
      BY <1>1, <1>4 DEF Types
    <2>2. \A v \in Users \ {u} : /\ rrc'[v] = rrc[v] /\ cell'[v] = cell[v] /\ rnti'[v] = rnti[v]
                                 /\ \A d \in Cells : cellUe'[d][v] = cellUe[d][v]
      BY <1>1, <1>4, <1>6 DEF Types
    <2>3. \A d \in Cells : lastRnti[d] <= lastRnti'[d]
      BY <1>1, <1>2, <1>3, <1>4 DEF Types
    <2>4. \A d \in Cells : \A s \in Rntis : rnti_cells'[d][s] # NoUser => s <= lastRnti'[d]
      BY <1>1, <1>2, <1>3, <1>4, <2>1 DEF Types, RntisGiven
    <2>5. ASSUME NEW v \in Users \ {u}, rrc[v] # "idle"
          PROVE  rnti_cells'[cell[v]][rnti[v]] = rnti_cells[cell[v]][rnti[v]]
      <3>1. cell[v] \in Cells /\ rnti[v] \in Rntis
        BY <1>1, <2>5 DEF RntisGiven, RadioOf, Types, Rntis
      <3> QED BY <1>3, <2>1, <2>5, <3>1
    <2>6. \A v \in Users \ {u} : ~Twins(u, v)'
      BY <1>3, <2>1, <2>2 DEF Twins
    <2>7. RadioOf(u)' /\ RowOf(u)'
      BY <1>3, <1>6, <2>1 DEF RadioOf, RowOf
    <2> QED BY <1>1, <1>7, <2>2, <2>3, <2>4, <2>5, <2>6, <2>7, OtherRadios
  <1>9. RequestsStand' /\ AbortsOnlyAfterLinkFailure' /\ PendingIsReal'
    <2>1. \A q \in requests : q.user \in Users \ {u}
      BY <1>1 DEF Connect, Types
    <2>2. \A v \in Users \ {u} : rrc'[v] = rrc[v] /\ cell'[v] = cell[v]
      BY <1>1, <1>4 DEF Types
    <2>3. \A q \in requests : Stands(q)'
      BY <1>1, <1>4, <1>5, <2>1, <2>2 DEF RequestsStand, Stands
    <2>4. PendingIsReal'
      BY <1>1, <1>4, <1>5, <2>2 DEF PendingIsReal
    <2> QED BY <1>1, <1>4, <2>3, <2>4 DEF RequestsStand, AbortsOnlyAfterLinkFailure
  <1>10. TakenForRntiTwin'
    <2>1. \A d \in Cells : \A s \in Rntis :
              rnti_cells[d][s] # NoUser => rnti_cells'[d][s] = rnti_cells[d][s]
      BY <1>1, <1>3, <1>4 DEF Types
    <2>2. rnti[u] \notin Rntis
      BY <1>1 DEF Connect, RntisGiven, RadioOf
    <2>3. \A v \in Users : rnti'[v] = rnti[v] \/ rnti[v] \notin Rntis
      BY <1>1, <1>4, <2>2 DEF Types
    <2> QED BY <1>1, <1>4, <2>1, <2>3, TwinsKept
  <1> QED BY <1>7, <1>8, <1>9, <1>10 DEF IInv

\* A request is executed.
LEMMA StartHandoverCells ==
    ASSUME IInv, NEW q \in requests, StartHandover(q), UNCHANGED options
    PROVE  IInv'
  <1> USE CellConstants
  <1>1. /\ Types /\ RntisGiven /\ Rows /\ RequestsStand
        /\ AbortsOnlyAfterLinkFailure /\ PendingIsReal /\ TakenForRntiTwin
    BY DEF IInv
  <1>2. PICK u \in Users, source \in Cells, c \in Cells :
            u = q.user /\ source = q.source /\ c = q.target
    BY <1>1 DEF Types
  <1>3. PICK r \in Rntis : r = lastRnti[c] + 1
    BY <1>1, <1>2, NextRntiNew DEF StartHandover
  <1>4. /\ lastRnti[c] \in Nat /\ r \in 0..MaxRnti /\ rnti_cells[c][r] = NoUser
        /\ \A v \in Users : rrc[v] # "idle" /\ cell[v] = c => rnti[v] # r
    BY <1>1, <1>2, <1>3, NextRntiNew DEF StartHandover
  <1>5. /\ rrc[u] = "connected" /\ cell[u] = source
        /\ requests' = requests \ {q}
        /\ rrc' = [rrc EXCEPT ![u] = "handover"] /\ cell' = [cell EXCEPT ![u] = c]
        /\ rnti' = [rnti EXCEPT ![u] = r] /\ lastRnti' = [lastRnti EXCEPT ![c] = r]
        /\ cellUe' = [cellUe EXCEPT ![source][u] = 0]
        /\ UNCHANGED <<rnti_cells, handover_pending, linkFailures, aborted, handover_policy,
                       path_imsi, neighbors>>
    BY <1>1, <1>2, <1>3 DEF StartHandover, NotifyHandoverStartUe, options, Types
  <1>6. /\ cellUe' \in [Cells -> [Users -> 0..MaxRnti]]
        /\ \A d \in Cells : \A v \in Users \ {u} : cellUe'[d][v] = cellUe[d][v]
        /\ \A d \in Cells : cellUe'[d][u] = 0
    <2>1. \A d \in Cells \ {source} : cellUe[d][u] = 0
      BY <1>1, <1>5 DEF Rows, RowOf
    <2> QED BY <1>1, <1>5, <2>1 DEF Types
  <1>7. Types'
    <2>1. IsFiniteSet(requests') /\ requests' \in SUBSET requests
      BY <1>1, <1>5, FS_RemoveElement DEF Types
    <2> QED BY <1>1, <1>4, <1>5, <1>6, <2>1 DEF Types
  <1>8. RntisGiven' /\ Rows'
    <2>1. rrc'[u] = "handover" /\ cell'[u] = c /\ rnti'[u] = r /\ lastRnti'[c] = r
      BY <1>1, <1>5 DEF Types
    <2>2. \A v \in Users \ {u} : /\ rrc'[v] = rrc[v] /\ cell'[v] = cell[v] /\ rnti'[v] = rnti[v]
                                 /\ \A d \in Cells : cellUe'[d][v] = cellUe[d][v]
      BY <1>1, <1>5, <1>6 DEF Types
    <2>3. \A d \in Cells : lastRnti[d] <= lastRnti'[d]
      BY <1>1, <1>3, <1>4, <1>5 DEF Types
    <2>4. \A d \in Cells : \A s \in Rntis : rnti_cells'[d][s] # NoUser => s <= lastRnti'[d]
      BY <1>1, <1>3, <1>4, <1>5 DEF Types, RntisGiven
    <2>5. \A v \in Users \ {u} : rrc[v] # "idle" =>
              rnti_cells'[cell[v]][rnti[v]] = rnti_cells[cell[v]][rnti[v]]
      BY <1>5
    <2>6. \A v \in Users \ {u} : ~Twins(u, v)'
      BY <1>4, <2>1, <2>2 DEF Twins
    <2>7. RadioOf(u)' /\ RowOf(u)'
      BY <1>4, <1>5, <1>6, <2>1 DEF RadioOf, RowOf
    <2> QED BY <1>1, <1>7, <2>2, <2>3, <2>4, <2>5, <2>6, <2>7, OtherRadios
  <1>9. RequestsStand' /\ AbortsOnlyAfterLinkFailure' /\ PendingIsReal'
    <2>1. \A p \in requests' : p \in requests /\ p.user \in Users \ {u}
      BY <1>1, <1>2, <1>5 DEF RequestsStand, Types
    <2>2. /\ \A v \in Users \ {u} : rrc'[v] = rrc[v] /\ cell'[v] = cell[v]
          /\ rrc'[u] = "handover"
      BY <1>1, <1>5 DEF Types
    <2>3. \A p \in requests' : Stands(p)'
      BY <1>1, <1>5, <2>1, <2>2 DEF RequestsStand, Stands
    <2>4. PendingIsReal'
      <3> SUFFICES ASSUME NEW v \in Users, handover_pending[v], ~aborted, v # u
                   PROVE  rrc[v] \in {"handover", "failed"} \/ \E p \in requests' : p.user = v
        BY <1>5, <2>2 DEF PendingIsReal
      <3> QED BY <1>1, <1>2, <1>5 DEF PendingIsReal
    <2> QED BY <1>1, <1>5, <2>1, <2>3, <2>4 DEF RequestsStand, AbortsOnlyAfterLinkFailure
  <1>10. TakenForRntiTwin'
    <2>1. cell[u] \in Cells /\ rnti_cells[cell[u]][rnti[u]] = u
      BY <1>1, <1>5 DEF Rows, RowOf
    <2>2. \A v \in Users : rnti'[v] = rnti[v] \/ \E d \in Cells : rnti_cells[d][rnti[v]] = v
      BY <1>1, <1>5, <2>1 DEF Types
    <2> QED BY <1>1, <1>5, <2>2, TwinsKept
  <1> QED BY <1>7, <1>8, <1>9, <1>10 DEF IInv

\* A request whose user is not where it was ends the simulation.
LEMMA AbortCells ==
    ASSUME IInv, NEW q \in requests, AbortOnRequest(q), UNCHANGED options
    PROVE  IInv'
  <1>1. /\ Types /\ RntisGiven /\ Rows /\ RequestsStand
        /\ AbortsOnlyAfterLinkFailure /\ PendingIsReal /\ TakenForRntiTwin
    BY DEF IInv
  <1>2. /\ requests' = requests \ {q} /\ aborted'
        /\ UNCHANGED <<rrc, cell, rnti, lastRnti, linkFailures, handover_policy, path_imsi,
                       rnti_cells, cellUe, neighbors, handover_pending>>
    BY DEF AbortOnRequest, radio, tables, options
  <1>3. Types'
    <2>1. IsFiniteSet(requests') /\ requests' \in SUBSET requests
      BY <1>1, <1>2, FS_RemoveElement DEF Types
    <2>2. aborted' \in BOOLEAN
      BY DEF AbortOnRequest
    <2> QED BY <1>1, <1>2, <2>1, <2>2 DEF Types
  <1>4. RntisGiven' /\ Rows'
    BY <1>1, <1>2, RadiosKept
  <1>5. AbortsOnlyAfterLinkFailure'
    BY <1>1, <1>2 DEF RequestsStand, Stands, AbortOnRequest, AbortsOnlyAfterLinkFailure
  <1>6. RequestsStand' /\ PendingIsReal'
    BY <1>1, <1>2 DEF RequestsStand, Stands, PendingIsReal
  <1>7. TakenForRntiTwin'
    BY <1>1, <1>2, TwinsKept
  <1> QED BY <1>3, <1>4, <1>5, <1>6, <1>7 DEF IInv

\* A handover ends: the row is written for the cell the radio is in.
LEMMA FinishHandoverCells ==
    ASSUME IInv, NEW u \in Users, FinishHandover(u), UNCHANGED options
    PROVE  IInv'
  <1> USE CellConstants
  <1>1. /\ Types /\ RntisGiven /\ Rows /\ RequestsStand
        /\ AbortsOnlyAfterLinkFailure /\ PendingIsReal /\ TakenForRntiTwin
    BY DEF IInv
  <1>2. PICK c \in Cells, r \in Rntis : c = cell[u] /\ r = rnti[u]
    <2>1. cell[u] \in Cells /\ rnti[u] \in Rntis
      BY <1>1 DEF FinishHandover, RntisGiven, RadioOf, Types, Rntis
    <2> QED BY <2>1
  <1>3. /\ rrc[u] = "handover" /\ rrc' = [rrc EXCEPT ![u] = "connected"]
        /\ cellUe' = [cellUe EXCEPT ![c][u] = r]
        /\ rnti_cells' = [rnti_cells EXCEPT ![c][r] = u]
        /\ handover_pending' = [handover_pending EXCEPT ![u] = FALSE]
        /\ UNCHANGED <<cell, rnti, lastRnti, requests, linkFailures, aborted, handover_policy,
                       path_imsi, neighbors>>
    BY <1>2 DEF FinishHandover, NotifyHandoverEndOkUe, options
  <1>4. /\ handover_pending' \in [Users -> BOOLEAN] /\ ~handover_pending'[u]
        /\ \A v \in Users \ {u} : handover_pending'[v] = handover_pending[v]
    BY <1>1, <1>3, FlagChanged
  <1>5. /\ rnti_cells[c][r] = NoUser /\ r \in 1..lastRnti[c] /\ r \in 0..MaxRnti
        /\ \A d \in Cells : cellUe[d][u] = 0
    BY <1>1, <1>2, <1>3 DEF Rows, RowOf, RntisGiven, RadioOf, Types
  <1>6. Types'
    <2>1. rnti_cells' \in [Cells -> [Rntis -> Users \cup {NoUser}]]
      BY <1>1, <1>3 DEF Types
    <2>2. cellUe' \in [Cells -> [Users -> 0..MaxRnti]]
      BY <1>1, <1>3, <1>5 DEF Types
    <2> QED BY <1>1, <1>3, <1>4, <2>1, <2>2 DEF Types
  <1>7. RntisGiven' /\ Rows'
    <2>1. /\ rrc'[u] = "connected" /\ rnti_cells'[c][r] = u
          /\ \A d \in Cells : \A s \in Rntis :
                 ~(d = c /\ s = r) => rnti_cells'[d][s] = rnti_cells[d][s]
          /\ \A d \in Cells : cellUe'[d][u] = IF d = c THEN r ELSE 0
      BY <1>1, <1>3, <1>5 DEF Types
    <2>2. \A v \in Users \ {u} : /\ rrc'[v] = rrc[v] /\ cell'[v] = cell[v] /\ rnti'[v] = rnti[v]
                                 /\ \A d \in Cells : cellUe'[d][v] = cellUe[d][v]
      BY <1>1, <1>3 DEF Types
    <2>3. \A d \in Cells : lastRnti[d] <= lastRnti'[d]
      BY <1>1, <1>3 DEF Types
    <2>4. \A d \in Cells : \A s \in Rntis : rnti_cells'[d][s] # NoUser => s <= lastRnti'[d]
      BY <1>1, <1>3, <1>5, <2>1 DEF Types, RntisGiven
    <2>5. ASSUME NEW v \in Users \ {u}, rrc[v] # "idle" PROVE ~(cell[v] = c /\ rnti[v] = r)
      BY <1>1, <1>2, <1>3, <2>5 DEF RntisGiven, Twins
    <2>6. ASSUME NEW v \in Users \ {u}, rrc[v] # "idle"
          PROVE  rnti_cells'[cell[v]][rnti[v]] = rnti_cells[cell[v]][rnti[v]]
      <3>1. cell[v] \in Cells /\ rnti[v] \in Rntis
        BY <1>1, <2>6 DEF RntisGiven, RadioOf, Types, Rntis
      <3> QED BY <2>1, <2>5, <2>6, <3>1
    <2>7. \A v \in Users \ {u} : ~Twins(u, v)'
      BY <1>2, <1>3, <2>2, <2>5 DEF Twins
    <2>8. RadioOf(u)' /\ RowOf(u)'
      BY <1>2, <1>3, <1>5, <2>1 DEF RadioOf, RowOf
    <2> QED BY <1>1, <1>6, <2>2, <2>3, <2>4, <2>6, <2>7, <2>8, OtherRadios
  <1>8. RequestsStand' /\ AbortsOnlyAfterLinkFailure' /\ PendingIsReal'
    <2>1. \A q \in requests : q.user \in Users \ {u}
      BY <1>1, <1>3 DEF RequestsStand, Stands, Types
    <2>2. \A v \in Users \ {u} : rrc'[v] = rrc[v]
      BY <1>1, <1>3 DEF Types
    <2>3. \A q \in requests : Stands(q)'
      BY <1>1, <1>3, <1>4, <2>1, <2>2 DEF RequestsStand, Stands
    <2>4. PendingIsReal'
      BY <1>1, <1>3, <1>4, <2>2 DEF PendingIsReal
    <2> QED BY <1>1, <1>3, <2>3, <2>4 DEF RequestsStand, AbortsOnlyAfterLinkFailure
  <1>9. TakenForRntiTwin'
    <2>1. \A d \in Cells : \A s \in Rntis :
              rnti_cells[d][s] # NoUser => rnti_cells'[d][s] = rnti_cells[d][s]
      BY <1>1, <1>3, <1>5 DEF Types
    <2> QED BY <1>1, <1>3, <2>1, TwinsKept
  <1> QED BY <1>6, <1>7, <1>8, <1>9 DEF IInv

\* Random access fails: the radio stays as in a handover.
LEMMA AccessFailureCells ==
    ASSUME IInv, NEW u \in Users, RandomAccessFailure(u), UNCHANGED options
    PROVE  IInv'
  <1>1. /\ Types /\ RntisGiven /\ Rows /\ RequestsStand
        /\ AbortsOnlyAfterLinkFailure /\ PendingIsReal /\ TakenForRntiTwin
    BY DEF IInv
  <1>2. /\ rrc[u] = "handover" /\ rrc' = [rrc EXCEPT ![u] = "failed"]
        /\ UNCHANGED <<cell, rnti, lastRnti, requests, linkFailures, aborted, handover_policy,
                       path_imsi, rnti_cells, cellUe, neighbors, handover_pending>>
    BY DEF RandomAccessFailure, tables, asked, options
  <1>3. Types'
    BY <1>1, <1>2 DEF Types
  <1>4. rrc'[u] = "failed" /\ \A v \in Users \ {u} : rrc'[v] = rrc[v]
    BY <1>1, <1>2 DEF Types
  <1>5. RntisGiven' /\ Rows'
    <2>1. RadioOf(u)' /\ RowOf(u)'
      BY <1>1, <1>2, <1>4 DEF RntisGiven, RadioOf, Rows, RowOf
    <2>2. \A v \in Users \ {u} : ~Twins(u, v)'
      BY <1>1, <1>2, <1>4 DEF RntisGiven, Twins
    <2>3. \A d \in Cells : lastRnti[d] <= lastRnti'[d]
      BY <1>1, <1>2 DEF Types
    <2>4. \A d \in Cells : \A s \in Rntis : rnti_cells'[d][s] # NoUser => s <= lastRnti'[d]
      BY <1>1, <1>2 DEF RntisGiven
    <2> QED BY <1>1, <1>2, <1>3, <1>4, <2>1, <2>2, <2>3, <2>4, OtherRadios
  <1>6. RequestsStand' /\ AbortsOnlyAfterLinkFailure' /\ PendingIsReal'
    <2>1. \A q \in requests : q.user \in Users \ {u}
      BY <1>1, <1>2 DEF RequestsStand, Stands, Types
    <2>2. \A q \in requests : Stands(q)'
      BY <1>1, <1>2, <1>4, <2>1 DEF RequestsStand, Stands
    <2>3. PendingIsReal'
      BY <1>1, <1>2, <1>4 DEF PendingIsReal
    <2> QED BY <1>1, <1>2, <2>2, <2>3 DEF RequestsStand, AbortsOnlyAfterLinkFailure
  <1>7. TakenForRntiTwin'
    BY <1>1, <1>2, TwinsKept
  <1> QED BY <1>3, <1>5, <1>6, <1>7 DEF IInv

\* A radio link fails, which no callback reports: the row of the user stays.
LEMMA LinkFailureCells ==
    ASSUME IInv, NEW u \in Users, RadioLinkFailure(u), UNCHANGED options
    PROVE  IInv'
  <1> USE CellConstants
  <1>1. /\ Types /\ RntisGiven /\ Rows /\ RequestsStand
        /\ AbortsOnlyAfterLinkFailure /\ PendingIsReal /\ TakenForRntiTwin
    BY DEF IInv
  <1>2. /\ rrc[u] = "connected" /\ rrc' = [rrc EXCEPT ![u] = "idle"]
        /\ cell' = [cell EXCEPT ![u] = NoCell] /\ rnti' = [rnti EXCEPT ![u] = 0]
        /\ linkFailures' = linkFailures + 1
        /\ UNCHANGED <<lastRnti, requests, aborted, handover_policy,
                       path_imsi, rnti_cells, cellUe, neighbors, handover_pending>>
    BY DEF RadioLinkFailure, tables, asked, options
  <1>3. Types'
    BY <1>1, <1>2 DEF Types
  <1>4. /\ rrc'[u] = "idle" /\ cell'[u] = NoCell /\ rnti'[u] = 0
        /\ \A v \in Users \ {u} : rrc'[v] = rrc[v] /\ cell'[v] = cell[v] /\ rnti'[v] = rnti[v]
    BY <1>1, <1>2 DEF Types
  <1>5. RntisGiven' /\ Rows'
    <2>1. RadioOf(u)' /\ RowOf(u)'
      BY <1>1, <1>2, <1>4 DEF RadioOf, Rows, RowOf
    <2>2. \A v \in Users \ {u} : ~Twins(u, v)'
      BY <1>4 DEF Twins
    <2>3. \A d \in Cells : lastRnti[d] <= lastRnti'[d]
      BY <1>1, <1>2 DEF Types
    <2>4. \A d \in Cells : \A s \in Rntis : rnti_cells'[d][s] # NoUser => s <= lastRnti'[d]
      BY <1>1, <1>2 DEF RntisGiven
    <2> QED BY <1>1, <1>2, <1>3, <1>4, <2>1, <2>2, <2>3, <2>4, OtherRadios
  <1>6. RequestsStand' /\ AbortsOnlyAfterLinkFailure' /\ PendingIsReal'
    <2>1. linkFailures' > 0
      BY <1>1, <1>2 DEF Types
    <2>2. \A q \in requests : q.user \in Users
      BY <1>1 DEF Types
    <2>3. \A q \in requests : Stands(q)'
      BY <1>1, <1>2, <1>4, <2>1, <2>2 DEF RequestsStand, Stands
    <2>4. PendingIsReal'
      BY <1>1, <1>2, <1>4 DEF PendingIsReal
    <2> QED BY <1>1, <1>2, <2>1, <2>3, <2>4 DEF RequestsStand, AbortsOnlyAfterLinkFailure
  <1>7. TakenForRntiTwin'
    <2>1. cell[u] \in Cells /\ rnti_cells[cell[u]][rnti[u]] = u
      BY <1>1, <1>2 DEF Rows, RowOf, RntisGiven, RadioOf
    <2>2. \A v \in Users : rnti'[v] = rnti[v] \/ \E d \in Cells : rnti_cells[d][rnti[v]] = v
      BY <1>4, <2>1
    <2> QED BY <1>1, <1>2, <2>2, TwinsKept
  <1> QED BY <1>3, <1>5, <1>6, <1>7 DEF IInv

\* A radio reports a measurement: the node may get another IMSI, a received
\* power is noted, and the manager may ask for a handover.
LEMMA ReportCells ==
    ASSUME IInv, NEW u \in Users, NEW c \in Cells, NEW rsrp \in Levels, Report(u, c, rsrp),
           UNCHANGED options
    PROVE  IInv'
  <1> USE CellConstants
  <1>1. /\ Types /\ RntisGiven /\ Rows /\ RequestsStand
        /\ AbortsOnlyAfterLinkFailure /\ PendingIsReal /\ TakenForRntiTwin
    BY DEF IInv
  <1>2. UNCHANGED <<rrc, cell, rnti, lastRnti, linkFailures, aborted, handover_policy,
                    rnti_cells, cellUe>>
    BY DEF Report, radio, tables, options
  <1> DEFINE imsi == get_imsi(c, rnti[u])
             user == IF imsi = NoUser THEN path_imsi[u] ELSE imsi
  <1>3. /\ path_imsi' = [path_imsi EXCEPT ![u] = user]
        /\ neighbors' = IF user = NoUser THEN neighbors
                        ELSE [neighbors EXCEPT ![c][user] = rsrp]
        /\ handoverManager(user, neighbors')
    BY DEF Report, ReportUeMeasurementsCallback
  <1>4. imsi \in Users \cup {NoUser} /\ user \in Users \cup {NoUser}
    BY <1>1 DEF get_imsi, Types
  <1>5. imsi # NoUser => rnti[u] \in Rntis /\ rnti_cells[c][rnti[u]] = imsi
    BY DEF get_imsi
  <1>6. PICK v \in Users \cup {NoUser} : v = user
    BY <1>4
  <1>7. neighbors' \in [Cells -> [Users -> Int]] /\ path_imsi' \in [Users -> Users \cup {NoUser}]
    <2>1. rsrp \in Int
      OBVIOUS
    <2>2. neighbors' = IF v = NoUser THEN neighbors ELSE [neighbors EXCEPT ![c][v] = rsrp]
      BY <1>3, <1>6
    <2>3. path_imsi' = [path_imsi EXCEPT ![u] = v]
      BY <1>3, <1>6
    <2> HIDE DEF user
    <2> QED BY <1>1, <2>1, <2>2, <2>3 DEF Types
  <1>8. UNCHANGED <<requests, handover_pending>> \/ Asks(v)
    <2>1. PICK levels \in [Cells -> [Users -> Int]] : levels = neighbors'
      BY <1>7
    <2>2. handoverManager(v, levels)
      BY <1>3, <1>6, <2>1
    <2> QED BY <2>2, ManagerAsks
  <1>9. RntisGiven' /\ Rows'
    BY <1>1, <1>2, RadiosKept
  <1>10. TakenForRntiTwin'
    <2> SUFFICES ASSUME NEW w \in Users, path_imsi'[w] \notin {w, NoUser}
                 PROVE  \E r \in Rntis, a, b \in Cells :
                            /\ rnti_cells[a][r] = path_imsi'[w]
                            /\ rnti_cells[b][r] = w \/ rnti[w] = r
      BY <1>2 DEF TakenForRntiTwin
    <2>1. CASE path_imsi'[w] = path_imsi[w]
      BY <1>1, <2>1 DEF TakenForRntiTwin
    <2>2. CASE path_imsi'[w] # path_imsi[w]
      <3>1. w = u /\ path_imsi'[w] = user /\ user # path_imsi[u]
        BY <1>1, <1>3, <2>2 DEF Types
      <3>2. user = imsi /\ imsi # NoUser
        BY <3>1
      <3> HIDE DEF user, imsi
      <3> QED BY <1>5, <3>1, <3>2
    <2> QED BY <2>1, <2>2
  <1> HIDE DEF user, imsi
  <1>11. CASE UNCHANGED <<requests, handover_pending>>
    <2>1. Types'
      BY <1>1, <1>2, <1>7, <1>11 DEF Types
    <2>2. RequestsStand' /\ AbortsOnlyAfterLinkFailure' /\ PendingIsReal'
      BY <1>1, <1>2, <1>11
         DEF RequestsStand, Stands, AbortsOnlyAfterLinkFailure, PendingIsReal
    <2> QED BY <1>9, <1>10, <2>1, <2>2 DEF IInv
  <1>12. CASE Asks(v)
    <2>1. PICK t \in Cells \ {cell[v]} :
              /\ v \in Users /\ ~handover_pending[v] /\ rrc[v] = "connected"
              /\ requests' = requests \cup {[user |-> v, source |-> cell[v], target |-> t]}
              /\ handover_pending' = [handover_pending EXCEPT ![v] = TRUE]
      BY <1>12 DEF Asks
    <2>2. cell[v] \in Cells
      BY <1>1, <2>1 DEF RntisGiven, RadioOf
    <2>3. PICK new \in [user : Users, source : Cells, target : Cells] :
              new = [user |-> v, source |-> cell[v], target |-> t]
      BY <2>1, <2>2
    <2>4. /\ requests' = requests \cup {new}
          /\ new.user = v /\ new.source = cell[v] /\ new.target = t
      BY <2>1, <2>3
    <2>5. /\ handover_pending' \in [Users -> BOOLEAN] /\ handover_pending'[v]
          /\ \A w \in Users \ {v} : handover_pending'[w] = handover_pending[w]
      BY <1>1, <2>1, FlagChanged
    <2>6. Types'
      <3>1. IsFiniteSet(requests')
        BY <1>1, <2>4, FS_AddElement DEF Types
      <3> QED BY <1>1, <1>2, <1>7, <2>4, <2>5, <3>1 DEF Types
    <2>7. \A q \in requests : q.user \in Users \ {v}
      BY <1>1, <2>1 DEF RequestsStand, Stands, Types
    <2>8. RequestsStand'
      <3>1. Stands(new)'
        BY <1>2, <2>1, <2>4, <2>5 DEF Stands
      <3>2. \A q \in requests : Stands(q)'
        BY <1>1, <1>2, <2>5, <2>7 DEF RequestsStand, Stands
      <3> QED BY <1>1, <2>4, <2>7, <3>1, <3>2 DEF RequestsStand
    <2>9. PendingIsReal'
      <3> SUFFICES ASSUME NEW w \in Users, handover_pending'[w], ~aborted
                   PROVE  rrc[w] \in {"handover", "failed"} \/ \E q \in requests' : q.user = w
        BY <1>2 DEF PendingIsReal
      <3>1. CASE w = v
        BY <2>4, <3>1
      <3>2. CASE w # v
        BY <1>1, <2>4, <2>5, <3>2 DEF PendingIsReal
      <3> QED BY <3>1, <3>2
    <2>10. AbortsOnlyAfterLinkFailure'
      BY <1>1, <1>2 DEF AbortsOnlyAfterLinkFailure
    <2> QED BY <1>9, <1>10, <2>6, <2>8, <2>9, <2>10 DEF IInv
  <1> QED BY <1>8, <1>11, <1>12

\* UAVManager clears the received powers, and a second begins.
LEMMA ClockCells ==
    ASSUME IInv, UAVManager \/ NewSecond \/ UNCHANGED vars, [Next]_vars
    PROVE  IInv'
  <1>1. /\ Types /\ RntisGiven /\ Rows /\ RequestsStand
        /\ AbortsOnlyAfterLinkFailure /\ PendingIsReal /\ TakenForRntiTwin
    BY DEF IInv
  <1>2. UNCHANGED <<rrc, cell, rnti, lastRnti, requests, linkFailures, aborted, handover_policy,
                    path_imsi, rnti_cells, cellUe, handover_pending>>
    BY DEF UAVManager, NewSecond, Next, vars, radio, tables, asked, options
  <1>3. Types'
    <2>1. neighbors' \in [Cells -> [Users -> Int]]
      BY <1>1 DEF UAVManager, NewSecond, vars, Types
    <2> QED BY <1>1, <1>2, <2>1 DEF Types
  <1>4. RntisGiven' /\ Rows'
    BY <1>1, <1>2, RadiosKept
  <1>5. RequestsStand' /\ AbortsOnlyAfterLinkFailure' /\ PendingIsReal'
    BY <1>1, <1>2
       DEF RequestsStand, Stands, AbortsOnlyAfterLinkFailure, PendingIsReal
  <1>6. TakenForRntiTwin'
    BY <1>1, <1>2, TwinsKept
  <1> QED BY <1>3, <1>4, <1>5, <1>6 DEF IInv

\* Every step keeps the invariant.
LEMMA NextCells == IInv /\ [Next]_vars => IInv'
  <1> SUFFICES ASSUME IInv, [Next]_vars PROVE IInv'
    OBVIOUS
  <1>1. CASE UNCHANGED vars
    BY <1>1, ClockCells
  <1>2. CASE Next
    <2> USE <1>2 DEF Next
    <2>1. ASSUME NEW u \in Users, NEW c \in Cells, Connect(u, c) PROVE IInv'
      BY <2>1, ConnectCells
    <2>2. ASSUME NEW q \in requests, StartHandover(q) PROVE IInv'
      BY <2>2, StartHandoverCells
    <2>3. ASSUME NEW q \in requests, AbortOnRequest(q) PROVE IInv'
      BY <2>3, AbortCells
    <2>4. ASSUME NEW u \in Users, FinishHandover(u) PROVE IInv'
      BY <2>4, FinishHandoverCells
    <2>5. ASSUME NEW u \in Users, RandomAccessFailure(u) PROVE IInv'
      BY <2>5, AccessFailureCells
    <2>6. ASSUME NEW u \in Users, RadioLinkFailure(u) PROVE IInv'
      BY <2>6, LinkFailureCells
    <2>7. ASSUME NEW u \in Users, NEW c \in Cells, NEW rsrp \in Levels, Report(u, c, rsrp)
          PROVE  IInv'
      BY <2>7, ReportCells
    <2>8. ASSUME UAVManager \/ NewSecond PROVE IInv'
      BY <2>8, ClockCells
    <2> QED BY <2>1, <2>2, <2>3, <2>4, <2>5, <2>6, <2>7, <2>8
  <1> QED BY <1>1, <1>2

-------------------------------------------------------------------------------
(***************************************************************************)
(* The theorems on the cell side.                                          *)
(***************************************************************************)

\* The conjunction that is inductive holds in every state.
THEOREM CellInvariance == Spec => []IInv
  BY InitCells, NextCells, PTL DEF Spec

\* The tables on a connected user are exact, whatever failed before.
THEOREM TablesExact == Spec => []CellTablesExact
  <1>1. IInv => CellTablesExact
    BY DEF IInv, Rows, RowOf, CellTablesExact
  <1> QED BY <1>1, CellInvariance, PTL

\* The stack's assertion on a request fails only after a radio link failure.
THEOREM AbortsExplained == Spec => []AbortsOnlyAfterLinkFailure
  <1>1. IInv => AbortsOnlyAfterLinkFailure
    BY DEF IInv
  <1> QED BY <1>1, CellInvariance, PTL

\* A pending handover is one that is requested, under way or dead.
THEOREM PendingExplained == Spec => []PendingIsReal
  <1>1. IInv => PendingIsReal
    BY DEF IInv
  <1> QED BY <1>1, CellInvariance, PTL

\* A node is taken for another user only after the two had the same RNTI.
THEOREM TwinsExplained == Spec => []TakenForRntiTwin
  <1>1. IInv => TakenForRntiTwin
    BY DEF IInv
  <1> QED BY <1>1, CellInvariance, PTL

-------------------------------------------------------------------------------
(***************************************************************************)
(* The composition: the cell side and the edge side on the same events.    *)
(* What the refinement needs beyond IInv is that a user whose radio is not *)
(* idle has connected before.                                              *)
(***************************************************************************)
ConnectedBefore == \A u \in Users : rrc[u] # "idle" => u \in active_users

CellsNow == [u \in Users |-> get_cell(u)]

\* A step of the simulation is one of the cell side, or none of it.
LEMMA SimulationCells == [SimulationNext]_allVars => [Next]_vars
  BY DEF SimulationNext, Connected, HandoverStarted, CellOnly, Next, allVars

\* A user whose radio has left idle is among the users the edge side knows.
LEMMA SimulationInvariant ==
    IInv /\ ConnectedBefore /\ [SimulationNext]_allVars => ConnectedBefore'
  <1> SUFFICES ASSUME IInv, ConnectedBefore, [SimulationNext]_allVars PROVE ConnectedBefore'
    OBVIOUS
  <1>1. Types
    BY DEF IInv
  <1>2. ASSUME NEW u \in Users, NEW c \in Cells, Connected(u, c) PROVE ConnectedBefore'
    BY <1>1, <1>2 DEF Connected, Connect, Edge!AllocateEdge, ConnectedBefore, Types
  <1>3. ASSUME NEW q \in requests, HandoverStarted(q) PROVE ConnectedBefore'
    <2>1. q.user \in Users /\ rrc[q.user] = "connected"
      BY <1>1, <1>3 DEF HandoverStarted, StartHandover, Types
    <2> QED BY <1>1, <1>3, <2>1 DEF HandoverStarted, StartHandover, ConnectedBefore, Types
  <1>4. ASSUME CellOnly, UNCHANGED edgeVars PROVE ConnectedBefore'
    <2>1. \A u \in Users : rrc'[u] # "idle" => rrc[u] # "idle"
      BY <1>1, <1>4 DEF CellOnly, AbortOnRequest, FinishHandover, RandomAccessFailure,
                       RadioLinkFailure, Report, UAVManager, NewSecond, radio, Types
    <2> QED BY <1>4, <2>1 DEF ConnectedBefore, edgeVars
  <1>5. ASSUME UNCHANGED <<vars>>, EdgeOnly PROVE ConnectedBefore'
    BY <1>5 DEF EdgeOnly, Edge!RunMigration, Edge!manager, Edge!ManagerStep, ConnectedBefore,
                vars, radio
  <1>6. ASSUME UNCHANGED allVars PROVE ConnectedBefore'
    BY <1>6 DEF allVars, vars, radio, edgeVars, ConnectedBefore
  <1> QED BY <1>2, <1>3, <1>4, <1>5, <1>6 DEF SimulationNext

\* After a step get_cell answers as before it.
LEMMA GetCellExactNext ==
    ASSUME IInv', NEW u \in Users
    PROVE  /\ rrc'[u] = "connected" => get_cell(u)' = cell'[u]
           /\ rrc'[u] \in {"handover", "failed"} => get_cell(u)' = NoCell
  <1>1. RowOf(u)' /\ RadioOf(u)' /\ Types'
    BY DEF IInv, Rows, RntisGiven
  <1>2. ASSUME rrc'[u] = "connected" PROVE get_cell(u)' = cell'[u]
    <2>1. cell'[u] \in Cells /\ rnti'[u] # 0
      BY <1>1, <1>2 DEF RadioOf, Types
    <2>2. cellUe'[cell'[u]][u] # 0 /\ \A d \in Cells \ {cell'[u]} : cellUe'[d][u] = 0
      BY <1>1, <1>2, <2>1 DEF RowOf
    <2> QED BY <2>1, <2>2, CellOfRow, GetCellIs
  <1>3. ASSUME rrc'[u] \in {"handover", "failed"} PROVE get_cell(u)' = NoCell
    BY <1>1, <1>3, CellOfRow, GetCellIs DEF RowOf
  <1> QED BY <1>2, <1>3

\* A step that touches the row of one user changes that user's cell alone.
LEMMA OneCellChanged ==
    ASSUME NEW u \in Users,
           \A v \in Users \ {u} : \A d \in Cells : cellUe'[d][v] = cellUe[d][v]
    PROVE  CellsNow' = [CellsNow EXCEPT ![u] = get_cell(u)']
  <1>1. \A v \in Users \ {u} : get_cell(v)' = get_cell(v)
    BY CellOfSameRow, GetCellIs
  <1> DEFINE newCell == get_cell(u)'
  <1>2. \A v \in Users : get_cell(v)' = IF v = u THEN newCell ELSE get_cell(v)
    BY <1>1
  <1>3. CellsNow' = [v \in Users |-> get_cell(v)']
    BY DEF CellsNow
  <1> HIDE DEF newCell
  <1>4. CellsNow' = [v \in Users |-> IF v = u THEN newCell ELSE get_cell(v)]
    BY <1>2, <1>3
  <1>5. [CellsNow EXCEPT ![u] = newCell] = [v \in Users |-> IF v = u THEN newCell ELSE get_cell(v)]
    BY DEF CellsNow
  <1> QED BY <1>4, <1>5 DEF newCell

\* Every step of the simulation is a step of the edge side, or leaves it alone.
LEMMA StepRefines ==
    ASSUME IInv, IInv', ConnectedBefore, [SimulationNext]_allVars
    PROVE  [Edge!Next]_(Edge!vars)
  <1> USE CellConstants
  <1>1. Types /\ RntisGiven /\ Rows /\ RequestsStand /\ Types'
    BY DEF IInv
  <1>2. Edge!UEs = Users /\ Edge!Edges = Cells /\ Edge!None = NoCell
    BY UsersAssumption DEF Edge!UEs, Edge!Edges, Edge!None, Cells, NoCell
  <1>3. ASSUME UNCHANGED options, turn = 0, NEW u \in Users, NEW c \in Cells, Connected(u, c)
        PROVE  Edge!Next
    <2>1. \A v \in Users \ {u} : \A d \in Cells : cellUe'[d][v] = cellUe[d][v]
      BY <1>1, <1>3 DEF Connected, Connect, NotifyConnectionEstablishedUe, Types
    <2>2. rrc'[u] = "connected" /\ cell'[u] = c
      BY <1>1, <1>3 DEF Connected, Connect, Types
    <2>3. get_cell(u)' = c
      BY <2>2, GetCellExactNext
    <2>4. CellsNow' = [CellsNow EXCEPT ![u] = c]
      BY <2>1, <2>3, OneCellChanged
    <2>5. Edge!Connect(u, c)
      BY <1>3, <2>4 DEF Edge!Connect, Connected, CellsNow
    <2> QED BY <1>2, <1>3, <2>5 DEF Edge!Next, options
  <1>4. ASSUME UNCHANGED options, turn = 0, NEW q \in requests, HandoverStarted(q)
        PROVE  Edge!Next
    <2>1. PICK u \in Users, source \in Cells, c \in Cells :
              u = q.user /\ source = q.source /\ c = q.target
      BY <1>1 DEF Types
    <2>2. rrc[u] = "connected" /\ cell[u] = source /\ source # c /\ rrc'[u] = "handover"
      BY <1>1, <1>4, <2>1 DEF HandoverStarted, StartHandover, RequestsStand, Stands, Types
    <2>3. \A v \in Users \ {u} : \A d \in Cells : cellUe'[d][v] = cellUe[d][v]
      BY <1>1, <1>4, <2>1 DEF HandoverStarted, StartHandover, NotifyHandoverStartUe, Types
    <2>4. get_cell(u) = source /\ get_cell(u)' = NoCell
      BY <1>1, <2>2, GetCellExact, GetCellExactNext
    <2>5. CellsNow' = [CellsNow EXCEPT ![u] = NoCell] /\ CellsNow[u] = source
      BY <2>3, <2>4, OneCellChanged DEF CellsNow
    <2>6. Edge!StartHandover(u, c)
      BY <1>2, <1>4, <2>1, <2>2, <2>5 DEF Edge!StartHandover, HandoverStarted, CellsNow
    <2> QED BY <1>2, <1>4, <2>6 DEF Edge!Next, options
  <1>5. ASSUME UNCHANGED options, turn = 0, NEW u \in Users, FinishHandover(u),
               UNCHANGED edgeVars
        PROVE  Edge!Next
    <2>1. /\ rrc[u] = "handover" /\ rrc'[u] = "connected" /\ cell'[u] = cell[u]
          /\ cell[u] \in Cells /\ u \in active_users
      BY <1>1, <1>5 DEF FinishHandover, RntisGiven, RadioOf, ConnectedBefore, Types
    <2>2. PICK c \in Cells : c = cell[u]
      BY <2>1
    <2>3. \A v \in Users \ {u} : \A d \in Cells : cellUe'[d][v] = cellUe[d][v]
      BY <1>1, <1>5, <2>2 DEF FinishHandover, NotifyHandoverEndOkUe, Types
    <2>4. get_cell(u) = NoCell /\ get_cell(u)' = c
      BY <1>1, <2>1, <2>2, GetCellExact, GetCellExactNext
    <2>5. CellsNow' = [CellsNow EXCEPT ![u] = c] /\ CellsNow[u] = NoCell
      BY <2>3, <2>4, OneCellChanged DEF CellsNow
    <2>6. Edge!FinishHandover(u, c)
      BY <1>2, <1>5, <2>1, <2>5 DEF Edge!FinishHandover, Edge!tables, CellsNow, edgeVars
    <2> QED BY <1>2, <1>5, <2>6 DEF Edge!Next, options
  <1>6. ASSUME UNCHANGED algorithm, UNCHANGED cellUe, UNCHANGED edgeVars
        PROVE  UNCHANGED Edge!vars
    <2>1. \A v \in Users : get_cell(v)' = get_cell(v)
      BY <1>6, GetCellIs
    <2>2. CellsNow' = CellsNow
      BY <2>1 DEF CellsNow
    <2> QED BY <1>6, <2>2 DEF Edge!vars, Edge!tables, edgeVars, CellsNow
  <1>7. ASSUME UNCHANGED options, turn = 0, CellOnly, UNCHANGED edgeVars
        PROVE  Edge!Next \/ UNCHANGED Edge!vars
    <2>1. CASE \E u \in Users : FinishHandover(u)
      BY <1>5, <1>7, <2>1
    <2>2. CASE ~\E u \in Users : FinishHandover(u)
      <3>1. UNCHANGED cellUe
        BY <1>7, <2>2 DEF CellOnly, AbortOnRequest, RandomAccessFailure, RadioLinkFailure,
                         Report, UAVManager, NewSecond, tables
      <3> QED BY <1>6, <1>7, <3>1 DEF options
    <2> QED BY <2>1, <2>2
  <1>8. ASSUME UNCHANGED options, EdgeOnly PROVE Edge!Next
    BY <1>8 DEF EdgeOnly, Edge!Next, options
  <1>9. ASSUME UNCHANGED allVars PROVE UNCHANGED Edge!vars
    BY <1>6, <1>9 DEF allVars, vars, tables, options
  <1> QED BY <1>3, <1>4, <1>7, <1>8, <1>9 DEF SimulationNext

\* The simulation implements the edge side: the cells that the callbacks keep in
\* cellUe move as EdgeManager lets them, also across failures no callback sees.
THEOREM EdgeRefinement == SimulationSpec => EdgeSpec
  <1> DEFINE SInv == IInv /\ ConnectedBefore
  <1>1. SimulationInit => SInv
    BY InitCells DEF SimulationInit, Init, ConnectedBefore
  <1>2. SInv /\ [SimulationNext]_allVars => SInv'
    BY SimulationCells, NextCells, SimulationInvariant
  <1>3. SInv /\ SInv' /\ [SimulationNext]_allVars => [Edge!Next]_(Edge!vars)
    BY StepRefines
  <1>4. SimulationInit => Edge!Init
    BY DEF SimulationInit
  <1> HIDE DEF SInv
  <1> QED BY <1>1, <1>2, <1>3, <1>4, PTL DEF SimulationSpec, EdgeSpec, Edge!Spec

\* The edge side with what EdgeManagerProofs shows of it, on the same cells.
EdgeResults == INSTANCE EdgeManagerProofs WITH
                   NumEdges <- NumCells, cellOf <- [u \in Users |-> get_cell(u)]

\* In the whole simulation units are conserved, while one is left the servers'
\* accounts are exact, a server with too many users shows none, and every user
\* who ever connected has one server, for all interleavings of the callbacks, the
\* failures and manager.
THEOREM SimulationEdges ==
    SimulationSpec => [](Edge!UnitsConserved /\ Edge!EdgeAccounts /\ Edge!OneEdge)
  <1>1. Edge!Init <=> EdgeResults!Init
    BY DEF Edge!Init, EdgeResults!Init, Edge!UEs, EdgeResults!UEs, Edge!Edges, EdgeResults!Edges,
           Edge!None, EdgeResults!None
  <1>2. Edge!Next <=> EdgeResults!Next
    BY DEF Edge!Next, EdgeResults!Next, Edge!UEs, EdgeResults!UEs, Edge!Edges, EdgeResults!Edges,
           Edge!None, EdgeResults!None, Edge!tables, EdgeResults!tables,
           Edge!Connect, EdgeResults!Connect, Edge!AllocateEdge, EdgeResults!AllocateEdge,
           Edge!StartHandover, EdgeResults!StartHandover,
           Edge!FollowHandover, EdgeResults!FollowHandover,
           Edge!FinishHandover, EdgeResults!FinishHandover,
           Edge!RunMigration, EdgeResults!RunMigration, Edge!migrate, EdgeResults!migrate,
           Edge!manager, EdgeResults!manager, Edge!ManagerStep, EdgeResults!ManagerStep,
           Edge!ManageUser, EdgeResults!ManageUser, Edge!getEdge, EdgeResults!getEdge,
           Edge!bestEdgeServer, EdgeResults!bestEdgeServer, Edge!Score, EdgeResults!Score,
           Edge!HandoverPrediction, EdgeResults!HandoverPrediction,
           Edge!Move, EdgeResults!Move
  <1>3. Edge!vars = EdgeResults!vars
    BY DEF Edge!vars, EdgeResults!vars, Edge!tables, EdgeResults!tables
  <1>4. [Edge!Next]_(Edge!vars) => [EdgeResults!Next]_(EdgeResults!vars)
    <2>1. Edge!vars' = EdgeResults!vars'
      BY DEF Edge!vars, EdgeResults!vars, Edge!tables, EdgeResults!tables
    <2> QED BY <1>2, <1>3, <2>1
  <1>5. EdgeSpec => EdgeResults!Spec
    BY <1>1, <1>4, PTL DEF EdgeSpec, Edge!Spec, EdgeResults!Spec
  <1>6. EdgeResults!UnitsConserved /\ EdgeResults!EdgeAccounts /\ EdgeResults!OneEdge
            => Edge!UnitsConserved /\ Edge!EdgeAccounts /\ Edge!OneEdge
    <2>1. \A S : Edge!Cardinality(S) = EdgeResults!Cardinality(S)
      BY Zenon DEF Edge!Cardinality, EdgeResults!Cardinality,
                   Edge!IsFiniteSet, EdgeResults!IsFiniteSet
    <2>2. \A f : Edge!SumFunction(f) = EdgeResults!SumFunction(f)
      BY Zenon DEF Edge!SumFunction, EdgeResults!SumFunction,
                   Edge!SumFunctionOnSet, EdgeResults!SumFunctionOnSet,
                   Edge!FoldFunctionOnSet, EdgeResults!FoldFunctionOnSet,
                   Edge!MapThenFoldSet, EdgeResults!MapThenFoldSet
    <2> QED
      BY <2>1, <2>2
       DEF Edge!UnitsConserved, EdgeResults!UnitsConserved, Edge!Total, EdgeResults!Total,
           Edge!EdgeAccounts, EdgeResults!EdgeAccounts, Edge!OneEdge, EdgeResults!OneEdge,
           Edge!UEs, EdgeResults!UEs, Edge!Edges, EdgeResults!Edges
  <1>7. EdgeResults!Spec => []EdgeResults!UnitsConserved
    BY EdgeAssumption, NumStaticAssumption, EdgeResults!EdgeUnitsConserved
  <1>8. EdgeResults!Spec => []EdgeResults!EdgeAccounts
    BY EdgeAssumption, NumStaticAssumption, EdgeResults!EdgeAccountsExact
  <1>9. EdgeResults!Spec => []EdgeResults!OneEdge
    BY EdgeAssumption, NumStaticAssumption, EdgeResults!EdgeOneServer
  <1> QED BY <1>5, <1>6, <1>7, <1>8, <1>9, EdgeRefinement, PTL
===============================================================================
