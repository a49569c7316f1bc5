------------------------------ MODULE CellManager ------------------------------
(***************************************************************************)
(* The cell side of scratch/simulation.cc: the tables that say which cell  *)
(* serves which user and how strong each cell is received, kept by the     *)
(* callbacks of the LTE stack, and the handover manager that decides from  *)
(* them.                                                                   *)
(*                                                                         *)
(* The LTE stack (ns-3's src/lte) is the environment: a user's radio is    *)
(* idle, connected or in a handover, each cell numbers its users (RNTI),   *)
(* and a handover requested now is executed 10 ms later.  Random access    *)
(* may fail in a handover and a radio link may fail: the program leaves    *)
(* both traces unconnected.                                                *)
(*                                                                         *)
(* A user is named by its IMSI; the program's user index is the IMSI less  *)
(* one, and the node of a trace path is that of the user whose radio       *)
(* reports.  Cell c here is the program's index c - 1.                     *)
(***************************************************************************)
EXTENDS Integers, FiniteSets

CONSTANTS
    Users,
    NumCells,               \* numBSs
    NumStatic,              \* numStaticCells: the cells after these are drones
    Levels,                 \* the received powers a radio can report, in dBm
    Policies,               \* values of handover_policy
    Algorithms,             \* values of algorithm
    MaxPerSecond,           \* max_handovers_per_second
    MaxRnti,                \* bound on the RNTIs a cell gives out
    MaxAccessFailures,      \* bound on the handovers whose random access fails
    MaxLinkFailures,        \* bound on the radio link failures
    NoUser

Cells == 1..NumCells
Rntis == 1..MaxRnti
NoCell == 0
ZERO_SIGNAL_LEVEL == -999
CONNECTED_SIGNAL_LEVEL == -90
signal_threshold == 3

ASSUME NumCellsAssumption == NumCells \in Nat
ASSUME NumStaticAssumption == NumStatic \in 0..NumCells
ASSUME LevelsAssumption == Levels \subseteq Int
ASSUME PoliciesAssumption == Policies \subseteq {"classic", "competing", "iuavbs"}
ASSUME NoUserAssumption == NoUser \notin Users
ASSUME MaxPerSecondAssumption == MaxPerSecond \in Nat
ASSUME BoundsAssumption ==
    MaxRnti \in Nat /\ MaxAccessFailures \in Nat /\ MaxLinkFailures \in Nat

VARIABLES
    \* the LTE stack
    rrc,                \* by user: "idle", "connected", "handover" or "failed"
    cell,               \* by user: LteUeRrc's m_cellId, NoCell when idle
    rnti,               \* by user: LteUeRrc's m_rnti, 0 when idle
    lastRnti,           \* by cell: the RNTI given out last
    requests,           \* handovers requested and not yet executed
    accessFailures, linkFailures, \* so far
    aborted,            \* an assertion of the stack has ended the simulation
    \* the program's tables
    handover_policy, algorithm, \* chosen at the start
    path_imsi,          \* by node of a user: the IMSI it is taken for
    rnti_cells,         \* by cell and RNTI: IMSI
    cellUe,             \* by cell and user: RNTI, 0 when the cell does not serve the user
    neighbors,          \* by cell and user: received power
    handover_pending,   \* by user
    handover_vector,    \* by user: its last handover, see Ages
    handovers_per_second    \* in this second

options == <<handover_policy, algorithm>>
radio == <<rrc, cell, rnti, lastRnti, accessFailures, linkFailures>>
tables == <<rnti_cells, cellUe>>
asked == <<requests, handover_pending, handover_vector, handovers_per_second>>
vars == <<radio, aborted, options, path_imsi, tables, neighbors, asked>>

\* An entry of handover_vector is made in this second (1), in the one before
\* (2), or in the one before that (3), when it may or may not be 2 s old; an
\* entry that is older than 2 s (0) is as good as none.
Ages == 0..3

Init ==
    /\ rrc = [u \in Users |-> "idle"]
    /\ cell = [u \in Users |-> NoCell]
    /\ rnti = [u \in Users |-> 0]
    /\ lastRnti = [c \in Cells |-> 0]
    /\ requests = {}
    /\ accessFailures = 0
    /\ linkFailures = 0
    /\ aborted = FALSE
    /\ handover_policy \in Policies
    /\ algorithm \in Algorithms
    /\ path_imsi = [u \in Users |-> NoUser]
    /\ rnti_cells = [c \in Cells |-> [r \in Rntis |-> NoUser]]
    /\ cellUe = [c \in Cells |-> [u \in Users |-> 0]]
    /\ neighbors = [c \in Cells |-> [u \in Users |-> ZERO_SIGNAL_LEVEL]]
    /\ handover_pending = [u \in Users |-> FALSE]
    /\ handover_vector = [u \in Users |-> 0]
    /\ handovers_per_second = 0

-------------------------------------------------------------------------------
(***************************************************************************)
(* The getters.                                                            *)
(***************************************************************************)

\* Mutant: the RNTIs of a cell are counted from zero.
GetImsiFromZero(c, r) == IF r + 1 \in Rntis THEN rnti_cells[c][r + 1] ELSE NoUser

get_imsi(c, r) == IF r \in Rntis THEN rnti_cells[c][r] ELSE NoUser

\* The first cell whose entry for the user is not 0.
get_cell(u) ==
    LET serving == {c \in Cells : cellUe[c][u] # 0}
    IN  IF serving = {} THEN NoCell ELSE CHOOSE c \in serving : \A d \in serving : c <= d

is_drone(c) == c > NumStatic

\* Of the cells of S, the one received best by u; of equals, the first.
Strongest(S, u, levels) ==
    CHOOSE c \in S : \A d \in S : \/ levels[d][u] < levels[c][u]
                                  \/ levels[d][u] = levels[c][u] /\ c <= d

-------------------------------------------------------------------------------
(***************************************************************************)
(* The handover manager.                                                   *)
(***************************************************************************)

\* One handover of a user in two seconds, MaxPerSecond + 1 of all users in a
\* second, and only of a user whose radio is connected.
schedule_handover(u, t) ==
    \/ /\ handovers_per_second <= MaxPerSecond
       /\ handover_vector[u] \in {0, 3}
       /\ rrc[u] = "connected"
       /\ requests' = requests \cup {[user |-> u, source |-> get_cell(u), target |-> t]}
       /\ handover_vector' = [handover_vector EXCEPT ![u] = 1]
       /\ handovers_per_second' = handovers_per_second + 1
       /\ handover_pending' = [handover_pending EXCEPT ![u] = TRUE]
    \/ /\ \/ handovers_per_second > MaxPerSecond
          \/ handover_vector[u] \in {1, 2, 3}
          \/ rrc[u] # "connected"
       /\ UNCHANGED asked

\* The cell of S received best, if it is received signal_threshold better than
\* the serving cell.
StrongerIn(S, u, serving, levels) ==
    LET heard == {c \in S : levels[c][u] > ZERO_SIGNAL_LEVEL}
        best == Strongest(heard, u, levels)
    IN  IF heard # {} /\ levels[best][u] > signal_threshold + levels[serving][u]
        THEN best ELSE NoCell

\* The cells the policy may answer; NoCell for no handover.  The throughput of
\* the users and the cells, by which "competing" excludes cells, and the list
\* of unserved users, for whom alone "iuavbs" moves anything, are inputs.
\* "iuavbs" schedules the handover inside its loop, hence to the first drone
\* that is received and not to the strongest.
Targets(u, serving, levels) ==
    LET drones == {c \in Cells \ {serving} : is_drone(c) /\ levels[c][u] > ZERO_SIGNAL_LEVEL}
    IN  CASE handover_policy = "classic" ->
                 {StrongerIn(Cells \ {serving}, u, serving, levels)}
          [] handover_policy = "competing" ->
                 {NoCell} \cup {StrongerIn(S, u, serving, levels) : S \in SUBSET (Cells \ {serving})}
          [] handover_policy = "iuavbs" ->
                 {NoCell} \cup {c \in drones : \A d \in drones : c <= d}

handoverManager(u, levels) ==
    LET serving == get_cell(u)
    IN  IF \/ u = NoUser
           \/ handover_pending[u]
           \/ serving = NoCell
           \/ levels[serving][u] < CONNECTED_SIGNAL_LEVEL
        THEN UNCHANGED asked
        ELSE \E t \in Targets(u, serving, levels) :
                 IF t = NoCell THEN UNCHANGED asked ELSE schedule_handover(u, t)

-------------------------------------------------------------------------------
(***************************************************************************)
(* The callbacks of the LTE stack.                                         *)
(***************************************************************************)

\* Mutant: the cell that served the user before is not taken out of the table.
EstablishedKeepingOldCell(u, c, r) ==
    /\ handover_pending' = [handover_pending EXCEPT ![u] = FALSE]
    /\ cellUe' = [cellUe EXCEPT ![c][u] = r]
    /\ rnti_cells' = [rnti_cells EXCEPT ![c][r] = u]

\* The part of the handler on the tables of this module; EdgeManager has the
\* allocation of an edge server.
NotifyConnectionEstablishedUe(u, c, r) ==
    LET oldCell == get_cell(u)
    IN  /\ handover_pending' = [handover_pending EXCEPT ![u] = FALSE]
        /\ cellUe' = [d \in Cells |->
               [cellUe[d] EXCEPT ![u] = IF d = c THEN r ELSE IF d = oldCell THEN 0 ELSE @]]
        /\ rnti_cells' = [rnti_cells EXCEPT ![c][r] = u]

\* Mutant: the source cell stays in the table.
HandoverStartKeepingSource(u, source) == UNCHANGED cellUe

NotifyHandoverStartUe(u, source) ==
    cellUe' = [cellUe EXCEPT ![source][u] = 0]

\* Mutant: the flag stays set.
HandoverEndStillPending(u, c, r) ==
    /\ UNCHANGED handover_pending
    /\ cellUe' = [cellUe EXCEPT ![c][u] = r]
    /\ rnti_cells' = [rnti_cells EXCEPT ![c][r] = u]

NotifyHandoverEndOkUe(u, c, r) ==
    /\ handover_pending' = [handover_pending EXCEPT ![u] = FALSE]
    /\ cellUe' = [cellUe EXCEPT ![c][u] = r]
    /\ rnti_cells' = [rnti_cells EXCEPT ![c][r] = u]

\* A radio in any state reports the cells it receives.  Its own RNTI is looked
\* up in the measured cell, whoever has that RNTI there.
ReportUeMeasurementsCallback(u, c, rsrp) ==
    LET imsi == get_imsi(c, rnti[u])
        user == IF imsi = NoUser THEN path_imsi[u] ELSE imsi
    IN  /\ path_imsi' = [path_imsi EXCEPT ![u] = user]
        /\ neighbors' = IF user = NoUser THEN neighbors
                        ELSE [neighbors EXCEPT ![c][user] = rsrp]
        /\ handoverManager(user, neighbors')

-------------------------------------------------------------------------------
(***************************************************************************)
(* The steps.                                                              *)
(***************************************************************************)

\* The bound on RNTIs, kept where a handover or a connection begins so that one
\* that is requested can always be executed.
RntiLeft(c) == lastRnti[c] + Cardinality({q \in requests : q.target = c}) < MaxRnti

\* A radio finds a cell and sets up a connection, which takes longer than the
\* 10 ms a request waits.
Connect(u, c) ==
    /\ rrc[u] = "idle"
    /\ \A q \in requests : q.user # u
    /\ RntiLeft(c)
    /\ rrc' = [rrc EXCEPT ![u] = "connected"]
    /\ cell' = [cell EXCEPT ![u] = c]
    /\ rnti' = [rnti EXCEPT ![u] = lastRnti[c] + 1]
    /\ lastRnti' = [lastRnti EXCEPT ![c] = @ + 1]
    /\ NotifyConnectionEstablishedUe(u, c, lastRnti[c] + 1)
    /\ UNCHANGED <<accessFailures, linkFailures, aborted, path_imsi, neighbors, requests,
                   handover_vector, handovers_per_second>>

\* A request is executed: the target gives the user an RNTI and the radio is
\* told to go there.
StartHandover(q) ==
    /\ rrc[q.user] = "connected" /\ cell[q.user] = q.source
    /\ lastRnti[q.target] < MaxRnti
    /\ requests' = requests \ {q}
    /\ rrc' = [rrc EXCEPT ![q.user] = "handover"]
    /\ cell' = [cell EXCEPT ![q.user] = q.target]
    /\ rnti' = [rnti EXCEPT ![q.user] = lastRnti[q.target] + 1]
    /\ lastRnti' = [lastRnti EXCEPT ![q.target] = @ + 1]
    /\ NotifyHandoverStartUe(q.user, q.source)
    /\ UNCHANGED <<accessFailures, linkFailures, aborted, path_imsi, rnti_cells, neighbors,
                   handover_pending, handover_vector, handovers_per_second>>

\* The source cell does not know the user's RNTI: NS_ASSERT in GetUeManager.
AbortOnRequest(q) ==
    /\ ~(rrc[q.user] = "connected" /\ cell[q.user] = q.source)
    /\ requests' = requests \ {q}
    /\ aborted' = TRUE
    /\ UNCHANGED <<radio, path_imsi, tables, neighbors, handover_pending,
                   handover_vector, handovers_per_second>>

FinishHandover(u) ==
    /\ rrc[u] = "handover"
    /\ rrc' = [rrc EXCEPT ![u] = "connected"]
    /\ NotifyHandoverEndOkUe(u, cell[u], rnti[u])
    /\ UNCHANGED <<cell, rnti, lastRnti, accessFailures, linkFailures, aborted, path_imsi,
                   neighbors, requests, handover_vector, handovers_per_second>>

\* The stack writes a trace that the program does not connect, and leaves the
\* radio in the state of a handover for ever.
RandomAccessFailure(u) ==
    /\ rrc[u] = "handover"
    /\ accessFailures < MaxAccessFailures
    /\ accessFailures' = accessFailures + 1
    /\ rrc' = [rrc EXCEPT ![u] = "failed"]
    /\ UNCHANGED <<cell, rnti, lastRnti, linkFailures, aborted, path_imsi, tables,
                   neighbors, asked>>

\* No callback is connected to this trace.
RadioLinkFailure(u) ==
    /\ rrc[u] = "connected"
    /\ linkFailures < MaxLinkFailures
    /\ linkFailures' = linkFailures + 1
    /\ rrc' = [rrc EXCEPT ![u] = "idle"]
    /\ cell' = [cell EXCEPT ![u] = NoCell]
    /\ rnti' = [rnti EXCEPT ![u] = 0]
    /\ UNCHANGED <<lastRnti, accessFailures, aborted, path_imsi, tables, neighbors, asked>>

Report(u, c, rsrp) ==
    /\ ReportUeMeasurementsCallback(u, c, rsrp)
    /\ \A q \in requests' \ requests : RntiLeft(q.target)
    /\ UNCHANGED <<radio, aborted, tables>>

\* What UAVManager does to this module's tables, after it has moved the drones.
UAVManager ==
    /\ algorithm = "iuavbs"
    /\ neighbors' = [c \in Cells |-> [u \in Users |-> 0]]
    /\ UNCHANGED <<radio, aborted, path_imsi, tables, asked>>

NewSecond ==
    /\ handovers_per_second' = 0
    /\ handover_vector' = [u \in Users |->
           IF handover_vector[u] = 0 THEN 0 ELSE (handover_vector[u] + 1) % 4]
    /\ UNCHANGED <<radio, aborted, path_imsi, tables, neighbors, requests, handover_pending>>

Execute == \E q \in requests : StartHandover(q) \/ AbortOnRequest(q)

Next ==
    /\ ~aborted
    /\ UNCHANGED options
    /\ \/ \E u \in Users, c \in Cells : Connect(u, c)
       \/ \E q \in requests : StartHandover(q)
       \/ \E q \in requests : AbortOnRequest(q)
       \/ \E u \in Users : FinishHandover(u)
       \/ \E u \in Users : RandomAccessFailure(u)
       \/ \E u \in Users : RadioLinkFailure(u)
       \/ \E u \in Users, c \in Cells, rsrp \in Levels : Report(u, c, rsrp)
       \/ UAVManager
       \/ NewSecond

Spec == Init /\ [][Next]_vars

\* A request is an event of the simulator, which executes it; the stack ends
\* the handovers it starts.  The measurements need no fairness.
FairSpec ==
    /\ Spec
    /\ WF_vars(~aborted /\ UNCHANGED options /\ Execute)
    /\ \A u \in Users : WF_vars(~aborted /\ UNCHANGED options /\ FinishHandover(u))

-------------------------------------------------------------------------------
(***************************************************************************)
(* Properties.                                                             *)
(***************************************************************************)

\* The row of cellUe of a connected user names its cell, with its RNTI, and no
\* other cell: a handover, and a connection set up again after the link
\* failed unseen, leave no trace of the cell before.  And the RNTI leads from the
\* cell back to the user: a later user never takes over the entry of rnti_cells.
CellTablesExact ==
    \A u \in Users : rrc[u] = "connected" =>
        /\ \A c \in Cells : cellUe[c][u] = IF c = cell[u] THEN rnti[u] ELSE 0
        /\ rnti_cells[cell[u]][rnti[u]] = u

\* The handover a request asks for is still possible when the request is
\* executed, unless a radio link failed in between: the user is where it was,
\* whatever report led to the request.
AbortsOnlyAfterLinkFailure == aborted => linkFailures > 0

\* A user whom the manager skips because of a pending handover has one:
\* requested and not yet executed, under way, or dead in its random access.  No
\* order of requests, link failures and new connections leaves the flag behind.
PendingIsReal ==
    \A u \in Users : handover_pending[u] /\ ~aborted =>
        rrc[u] \in {"handover", "failed"} \/ \E q \in requests : q.user = u

\* No user is skipped for ever, unless its random access failed or the
\* simulation has ended.
PendingClears ==
    \A u \in Users : handover_pending[u] ~>
        (~handover_pending[u] \/ rrc[u] = "failed" \/ aborted)

\* A user's node is taken for another user only if the two have had the same
\* RNTI, each in its cell: nothing else, such as a handover, a new connection or
\* a measurement in between, confuses them.
TakenForRntiTwin ==
    \A u \in Users : path_imsi[u] \notin {u, NoUser} =>
        \E r \in Rntis, c, d \in Cells :
            /\ rnti_cells[c][r] = path_imsi[u]
            /\ rnti_cells[d][r] = u \/ rnti[u] = r
===============================================================================
