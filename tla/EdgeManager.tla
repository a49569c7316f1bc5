------------------------------ MODULE EdgeManager ------------------------------
(***************************************************************************)
(* The edge side of scratch/simulation.cc: every base station has an edge  *)
(* server with EDGE_RESOURCES units.  A user gets a unit when it first     *)
(* connects; once a second manager() goes over the users and moves those   *)
(* with a predicted handover to a better server; the algorithm "greedy"    *)
(* moves them at every handover instead.                                   *)
(*                                                                         *)
(* Of the cells this module sees which one serves a user (getCellId);      *)
(* UavEdge gives it the tables of CellManager.  manager() is one event of  *)
(* the simulator: while turn is not 0 it is in its loop, at user turn, and *)
(* nothing else happens.                                                   *)
(***************************************************************************)
EXTENDS Integers, Sequences, FiniteSets, Functions

CONSTANTS
    NumUsers,           \* numUEs
    NumEdges,           \* numEdgeServers, which is numBSs
    NumStatic,          \* numStaticCells: the edges after these are on drones
    EDGE_RESOURCES,
    Algorithms,         \* values of algorithm
    Window,             \* seconds the prediction looks ahead, and a user stays
                        \* away from a server it was moved to (5)
    MaxTime,            \* bound on the seconds simulated
    MaxHandovers        \* bound on the handovers

UEs == 1..NumUsers
Edges == 1..NumEdges
None == 0

ASSUME NumUsersAssumption == NumUsers \in Nat \ {0}
ASSUME NumEdgesAssumption == NumEdges \in Nat \ {0}
ASSUME NumStaticAssumption == NumStatic \in 0..NumEdges
\* The assertion of initialize_vectors.
ASSUME EnoughResources ==
    EDGE_RESOURCES \in Nat /\ NumUsers <= NumEdges * EDGE_RESOURCES
ASSUME AlgorithmsAssumption ==
    Algorithms \subseteq {"genetic", "iuavbs", "qos", "greedy", "nomigration"}
ASSUME BoundsAssumption ==
    Window \in Nat \ {0} /\ MaxTime \in Nat /\ MaxHandovers \in Nat

VARIABLES
    algorithm,          \* chosen at the start
    cellOf,             \* by user: the cell getCellId answers, or None
    resources,          \* by edge: units left
    edgeUe,             \* by edge: the users with an entry that is not 0
    active_users,
    edgeMigrationChart, \* by user and edge: second of the last migration there
    handoverPredictions,    \* by user: second of the handover predicted last
    migrations,         \* calls of migrate the greedy algorithm has scheduled, in order
    handovers,          \* so far
    now,                \* the next run of manager(), in seconds
    turn                \* the user manager() is at, 0 when it does not run

tables == <<resources, edgeUe>>
vars == <<algorithm, cellOf, tables, active_users, edgeMigrationChart, handoverPredictions,
          migrations, handovers, now, turn>>

Init ==
    /\ algorithm \in Algorithms
    /\ cellOf = [u \in UEs |-> None]
    /\ resources = [e \in Edges |-> EDGE_RESOURCES]
    /\ edgeUe = [e \in Edges |-> {}]
    /\ active_users = {}
    /\ edgeMigrationChart = [u \in UEs |-> [e \in Edges |-> 0]]
    /\ handoverPredictions = [u \in UEs |-> 0]
    /\ migrations = <<>>
    /\ handovers = 0
    /\ now = 0
    /\ turn = 0

-------------------------------------------------------------------------------
\* The last server with an entry for the user.
getEdge(u) ==
    LET serving == {e \in Edges : u \in edgeUe[e]}
    IN  IF serving = {} THEN None ELSE CHOOSE e \in serving : \A d \in serving : d <= e

\* Mutant: the unit of the source is not given back.
MigrateKeepingUnit(source, target) ==
    resources' = IF resources[target] = 0 THEN resources
                 ELSE [resources EXCEPT ![target] = @ - 1]

\* A target without units is left alone: the migration fails.
migrate(source, target) ==
    resources' = IF resources[target] = 0 THEN resources
                 ELSE [resources EXCEPT ![source] = @ + 1, ![target] = @ - 1]

\* Mutant: the server of the cell is used whether or not it has units left.
AllocateRegardless(u, c) ==
    /\ active_users' = active_users \cup {u}
    /\ IF u \in active_users THEN UNCHANGED tables
       ELSE /\ edgeUe' = [edgeUe EXCEPT ![c] = @ \cup {u}]
            /\ resources' = [resources EXCEPT ![c] = @ - 1]

\* The first connection of a user: the edge server of its cell, or any other
\* with units.  The loop that draws the other one does not end when there is
\* none.
AllocateEdge(u, c) ==
    /\ active_users' = active_users \cup {u}
    /\ IF u \in active_users THEN UNCHANGED tables
       ELSE \E e \in Edges :
                /\ IF resources[c] = 0 THEN resources[e] > 0 ELSE e = c
                /\ resources' = [resources EXCEPT ![e] = @ - 1]
                /\ edgeUe' = [edgeUe EXCEPT ![e] = @ \cup {u}]

\* What the start of a handover does to the servers: the greedy algorithm
\* moves the user's entry from the server of the source cell at once and has
\* migrate called later, after as long again as the simulation has lasted.
FollowHandover(u, source, target) ==
    IF algorithm = "greedy"
    THEN /\ migrations' = Append(migrations, <<source, target>>)
         /\ edgeUe' = [edgeUe EXCEPT ![source] = @ \ {u}, ![target] = @ \cup {u}]
    ELSE UNCHANGED <<migrations, edgeUe>>

\* A server on a drone scores 102, one on the ground 71, one without units 0;
\* "qos" gives every server the same score.  The first of the best is taken.
Score(e) ==
    CASE algorithm = "qos" -> 1
      [] algorithm # "qos" /\ resources[e] = 0 -> 0
      [] algorithm # "qos" /\ resources[e] > 0 -> IF e <= NumStatic THEN 71 ELSE 102

\* Mutant: a server on a drone is taken whether or not it has units.
FirstDroneEdge == IF NumStatic < NumEdges THEN NumStatic + 1 ELSE 1

bestEdgeServer ==
    CHOOSE e \in Edges : \A d \in Edges : \/ Score(d) < Score(e)
                                          \/ Score(d) = Score(e) /\ e <= d

\* A handover is predicted when the trace has the user nearer to another cell
\* at the second now + Window; the time read is cut to whole seconds.
HandoverPrediction(u) ==
    \/ UNCHANGED handoverPredictions
    \/ /\ cellOf[u] # None
       /\ \E t \in {now + Window - 1, now + Window} :
              handoverPredictions' = [handoverPredictions EXCEPT ![u] = t]

\* Mutant: the entry for the server left is not cleared.
MoveKeepingEntry(u, source, target) ==
    /\ migrate(source, target)
    /\ edgeMigrationChart' = [edgeMigrationChart EXCEPT ![u][target] = now]
    /\ edgeUe' = [edgeUe EXCEPT ![target] = @ \cup {u}]

\* The user's entry is moved whether or not migrate found a unit.
Move(u, source, target) ==
    /\ migrate(source, target)
    /\ edgeMigrationChart' = [edgeMigrationChart EXCEPT ![u][target] = now]
    /\ edgeUe' = [edgeUe EXCEPT ![source] = @ \ {u}, ![target] = @ \cup {u}]

\* The body of manager's loop for one user.
ManageUser(u) ==
    LET serving == getEdge(u)
        best == bestEdgeServer
    IN  IF serving = None \/ algorithm \in {"nomigration", "greedy"}
        THEN UNCHANGED <<tables, edgeMigrationChart, handoverPredictions>>
        ELSE /\ HandoverPrediction(u)
             /\ IF /\ handoverPredictions'[u] > now
                   /\ best # serving
                   /\ edgeMigrationChart[u][best] + Window <= now
                THEN Move(u, serving, best)
                ELSE UNCHANGED <<tables, edgeMigrationChart>>

-------------------------------------------------------------------------------
(***************************************************************************)
(* The steps.                                                              *)
(***************************************************************************)

\* NotifyConnectionEstablishedUe.
Connect(u, c) ==
    /\ turn = 0
    /\ cellOf' = [cellOf EXCEPT ![u] = c]
    /\ AllocateEdge(u, c)
    /\ UNCHANGED <<edgeMigrationChart, handoverPredictions, migrations, handovers, now, turn>>

\* NotifyHandoverStartUe.
StartHandover(u, target) ==
    /\ turn = 0
    /\ cellOf[u] \notin {None, target}
    /\ handovers < MaxHandovers
    /\ handovers' = handovers + 1
    /\ FollowHandover(u, cellOf[u], target)
    /\ cellOf' = [cellOf EXCEPT ![u] = None]
    /\ UNCHANGED <<resources, active_users, edgeMigrationChart, handoverPredictions, now, turn>>

\* NotifyHandoverEndOkUe, for a user in a handover.
FinishHandover(u, c) ==
    /\ turn = 0
    /\ u \in active_users /\ cellOf[u] = None
    /\ cellOf' = [cellOf EXCEPT ![u] = c]
    /\ UNCHANGED <<tables, active_users, edgeMigrationChart, handoverPredictions,
                   migrations, handovers, now, turn>>

RunMigration ==
    /\ turn = 0
    /\ migrations # <<>>
    /\ migrate(migrations[1][1], migrations[1][2])
    /\ migrations' = Tail(migrations)
    /\ UNCHANGED <<cellOf, edgeUe, active_users, edgeMigrationChart, handoverPredictions,
                   handovers, now, turn>>

manager ==
    /\ turn = 0
    /\ now <= MaxTime
    /\ turn' = 1
    /\ UNCHANGED <<cellOf, tables, active_users, edgeMigrationChart, handoverPredictions,
                   migrations, handovers, now>>

ManagerStep ==
    /\ turn # 0
    /\ ManageUser(turn)
    /\ turn' = (turn + 1) % (NumUsers + 1)
    /\ now' = IF turn = NumUsers THEN now + 1 ELSE now
    /\ UNCHANGED <<cellOf, active_users, migrations, handovers>>

Next ==
    /\ UNCHANGED algorithm
    /\ \/ \E u \in UEs, c \in Edges : Connect(u, c)
       \/ \E u \in UEs, c \in Edges : StartHandover(u, c)
       \/ \E u \in UEs, c \in Edges : FinishHandover(u, c)
       \/ RunMigration
       \/ manager
       \/ ManagerStep

Spec == Init /\ [][Next]_vars

-------------------------------------------------------------------------------
(***************************************************************************)
(* Properties.                                                             *)
(***************************************************************************)

\* The tables hold numbers of users, servers and units; a server never has a
\* negative number of units, which uint16_t could not hold.
TypeOK ==
    /\ algorithm \in Algorithms
    /\ cellOf \in [UEs -> Edges \cup {None}]
    /\ resources \in [Edges -> 0..(NumEdges * EDGE_RESOURCES)]
    /\ edgeUe \in [Edges -> SUBSET UEs]
    /\ active_users \subseteq UEs
    /\ edgeMigrationChart \in [UEs -> [Edges -> 0..MaxTime]]
    /\ handoverPredictions \in [UEs -> 0..(MaxTime + Window)]
    /\ migrations \in Seq(Edges \X Edges)
    /\ handovers \in 0..MaxHandovers
    /\ now \in 0..(MaxTime + 1)
    /\ turn \in 0..NumUsers

Total == NumEdges * EDGE_RESOURCES

\* Units are neither made nor lost: one is taken for every user who ever
\* connected, whatever the algorithm, migrations that come late or fail
\* included.  So the loop that looks for another server when the one of the
\* user's cell has no units finds one: it is entered for a user not yet active.
UnitsConserved == SumFunction(resources) + Cardinality(active_users) = Total

\* While a unit is left somewhere, no migration that manager starts fails: a
\* server's units are those left and one for each user it has (for the algorithms
\* that move users to the server with the best score).  Once all are taken, and
\* under "qos" before, manager moves users although migrate finds no unit; even
\* then a server that shows a unit has fewer users than units, so that neither
\* the first connection of a user nor a migration ever adds to a server that has
\* too many already as if there were room.
EdgeAccounts ==
    /\ algorithm \notin {"qos", "greedy"} /\ Cardinality(active_users) < Total =>
           \A e \in Edges : resources[e] + Cardinality(edgeUe[e]) = EDGE_RESOURCES
    /\ algorithm # "greedy" =>
           \A e \in Edges :
               resources[e] > 0 => resources[e] + Cardinality(edgeUe[e]) <= EDGE_RESOURCES

\* Every user who ever connected has one server, also in the middle of a
\* handover and of manager's loop and after a migration that failed, and no
\* other user has one.  (greedy clears the entry of the server of the source
\* cell, where the user's server need not be.)
OneEdge ==
    algorithm # "greedy" =>
        \A u \in UEs : Cardinality({e \in Edges : u \in edgeUe[e]})
                          = IF u \in active_users THEN 1 ELSE 0
===============================================================================
