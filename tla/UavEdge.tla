-------------------------------- MODULE UavEdge --------------------------------
(***************************************************************************)
(* The simulation of scratch/simulation.cc: the handlers of CellManager    *)
(* and of EdgeManager run on the same events of the simulator.  A          *)
(* connection and the start of a handover change the tables of both; the   *)
(* edge side reads the user's cell from cellUe.                            *)
(***************************************************************************)
EXTENDS CellManager, Sequences

CONSTANTS NumUsers, EDGE_RESOURCES, Window, MaxTime, MaxHandovers

ASSUME UsersAssumption == Users = 1..NumUsers
\* What EdgeManager assumes of the constants.
ASSUME EdgeAssumption ==
    /\ NumUsers \in Nat \ {0} /\ NumCells \in Nat \ {0}
    /\ EDGE_RESOURCES \in Nat /\ NumUsers <= NumCells * EDGE_RESOURCES
    /\ Algorithms \subseteq {"genetic", "iuavbs", "qos", "greedy", "nomigration"}
    /\ Window \in Nat \ {0} /\ MaxTime \in Nat /\ MaxHandovers \in Nat

VARIABLES resources, edgeUe, active_users, edgeMigrationChart, handoverPredictions,
          migrations, handovers, now, turn

edgeVars == <<resources, edgeUe, active_users, edgeMigrationChart, handoverPredictions,
              migrations, handovers, now, turn>>
allVars == <<vars, edgeVars>>

Edge == INSTANCE EdgeManager WITH
            NumEdges <- NumCells, cellOf <- [u \in Users |-> get_cell(u)]

Connected(u, c) ==
    /\ Connect(u, c)
    /\ Edge!AllocateEdge(u, c)
    /\ UNCHANGED <<edgeMigrationChart, handoverPredictions, migrations, handovers, now, turn>>

HandoverStarted(q) ==
    /\ handovers < MaxHandovers
    /\ StartHandover(q)
    /\ Edge!FollowHandover(q.user, q.source, q.target)
    /\ handovers' = handovers + 1
    /\ UNCHANGED <<resources, active_users, edgeMigrationChart, handoverPredictions, now, turn>>

\* A bound: the radios measure while every cell can take one more user.
MeasurementsLeft == \A c \in Cells : RntiLeft(c)

CellOnly ==
    \/ \E q \in requests : AbortOnRequest(q)
    \/ \E u \in Users : FinishHandover(u) \/ RandomAccessFailure(u) \/ RadioLinkFailure(u)
    \/ MeasurementsLeft /\ \E u \in Users, c \in Cells, rsrp \in Levels : Report(u, c, rsrp)
    \/ UAVManager
    \/ NewSecond

EdgeOnly == Edge!RunMigration \/ Edge!manager \/ Edge!ManagerStep

SimulationInit == Init /\ Edge!Init

SimulationNext ==
    /\ ~aborted
    /\ UNCHANGED options
    /\ \/ /\ turn = 0
          /\ \/ \E u \in Users, c \in Cells : Connected(u, c)
             \/ \E q \in requests : HandoverStarted(q)
             \/ CellOnly /\ UNCHANGED edgeVars
       \/ UNCHANGED <<vars>> /\ EdgeOnly

SimulationSpec == SimulationInit /\ [][SimulationNext]_allVars

\* The cells that the callbacks keep in cellUe are the cells EdgeManager
\* assumes: a handover leaves the cell the user was in, and a user in a
\* handover has none, also after link failures no callback reported.
EdgeSpec == Edge!Spec
===============================================================================
