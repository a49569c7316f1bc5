----------------------------- MODULE UavPlacement -----------------------------
(***************************************************************************)
(* How the simulation of scratch/simulation.cc places its drones: every    *)
(* management_interval ThroughputMonitor, UAVManager and just_a_monitor    *)
(* run one after the other.  just_a_monitor writes the users it takes for  *)
(* unserved to unserved.txt; UAVManager runs a script, which may fail, and *)
(* sends the drones where centroids.txt says, whoever wrote it last.  The  *)
(* script therefore works on the users of the interval before.             *)
(***************************************************************************)
EXTENDS Integers, Sequences, FiniteSets, Functions

CONSTANTS
    NumDrones,          \* numUAVs
    Users,
    Clusters,           \* n_clusters of scratch/clustering.py (10)
    Places,             \* places on a line, as integers
    Throughputs,        \* what a flow can deliver
    LeftRows,           \* bound on the rows of a centroids.txt that an earlier run left
    MaxIntervals        \* bound on the number of management intervals

Drones == 1..NumDrones

\* number_of_hot_spots, as main sets it when there are drones.
HotSpots == Drones

ASSUME NumDronesAssumption == NumDrones \in Nat \ {0}
ASSUME ClustersAssumption == Clusters \in Nat \ {0}
ASSUME PlacesAssumption == Places # {} /\ Places \subseteq Int
ASSUME ThroughputsAssumption == Throughputs \subseteq Nat
ASSUME BoundsAssumption == LeftRows \in Nat /\ MaxIntervals \in Nat

VARIABLES
    uav_algorithm,      \* algorithm: "iuavbs" or "genetic"
    step,               \* the callback that comes next
    interval,           \* management intervals begun
    user_throughput,
    unserved,           \* the users in unserved.txt
    centroids,          \* centroids.txt, an empty sequence when there is none
    written,            \* a script of this run has written it
    position,           \* by drone: the place move_uav sent it to
    drones_in_use,
    hot_spots_served,
    wild                \* centers was read past its end in this interval

managementVars == <<uav_algorithm, step, interval, user_throughput, unserved, centroids,
                    written, position, drones_in_use, hot_spots_served, wild>>

\* Requests of the users in bytes: generate_requests, which would set them, is
\* not scheduled.
user_requests == [u \in Users |-> 0]

SeqOf(S, n) == UNION {[1..k -> S] : k \in 0..n}

ManagementInit ==
    /\ uav_algorithm \in {"iuavbs", "genetic"}
    /\ step = "ThroughputMonitor"
    /\ interval = 0
    /\ user_throughput = [u \in Users |-> 0]
    /\ unserved = {}
    /\ centroids \in SeqOf(Places, LeftRows)
    /\ written = FALSE
    /\ position \in [Drones -> Places]
    /\ drones_in_use = {}
    /\ hot_spots_served = {}
    /\ wild = FALSE

-------------------------------------------------------------------------------
\* Only the flows that started in this interval are measured.
ThroughputMonitor ==
    /\ step = "ThroughputMonitor" /\ interval < MaxIntervals
    /\ interval' = interval + 1
    /\ \E measured \in SUBSET Users : \E t \in [measured -> Throughputs] :
          user_throughput' =
              [u \in Users |-> IF u \in measured THEN t[u] ELSE user_throughput[u]]
    /\ step' = "UAVManager"
    /\ wild' = FALSE
    /\ UNCHANGED <<uav_algorithm, unserved, centroids, written, position, drones_in_use,
                   hot_spots_served>>

\* Mutant: no more clusters than users.
ClusteringOfFew ==
    LET few == IF Cardinality(unserved) < Clusters THEN Cardinality(unserved) ELSE Clusters
    IN  IF unserved = {} THEN {} ELSE [1..few -> Places]

\* What clustering.py can write: Clusters rows, or nothing when there are fewer
\* users than clusters (KMeans raises an exception, which the script ignores).
Clustering == IF Cardinality(unserved) >= Clusters THEN [1..Clusters -> Places] ELSE {}

\* What uavs_ag.py can write: a row for every drone.
Genetic == [Drones -> Places]

\* An element of centers; past its end, whatever is in memory there.
Center(centers, i) == IF i \in DOMAIN centers THEN {centers[i]} ELSE Places

\* get_closest_center_index: dist stays at INT_MAX, so that every center that is
\* read is closer, and the last one is the answer.  A center past the end of
\* the file may look closer or not.
get_closest_center_index(centers) ==
    IF Len(centers) >= NumDrones THEN {NumDrones} ELSE Len(centers)..NumDrones

MoveAll(centers) ==
    /\ \E to \in [Drones -> Places] :
          /\ \A d \in Drones : to[d] \in Center(centers, d)
          /\ position' = to
    /\ wild' = (Len(centers) < NumDrones)
    /\ UNCHANGED <<drones_in_use, hot_spots_served>>

\* Mutant: whether the hot spot is served is not looked at.
AssignedToServed(closest) == Drones \ drones_in_use

\* The drones that the loop sends to a hot spot: of the free ones, for a hot
\* spot that is not served, the first.
Assigned(closest) ==
    {d \in Drones \ drones_in_use :
        /\ closest[d] \notin hot_spots_served
        /\ \A e \in (1..(d - 1)) \ drones_in_use : closest[e] # closest[d]}

MoveToHotSpots(centers) ==
    \E closest \in [Drones -> get_closest_center_index(centers)] :
        /\ \E to \in [Drones -> Places] :
              /\ \A d \in Drones : to[d] \in Center(centers, closest[d])
              /\ position' = [d \in Drones |-> IF d \in Assigned(closest) THEN to[d]
                                               ELSE position[d]]
        /\ drones_in_use' = drones_in_use \cup Assigned(closest)
        /\ hot_spots_served' = hot_spots_served \cup {closest[d] : d \in Assigned(closest)}
        /\ wild' = (Len(centers) < NumDrones)

\* A script that fails, or does not write, leaves the file as it is.
UAVManager ==
    /\ step = "UAVManager"
    /\ \/ /\ centroids' \in IF uav_algorithm = "genetic" THEN Genetic ELSE Clustering
          /\ written' = TRUE
       \/ UNCHANGED <<centroids, written>>
    /\ IF uav_algorithm = "genetic" THEN MoveAll(centroids')
       ELSE IF centroids' = <<>>
            THEN UNCHANGED <<position, drones_in_use, hot_spots_served, wild>>
            ELSE MoveToHotSpots(centroids')
    /\ step' = "just_a_monitor"
    /\ UNCHANGED <<uav_algorithm, interval, user_throughput, unserved>>

\* A user whose throughput is above 80% of what it requested is written.
just_a_monitor ==
    /\ step = "just_a_monitor"
    /\ unserved' = {u \in Users : 8 * user_requests[u] < 10 * user_throughput[u]}
    /\ step' = "ThroughputMonitor"
    /\ UNCHANGED <<uav_algorithm, interval, user_throughput, centroids, written, position,
                   drones_in_use, hot_spots_served, wild>>

ManagementNext == ThroughputMonitor \/ UAVManager \/ just_a_monitor

ManagementSpec == ManagementInit /\ [][ManagementNext]_managementVars
-------------------------------------------------------------------------------
\* Once a script of this run has succeeded, centers is never again read past its
\* end, however many later scripts fail; before, a file left by a run with fewer
\* drones, or no file, is read past its end.  More drones than
\* Clusters read past the end even then.
ReadsInRange == NumDrones <= Clusters /\ written => ~wild

\* Whatever garbage is read, a hot spot gets one drone and a drone one hot spot.
OneDronePerHotSpot == Cardinality(drones_in_use) = Cardinality(hot_spots_served)
===============================================================================
