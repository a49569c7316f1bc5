--------------------------- MODULE EdgeManagerProofs ---------------------------
(***************************************************************************)
(* The units of the edge servers and the server of every user, for any     *)
(* number of users, servers and units and any length of the simulation.    *)
(***************************************************************************)
EXTENDS EdgeManager, SumTheorems, SequenceTheorems

\* What the provers need of the constants.
LEMMA ConstantFacts ==
    /\ NumUsers \in Nat /\ NumEdges \in Nat /\ NumUsers # 0 /\ NumEdges # 0
    /\ EDGE_RESOURCES \in Nat /\ Total \in Nat /\ NumUsers <= Total
    /\ IsFiniteSet(UEs) /\ IsFiniteSet(Edges) /\ Cardinality(UEs) = NumUsers
    /\ 1 \in Edges /\ None \notin Edges
  <1>1. /\ NumUsers \in Nat /\ NumEdges \in Nat /\ NumUsers # 0 /\ NumEdges # 0
        /\ EDGE_RESOURCES \in Nat
    BY NumUsersAssumption, NumEdgesAssumption, EnoughResources
  <1>2. Total \in Nat /\ NumUsers <= Total
    BY <1>1, EnoughResources DEF Total
  <1>3. IsFiniteSet(UEs) /\ IsFiniteSet(Edges) /\ Cardinality(UEs) = NumUsers
    BY <1>1, FS_Interval DEF UEs, Edges
  <1>4. 1 \in Edges /\ None \notin Edges
    BY <1>1 DEF Edges, None
  <1> QED BY <1>1, <1>2, <1>3, <1>4

-------------------------------------------------------------------------------
(***************************************************************************)
(* The invariant.  The bound on units in the type follows from the sum;    *)
(* that manager runs within the time simulated, OneServer, which says      *)
(* which server a user has and not only how many, and FirstOverloaded,     *)
(* which says where migrations that fail leave users too many, are what    *)
(* the step of manager needs.                                              *)
(***************************************************************************)
Types ==
    /\ algorithm \in Algorithms
    /\ cellOf \in [UEs -> Edges \cup {None}]
    /\ resources \in [Edges -> Nat]
    /\ edgeUe \in [Edges -> SUBSET UEs]
    /\ active_users \in SUBSET UEs
    /\ edgeMigrationChart \in [UEs -> [Edges -> 0..MaxTime]]
    /\ handoverPredictions \in [UEs -> 0..(MaxTime + Window)]
    /\ migrations \in Seq(Edges \X Edges)
    /\ handovers \in 0..MaxHandovers
    /\ now \in 0..(MaxTime + 1)
    /\ turn \in 0..NumUsers
    /\ turn # 0 => now <= MaxTime
    /\ algorithm # "greedy" => migrations = <<>>

Units == SumFunctionOnSet(resources, Edges)

UnitsTaken == Units + Cardinality(active_users) = Total

Serves(u, e) == \A d \in Edges : u \in edgeUe[d] <=> d = e

OneServer ==
    algorithm # "greedy" =>
        \A u \in UEs : IF u \in active_users THEN \E e \in Edges : Serves(u, e)
                       ELSE \A d \in Edges : u \notin edgeUe[d]

AccountsExact ==
    algorithm \notin {"qos", "greedy"} /\ Cardinality(active_users) < Total =>
        \A e \in Edges : resources[e] + Cardinality(edgeUe[e]) = EDGE_RESOURCES

\* "qos" moves users to the first server only: no other has too many, and the
\* first only after it has run out of units, which nobody gives back to it.
FirstOverloaded ==
    algorithm = "qos" =>
        \A e \in Edges : e # 1 \/ resources[e] > 0 =>
            resources[e] + Cardinality(edgeUe[e]) <= EDGE_RESOURCES

IInv == Types /\ UnitsTaken /\ OneServer /\ AccountsExact /\ FirstOverloaded

-------------------------------------------------------------------------------
(***************************************************************************)
(* The operators.                                                          *)
(***************************************************************************)

\* getEdge answers with a server that has an entry for the user.
LEMMA GetEdgeServes ==
    ASSUME Types, NEW u \in UEs, getEdge(u) # None
    PROVE  getEdge(u) \in Edges /\ u \in edgeUe[getEdge(u)]
  <1> DEFINE serving == {e \in Edges : u \in edgeUe[e]}
             place == [e \in serving |-> e]
  <1>1. serving # {} /\ getEdge(u) = CHOOSE e \in serving : \A d \in serving : d <= e
    BY DEF getEdge
  <1>2. serving \in SUBSET (1..NumEdges) /\ NumEdges \in Nat /\ \A x \in serving : place[x] \in Int
    BY ConstantFacts DEF Edges
  <1>3. PICK c \in serving :
            \A d \in serving : place[d] < place[c] \/ (place[d] = place[c] /\ c <= d)
    <2> HIDE DEF serving, place
    <2> QED BY <1>1, <1>2, FirstBest
  <1>4. \A d \in serving : d <= c
    <2>1. \A d \in serving : place[d] = d /\ d \in Int
      BY <1>2
    <2> HIDE DEF serving, place
    <2> QED BY <1>3, <2>1
  <1>5. getEdge(u) \in serving
    <2> HIDE DEF serving
    <2> QED BY <1>1, <1>4
  <1> QED BY <1>5

\* bestEdgeServer answers with a server, and none scores more; "qos" takes the first.
LEMMA BestScores ==
    ASSUME Types
    PROVE  /\ bestEdgeServer \in Edges /\ \A d \in Edges : Score(d) <= Score(bestEdgeServer)
           /\ algorithm = "qos" => bestEdgeServer = 1
  <1> DEFINE score == [e \in Edges |-> Score(e)]
  <1>1. \A e \in Edges : Score(e) \in Int
    <2> SUFFICES ASSUME NEW e \in Edges PROVE Score(e) \in Int
      OBVIOUS
    <2>1. resources[e] \in Nat
      BY DEF Types
    <2>2. CASE algorithm = "qos"
      BY <2>2 DEF Score
    <2>3. CASE algorithm # "qos" /\ resources[e] = 0
      BY <2>3 DEF Score
    <2>4. CASE algorithm # "qos" /\ resources[e] # 0
      BY <2>1, <2>4 DEF Score
    <2> QED BY <2>2, <2>3, <2>4
  <1>2. /\ Edges \in SUBSET (1..NumEdges) /\ NumEdges \in Nat /\ Edges # {}
        /\ \A e \in Edges : score[e] = Score(e) /\ score[e] \in Int
    BY <1>1, ConstantFacts DEF Edges
  <1>3. PICK c \in Edges :
            \A d \in Edges : score[d] < score[c] \/ (score[d] = score[c] /\ c <= d)
    <2> HIDE DEF score
    <2> QED BY <1>2, FirstBest
  <1> HIDE DEF score
  <1>4. \A d \in Edges : Score(d) < Score(c) \/ (Score(d) = Score(c) /\ c <= d)
    BY <1>2, <1>3
  <1>5. /\ bestEdgeServer \in Edges
        /\ \A d \in Edges : \/ Score(d) < Score(bestEdgeServer)
                            \/ Score(d) = Score(bestEdgeServer) /\ bestEdgeServer <= d
    BY <1>4, Zenon DEF bestEdgeServer
  <1>6. ASSUME algorithm = "qos" PROVE bestEdgeServer = 1
    <2>1. \A d \in Edges : Score(d) = 1
      BY <1>6 DEF Score
    <2>2. 1 \in Edges /\ Edges = 1..NumEdges /\ NumEdges \in Nat
      BY ConstantFacts DEF Edges
    <2>3. bestEdgeServer <= 1
      BY <1>5, <2>1, <2>2
    <2> QED BY <1>5, <2>2, <2>3
  <1> QED BY <1>1, <1>5, <1>6

\* migrate moves a unit or, when the target has none, does nothing.
LEMMA UnitsMoved ==
    ASSUME Types, NEW source \in Edges, NEW target \in Edges, migrate(source, target)
    PROVE  /\ resources' \in [Edges -> Nat]
           /\ SumFunctionOnSet(resources', Edges) = Units
           /\ resources[target] # 0 /\ source # target =>
                  /\ resources'[source] = resources[source] + 1
                  /\ resources'[target] = resources[target] - 1
                  /\ \A d \in Edges \ {source, target} : resources'[d] = resources[d]
  <1>1. resources \in [Edges -> Nat] /\ IsFiniteSet(Edges)
    BY ConstantFacts DEF Types
  <1>2. CASE resources[target] = 0 \/ source = target
    <2>1. resources' = resources
      BY <1>1, <1>2 DEF migrate
    <2> QED BY <1>1, <1>2, <2>1 DEF Units
  <1>3. CASE resources[target] # 0 /\ source # target
    <2> DEFINE given == [resources EXCEPT ![source] = @ + 1]
    <2>1. given \in [Edges -> Nat] /\ given[source] = resources[source] + 1
          /\ \A d \in Edges \ {source} : given[d] = resources[d]
      BY <1>1
    <2>2. /\ resources' \in [Edges -> Nat]
          /\ resources'[source] = resources[source] + 1
          /\ resources'[target] = resources[target] - 1
          /\ \A d \in Edges \ {source, target} : resources'[d] = resources[d]
      BY <1>1, <1>3 DEF migrate
    <2> HIDE DEF given
    <2>3. \A d \in Edges \ {target} : given[d] = resources'[d]
      BY <2>1, <2>2
    <2>4. SumFunctionOnSet(given, Edges) = Units - resources[source] + given[source]
      <3>1. \A d \in Edges : resources[d] \in Int /\ given[d] \in Int
        BY <1>1, <2>1
      <3>2. \A d \in Edges \ {source} : resources[d] = given[d]
        BY <2>1
      <3> QED BY <1>1, <3>1, <3>2, SumChange DEF Units
    <2>5. SumFunctionOnSet(resources', Edges)
              = SumFunctionOnSet(given, Edges) - given[target] + resources'[target]
      <3>1. \A d \in Edges : resources'[d] \in Int /\ given[d] \in Int
        BY <2>1, <2>2
      <3> QED BY <1>1, <2>3, <3>1, SumChange
    <2>6. given[target] = resources[target] /\ Units \in Int
      <3>1. \A d \in Edges : resources[d] \in Int
        BY <1>1
      <3> QED BY <1>1, <1>3, <2>1, <3>1, SumFacts DEF Units
    <2>7. SumFunctionOnSet(resources', Edges) = Units
      BY <1>1, <2>1, <2>2, <2>4, <2>5, <2>6
    <2> QED BY <2>2, <2>7
  <1> QED BY <1>2, <1>3

\* A server with units gives one to a user.
LEMMA UnitTaken ==
    ASSUME Types, NEW e \in Edges, resources[e] > 0,
           resources' = [resources EXCEPT ![e] = @ - 1]
    PROVE  /\ resources' \in [Edges -> Nat]
           /\ SumFunctionOnSet(resources', Edges) = Units - 1
           /\ resources'[e] = resources[e] - 1
           /\ \A d \in Edges \ {e} : resources'[d] = resources[d]
  <1>1. resources \in [Edges -> Nat] /\ IsFiniteSet(Edges)
    BY ConstantFacts DEF Types
  <1>2. /\ resources' \in [Edges -> Nat] /\ resources'[e] = resources[e] - 1
        /\ \A d \in Edges \ {e} : resources'[d] = resources[d]
    BY <1>1
  <1>3. \A d \in Edges : resources[d] \in Int /\ resources'[d] \in Int
    BY <1>1, <1>2
  <1>4. SumFunctionOnSet(resources', Edges) = Units - resources[e] + resources'[e]
    <2>1. PICK after : after = resources'
      OBVIOUS
    <2>2. \A d \in Edges : resources[d] \in Int /\ after[d] \in Int
      BY <1>3, <2>1
    <2>3. \A d \in Edges \ {e} : resources[d] = after[d]
      BY <1>2, <2>1
    <2>4. SumFunctionOnSet(after, Edges) = Units - resources[e] + after[e]
      BY <1>1, <2>2, <2>3, SumChange DEF Units
    <2> QED BY <2>1, <2>4
  <1>5. Units \in Int
    BY <1>1, <1>3, SumFacts DEF Units
  <1> QED BY <1>1, <1>2, <1>4, <1>5

\* While not every unit is taken, the algorithms that look at the units move
\* users to servers that have one.
LEMMA BestHasUnits ==
    ASSUME Types, UnitsTaken, algorithm # "qos", Cardinality(active_users) < Total
    PROVE  resources[bestEdgeServer] # 0
  <1>1. IsFiniteSet(active_users) /\ Cardinality(active_users) \in Nat
    BY ConstantFacts, FS_Subset, FS_CardinalityType DEF Types
  <1>2. resources \in [Edges -> Nat] /\ NumEdges \in Nat /\ Edges = 1..NumEdges
    BY ConstantFacts DEF Types, Edges
  <1>3. PICK e \in Edges : resources[e] # 0
    <2> SUFFICES ASSUME \A e \in Edges : resources[e] = 0 PROVE FALSE
      OBVIOUS
    <2>1. Units = NumEdges * 0
      BY <1>2, SumConstant DEF Units
    <2>2. Units = 0
      BY <1>2, <2>1
    <2> QED BY <1>1, <2>2, ConstantFacts DEF UnitsTaken
  <1>4. Score(e) \in {71, 102}
    BY <1>2, <1>3 DEF Score
  <1>5. bestEdgeServer \in Edges /\ Score(e) <= Score(bestEdgeServer)
    BY BestScores
  <1>6. resources[bestEdgeServer] = 0 => Score(bestEdgeServer) = 0
    BY DEF Score
  <1> QED BY <1>3, <1>4, <1>5, <1>6

-------------------------------------------------------------------------------
(***************************************************************************)
(* The initial states and the steps.                                       *)
(***************************************************************************)

\* initialize_vectors: all units are free and no user has a server.
LEMMA InitIInv == Init => IInv
  <1> SUFFICES ASSUME Init PROVE IInv
    OBVIOUS
  <1>1. Types
    <2>1. <<>> \in Seq(Edges \X Edges)
      BY EmptySeq
    <2> QED BY <2>1, ConstantFacts, BoundsAssumption DEF Init, Types
  <1>2. IsFiniteSet({}) /\ Cardinality({}) = 0
    BY FS_EmptySet
  <1>3. UnitsTaken
    <2>1. \A e \in 1..NumEdges : resources[e] = EDGE_RESOURCES
      BY DEF Init, Edges
    <2>2. Units = NumEdges * EDGE_RESOURCES
      BY <2>1, ConstantFacts, SumConstant DEF Units, Edges
    <2> QED BY <1>2, <2>2, ConstantFacts DEF Init, UnitsTaken, Total
  <1>4. OneServer
    BY DEF Init, OneServer
  <1>5. AccountsExact /\ FirstOverloaded
    BY <1>2, ConstantFacts DEF Init, AccountsExact, FirstOverloaded
  <1> QED BY <1>1, <1>3, <1>4, <1>5 DEF IInv

\* A step that changes neither the tables nor the users keeps what is said of them.
LEMMA TablesKept ==
    ASSUME IInv, Types', UNCHANGED <<algorithm, resources, edgeUe, active_users>>
    PROVE  IInv'
  <1>1. UnitsTaken'
    BY Zenon DEF IInv, UnitsTaken, Units
  <1>2. OneServer'
    BY DEF IInv, OneServer, Serves
  <1>3. AccountsExact' /\ FirstOverloaded'
    BY DEF IInv, AccountsExact, FirstOverloaded
  <1> QED BY <1>1, <1>2, <1>3 DEF IInv

\* A user who connects for the first time takes a unit of the server it gets.
LEMMA AllocationIInv ==
    ASSUME IInv, NEW u \in UEs, u \notin active_users, NEW e \in Edges, resources[e] > 0,
           active_users' = active_users \cup {u},
           resources' = [resources EXCEPT ![e] = @ - 1],
           edgeUe' = [edgeUe EXCEPT ![e] = @ \cup {u}],
           UNCHANGED algorithm, Types'
    PROVE  IInv'
  <1>1. Types /\ UnitsTaken /\ OneServer /\ AccountsExact /\ FirstOverloaded
    BY DEF IInv
  <1>2. /\ IsFiniteSet(active_users) /\ Cardinality(active_users) \in Nat
        /\ Cardinality(active_users') = Cardinality(active_users) + 1
    BY <1>1, ConstantFacts, FS_Subset, FS_CardinalityType, FS_AddElement DEF Types
  <1>3. /\ SumFunctionOnSet(resources', Edges) = Units - 1
        /\ resources'[e] = resources[e] - 1 /\ resources[e] \in Nat
        /\ \A d \in Edges \ {e} : resources'[d] = resources[d]
    BY <1>1, UnitTaken DEF Types
  <1>4. /\ edgeUe'[e] = edgeUe[e] \cup {u}
        /\ \A d \in Edges \ {e} : edgeUe'[d] = edgeUe[d]
    BY <1>1 DEF Types
  <1>5. UnitsTaken'
    <2>1. Units \in Int
      <3>1. \A d \in Edges : resources[d] \in Int
        BY <1>1 DEF Types
      <3> QED BY <3>1, ConstantFacts, SumFacts DEF Units
    <2>2. Units' = Units - 1
      BY <1>3 DEF Units
    <2> QED BY <1>1, <1>2, <2>1, <2>2, ConstantFacts DEF UnitsTaken
  <1>6. OneServer'
    <2> SUFFICES ASSUME algorithm # "greedy", NEW v \in UEs
                 PROVE  IF v \in active_users' THEN \E f \in Edges : Serves(v, f)'
                        ELSE \A d \in Edges : v \notin edgeUe'[d]
      BY DEF OneServer
    <2>1. CASE v = u
      <3>1. \A d \in Edges : u \notin edgeUe[d]
        BY <1>1 DEF OneServer
      <3>2. Serves(u, e)'
        BY <1>4, <3>1 DEF Serves
      <3> QED BY <2>1, <3>2
    <2>2. CASE v # u
      <3>1. \A d \in Edges : v \in edgeUe'[d] <=> v \in edgeUe[d]
        BY <1>4, <2>2
      <3>2. v \in active_users' <=> v \in active_users
        BY <2>2
      <3> QED BY <1>1, <3>1, <3>2 DEF OneServer, Serves
    <2> QED BY <2>1, <2>2
  <1>7. AccountsExact'
    <2> SUFFICES ASSUME algorithm \notin {"qos", "greedy"}, Cardinality(active_users') < Total,
                        NEW d \in Edges
                 PROVE  resources'[d] + Cardinality(edgeUe'[d]) = EDGE_RESOURCES
      BY DEF AccountsExact
    <2>1. Cardinality(active_users) < Total
      BY <1>2, ConstantFacts
    <2>2. resources[d] + Cardinality(edgeUe[d]) = EDGE_RESOURCES /\ resources[d] \in Nat
      BY <1>1, <2>1 DEF AccountsExact, Types
    <2>3. CASE d = e
      <3>1. u \notin edgeUe[e]
        BY <1>1 DEF OneServer
      <3>2. IsFiniteSet(edgeUe[e]) /\ Cardinality(edgeUe[e]) \in Nat
        BY <1>1, ConstantFacts, FS_Subset, FS_CardinalityType DEF Types
      <3>3. Cardinality(edgeUe'[e]) = Cardinality(edgeUe[e]) + 1
        BY <1>4, <3>1, <3>2, FS_AddElement
      <3> QED BY <1>3, <2>2, <2>3, <3>2, <3>3
    <2>4. CASE d # e
      BY <1>3, <1>4, <2>2, <2>4
    <2> QED BY <2>3, <2>4
  <1>8. FirstOverloaded'
    <2> SUFFICES ASSUME algorithm = "qos", NEW d \in Edges, d # 1 \/ resources'[d] > 0
                 PROVE  resources'[d] + Cardinality(edgeUe'[d]) <= EDGE_RESOURCES
      BY DEF FirstOverloaded
    <2>1. CASE d = e
      <3>1. resources[e] + Cardinality(edgeUe[e]) <= EDGE_RESOURCES
        BY <1>1 DEF FirstOverloaded
      <3>2. u \notin edgeUe[e]
        BY <1>1 DEF OneServer
      <3>3. IsFiniteSet(edgeUe[e]) /\ Cardinality(edgeUe[e]) \in Nat
        BY <1>1, ConstantFacts, FS_Subset, FS_CardinalityType DEF Types
      <3>4. Cardinality(edgeUe'[e]) = Cardinality(edgeUe[e]) + 1
        BY <1>4, <3>2, <3>3, FS_AddElement
      <3> QED BY <1>3, <2>1, <3>1, <3>3, <3>4, ConstantFacts
    <2>2. CASE d # e
      BY <1>1, <1>3, <1>4, <2>2 DEF FirstOverloaded
    <2> QED BY <2>1, <2>2
  <1> QED BY <1>5, <1>6, <1>7, <1>8 DEF IInv

\* manager's change of a user's server.
LEMMA MoveIInv ==
    ASSUME IInv, NEW u \in UEs, NEW source \in Edges, u \in edgeUe[source],
           source # bestEdgeServer, Move(u, source, bestEdgeServer),
           algorithm # "greedy", UNCHANGED <<algorithm, active_users>>, Types'
    PROVE  IInv'
  <1>1. Types /\ UnitsTaken /\ OneServer /\ AccountsExact /\ FirstOverloaded
    BY DEF IInv
  <1>2. PICK target \in Edges : target = bestEdgeServer
    BY <1>1, BestScores
  <1>3. /\ SumFunctionOnSet(resources', Edges) = Units
        /\ resources[target] # 0 =>
               /\ resources'[source] = resources[source] + 1
               /\ resources'[target] = resources[target] - 1
               /\ \A d \in Edges \ {source, target} : resources'[d] = resources[d]
    BY <1>1, <1>2, UnitsMoved DEF Move
  <1>4. /\ edgeUe'[source] = edgeUe[source] \ {u} /\ edgeUe'[target] = edgeUe[target] \cup {u}
        /\ \A d \in Edges \ {source, target} : edgeUe'[d] = edgeUe[d]
    BY <1>1, <1>2 DEF Move, Types
  <1>5. u \in active_users /\ Serves(u, source)
    BY <1>1 DEF OneServer, Serves
  <1>6. UnitsTaken'
    BY <1>1, <1>3 DEF UnitsTaken, Units
  <1>7. OneServer'
    <2> SUFFICES ASSUME NEW v \in UEs
                 PROVE  IF v \in active_users THEN \E f \in Edges : Serves(v, f)'
                        ELSE \A d \in Edges : v \notin edgeUe'[d]
      BY DEF OneServer
    <2>1. CASE v = u
      <3>1. Serves(u, target)'
        BY <1>2, <1>4, <1>5 DEF Serves
      <3> QED BY <1>5, <2>1, <3>1
    <2>2. CASE v # u
      <3>1. \A d \in Edges : v \in edgeUe'[d] <=> v \in edgeUe[d]
        BY <1>4, <2>2
      <3> QED BY <1>1, <3>1 DEF OneServer, Serves
    <2> QED BY <2>1, <2>2
  <1>8. AccountsExact'
    <2> SUFFICES ASSUME algorithm \notin {"qos", "greedy"}, Cardinality(active_users) < Total,
                        NEW d \in Edges
                 PROVE  resources'[d] + Cardinality(edgeUe'[d]) = EDGE_RESOURCES
      BY DEF AccountsExact
    <2>1. resources[target] # 0
      BY <1>1, <1>2, BestHasUnits
    <2>2. resources[d] + Cardinality(edgeUe[d]) = EDGE_RESOURCES /\ resources[d] \in Nat
      BY <1>1 DEF AccountsExact, Types
    <2>3. IsFiniteSet(edgeUe[d]) /\ Cardinality(edgeUe[d]) \in Nat
      BY <1>1, ConstantFacts, FS_Subset, FS_CardinalityType DEF Types
    <2>4. CASE d = source
      <3>1. Cardinality(edgeUe'[d]) = Cardinality(edgeUe[d]) - 1
        BY <1>4, <2>3, <2>4, FS_RemoveElement
      <3> QED BY <1>3, <2>1, <2>2, <2>3, <2>4, <3>1
    <2>5. CASE d = target
      <3>1. u \notin edgeUe[d]
        BY <1>2, <1>5, <2>5 DEF Serves
      <3>2. Cardinality(edgeUe'[d]) = Cardinality(edgeUe[d]) + 1
        BY <1>4, <2>3, <2>5, <3>1, FS_AddElement
      <3> QED BY <1>3, <2>1, <2>2, <2>3, <2>5, <3>2
    <2>6. CASE d \notin {source, target}
      BY <1>3, <1>4, <2>1, <2>2, <2>6
    <2> QED BY <2>4, <2>5, <2>6
  <1>9. FirstOverloaded'
    <2> SUFFICES ASSUME algorithm = "qos", NEW d \in Edges, d # 1 \/ resources'[d] > 0
                 PROVE  resources'[d] + Cardinality(edgeUe'[d]) <= EDGE_RESOURCES
      BY DEF FirstOverloaded
    <2>1. target = 1 /\ source # 1
      BY <1>1, <1>2, BestScores
    <2>2. IsFiniteSet(edgeUe[d]) /\ Cardinality(edgeUe[d]) \in Nat /\ resources[d] \in Nat
      BY <1>1, ConstantFacts, FS_Subset, FS_CardinalityType DEF Types
    <2>3. resources[target] = 0 => resources' = resources
      BY <1>2 DEF Move, migrate
    <2>4. CASE d = target
      <3>1. resources[target] # 0
        BY <2>1, <2>3, <2>4
      <3>2. resources[d] + Cardinality(edgeUe[d]) <= EDGE_RESOURCES
        BY <1>1, <2>2, <2>4, <3>1 DEF FirstOverloaded
      <3>3. u \notin edgeUe[d]
        BY <1>2, <1>5, <2>4 DEF Serves
      <3>4. Cardinality(edgeUe'[d]) = Cardinality(edgeUe[d]) + 1
        BY <1>4, <2>2, <2>4, <3>3, FS_AddElement
      <3> QED BY <1>3, <2>2, <2>4, <3>1, <3>2, <3>4, ConstantFacts
    <2>5. CASE d = source
      <3>1. resources[d] + Cardinality(edgeUe[d]) <= EDGE_RESOURCES
        BY <1>1, <2>1, <2>5 DEF FirstOverloaded
      <3>2. Cardinality(edgeUe'[d]) = Cardinality(edgeUe[d]) - 1
        BY <1>4, <2>2, <2>5, FS_RemoveElement
      <3>3. resources'[d] <= resources[d] + 1 /\ resources'[d] \in Nat
        BY <1>3, <2>2, <2>3, <2>5
      <3> QED BY <2>2, <3>1, <3>2, <3>3, ConstantFacts
    <2>6. CASE d \notin {source, target}
      <3>1. resources'[d] = resources[d] /\ edgeUe'[d] = edgeUe[d]
        BY <1>3, <1>4, <2>3, <2>6
      <3> QED BY <1>1, <2>1, <2>6, <3>1 DEF FirstOverloaded
    <2> QED BY <2>4, <2>5, <2>6
  <1> QED BY <1>6, <1>7, <1>8, <1>9 DEF IInv

\* A user connects: a unit the first time, nothing of the servers' later.
LEMMA ConnectIInv ==
    ASSUME IInv, NEW u \in UEs, NEW c \in Edges, Connect(u, c), UNCHANGED algorithm
    PROVE  IInv'
  <1>1. Types
    BY DEF IInv
  <1>2. cellOf' \in [UEs -> Edges \cup {None}] /\ active_users' \in SUBSET UEs
    BY <1>1 DEF Connect, AllocateEdge, Types
  <1>3. CASE u \in active_users
    <2>1. UNCHANGED <<resources, edgeUe, active_users>>
      BY <1>3 DEF Connect, AllocateEdge, tables
    <2>2. Types'
      BY <1>1, <1>2, <2>1 DEF Connect, Types
    <2> QED BY <2>1, <2>2, TablesKept
  <1>4. CASE u \notin active_users
    <2>1. PICK e \in Edges : /\ IF resources[c] = 0 THEN resources[e] > 0 ELSE e = c
                             /\ resources' = [resources EXCEPT ![e] = @ - 1]
                             /\ edgeUe' = [edgeUe EXCEPT ![e] = @ \cup {u}]
      BY <1>4 DEF Connect, AllocateEdge
    <2>2. resources[e] > 0
      BY <1>1, <2>1 DEF Types
    <2>3. resources' \in [Edges -> Nat]
      BY <1>1, <2>1, <2>2, UnitTaken
    <2>4. edgeUe' \in [Edges -> SUBSET UEs]
      BY <1>1, <2>1 DEF Types
    <2>5. Types'
      BY <1>1, <1>2, <2>3, <2>4 DEF Connect, Types
    <2> QED BY <1>4, <2>1, <2>2, <2>5, AllocationIInv DEF Connect, AllocateEdge
  <1> QED BY <1>3, <1>4

\* A handover starts: only greedy touches the tables, and no units.
LEMMA StartHandoverIInv ==
    ASSUME IInv, NEW u \in UEs, NEW c \in Edges, StartHandover(u, c), UNCHANGED algorithm
    PROVE  IInv'
  <1>1. Types
    BY DEF IInv
  <1>2. /\ cellOf' \in [UEs -> Edges \cup {None}] /\ handovers' \in 0..MaxHandovers
        /\ cellOf[u] \in Edges
    BY <1>1, BoundsAssumption DEF StartHandover, Types
  <1>3. CASE algorithm # "greedy"
    <2>1. Types'
      BY <1>1, <1>2, <1>3 DEF StartHandover, FollowHandover, Types
    <2> QED BY <1>3, <2>1, TablesKept DEF StartHandover, FollowHandover
  <1>4. CASE algorithm = "greedy"
    <2>1. migrations' \in Seq(Edges \X Edges)
      <3>1. <<cellOf[u], c>> \in Edges \X Edges
        BY <1>2
      <3>2. PICK pair \in Edges \X Edges : pair = <<cellOf[u], c>>
        BY <3>1
      <3>3. migrations \in Seq(Edges \X Edges) /\ migrations' = Append(migrations, pair)
        BY <1>1, <1>4, <3>2 DEF Types, StartHandover, FollowHandover
      <3> QED BY <3>3, AppendProperties
    <2>2. edgeUe' \in [Edges -> SUBSET UEs]
      <3>1. PICK source \in Edges : source = cellOf[u]
        BY <1>2
      <3>2. edgeUe' = [edgeUe EXCEPT ![source] = @ \ {u}, ![c] = @ \cup {u}]
        BY <1>4, <3>1 DEF StartHandover, FollowHandover
      <3> QED BY <1>1, <3>2 DEF Types
    <2>3. Types'
      BY <1>1, <1>2, <1>4, <2>1, <2>2 DEF StartHandover, Types
    <2>4. UnitsTaken'
      BY Zenon DEF IInv, UnitsTaken, Units, StartHandover
    <2>5. OneServer' /\ AccountsExact' /\ FirstOverloaded'
      BY <1>4 DEF OneServer, AccountsExact, FirstOverloaded
    <2> QED BY <2>3, <2>4, <2>5 DEF IInv
  <1> QED BY <1>3, <1>4

\* A handover ends.
LEMMA FinishHandoverIInv ==
    ASSUME IInv, NEW u \in UEs, NEW c \in Edges, FinishHandover(u, c), UNCHANGED algorithm
    PROVE  IInv'
  <1>1. Types'
    BY DEF IInv, FinishHandover, Types, tables
  <1> QED BY <1>1, TablesKept DEF FinishHandover, tables

\* A migration that greedy has scheduled.
LEMMA RunMigrationIInv ==
    ASSUME IInv, RunMigration, UNCHANGED algorithm
    PROVE  IInv'
  <1>1. Types /\ algorithm = "greedy"
    BY DEF IInv, Types, RunMigration
  <1>2. migrations[1] \in Edges \X Edges /\ migrations' \in Seq(Edges \X Edges)
    <2>1. migrations \in Seq(Edges \X Edges) /\ migrations # <<>>
      BY <1>1 DEF Types, RunMigration
    <2>2. Head(migrations) \in Edges \X Edges /\ Tail(migrations) \in Seq(Edges \X Edges)
      BY <2>1, HeadTailProperties
    <2> QED BY <2>1, <2>2 DEF RunMigration
  <1>3. PICK source \in Edges, target \in Edges : migrations[1] = <<source, target>>
    BY <1>2
  <1>4. migrate(source, target)
    BY <1>3 DEF RunMigration
  <1>5. resources' \in [Edges -> Nat] /\ SumFunctionOnSet(resources', Edges) = Units
    BY <1>1, <1>4, UnitsMoved
  <1>6. Types'
    BY <1>1, <1>2, <1>5 DEF RunMigration, Types
  <1>7. UnitsTaken'
    <2>1. Units' = Units
      BY <1>5 DEF Units
    <2> QED BY <2>1 DEF IInv, UnitsTaken, RunMigration
  <1>8. OneServer' /\ AccountsExact' /\ FirstOverloaded'
    BY <1>1 DEF OneServer, AccountsExact, FirstOverloaded
  <1> QED BY <1>6, <1>7, <1>8 DEF IInv

\* manager starts its loop.
LEMMA managerIInv ==
    ASSUME IInv, manager, UNCHANGED algorithm
    PROVE  IInv'
  <1>1. Types'
    BY ConstantFacts, BoundsAssumption DEF IInv, manager, Types, tables
  <1> QED BY <1>1, TablesKept DEF manager, tables

\* manager's step for one user.
LEMMA ManagerStepIInv ==
    ASSUME IInv, ManagerStep, UNCHANGED algorithm
    PROVE  IInv'
  <1>1. Types
    BY DEF IInv
  <1>2. /\ turn \in UEs /\ now \in 0..MaxTime
        /\ MaxTime \in Nat /\ Window \in Nat /\ Window # 0 /\ NumUsers \in Nat
    BY <1>1, ConstantFacts, BoundsAssumption DEF ManagerStep, Types, UEs
  <1>3. now' \in 0..(MaxTime + 1) /\ turn' \in 0..NumUsers /\ (turn' # 0 => now' <= MaxTime)
    <2>1. CASE turn = NumUsers
      <3>1. turn' = 0
        BY <1>2, <2>1 DEF ManagerStep
      <3> QED BY <1>2, <2>1, <3>1 DEF ManagerStep
    <2>2. CASE turn # NumUsers
      <3>1. turn' = turn + 1
        BY <1>2, <2>2 DEF ManagerStep, UEs
      <3> QED BY <1>2, <2>2, <3>1 DEF ManagerStep, UEs
    <2> QED BY <2>1, <2>2
  <1> DEFINE Skips == UNCHANGED <<resources, edgeUe, edgeMigrationChart>>
             Moves == /\ getEdge(turn) # None /\ algorithm # "greedy"
                      /\ bestEdgeServer # getEdge(turn)
                      /\ Move(turn, getEdge(turn), bestEdgeServer)
  <1>4. handoverPredictions' \in [UEs -> 0..(MaxTime + Window)] /\ (Skips \/ Moves)
    <2>1. CASE getEdge(turn) = None \/ algorithm \in {"nomigration", "greedy"}
      BY <1>1, <2>1 DEF ManagerStep, ManageUser, Types, tables
    <2>2. CASE ~(getEdge(turn) = None \/ algorithm \in {"nomigration", "greedy"})
      <3>1. HandoverPrediction(turn) /\ (Skips \/ Moves)
        BY <2>2 DEF ManagerStep, ManageUser, tables
      <3>2. /\ now + Window - 1 \in 0..(MaxTime + Window)
            /\ now + Window \in 0..(MaxTime + Window)
        BY <1>2
      <3>3. PICK S : S = 0..(MaxTime + Window)
        OBVIOUS
      <3>4. handoverPredictions' \in [UEs -> S]
        BY <1>1, <1>2, <3>1, <3>2, <3>3 DEF HandoverPrediction, Types
      <3> QED BY <3>1, <3>3, <3>4
    <2> QED BY <2>1, <2>2
  <1>5. CASE Skips
    <2>1. Types'
      BY <1>1, <1>3, <1>4, <1>5 DEF ManagerStep, Types
    <2> QED BY <1>5, <2>1, TablesKept DEF ManagerStep
  <1>6. CASE Moves
    <2>1. getEdge(turn) \in Edges /\ turn \in edgeUe[getEdge(turn)]
      BY <1>1, <1>2, <1>6, GetEdgeServes
    <2>2. PICK source \in Edges : source = getEdge(turn)
      BY <2>1
    <2>3. bestEdgeServer \in Edges
      BY <1>1, BestScores
    <2>4. resources' \in [Edges -> Nat]
      BY <1>1, <1>6, <2>2, <2>3, UnitsMoved DEF Move
    <2>5. PICK target \in Edges : target = bestEdgeServer
      BY <2>3
    <2>6. edgeUe' \in [Edges -> SUBSET UEs]
      BY <1>1, <1>2, <1>6, <2>2, <2>5 DEF Move, Types
    <2>7. edgeMigrationChart' \in [UEs -> [Edges -> 0..MaxTime]]
      BY <1>1, <1>2, <1>6, <2>5 DEF Move, Types
    <2>8. Types'
      BY <1>1, <1>3, <1>4, <2>4, <2>6, <2>7 DEF ManagerStep, Types
    <2> QED BY <1>2, <1>6, <2>1, <2>2, <2>8, MoveIInv DEF ManagerStep
  <1> QED BY <1>4, <1>5, <1>6

\* Every step keeps the invariant.
LEMMA NextIInv == IInv /\ [Next]_vars => IInv'
  <1> SUFFICES ASSUME IInv, [Next]_vars PROVE IInv'
    OBVIOUS
  <1>1. CASE UNCHANGED vars
    <2>1. Types'
      BY <1>1 DEF IInv, Types, vars, tables
    <2> QED BY <1>1, <2>1, TablesKept DEF vars, tables
  <1>2. CASE Next
    <2>1. ASSUME NEW u \in UEs, NEW c \in Edges, Connect(u, c) PROVE IInv'
      BY <1>2, <2>1, ConnectIInv DEF Next
    <2>2. ASSUME NEW u \in UEs, NEW c \in Edges, StartHandover(u, c) PROVE IInv'
      BY <1>2, <2>2, StartHandoverIInv DEF Next
    <2>3. ASSUME NEW u \in UEs, NEW c \in Edges, FinishHandover(u, c) PROVE IInv'
      BY <1>2, <2>3, FinishHandoverIInv DEF Next
    <2>4. ASSUME RunMigration PROVE IInv'
      BY <1>2, <2>4, RunMigrationIInv DEF Next
    <2>5. ASSUME manager PROVE IInv'
      BY <1>2, <2>5, managerIInv DEF Next
    <2>6. ASSUME ManagerStep PROVE IInv'
      BY <1>2, <2>6, ManagerStepIInv DEF Next
    <2> QED BY <1>2, <2>1, <2>2, <2>3, <2>4, <2>5, <2>6 DEF Next
  <1> QED BY <1>1, <1>2

-------------------------------------------------------------------------------
(***************************************************************************)
(* The theorems.                                                           *)
(***************************************************************************)

\* The conjunction that is inductive holds in every state.
THEOREM Invariance == Spec => []IInv
  BY InitIInv, NextIInv, PTL DEF Spec

\* Every table keeps its type: no server's units fall below zero, or rise above
\* all units there are.
THEOREM EdgeTypeCorrect == Spec => []TypeOK
  <1>1. IInv => TypeOK
    <2> SUFFICES ASSUME IInv PROVE TypeOK
      OBVIOUS
    <2>1. Types /\ UnitsTaken
      BY DEF IInv
    <2>2. Cardinality(active_users) \in Nat
      BY <2>1, ConstantFacts, FS_Subset, FS_CardinalityType DEF Types
    <2>3. \A e \in Edges : resources[e] \in Nat
      BY <2>1 DEF Types
    <2>4. Units \in Nat /\ \A e \in Edges : resources[e] <= Units
      BY <2>3, ConstantFacts, SumBound DEF Units
    <2>5. \A e \in Edges : resources[e] \in 0..Total
      BY <2>1, <2>2, <2>3, <2>4, ConstantFacts DEF UnitsTaken
    <2>6. resources \in [Edges -> 0..(NumEdges * EDGE_RESOURCES)]
      <3>1. PICK t : t = NumEdges * EDGE_RESOURCES
        OBVIOUS
      <3> QED BY <2>1, <2>5, <3>1 DEF Types, Total
    <2> QED BY <2>1, <2>6 DEF TypeOK, Types
  <1> QED BY <1>1, Invariance, PTL

\* AllocateEdge and migrate neither make nor lose units, so that the loop that
\* draws another server always finds one.
THEOREM EdgeUnitsConserved == Spec => []UnitsConserved
  <1>1. IInv => UnitsConserved
    <2> SUFFICES ASSUME IInv PROVE UnitsConserved
      OBVIOUS
    <2>1. DOMAIN resources = Edges
      BY DEF IInv, Types
    <2>2. SumFunction(resources) = SumFunctionOnSet(resources, DOMAIN resources)
      BY Zenon DEF SumFunction, SumFunctionOnSet, FoldFunction
    <2> QED BY <2>1, <2>2 DEF IInv, UnitsTaken, Units, UnitsConserved
  <1> QED BY <1>1, Invariance, PTL

\* While a unit is left somewhere, a server's units are those left and one for
\* each user it has; and whatever migrations fail, a server that shows a unit has
\* not more users than the units it has given out.
THEOREM EdgeAccountsExact == Spec => []EdgeAccounts
  <1>1. IInv => EdgeAccounts
    <2> SUFFICES ASSUME IInv, algorithm # "greedy", NEW e \in Edges, resources[e] > 0
                 PROVE  resources[e] + Cardinality(edgeUe[e]) <= EDGE_RESOURCES
      BY DEF IInv, AccountsExact, EdgeAccounts
    <2>1. CASE algorithm = "qos"
      BY <2>1 DEF IInv, FirstOverloaded
    <2>2. CASE algorithm # "qos"
      <3>1. Cardinality(active_users) \in Nat
        BY ConstantFacts, FS_Subset, FS_CardinalityType DEF IInv, Types
      <3>2. \A d \in Edges : resources[d] \in Nat
        BY DEF IInv, Types
      <3>3. Units \in Nat /\ resources[e] <= Units
        BY <3>2, ConstantFacts, SumBound DEF Units
      <3>4. Cardinality(active_users) < Total
        BY <3>1, <3>2, <3>3, ConstantFacts DEF IInv, UnitsTaken
      <3>5. resources[e] + Cardinality(edgeUe[e]) = EDGE_RESOURCES
        BY <2>2, <3>4 DEF IInv, AccountsExact
      <3> QED BY <3>5, ConstantFacts
    <2> QED BY <2>1, <2>2
  <1> QED BY <1>1, Invariance, PTL

\* Every user who ever connected has one server, and no other user has any.
THEOREM EdgeOneServer == Spec => []OneEdge
  <1>1. IInv => OneEdge
    <2> SUFFICES ASSUME IInv, algorithm # "greedy", NEW u \in UEs
                 PROVE  Cardinality({e \in Edges : u \in edgeUe[e]})
                            = IF u \in active_users THEN 1 ELSE 0
      BY DEF OneEdge
    <2>1. CASE u \in active_users
      <3>1. PICK e \in Edges : Serves(u, e)
        BY <2>1 DEF IInv, OneServer
      <3>2. {d \in Edges : u \in edgeUe[d]} = {e}
        BY <3>1 DEF Serves
      <3>3. Cardinality({e}) = 1
        BY FS_Singleton
      <3> QED BY <2>1, <3>2, <3>3
    <2>2. CASE u \notin active_users
      <3>1. {d \in Edges : u \in edgeUe[d]} = {}
        BY <2>2 DEF IInv, OneServer
      <3> QED BY <2>2, <3>1, FS_EmptySet
    <2> QED BY <2>1, <2>2
  <1> QED BY <1>1, Invariance, PTL
===============================================================================
