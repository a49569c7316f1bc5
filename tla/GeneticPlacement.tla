--------------------------- MODULE GeneticPlacement ---------------------------
(***************************************************************************)
(* The genetic search of scratch/uavs_ag.py for the places of the drones.  *)
(* A solution is a movement of every drone; all that the search looks at   *)
(* is its score (the sum of the signals the users would receive), so that  *)
(* a solution is its score here.  solutions[k] is Python's                 *)
(* solutions[k - 1].                                                       *)
(***************************************************************************)
EXTENDS Integers, Sequences, Functions

CONSTANTS
    NumSolutions,       \* n_solutions (100)
    Rounds,             \* rounds (50)
    Scores              \* the scores a movement can have

Indices == 1..NumSolutions

ASSUME NumSolutionsAssumption == NumSolutions \in Nat \ {0}
ASSUME RoundsAssumption == Rounds \in Nat
ASSUME ScoresAssumption == Scores \subseteq Int

VARIABLES
    solutions,
    fitness,            \* the score of the first solution after each round
    call,               \* the call of the round that comes next, "done" after the last
    output,             \* score of the solution written to centroids.txt, as a set
    seen                \* the scores of all solutions that have been sorted so far

searchVars == <<solutions, fitness, call, output, seen>>

\* gen_movement_vector: any movement, and so any score.
SearchInit ==
    /\ solutions \in [Indices -> Scores]
    /\ fitness = <<>>
    /\ call = IF Rounds = 0 THEN "write" ELSE "sort"
    /\ output = {}
    /\ seen = {}

sort_solutions ==
    /\ call = "sort"
    /\ \E p \in Bijection(Indices, Indices) : solutions' = [k \in Indices |-> solutions[p[k]]]
    /\ \A k \in 1..(NumSolutions - 1) : solutions'[k] >= solutions'[k + 1]
    /\ seen' = seen \cup Range(solutions)
    /\ call' = "mutate"
    /\ UNCHANGED <<fitness, output>>

\* Mutant: without elitism.
MutateAll ==
    /\ call = "mutate"
    /\ \E S \in SUBSET Indices : \E new \in [S -> Scores] :
           solutions' = [k \in Indices |-> IF k \in S THEN new[k] ELSE solutions[k]]
    /\ call' = "crossover"
    /\ UNCHANGED <<fitness, output, seen>>

\* Any solution but the first may be replaced by a new one.
mutate ==
    /\ call = "mutate"
    /\ \E S \in SUBSET (Indices \ {1}) : \E new \in [S -> Scores] :
           solutions' = [k \in Indices |-> IF k \in S THEN new[k] ELSE solutions[k]]
    /\ call' = "crossover"
    /\ UNCHANGED <<fitness, output, seen>>

\* The exchange of two rows of numpy arrays assigns through views: the row of
\* the second solution is copied to the first, and then that row, already
\* overwritten, back to the second.  The third, fifth ... solution may become a
\* copy of the one that follows it; one that is followed by none stays.
crossover ==
    /\ call = "crossover"
    /\ \E S \in SUBSET {k \in Indices : k % 2 = 1 /\ k > 1 /\ k < NumSolutions} :
           solutions' = [k \in Indices |-> IF k \in S THEN solutions[k + 1] ELSE solutions[k]]
    /\ call' = "prune"
    /\ UNCHANGED <<fitness, output, seen>>

\* The solutions past the middle are replaced by new ones.
Pruned == {k \in Indices : 2 * (k - 1) > NumSolutions}

\* prune, and the score of the round.
prune ==
    /\ call = "prune"
    /\ \E new \in [Pruned -> Scores] :
           solutions' = [k \in Indices |-> IF k \in Pruned THEN new[k] ELSE solutions[k]]
    /\ fitness' = Append(fitness, solutions'[1])
    /\ call' = IF Len(fitness') < Rounds THEN "sort" ELSE "write"
    /\ UNCHANGED <<output, seen>>

write ==
    /\ call = "write"
    /\ output' = {solutions[1]}
    /\ call' = "done"
    /\ UNCHANGED <<solutions, fitness, seen>>

SearchNext == sort_solutions \/ mutate \/ crossover \/ prune \/ write

SearchSpec == SearchInit /\ [][SearchNext]_searchVars

-------------------------------------------------------------------------------
\* Elitism: from the first sort on, the first solution is as good as every
\* solution that was ever sorted, through the mutations, copies and
\* replacements of the rounds that follow, and so is the one written for the
\* drones.
BestSurvives == \A x \in seen : x <= solutions[1] /\ \A y \in output : x <= y
===============================================================================
