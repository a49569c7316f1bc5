SPECIFICATION SearchSpec
CONSTANTS
    NumSolutions = 5
    Rounds = 3
    Scores = {1, 2, 3}
INVARIANT
    BestSurvives
CHECK_DEADLOCK FALSE
