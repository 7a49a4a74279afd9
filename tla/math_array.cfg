\* The bubble sorts and the 50% mean of math.cpp against reference
\* definitions, over every array of up to six elements from {-1, 0, 1, 2}.
CONSTANTS
    Elems <- MC_Elems
    MaxLen = 6
SPECIFICATION Spec
INVARIANTS
    SortCorrect
    Median50Correct
