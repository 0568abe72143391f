SPECIFICATION TreeSpec
CONSTANTS N = 4
INVARIANTS ReverseRangeErased
