\* Every release of up to four components: all 543 labelled DAGs, every order of
\* declaring their edges, and every error of BuildUpgradeDAG.
CONSTANTS
    Names = {n1, n2, n3, n4}
    NoName = NoName
SYMMETRY NameSymmetry
SPECIFICATION BuildSpec
INVARIANTS RejectedForCause BatchesSound
CHECK_DEADLOCK FALSE
