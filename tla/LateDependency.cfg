SPECIFICATION Spec
CONSTANTS
    top = top
    a = a
    b = b
    c = c
    d = d
    leaf = leaf
    Packages <- SixPackages
    Books <- LateBook
    Requests <- FirstTwo
    Levels = {4}
    Alphabet <- SixNames
    Matches <- ApartNames
INVARIANTS
    AllDependenciesFirst
CHECK_DEADLOCK FALSE
