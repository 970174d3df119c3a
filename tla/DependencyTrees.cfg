SPECIFICATION Spec
CONSTANTS
    p = p
    q = q
    r = r
    Packages <- ThreePackages
    Books <- AnyBook
    Requests <- OneOrTwo
    Levels = {3}
    Alphabet <- InOrderOfNames
    Matches <- ApartNames
INVARIANTS
    TypeOK
    GraphIsWhole
    LinksAreUnique
    NothingTwice
    ListedUnlessLost
    DependenciesFirst
    WeakestEdgesCut
    ReadyToRun
PROPERTIES
    Terminates
CHECK_DEADLOCK FALSE
