SPECIFICATION Spec
CONSTANTS
    p = p
    q = q
    V = 3
    Proposals <- MCProposals
    Orders <- MCOrders
    Cap = 6
SYMMETRY Symmetry
INVARIANTS
    TypeOK
    WritableOpenKeepsAcknowledged
    WritableOpensAgree
    SessionAuthorityIsDurable
    CatalogFollowsAuthority
    NoTransitionOverUnresolved
    EarlierGenerationsUnreachable
