CONSTANTS
    d1 = d1
    t1 = t1
    t2 = t2
    n1 = n1
    a1 = a1
    p1 = p1
    c1 = c1
    l1 = l1
    l2 = l2
    u1 = u1
    u2 = u2
    ub = ub
    uw = uw
    k1 = k1
    k2 = k2
    None = None
    Absent = Absent
    Refs <- MCRefs
    KindOf <- MCKindOf
    Birth <- MCBirth
    Uris <- MCUris
    BadUris <- MCBadUris
    WeightlessUris <- MCWeightlessUris
    Creations <- MCCreations
    Partials <- MCPartials
    Answers <- MCAnswers
    NewKids <- MCNewKids
    Clients = {k1, k2}
    Touched = {"accessControlListRef", "domainRef", "aor"}
    Walked = {"acl"}
    PageSize = 1
    MaxOps = 2
SPECIFICATION Spec
SYMMETRY MCSymmetry
CHECK_DEADLOCK FALSE
INVARIANTS
    TypeOK
    LinksLead
    UrisAsAsked
    StoredIsValid
    WalkShowsAll

    
