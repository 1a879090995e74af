SPECIFICATION Spec
CONSTANTS
    Ops = {o1, o2}
    Sessions = {"s1", "s2", "s3"}
    Roots = {r1}
    Children = {k1, k2}
    o1 = o1
    o2 = o2
    r1 = r1
    k1 = k1
    k2 = k2
    Locks = {l1, l2}
    l1 = l1
    l2 = l2
    Earlier <- TwiceOnceOnce
    Kinds = {"restore"}
    MaxGrants = 4
    MaxActive = 1
    MaxBindings = 2
    NoOp = NoOp
    NoChild = NoChild
    NoLock = NoLock
    NoSession = NoSession
SYMMETRY Symmetry
INVARIANT TypeOK
INVARIANT ChildrenWithinLimit
