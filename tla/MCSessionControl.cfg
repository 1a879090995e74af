SPECIFICATION Spec
CONSTANTS
    Ops = {o1, o2, o3}
    Sessions = {"s1"}
    Roots = {r1, r2}
    Children = {k1, k2}
    o1 = o1
    o2 = o2
    o3 = o3
    r1 = r1
    r2 = r2
    k1 = k1
    k2 = k2
    Locks = {l1, l2, l3}
    l1 = l1
    l2 = l2
    l3 = l3
    Earlier <- None
    Kinds = {"attach", "activate", "restore", "detach", "reap"}
    MaxGrants = 2
    MaxActive = 1
    MaxBindings = 2
    NoOp = NoOp
    NoChild = NoChild
    NoLock = NoLock
    NoSession = NoSession
SYMMETRY Symmetry
INVARIANT LockExcludes
INVARIANT NoLostChild
INVARIANT BoundRootServes
INVARIANT NothingServesUnaudited
INVARIANT OldChildrenStopped
PROPERTY DetachLeavesNothing
