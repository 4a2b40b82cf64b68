\* One tree that starts with a full array: groups get another one, and the first is
\* dropped.  No client has to go on: no deadlock check.
SPECIFICATION Spec
CONSTANTS
    t1 = t1
    t2 = t2
    l1 = l1
    l2 = l2
    p1 = p1
    a = a
    b = b
    Trees <- MCOneTree
    Leaves <- MCOneLeaf
    PointsIn <- MCPointsIn
    Names <- MCNames
    GroupNames <- MCGroupNames
    Groups = {1, 2, 3}
    GroupBits = 2
    Values <- MCValues
    Initial = a
    InitialDescriptors <- MCFullArray
    InitialBits <- MCInitialBits
    MaxArrays = 3
    MaxChanges = 5
INVARIANT CompactionKeepsGroups
CHECK_DEADLOCK FALSE
