\* Two trees, two groups in arrays of two bits.  No client has to go on: no deadlock check.
SPECIFICATION Spec
CONSTANTS
    t1 = t1
    t2 = t2
    l1 = l1
    l2 = l2
    p1 = p1
    a = a
    b = b
    Trees <- MCTrees
    Leaves <- MCLeaves
    PointsIn <- MCPointsIn
    Names <- MCNames
    GroupNames <- MCGroupNames
    Groups = {1, 2}
    GroupBits = 2
    Values <- MCValues
    Initial = a
    InitialDescriptors <- MCInitialDescriptors
    InitialBits <- MCInitialBits
    MaxArrays = 4
    MaxChanges = 2
SYMMETRY MCSymmetry
INVARIANTS
    SetsInStep
    AttributesMeetContract
    GroupsMeetContract
PROPERTIES
    CopiesAreIndependent
CHECK_DEADLOCK FALSE
