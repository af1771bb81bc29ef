SPECIFICATION FairSpec
CONSTANTS
    s1 = s1
    s2 = s2
    Sesames = {s1, s2}
    NameOf <- SameName
    Namespaces = {n1}
    CoreNamespaces = {}
    Configs = {c1, c2}
    RbacKinds = {"serviceaccount"}
    ChildKinds = {"configmap", "deployment"}
    Stranger = Stranger
    Nil = Nil
    StaleReads = FALSE
    NsMutable = FALSE
    MaxEdits = 4
    MaxMeddles = 0
    MaxFaults = 1
INVARIANTS RestIsBuilt
PROPERTIES DeletionCompletes Converges
CHECK_DEADLOCK FALSE
