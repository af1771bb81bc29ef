SPECIFICATION Spec
CONSTANTS
    s1 = s1
    s2 = s2
    Sesames = {s1, s2}
    NameOf <- SameName
    Namespaces = {n1}
    CoreNamespaces = {}
    Configs = {c1}
    RbacKinds = {"serviceaccount", "clusterrole"}
    ChildKinds = {"deployment", "service"}
    Stranger = Stranger
    Nil = Nil
    StaleReads = FALSE
    NsMutable = FALSE
    MaxEdits = 4
    MaxMeddles = 1
    MaxFaults = 1
SYMMETRY Symmetry
INVARIANTS TypeOK OneTenantPerNamespace
PROPERTIES FinalizerGuards NothingLeftBehind  NamespaceRemovalIsSafe ImplementsTenancy 
CHECK_DEADLOCK FALSE
