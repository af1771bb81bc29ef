SPECIFICATION Spec
CONSTANTS
    s1 = s1
    s2 = s2
    Sesames = {s1, s2}
    NameOf <- SameName
    Namespaces = {n1}
    CoreNamespaces = {}
    Configs = {c1}
    RbacKinds = {"clusterrolebinding"}
    ChildKinds = {"daemonset"}
    Stranger = Stranger
    Nil = Nil
    StaleReads = TRUE
    NsMutable = FALSE
    MaxEdits = 4
    MaxMeddles = 1
    MaxFaults = 1
SYMMETRY Symmetry
INVARIANTS NeverForgotten OneHolderPerNamespace
PROPERTIES FinalizerGuards 
CHECK_DEADLOCK FALSE
