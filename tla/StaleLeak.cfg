SPECIFICATION Spec
CONSTANTS
    s1 = s1
    s2 = s2
    Sesames = {s1, s2}
    NameOf <- SameName
    Namespaces = {n1}
    CoreNamespaces = {}
    Configs = {c1}
    RbacKinds = {"serviceaccount", "clusterrole"}
    ChildKinds = {"deployment", "service"}
    Stranger = Stranger
    Nil = Nil
    StaleReads = TRUE
    NsMutable = FALSE
    MaxEdits = 3
    MaxMeddles = 0
    MaxFaults = 0
PROPERTIES NothingLeftBehind
CHECK_DEADLOCK FALSE
