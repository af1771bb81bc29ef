SPECIFICATION Spec
CONSTANTS
    s1 = s1
    s2 = s2
    Sesames = {s1, s2}
    NameOf <- SameName
    Namespaces = {n1, n2}
    CoreNamespaces = {n2}
    Configs = {c1}
    RbacKinds = {"rolebinding"}
    ChildKinds = {"deployment", "envoy"}
    Stranger = Stranger
    Nil = Nil
    StaleReads = FALSE
    NsMutable = TRUE
    MaxEdits = 4
    MaxMeddles = 0
    MaxFaults = 1
SYMMETRY Symmetry
PROPERTIES NothingLeftBehind AnothersObjectsUntouched
CHECK_DEADLOCK FALSE
