SPECIFICATION Spec
CONSTANTS
    s1 = s1
    s2 = s2
    Sesames = {s1, s2}
    NameOf <- SameName
    Namespaces = {n1, n2}
    CoreNamespaces = {}
    Configs = {c1}
    RbacKinds = {"serviceaccount", "clusterrole"}
    ChildKinds = {"deployment", "service"}
    Stranger = Stranger
    Nil = Nil
    StaleReads = FALSE
    NsMutable = FALSE
    MaxEdits = 4
    MaxMeddles = 0
    MaxFaults = 0
PROPERTIES ClusterRoleRemoved
CHECK_DEADLOCK FALSE
