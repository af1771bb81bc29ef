SPECIFICATION ResyncSpec
CONSTANTS
    s1 = s1
    s2 = s2
    Sesames = {s1}
    NameOf <- SameName
    Namespaces = {n1}
    CoreNamespaces = {}
    Configs = {c1, c2}
    RbacKinds = {}
    ChildKinds = {"deployment", "job"}
    Stranger = Stranger
    Nil = Nil
    StaleReads = TRUE
    NsMutable = FALSE
    MaxEdits = 2
    MaxMeddles = 1
    MaxFaults = 1
PROPERTIES DeletionCompletes  
CHECK_DEADLOCK FALSE
