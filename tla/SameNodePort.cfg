SPECIFICATION Spec
CONSTANTS
    Nil = Nil
    Publishings <- AnyPublishings
    ValidIPs = {"10.0.0.1"}
    Range = {30080, 30443, 31000, 31001}
    MaxEdits = 1
    MaxMeddles = 0
INVARIANTS NodePortsUnique
