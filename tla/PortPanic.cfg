SPECIFICATION Spec
CONSTANTS
    Nil = Nil
    Publishings <- MCPublishings
    ValidIPs = {"10.0.0.1"}
    Range = {30080, 30443, 31000, 31001}
    MaxEdits = 0
    MaxMeddles = 1
INVARIANTS NeverPanics
