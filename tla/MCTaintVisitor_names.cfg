SPECIFICATION Spec
CONSTANTS
    Vars = {"x", "y"}
    Programs <- TwoFiles
INVARIANTS NoMissedFlow
