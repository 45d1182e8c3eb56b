CONSTANTS
    Calls = {"a", "b"}
    Workers = {"v", "w"}
SPECIFICATION Spec
INVARIANTS NoDataRace
