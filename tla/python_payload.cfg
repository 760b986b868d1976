\* Every record type; nothing happens to it after signing.
CONSTANT MaxEdits = 0
SPECIFICATION PayloadSpec
INVARIANTS PythonAccepts
CHECK_DEADLOCK FALSE
