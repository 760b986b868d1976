\* Every record type, with and without optional fields; two edits.
CONSTANT MaxEdits = 2
SPECIFICATION PayloadSpec
INVARIANTS SignatureCoversDeclared PythonAgreesOnKnown
CHECK_DEADLOCK FALSE
