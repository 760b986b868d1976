\* Two verifiers, ids whose secret names collide, one fault.
CONSTANTS
  Verifiers = {v1, v2}
  Ids = {"ns-prod", "ns_prod", "01J"}
  LocalIds = {"ns-prod", "01J"}
  PublishedIds = {"ns-prod", "ns_prod"}
  BadIds = {"bad/id"}
  SecretName <- MCSecretName
  MaxFaults = 1
SYMMETRY MCSymmetry
SPECIFICATION Spec
INVARIANTS KeyIsOwnOrAlias SpoiltHasCause PythonResolvesToo
CHECK_DEADLOCK FALSE
