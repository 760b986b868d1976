\* One verifier and one fault: JSON that is no key is published, or somebody
\* else answers for the key server.
CONSTANTS
  Verifiers = {v1}
  Ids = {"ns-prod", "ns_prod", "01J"}
  LocalIds = {"ns-prod"}
  PublishedIds = {"ns-prod"}
  BadIds = {"bad/id"}
  SecretName <- MCSecretName
  MaxFaults = 1
SPECIFICATION Spec
INVARIANT CachedOnSuccess
CHECK_DEADLOCK FALSE
