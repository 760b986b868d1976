--------------------------- MODULE MCKeyResolver ---------------------------
(* Two verifiers, three ids of which two share a secret name, one bad id. *)
EXTENDS KeyResolver, TLC

\* keySecretName: upper case, "-" as "_".
MCSecretName == ("ns-prod" :> "KEY_NS_PROD") @@ ("ns_prod" :> "KEY_NS_PROD")
                  @@ ("01J" :> "KEY_01J")
MCSymmetry == Permutations(Verifiers)
=============================================================================
