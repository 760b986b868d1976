-------------------------- MODULE ConformanceVectors --------------------------
(***************************************************************************)
(* The published test vectors: the chains and sidecars that                *)
(* scripts/generate-test-vectors.ts (TV-01 to TV-21) and                   *)
(* scripts/generate-golden-vectors.ts (GV-01 to GV-18) write, with what    *)
(* they expect a verifier to say.  The ids of a chain's receipts are their *)
(* places.                                                                 *)
(***************************************************************************)
EXTENDS OutcomeBinding

\* A prev_receipt_hash that is the hash of no receipt.
WrongHash == 99

\* Receipts numbered and linked by chainReceipt; the first is as it is built.
ChainOf(drafts) ==
  LET chain[i \in 1..Len(drafts)] ==
        LET draft == [drafts[i] EXCEPT !.id = i]
        IN  IF i = 1 THEN draft ELSE ChainReceipt(draft, chain[i-1])
  IN  chain

Manifest == Fields("workflow_manifest")
Action   == [Fields("action_receipt") EXCEPT !.decision = "ALLOW"]
Closed   == Fields("workflow_closed")

BuildValidChain == ChainOf(<<Manifest, Action, Closed>>)

\* A manifest, and an action whose number and prev_receipt_hash are set by hand.
ManifestAnd(seq, prev) ==
  <<[Manifest EXCEPT !.id = 1], [Action EXCEPT !.id = 2, !.seq = seq, !.prev = prev]>>

Alone(r) == <<[r EXCEPT !.id = 1]>>

\* What buildRfc3161Token makes if it is not asked for a fault: genTime is
\* issued_at, and what Python reads in it is another matter.  Before 3.11, which
\* pyproject.toml:6 allows, datetime.fromisoformat refuses every such text.
PlainTokens == {"good", "misread"}

\* A record for every receipt.
StampedAs(rs, tsa, tokens) ==
  [i \in Places(rs) |-> [id |-> rs[i].id, tsa |-> tsa, token |-> tokens[i], imprint |-> Digest(rs[i])]]

StampedBy(rs, tsa, token) == StampedAs(rs, tsa, [i \in Places(rs) |-> token])

Degraded == ChainOf(<<Manifest, [Action EXCEPT !.degraded = TRUE], Closed>>)

\* Mutant: the post_receipt names itself.
Untagged_Itself ==
  ChainOf(<<Manifest, Action, [Fields("post_receipt") EXCEPT !.pre = 3, !.outcome = "SUCCESS"]>>)

Untagged ==
  ChainOf(<<Manifest, Action, [Fields("post_receipt") EXCEPT !.pre = 2, !.outcome = "SUCCESS"]>>)

-----------------------------------------------------------------------------
Vector(id, receipts, tsa, l1, l2, l3) ==
  [id |-> id, receipts |-> receipts, tsa |-> tsa, l1 |-> l1, l2 |-> l2, l3 |-> l3]

ChainVectors == {
  Vector("TV-01", BuildValidChain, <<>>, "PASS", "PASS", "SKIPPED"),
  Vector("TV-02", BuildValidChain, <<>>, "PASS", "PASS", "SKIPPED"),
  Vector("TV-03", BuildValidChain, <<>>, "PASS", "PASS", "SKIPPED"),
  Vector("TV-04", ChainOf(<<Manifest>>), <<>>, "PASS", "PASS", "SKIPPED"),
  Vector("TV-05", ChainOf(<<Manifest, Action, Action>>), <<>>, "PASS", "PASS", "SKIPPED"),
  Vector("TV-06", Alone([Manifest EXCEPT !.edit = "signed"]), <<>>, "FAIL", "PASS", "SKIPPED"),
  Vector("TV-07", ManifestAnd(2, 1), <<>>, "PASS", "FAIL", "SKIPPED"),
  Vector("TV-08", ManifestAnd(1, WrongHash), <<>>, "PASS", "FAIL", "SKIPPED"),
  Vector("TV-09", Alone([Manifest EXCEPT !.prev = WrongHash]), <<>>, "PASS", "FAIL", "SKIPPED"),
  Vector("TV-10", ChainOf(<<Manifest, Manifest>>), <<>>, "PASS", "PASS", "SKIPPED"),
  Vector("TV-11", ManifestAnd(1, WrongHash), <<>>, "PASS", "FAIL", "SKIPPED"),
  Vector("TV-12", ManifestAnd(0, NullHash), <<>>, "PASS", "FAIL", "SKIPPED")}

\* All issued at one time, and so read alike.
TV13(token) == Vector("TV-13", BuildValidChain, StampedBy(BuildValidChain, "digicert", token), "PASS", "PASS", "PASS")
TV14(token) == Vector("TV-14", BuildValidChain, StampedBy(BuildValidChain, "evilcorp-tsa", token), "PASS", "PASS", "FAIL")
TV16(token) == Vector("TV-16", BuildValidChain, StampedBy(BuildValidChain, "digicert", token), "PASS", "PASS", "PASS")

TimestampVectors ==
  {TV13(token) : token \in PlainTokens} \cup {TV14(token) : token \in PlainTokens}
  \cup {TV16(token) : token \in PlainTokens} \cup {
  Vector("TV-15", Alone(Action), <<>>, "PASS", "FAIL", "SKIPPED"),
  Vector("TV-17", BuildValidChain, StampedBy(BuildValidChain, "digicert", "md5"), "PASS", "PASS", "FAIL"),
  Vector("TV-18", BuildValidChain, StampedBy(BuildValidChain, "digicert", "early"), "PASS", "PASS", "FAIL"),
  Vector("TV-19", Alone([Manifest EXCEPT !.edit = "version"]), <<>>, "PASS", "FAIL", "SKIPPED"),
  Vector("TV-20", Degraded, <<>>, "PASS", "PASS", "SKIPPED"),
  Vector("TV-21", Untagged, <<>>, "PASS", "PASS", "SKIPPED")}

-----------------------------------------------------------------------------
\* Golden vectors: what the proxy, which is not in this repository, is seen to
\* record of some calls.
Call(decision, called) == [Action EXCEPT !.decision = decision, !.called = called]
DeadCall(called) == [Call("FAIL_CLOSED", called) EXCEPT !.dead = TRUE]

GoldenChain(calls) == ChainOf(<<Manifest>> \o calls \o <<Closed>>)

Golden(id, calls) == Vector(id, GoldenChain(calls), <<>>, "PASS", "PASS", "SKIPPED")

AllowedCall == Call("ALLOW", "yes")
BlockedCall == Call("BLOCK", "no")

GV01 == Golden("GV-01", <<>>)
GV02 == Golden("GV-02", <<>>)
GV03 == Golden("GV-03", <<AllowedCall>>)
GV04 == Golden("GV-04", <<BlockedCall>>)
GV05 == Golden("GV-05", <<BlockedCall>>)
GV06 == Golden("GV-06", <<BlockedCall>>)
GV07 == Golden("GV-07", <<BlockedCall>>)
GV08 == Golden("GV-08", <<BlockedCall>>)
GV09 == Golden("GV-09", <<BlockedCall>>)
GV10 == Golden("GV-10", <<Call("STEP_UP", "no")>>)
GV11 == Golden("GV-11", <<Call("FAIL_OPEN", "yes")>>)
GV12 == Golden("GV-12", <<AllowedCall, DeadCall("no")>>)
GV13 == Golden("GV-13", <<DeadCall("yes")>>)
GV14 == Golden("GV-14", <<AllowedCall>>)
GV15 == Golden("GV-15", <<Call("ALLOW", "untracked")>>)
GV16 == Golden("GV-16", <<AllowedCall, AllowedCall, AllowedCall>>)
GV18 == Golden("GV-18", <<AllowedCall>>)

\* Issued, and so stamped, at the times the generator ran.
GV17Chain    == GoldenChain(<<AllowedCall>>)
GV17(tokens) == Vector("GV-17", GV17Chain, StampedAs(GV17Chain, "digicert", tokens), "PASS", "PASS", "PASS")

GoldenVectors ==
  {GV01, GV02, GV03, GV04, GV05, GV06, GV07, GV08, GV09,
   GV10, GV11, GV12, GV13, GV14, GV15, GV16, GV18}
  \cup {GV17(tokens) : tokens \in [1..3 -> PlainTokens]}

Vectors == ChainVectors \cup TimestampVectors \cup GoldenVectors

=============================================================================
