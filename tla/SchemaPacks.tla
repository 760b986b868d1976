----------------------------- MODULE SchemaPacks -----------------------------
(***************************************************************************)
(* The schema packs for payments, as shipped, and a policy file loaded     *)
(* with the packs it names.  The packs on infrastructure and data (github, *)
(* aws-s3, terraform, eu-ai-act, hipaa, soc2, gdpr, iso27001) are rules of *)
(* the same kinds and left out.                                            *)
(***************************************************************************)
EXTENDS Policy

\* The only entry of the allowlists as they ship.
Listed == Text("__REPLACE_ME__")

Condition(field, op, value) == [field |-> <<field>>, op |-> op, value |-> value]
List(items) == [type |-> "list", text |-> "", n |-> 0, items |-> items]
Allowlist == List({Listed})
Pattern(name) == Text(name)
OneOf(names) == List({Text(t) : t \in names})

\* A guard of one condition.
Guard(tool, decision, field, op, value) == Rule(tool, decision, <<Condition(field, op, value)>>)
Missing(tool, decision, field) == Guard(tool, decision, field, "not_exists", Absent)
Empty(tool, decision, field) == Guard(tool, decision, field, "eq", Text(""))
Blank(tool, decision, field) == Guard(tool, decision, field, "match", Pattern("blank"))
Unlisted(tool, field, list) == Guard(tool, "BLOCK", field, "not_in", list)
Over(tool, decision, field, n) == Guard(tool, decision, field, "gt", Number(n))
OverDigits(tool, decision, field, n) == Guard(tool, decision, field, "gt_bigint", Digits(n))

-----------------------------------------------------------------------------
StripeCharge ==
  <<Over("stripe_charge", "BLOCK", "amount", 100000),
    Over("stripe_charge", "STEP_UP", "amount", 50000),
    Unlisted("stripe_charge", "currency", OneOf({"usd", "eur", "gbp", "jpy", "cad", "aud"})),
    Over("stripe_create_charge", "BLOCK", "amount", 100000),
    Over("stripe_create_charge", "STEP_UP", "amount", 50000)>>

StripeRefund ==
  LET tool == "stripe_refund"
  IN  <<Missing(tool, "BLOCK", "charge_id"), Empty(tool, "BLOCK", "charge_id"),
        Missing(tool, "STEP_UP", "amount"), Empty(tool, "STEP_UP", "amount"),
        Over(tool, "BLOCK", "amount", 500000), Over(tool, "STEP_UP", "amount", 50000)>>

\* The guards on a payment out, the same for stripe_transfer and stripe_payout.
StripeOut(tool) ==
  <<Missing(tool, "BLOCK", "destination"), Blank(tool, "BLOCK", "destination"),
    Missing(tool, "STEP_UP", "amount"), Empty(tool, "STEP_UP", "amount"),
    Guard(tool, "STEP_UP", "amount", "not_match", Pattern("integer")),
    Unlisted(tool, "destination", Allowlist),
    OverDigits(tool, "STEP_UP", "amount", 50000)>>

StripeTransfer == StripeOut("stripe_transfer")

StripePayout == StripeOut("stripe_payout")

StripeCustomer ==
  <<Guard("stripe_delete_customer", "ALLOW", "allow_customer_delete", "eq", True),
    Rule("stripe_delete_customer", "BLOCK", <<>>)>>

StripeUpdate ==
  <<Rule("stripe_update_customer", "STEP_UP",
      <<[field |-> <<"metadata", "env">>, op |-> "in", value |-> OneOf({"production", "prod"})]>>)>>

StripeEnforce ==
  StripeCharge \o StripeRefund \o StripeUpdate \o StripeTransfer \o StripePayout \o StripeCustomer

\* Its lists are empty: every destination that is given is refused.
StripeBeneficiary ==
  <<Unlisted("stripe_charge", "destination", List({})),
    Unlisted("stripe_create_charge", "destination", List({}))>>

PciDssStripe ==
  <<Guard("stripe_charge", "STEP_UP", "capture_method", "eq", Text("manual")),
    Rule("stripe_charge", "STEP_UP",
      <<[field |-> <<"metadata", "cardholder_env">>, op |-> "eq", value |-> Text("production")]>>),
    Missing("stripe_create_customer", "BLOCK", "email")>>

\* The guards on an identifier of ach_transfer, and those on its amount.
AchParties ==
  LET guards(field) ==
        <<Missing("ach_transfer", "BLOCK", field), Blank("ach_transfer", "BLOCK", field),
          Unlisted("ach_transfer", field, Allowlist)>>
  IN  guards("routing_number") \o guards("account_id")

AchAmount ==
  LET tool == "ach_transfer"
  IN  <<Missing(tool, "STEP_UP", "amount"), Blank(tool, "STEP_UP", "amount"),
        Guard(tool, "STEP_UP", "amount", "not_match", Pattern("positive")),
        OverDigits(tool, "BLOCK", "amount", 5000000), OverDigits(tool, "STEP_UP", "amount", 100000)>>

AchCode ==
  LET tool == "ach_transfer"
      credit == Condition("direction", "eq", Text("credit"))
  IN  <<Missing(tool, "BLOCK", "sec_code"), Blank(tool, "BLOCK", "sec_code"),
        Unlisted(tool, "sec_code", OneOf({"CCD"})),
        Rule(tool, "ALLOW", <<credit, Condition("auto_approve_credits", "eq", True)>>),
        Rule(tool, "STEP_UP", <<credit>>)>>

AchEnforce == AchParties \o AchAmount \o AchCode

AchAccountAllowlist == <<Unlisted("ach_transfer", "account_id", Allowlist)>>

UpiGuards(tool) ==
  <<Missing(tool, "STEP_UP", "vpa"), Blank(tool, "STEP_UP", "vpa"),
    Unlisted(tool, "vpa", Allowlist),
    Missing(tool, "STEP_UP", "amount"), Blank(tool, "STEP_UP", "amount"),
    Guard(tool, "STEP_UP", "amount", "not_match", Pattern("integer")),
    OverDigits(tool, "BLOCK", "amount", 1000000), OverDigits(tool, "STEP_UP", "amount", 100000)>>

UpiPayment == UpiGuards("upi_payment")

UpiTransfer == UpiGuards("upi_transfer")

UpiVpaAllowlist ==
  <<Unlisted("upi_payment", "vpa", Allowlist), Unlisted("upi_transfer", "vpa", Allowlist)>>

\* Amounts of wei are counted in 10^14.
OpenclawTransfer ==
  LET tool == "openclaw.agent.transfer"
  IN  <<Missing(tool, "BLOCK", "recipient"), Empty(tool, "BLOCK", "recipient"),
        Missing(tool, "STEP_UP", "amount_wei"),
        Guard(tool, "STEP_UP", "amount_wei", "not_match", Pattern("integer")),
        Unlisted(tool, "recipient", Allowlist),
        OverDigits(tool, "BLOCK", "amount_wei", 50000), OverDigits(tool, "STEP_UP", "amount_wei", 1000)>>

OpenclawSwap ==
  LET tool == "openclaw.agent.swap"
  IN  <<Missing(tool, "BLOCK", "slippage_bps"), Over(tool, "BLOCK", "slippage_bps", 50),
        Missing(tool, "BLOCK", "output_token"), Empty(tool, "BLOCK", "output_token"),
        Unlisted(tool, "output_token", OneOf({"ETH", "USDC", "USDT"}))>>

OpenclawEscrow ==
  LET release == "openclaw.agent.checkout.escrow.release"
  IN  <<Guard(release, "ALLOW", "auto_approve_escrow_release", "eq", True),
        Rule(release, "STEP_UP", <<>>),
        Rule("openclaw.agent.checkout.escrow.refund", "ALLOW", <<>>)>>

SCHEMA_PACKS ==
  [stripe |-> StripeEnforce, beneficiary |-> StripeBeneficiary, pci |-> PciDssStripe,
   ach |-> AchEnforce, ach_allowlist |-> AchAccountAllowlist,
   upi |-> UpiPayment \o UpiTransfer, upi_allowlist |-> UpiVpaAllowlist,
   openclaw |-> OpenclawTransfer \o OpenclawSwap \o OpenclawEscrow]

-----------------------------------------------------------------------------
LoadError == [error |-> TRUE]

\* The operators that the schema of a policy file knows.
SchemaOperators ==
  Comparisons \cup {"eq", "neq", "match", "not_match", "in", "not_in", "exists", "not_exists"}

ValidatePolicyConfig(file) ==
  /\ file.default \in {"ALLOW", "BLOCK"}
  /\ \A i \in DOMAIN file.rules : \A k \in DOMAIN file.rules[i].params :
       file.rules[i].params[k].op \in SchemaOperators

\* Each pack once, in the order in which they are first named.
PackIds(schemas) ==
  Those(schemas, {i \in DOMAIN schemas : schemas[i] \notin {schemas[j] : j \in 1..(i - 1)}})

PackRules(schemas) ==
  LET ids == PackIds(schemas)
      allPackRules[n \in 0..Len(ids)] ==
        IF n = 0 THEN <<>> ELSE allPackRules[n-1] \o SCHEMA_PACKS[ids[n]]
  IN  allPackRules[Len(ids)]

\* Without schemas there is nothing to merge, and MergePackRules changes nothing.
LoadPolicy(file) ==
  IF ~ValidatePolicyConfig(file) \/ ~(ToSet(file.schemas) \subseteq DOMAIN SCHEMA_PACKS) THEN LoadError
  ELSE [file EXCEPT !.rules = MergePackRules(file.rules, PackRules(file.schemas))]

=============================================================================
