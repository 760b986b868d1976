----------------------------- MODULE PolicyReplay -----------------------------
(***************************************************************************)
(* A workflow under a policy, and `nonsudo test` on its receipts: the      *)
(* policy may be edited while the workflow goes on and afterwards, and the *)
(* replay judges by the receipts, which have only a hash of the arguments. *)
(* The proxy that enforces the policy is not in this repository; it        *)
(* records what evaluatePolicy decides, or that a call over its velocity   *)
(* limit was dead-lettered, as the scripts that write the golden vectors   *)
(* expect of it.                                                           *)
(***************************************************************************)
EXTENDS SchemaPacks

CONSTANTS
  Files,        \* a function: the policy files there may be
  Calls,        \* calls of a workflow: [tool, args, model]
  Probes,       \* calls that are each the only one of their workflow
  Start,        \* the time at which the workflow starts, in seconds
  MaxReceipts,  \* bound: receipts of a workflow
  MaxTicks,     \* bound: passing of time
  MaxEdits      \* bound: changes of the policy file

ASSUME ReplayBounds ==
  Start \in Nat /\ MaxReceipts \in Nat /\ MaxTicks \in Nat /\ MaxEdits \in Nat

Sequence(s) == s \in Seq(ToSet(s))

\* What the schema of policy files demands of the parts that are counted with.
PolicyFile(file) ==
  /\ DOMAIN file = {"default", "rules", "schemas", "step_up", "limits", "network", "filesystem", "models"}
  /\ Sequence(file.rules) /\ Sequence(file.schemas) /\ Sequence(file.limits)
  /\ \A limit \in ToSet(file.limits) : limit.max \in Int /\ limit.window.n \in Int

ASSUME FilesAssumption == \A f \in DOMAIN Files : PolicyFile(Files[f])

\* The arguments of a call are an object, and what it holds are values.
ASSUME CallsAssumption ==
  \A call \in Calls \cup Probes :
    /\ call.args.type = "object"
    /\ \A f \in DOMAIN call.args.fields : call.args.fields[f].n \in Int

VARIABLES
  file,      \* the name of the policy file in force
  receipts,  \* the action receipts: what was called, when, decided by which policy
  clock,     \* the time in seconds
  edits      \* number of changes of the policy file

replayVars == <<file, receipts, clock, edits>>

Policies == [f \in DOMAIN Files |-> LoadPolicy(Files[f])]

Usable(f) == Policies[f] # LoadError

Decision(f, call) == EvaluatePolicy(call.tool, Policies[f], call.args, call.model)

\* The rules for "*" forgotten.
HasParamsRule_ExactOnly(tool, policy) ==
  \E i \in DOMAIN policy.rules : policy.rules[i].tool = tool /\ policy.rules[i].params # <<>>

-----------------------------------------------------------------------------
\* Does a rule with params apply to the tool, so that its replay is unknown?
HasParamsRule(tool, policy) ==
  \E i \in DOMAIN policy.rules : policy.rules[i].tool \in {tool, "*"} /\ policy.rules[i].params # <<>>

\* What the replay says that the policy decides.
ReplayDecision(r, policy) == EvaluatePolicy(r.tool, policy, NotGiven, "")

Drifted(rs, policy) == {i \in DOMAIN rs : ReplayDecision(rs[i], policy) # rs[i].decision}

\* Hours and days are not known: such a window has no length.
ParseWindow(window) ==
  IF window.n <= 0 THEN 0
  ELSE IF window.unit = "s" THEN window.n
  ELSE IF window.unit = "m" THEN 60 * window.n
  ELSE 0

\* A window of no length puts every call into the bucket "Infinity".
CounterKey(limit, at) ==
  [tool |-> limit.tool,
   bucket |-> IF limit.window.unit = "workflow" THEN -1
              ELSE IF ParseWindow(limit.window) = 0 THEN -2
              ELSE at \div ParseWindow(limit.window)]

\* The limits of the tool, those of "*" only if it has none.
Applicable(limits, tool) ==
  LET of(name) == Those(limits, {k \in DOMAIN limits : limits[k].tool = name})
  IN  IF of(tool) # <<>> THEN of(tool) ELSE of("*")

Count(keys, key) == Cardinality({k \in DOMAIN keys : keys[k] = key})

\* Refused calls counted as well.
Simulate_CountsRefused(state, r, policy) ==
  LET limits == Applicable(policy.limits, r.tool)
      keys == [k \in DOMAIN limits |-> CounterKey(limits[k], r.at)]
      full == \E k \in DOMAIN limits : Count(state.used, keys[k]) >= limits[k].max
  IN  [used |-> state.used \o keys,
       said |-> Append(state.said,
                  IF full THEN "BLOCK" ELSE IF HasParamsRule(r.tool, policy) THEN "UNKNOWN" ELSE "ALLOW")]

\* One receipt of the simulation: a call over a limit is refused and not
\* counted, any other is counted once for every limit.
Simulate(state, r, policy) ==
  LET limits == Applicable(policy.limits, r.tool)
      keys == [k \in DOMAIN limits |-> CounterKey(limits[k], r.at)]
      full == \E k \in DOMAIN limits : Count(state.used, keys[k]) >= limits[k].max
  IN  [used |-> IF full THEN state.used ELSE state.used \o keys,
       said |-> Append(state.said,
                  IF full THEN "BLOCK" ELSE IF HasParamsRule(r.tool, policy) THEN "UNKNOWN" ELSE "ALLOW")]

RunCounterfactualSimulation(rs, policy) ==
  LET state[n \in 0..Len(rs)] ==
        IF n = 0 THEN [used |-> <<>>, said |-> <<>>] ELSE Simulate(state[n-1], rs[n], policy)
  IN  state[Len(rs)].said

FilterReceiptsSince(rs, since) == Those(rs, {i \in DOMAIN rs : rs[i].at >= since})

\* The exit code of `nonsudo test --since` on a chain that passes pre-flight
\* verification.
RunTest(since) ==
  LET rs == FilterReceiptsSince(receipts, since)
      policy == Policies[file]
  IN  IF ~Usable(file) THEN 2
      ELSE IF \/ Drifted(rs, policy) # {}
              \/ "BLOCK" \in ToSet(RunCounterfactualSimulation(rs, policy)) THEN 1
      ELSE 0

-----------------------------------------------------------------------------
\* A call is decided and recorded, or its limit was reached and it failed
\* closed.
Records(call, decision) ==
  /\ Usable(file)
  /\ receipts' = Append(receipts,
       [tool |-> call.tool, args |-> call.args, model |-> call.model, at |-> clock,
        policy |-> file, decision |-> decision])
  /\ UNCHANGED <<file, clock, edits>>

\* Is there room for another call, none of them a probe?
Open ==
  /\ Len(receipts) < MaxReceipts
  /\ \A i \in DOMAIN receipts :
       [tool |-> receipts[i].tool, args |-> receipts[i].args, model |-> receipts[i].model] \in Calls

CallTool(call) == Open /\ Records(call, Decision(file, call))

DeadLetter(call) == Open /\ Files[file].limits # <<>> /\ Records(call, "FAIL_CLOSED")

Probe(call) == receipts = <<>> /\ clock = Start /\ Records(call, Decision(file, call))

Tick ==
  /\ Open /\ clock < Start + MaxTicks
  /\ clock' = clock + 1
  /\ UNCHANGED <<file, receipts, edits>>

EditPolicy ==
  /\ edits < MaxEdits
  /\ file' \in DOMAIN Files \ {file}
  /\ edits' = edits + 1
  /\ UNCHANGED <<receipts, clock>>

ReplayInit ==
  file \in DOMAIN Files /\ receipts = <<>> /\ clock = Start /\ edits = 0

ReplayNext ==
  \/ \E call \in Calls : CallTool(call) \/ DeadLetter(call)
  \/ \E call \in Probes : Probe(call)
  \/ Tick \/ EditPolicy

ReplaySpec == ReplayInit /\ [][ReplayNext]_replayVars

-----------------------------------------------------------------------------
\* ------------------------------ properties ------------------------------

Recorded == {receipts[i] : i \in {k \in DOMAIN receipts : receipts[k].decision # "FAIL_CLOSED"}}

\* The operator's rules that name the tool, and whether the first of them asks
\* for the rules of the packs.
Claims(f, tool) == {i \in DOMAIN Files[f].rules : Files[f].rules[i].tool = tool}
PackGoverns(f, tool) == Claims(f, tool) = {} \/ Files[f].rules[Min(Claims(f, tool))].merge
Merges(f, tool) == \E i \in Claims(f, tool) : Files[f].rules[i].merge

\* The rules of the packs of file f, and what it would decide with other rules.
Packed == [f \in DOMAIN Files |-> IF Usable(f) THEN PackRules(Files[f].schemas) ELSE <<>>]

DecisionWith(f, rules, call) ==
  EvaluatePolicy(call.tool, [Files[f] EXCEPT !.rules = rules], call.args, call.model)

\* The packs change nothing for a tool that the operator claims without
\* merging; for one that is not claimed, or merges from the first rule on, what
\* the packs decide by themselves stands, whatever the operator's rules say.
MergeAsDocumented ==
  \A r \in Recorded :
    LET f == r.policy
        silent == Deciding(Packed[f], r.tool, r.args) = {}
    IN  /\ Claims(f, r.tool) # {} /\ ~Merges(f, r.tool)
             => r.decision = DecisionWith(f, Files[f].rules, r)
        /\ PackGoverns(f, r.tool) /\ ~silent => r.decision = DecisionWith(f, Packed[f], r)
        /\ silent => r.decision = DecisionWith(f, Files[f].rules, r)

\* The payments that the packs let through, whatever the types of the arguments.
UpTo(v, n) == v.type = "string" /\ v.text = "digits" /\ v.n <= n

AtMost(v, n) == v.type = "number" /\ v.n <= n

Given(v) == v \notin {Absent, Text("")}

Field(r, field) == GetField(r.args, <<field>>)

\* The guards on charges only compare: what is missing passes them.
ChargeTools == {"stripe_charge", "stripe_create_charge"}
Currencies == {"usd", "eur", "gbp", "jpy", "cad", "aud"}

WithinLimits(r) ==
  /\ r.tool \in ChargeTools => Field(r, "amount") = Absent \/ AtMost(Field(r, "amount"), 50000)
  /\ r.tool = "stripe_charge" => Field(r, "currency") \in {Absent} \cup {Text(c) : c \in Currencies}
  /\ r.tool \in {"stripe_transfer", "stripe_payout"} =>
       Field(r, "destination") = Listed /\ UpTo(Field(r, "amount"), 50000)
  /\ r.tool = "stripe_refund" =>
       /\ Given(Field(r, "charge_id"))
       /\ AtMost(Field(r, "amount"), 50000)
  /\ r.tool = "stripe_delete_customer" => Field(r, "allow_customer_delete") = True
  /\ r.tool = "ach_transfer" =>
       /\ Field(r, "routing_number") = Listed /\ Field(r, "account_id") = Listed
       /\ UpTo(Field(r, "amount"), 100000) /\ Field(r, "amount").n > 0
       /\ Field(r, "sec_code") = Text("CCD")
       /\ Field(r, "direction") = Text("credit") => Field(r, "auto_approve_credits") = True
  /\ r.tool \in {"upi_payment", "upi_transfer"} =>
       Field(r, "vpa") = Listed /\ UpTo(Field(r, "amount"), 100000)
  /\ r.tool = "openclaw.agent.transfer" =>
       Field(r, "recipient") = Listed /\ UpTo(Field(r, "amount_wei"), 1000)
  /\ r.tool = "openclaw.agent.swap" =>
       /\ AtMost(Field(r, "slippage_bps"), 50)
       /\ Field(r, "output_token") \in {Text("ETH"), Text("USDC"), Text("USDT")}

\* The payments, and the deletion of customers, on which each pack sets limits,
\* and whether file f names it.
Enforces ==
  [stripe |-> ChargeTools \cup
     {"stripe_transfer", "stripe_payout", "stripe_refund", "stripe_delete_customer"},
   ach |-> {"ach_transfer"}, upi |-> {"upi_payment", "upi_transfer"},
   openclaw |-> {"openclaw.agent.transfer", "openclaw.agent.swap"}]

Enforced(f, tool) == \E id \in ToSet(Files[f].schemas) \cap DOMAIN Enforces : tool \in Enforces[id]

\* A payment that is allowed under a pack that governs its tool goes to a
\* listed party and is within the limits: malformed or mistyped arguments never
\* slip through the guards between them, and missing ones do only in charges,
\* whose amount and currency are judged if they are there.
MoneyWithinLimits ==
  \A r \in Recorded :
    r.decision = "ALLOW" /\ PackGoverns(r.policy, r.tool) /\ Enforced(r.policy, r.tool)
      => WithinLimits(r)

ArgumentGuards(f) ==
  [network |-> Files[f].network, filesystem |-> Files[f].filesystem, models |-> Files[f].models]

NoGuards ==
  [network |-> [require_tls |-> FALSE, blocked |-> {}, allowed |-> {}],
   filesystem |-> [blocked |-> {}, extensions |-> {}, allowed |-> {}],
   models |-> [blocked |-> {}, allowed |-> {}]]

\* `nonsudo test` exits with 0 only if the policy would decide every call as it
\* was decided, with the arguments the replay does not have, except where it
\* says UNKNOWN or the policy has a guard on hosts, paths or models, of which it
\* says nothing.
CleanReplayMeansNoDrift ==
  \A since \in Start..clock :
    RunTest(since) = 0 /\ ArgumentGuards(file) = NoGuards =>
      LET rs == FilterReceiptsSince(receipts, since)
          said == RunCounterfactualSimulation(rs, Policies[file])
      IN  \A i \in DOMAIN rs : said[i] = "ALLOW" => Decision(file, rs[i]) = rs[i].decision

\* Two times are in one window of the limit.
SameWindow(limit, s, t) ==
  \/ limit.window.unit = "workflow"
  \/ limit.window.unit = "s" /\ s \div limit.window.n = t \div limit.window.n
  \/ limit.window.unit = "m" /\ s \div (60 * limit.window.n) = t \div (60 * limit.window.n)

\* The windows of the file's limits are ones it can read, and no two limits
\* ever have the same counter.
Readable(limits) ==
  /\ \A k \in DOMAIN limits :
       limits[k].window.unit = "workflow" \/ (limits[k].window.unit \in {"s", "m"} /\ limits[k].window.n > 0)
  /\ \A k, l \in DOMAIN limits, s, t \in Start..clock :
       CounterKey(limits[k], s) = CounterKey(limits[l], t) => k = l

\* The simulation refuses a call exactly if one of its limits has been used up
\* in the window by calls it did not refuse; where two limits share a counter
\* it may refuse more, never fewer.
VelocityAsDocumented ==
  Usable(file) =>
    LET policy == Policies[file]
        said == RunCounterfactualSimulation(receipts, policy)
        Used(limit, i) ==
          Cardinality({j \in 1..(i - 1) :
            /\ said[j] # "BLOCK" /\ limit \in ToSet(Applicable(policy.limits, receipts[j].tool))
            /\ SameWindow(limit, receipts[j].at, receipts[i].at)})
        UsedUp(i) ==
          \E limit \in ToSet(Applicable(policy.limits, receipts[i].tool)) : Used(limit, i) >= limit.max
    IN  \A i \in DOMAIN receipts :
          /\ UsedUp(i) => said[i] = "BLOCK"
          /\ Readable(policy.limits) => (said[i] = "BLOCK" <=> UsedUp(i))

=============================================================================
