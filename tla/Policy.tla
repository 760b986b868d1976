------------------------------- MODULE Policy -------------------------------
(***************************************************************************)
(* The policy engine: the conditions of a rule on the arguments of a call, *)
(* the rules and guards of a policy, and how the rules of schema packs are *)
(* merged into those of the operator.                                      *)
(*                                                                         *)
(* A value of the arguments has the type JavaScript gives it; a string is  *)
(* a token, the digits of a number, a URL or a path.  A pattern of a rule  *)
(* is named for the strings it matches.  An absent guard of a policy is    *)
(* one that lists nothing.                                                 *)
(***************************************************************************)
EXTENDS Integers, Sequences, FiniteSets, SequencesExt, FiniteSetsExt

\* The elements of a sequence at some of its places, in their order.
Those(seq, places) ==
  LET kept[n \in 0..Len(seq)] ==
        IF n = 0 THEN <<>> ELSE IF n \in places THEN Append(kept[n-1], seq[n]) ELSE kept[n-1]
  IN  kept[Len(seq)]

Value(type, text, n) == [type |-> type, text |-> text, n |-> n]
Number(n) == Value("number", "", n)
Text(t) == Value("string", t, 0)
Digits(n) == Value("string", "digits", n)
True == Value("boolean", "true", 0)
Array == Value("array", "", 0)
Url(scheme, host, zones) ==
  [type |-> "string", text |-> "url", n |-> 0, scheme |-> scheme, host |-> host, zones |-> zones]
Path(prefixes, extension) ==
  [type |-> "string", text |-> "path", n |-> 0, prefixes |-> prefixes, extension |-> extension]
Object(fields) == [type |-> "object", text |-> "", n |-> 0, fields |-> fields]

\* A field that is missing or null, and a path that runs into an array.
Absent == Value("absent", "", 0)
DeadEnd == Value("dead end", "", 0)

\* The arguments of a call that is replayed: the receipt has only their hash.
NotGiven == Value("not given", "", 0)

-----------------------------------------------------------------------------
MAX_DEPTH == 5

\* One step along the path of a field.
Traverse(current, part) ==
  IF current.type \in {"array", "dead end"} THEN DeadEnd
  ELSE IF current.type = "object" /\ part \in DOMAIN current.fields THEN current.fields[part]
  ELSE Absent

GetField(args, path) ==
  LET at[n \in 0..Len(path)] == IF n = 0 THEN args ELSE Traverse(at[n-1], path[n])
  IN  IF Len(path) > MAX_DEPTH THEN Absent ELSE at[Len(path)]

\* ===: objects and arrays equal only themselves.
SameValue(v, w) == v = w /\ v.type \notin {"object", "array"}

Patterns == {"blank", "integer", "positive"}

Matches(pattern, v) ==
  \/ pattern = "blank" /\ v.text \in {"", " "}
  \/ pattern = "integer" /\ v.text = "digits"
  \/ pattern = "positive" /\ v.text = "digits" /\ v.n > 0

\* BigInt() reads a blank string as 0.
ParsesBigInt(v) == v.type = "string" /\ v.text \in {"digits", "", " "}

Comparisons == {"gt", "gte", "lt", "lte"}

\* The operator cannot be applied to these operands.
TypeMismatch(op, v, w) ==
  \/ op \in Comparisons /\ (v.type # "number" \/ w.type # "number")
  \/ op \in {"match", "not_match"} /\ v.type # "string"
  \/ op = "gt_bigint" /\ ~(ParsesBigInt(v) /\ ParsesBigInt(w))

\* The operator holds of operands it can be applied to; a value that is no
\* list, or no pattern, makes it fail, negated or not.
Satisfied(op, v, w) ==
  \/ op = "eq" /\ SameValue(v, w)
  \/ op = "neq" /\ ~SameValue(v, w)
  \/ op \in {"gt", "gt_bigint"} /\ v.n > w.n
  \/ op = "gte" /\ v.n >= w.n
  \/ op = "lt" /\ v.n < w.n
  \/ op = "lte" /\ v.n <= w.n
  \/ op = "match" /\ w.text \in Patterns /\ Matches(w.text, v)
  \/ op = "not_match" /\ w.text \in Patterns /\ ~Matches(w.text, v)
  \/ op = "in" /\ w.type = "list" /\ \E x \in w.items : SameValue(v, x)
  \/ op = "not_in" /\ w.type = "list" /\ ~\E x \in w.items : SameValue(v, x)

EvaluateCondition(cond, args) ==
  LET v == GetField(args, cond.field)
      holds == IF v = Absent THEN cond.op = "not_exists"
               ELSE cond.op = "exists" \/ Satisfied(cond.op, v, cond.value)
  IN  IF v = DeadEnd \/ (v # Absent /\ TypeMismatch(cond.op, v, cond.value)) THEN "type_error"
      ELSE IF holds THEN "match" ELSE "no_match"

\* A type error taken for a mismatch: the rule is passed over.
EvaluateParams_TypeErrorPasses(conditions, args) ==
  IF \A i \in DOMAIN conditions : EvaluateCondition(conditions[i], args) = "match"
  THEN "match" ELSE "no_match"

\* The first condition that does not match decides.
EvaluateParams(conditions, args) ==
  LET bad == {i \in DOMAIN conditions : EvaluateCondition(conditions[i], args) # "match"}
  IN  IF bad = {} THEN "match" ELSE EvaluateCondition(conditions[Min(bad)], args)

-----------------------------------------------------------------------------
\* A rule: params is empty if it has none, merge is merge_schema_params.
Rule(tool, decision, params) ==
  [tool |-> tool, decision |-> decision, params |-> params, merge |-> FALSE]

\* What a rule says of a call of its tool.
Says(rule, args) ==
  IF rule.params = <<>> THEN "match"
  ELSE IF args = NotGiven THEN "skip"
  ELSE EvaluateParams(rule.params, args)

\* The first rule for the tool, or for "*", that fires or fails to apply.
Deciding(rules, tool, args) ==
  {i \in DOMAIN rules : rules[i].tool = tool /\ Says(rules[i], args) \in {"match", "type_error"}}

Verdict(rule, args) == IF Says(rule, args) = "type_error" THEN "BLOCK" ELSE rule.decision

\* The top-level strings of the arguments that the guards look at.
Arguments(args) ==
  IF args = NotGiven THEN {} ELSE {v \in {args.fields[f] : f \in DOMAIN args.fields} : v.type = "string"}

NetworkBlocks(net, v) ==
  /\ v.text = "url"
  /\ \/ net.require_tls /\ v.scheme = "http"
     \/ (v.zones \cup {v.host}) \cap net.blocked # {}
     \/ net.allowed # {} /\ v.host \notin net.allowed

FilesystemBlocks(fs, v) ==
  /\ v.text = "path"
  /\ \/ v.prefixes \cap fs.blocked # {} \/ v.extension \in fs.extensions
     \/ fs.allowed # {} /\ v.prefixes \cap fs.allowed = {}

ModelBlocks(mdl, model) ==
  model # "" /\ (model \in mdl.blocked \/ (mdl.allowed # {} /\ model \notin mdl.allowed))

\* The tool is annotated always_step_up, or restricted, or system.
StepsUp(policy, tool) == tool \in policy.step_up

Guarded(policy, args, model) ==
  \/ \E v \in Arguments(args) : NetworkBlocks(policy.network, v) \/ FilesystemBlocks(policy.filesystem, v)
  \/ ModelBlocks(policy.models, model)

EvaluatePolicy(tool, policy, args, model) ==
  LET exact == Deciding(policy.rules, tool, args)
      wildcard == Deciding(policy.rules, "*", args)
  IN  IF Guarded(policy, args, model) THEN "BLOCK"
      ELSE IF StepsUp(policy, tool) THEN "STEP_UP"
      ELSE IF exact # {} THEN Verdict(policy.rules[Min(exact)], args)
      ELSE IF wildcard # {} THEN Verdict(policy.rules[Min(wildcard)], args)
      ELSE policy.default

-----------------------------------------------------------------------------
Named(rules, tool) == Those(rules, {i \in DOMAIN rules : rules[i].tool = tool})

\* The pack's rules that go before operator rule i: those of its tool, if it is
\* the first to ask for them.
Injected(rules, packRules, i) ==
  IF rules[i].merge /\ ~\E j \in 1..(i - 1) : rules[j].merge /\ rules[j].tool = rules[i].tool
  THEN Named(packRules, rules[i].tool) ELSE <<>>

OperatorTools(rules) == {rules[i].tool : i \in DOMAIN rules} \ {"*"}

Unclaimed(rules, packRules) ==
  Those(packRules, {i \in DOMAIN packRules : packRules[i].tool \notin OperatorTools(rules)})

\* The pack's rules after the operator's.
MergePackRules_After(rules, packRules) ==
  LET result[n \in 0..Len(rules)] ==
        IF n = 0 THEN <<>> ELSE Append(result[n-1], rules[n]) \o Injected(rules, packRules, n)
  IN  result[Len(rules)] \o Unclaimed(rules, packRules)

MergePackRules(rules, packRules) ==
  LET result[n \in 0..Len(rules)] ==
        IF n = 0 THEN <<>> ELSE Append(result[n-1] \o Injected(rules, packRules, n), rules[n])
  IN  result[Len(rules)] \o Unclaimed(rules, packRules)

=============================================================================
