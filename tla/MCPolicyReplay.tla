---------------------------- MODULE MCPolicyReplay ----------------------------
(***************************************************************************)
(* Instances of PolicyReplay for TLC: policy files that meet in every way  *)
(* with the packs, and calls of every shape.                               *)
(***************************************************************************)
EXTENDS PolicyReplay

Packs == <<"stripe", "ach", "upi", "openclaw", "stripe">>

\* A file without rules, guards or limits.
Plain ==
  [default |-> "ALLOW", rules |-> <<>>, schemas |-> Packs, step_up |-> {}, limits |-> <<>>,
   network |-> NoGuards.network, filesystem |-> NoGuards.filesystem, models |-> NoGuards.models]

Merging(rule) == [rule EXCEPT !.merge = TRUE]
Limit(tool, max, unit, n) == [tool |-> tool, max |-> max, window |-> [unit |-> unit, n |-> n]]

Trusted == Guard("*", "ALLOW", "trusted", "exists", Absent)

MCFiles ==
  [packs |-> Plain,
   merged |-> [Plain EXCEPT !.default = "BLOCK", !.rules =
     <<Merging(Rule("stripe_transfer", "ALLOW", <<>>)), Rule("upi_payment", "ALLOW", <<>>),
       Merging(Rule("upi_payment", "BLOCK", <<>>)), Rule("*", "ALLOW", <<>>)>>],
   claimed |-> [Plain EXCEPT !.rules =
     <<Guard("stripe_refund", "BLOCK", "amount", "gte", Number(50000)), Rule("ach_transfer", "STEP_UP", <<>>),
       Trusted, Guard("echo", "BLOCK", "url", "not_exists", Absent)>>],
   wildcard |-> [Plain EXCEPT !.schemas = <<>>, !.rules =
     <<Guard("*", "BLOCK", "url", "exists", Absent), Rule("*", "ALLOW", <<>>)>>],
   annotated |-> [Plain EXCEPT !.step_up = {"echo"}, !.schemas = <<"stripe", "beneficiary">>],
   guarded |-> [Plain EXCEPT
     !.network = [require_tls |-> TRUE, blocked |-> {"evil.io"}, allowed |-> {"api.shop.com"}],
     !.filesystem = [blocked |-> {"/etc"}, extensions |-> {".pem"}, allowed |-> {}],
     !.models = [blocked |-> {}, allowed |-> {"sonnet"}]],
   limited |-> [Plain EXCEPT !.schemas = <<>>, !.limits =
     <<Limit("echo", 1, "s", 2), Limit("echo", 2, "workflow", 0), Limit("*", 1, "m", 1)>>],
   shared |-> [Plain EXCEPT !.schemas = <<>>, !.limits =
     <<Limit("echo", 2, "s", 60), Limit("echo", 3, "m", 1), Limit("fetch", 1, "h", 1)>>],
   unknown |-> [Plain EXCEPT !.schemas = <<"nothing">>],
   ceiling |-> [Plain EXCEPT !.rules =
     <<Merging(Rule("ach_transfer", "BLOCK",
         <<Condition("account_id", "eq", Listed), Condition("amount", "gt_bigint", Digits(1000000))>>))>>]]

Call(tool, fields) == [tool |-> tool, args |-> Object(fields), model |-> "sonnet"]

Echo == Call("echo", [text |-> Text("hello")])
Fetch == Call("fetch", [url |-> Url("https", "api.shop.com", {"shop.com"})])

MCCalls == {Echo, Fetch}

Parties == {Absent, Text(""), Text(" "), Text("other"), Listed, Array}
Amounts == {Absent, Text(""), Text("1.5"), Digits(0), Digits(1000), Digits(100000), Digits(100001), Digits(5000001), Number(7)}

MCProbes ==
  {Call("stripe_charge", [amount |-> a, currency |-> c]) :
     a \in {Absent, Number(-1), Number(50000), Number(50001), Number(100001), Digits(7)},
     c \in {Absent, Text("usd"), Text("xyz"), Array}}
  \cup {Call("stripe_create_charge", [amount |-> a, destination |-> d]) :
     a \in {Absent, Number(50000), Number(50001), Text("")}, d \in {Absent, Text("acct")}}
  \cup {Call("stripe_transfer", [destination |-> d, amount |-> a]) : d \in Parties, a \in Amounts}
  \cup {Call("stripe_payout", [destination |-> d, amount |-> a]) : d \in {Array, Listed}, a \in Amounts}
  \cup {Call("stripe_refund", [charge_id |-> c, amount |-> a]) :
     c \in {Absent, Text(""), Text("ch")}, a \in {Absent, Text(""), Text("x"), Number(50000), Number(50001)}}
  \cup {Call("stripe_delete_customer", [allow_customer_delete |-> f]) : f \in {Absent, True, Text("true")}}
  \cup {Call("ach_transfer", [routing_number |-> d, account_id |-> Listed, amount |-> a,
           sec_code |-> c, direction |-> dir, auto_approve_credits |-> f]) :
     d \in {Listed, Array}, a \in Amounts, c \in {Absent, Text("CCD")},
     dir \in {Text("debit"), Text("credit")}, f \in {Absent, True}}
  \cup {Call("upi_payment", [vpa |-> d, amount |-> a]) : d \in Parties \ {Text("")}, a \in Amounts}
  \cup {Call("openclaw.agent.transfer", [recipient |-> d, amount_wei |-> a]) : d \in Parties \ {Text(" ")}, a \in Amounts}
  \cup {Call("openclaw.agent.swap", [slippage_bps |-> s, output_token |-> t]) :
     s \in {Absent, Number(50), Number(51), Digits(7)}, t \in {Absent, Text(""), Text("ETH"), Text("DOGE")}}
  \cup {Call("stripe_update_customer", [metadata |-> v]) :
     v \in {Absent, Array, Text("production"), Object([env |-> Text("prod")]), Object([env |-> Array])}}
  \cup {Call("fetch", [url |-> v]) :
     v \in {Url("http", "api.shop.com", {"shop.com"}), Url("https", "x.evil.io", {"evil.io"}),
            Path({"/etc"}, ".conf"), Path({"/home"}, ".pem"), Path({"/home"}, ".txt")}}
  \cup {[Fetch EXCEPT !.model = m] : m \in {"", "opus"}}

=============================================================================
