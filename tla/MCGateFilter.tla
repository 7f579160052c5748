---------------------------- MODULE MCGateFilter ----------------------------
(* An instance of GateFilter for TLC: a governed call, the requests and    *)
(* configurations that differ from it in one respect, and a second call    *)
(* beside it.                                                              *)
EXTENDS GateFilter

TwoSlots == {"x", "y"}

Spellings == [raw \in {"ann", "Ann", "bob"} |-> IF raw = "bob" THEN "bob" ELSE "ann"]

Call == [object |-> TRUE, jsonrpc |-> TRUE, method |-> "tools/call", id |-> "1",
         result |-> FALSE, error |-> FALSE, amount |-> 1]
Ping     == [Call EXCEPT !.method = "ping", !.id = "2", !.amount = Inexact]
Notified == [Ping EXCEPT !.id = None]
Answer   == [Ping EXCEPT !.method = None, !.id = "9", !.result = TRUE]

Unclassified ==
  {Scalar, [Call EXCEPT !.jsonrpc = FALSE], [Call EXCEPT !.method = Invalid],
   [Call EXCEPT !.method = None], [Answer EXCEPT !.error = TRUE], [Answer EXCEPT !.id = None],
   [Ping EXCEPT !.jsonrpc = FALSE]}

Body(items) == [json |-> "strict", batch |-> TRUE, items |-> items]
Single(item) == [Body(<<item>>) EXCEPT !.batch = FALSE]

Bodies ==
  {Single(item) : item \in Unclassified}
  \cup {Single([Call EXCEPT !.amount = n]) : n \in {0, 2, 4, 5, 8, Inexact}}
  \cup {Single([Call EXCEPT !.id = id]) : id \in {None, Invalid, "null"}}
  \cup {Single(Ping), Single(Notified), Single(Answer)}
  \cup {[Single(Call) EXCEPT !.json = parse] : parse \in {"duplicate", "malformed"}}
  \cup {Body(<<>>), Body(<<Answer>>), Body(<<Call, Call>>), Body(<<Call, Ping, Answer>>),
        Body(<<Notified, [Call EXCEPT !.id = None]>>), Body(<<Ping, Scalar>>),
        Body(<<[Call EXCEPT !.amount = 4], Call>>),
        Body(<<[Call EXCEPT !.amount = 4], [Call EXCEPT !.amount = 4]>>),
        Body(<<Call, [Call EXCEPT !.amount = Inexact]>>)}

Request ==
  [contains_body |-> TRUE, declared |-> 1, size |-> 1, media |-> "json", encoded |-> FALSE,
   auth |-> [client_id |-> "ann", principal |-> "ann", property |-> "ann"],
   headers |-> <<"ann">>, body |-> Single(Call), who |-> "ann"]

Names == {None, Blank, "Ann", "a;b"}

By(who) == [Request EXCEPT !.auth = [field \in DOMAIN @ |-> who], !.headers = <<who>>,
                           !.who = IF who \in DOMAIN Spellings THEN Spellings[who] ELSE "eve"]

Requests ==
  {Request, [Request EXCEPT !.contains_body = FALSE],
   [Request EXCEPT !.declared = -1], [Request EXCEPT !.declared = 2],
   [Request EXCEPT !.size = 2], [Request EXCEPT !.encoded = TRUE],
   [Request EXCEPT !.media = "json;charset=utf-7"], [Request EXCEPT !.media = "other"],
   [Request EXCEPT !.headers = <<>>], [Request EXCEPT !.headers = <<"ann", "bob">>],
   [By(None) EXCEPT !.body = Single(Ping)], [By("a;b") EXCEPT !.body = Body(<<Notified, Answer>>)]}
  \cup {By(name) : name \in Names}
  \cup {[Request EXCEPT !.body = body] : body \in Bodies}

(* Beside each request another of the same party's; and, to a few, one of  *)
(* another party's.                                                        *)
Pairs == {<<a, By("Ann")>> : a \in Requests}
           \cup {<<a, By("bob")>> : a \in {Request, By(None), [Request EXCEPT !.size = 2]}}

SomeArrivals == {[slot \in TwoSlots |-> IF slot = "x" THEN p[1] ELSE p[2]] : p \in Pairs}

-----------------------------------------------------------------------------
Config ==
  [budget_scope |-> "agent", identity_source |-> "authentication",
   identity_field |-> "client_id", scope_header |-> "h", contribution |-> "fixed-weight",
   fixed_weight |-> 2, estimated_tokens |-> 1, aggregate_budget |-> 3,
   governed_methods |-> <<"tools/call">>, spend_amount_field |-> "f", mode |-> "block",
   on_deny |-> "rpc-error", on_reservation_timeout |-> "auto", ledger_backend |-> "node",
   ledger_namespace |-> Blank]

SomeConfigs ==
  {Config, [Config EXCEPT !.mode = "monitor"], [Config EXCEPT !.contribution = "spend-amount"],
   [Config EXCEPT !.contribution = "spend-amount", !.mode = "monitor",
                  !.on_reservation_timeout = "commit"],
   [Config EXCEPT !.identity_source = "trusted-header", !.on_deny = "empty-403",
                  !.contribution = "estimated-token-weight", !.aggregate_budget = 1],
   [Config EXCEPT !.budget_scope = "fabric", !.on_reservation_timeout = "release"],
   [Config EXCEPT !.fixed_weight = 4, !.aggregate_budget = 4, !.identity_field = "principal"],
   [Config EXCEPT !.governed_methods = <<"tools/call", "ping">>, !.identity_field = "property",
                  !.fixed_weight = 1, !.budget_scope = "tenant"],
   [Config EXCEPT !.fixed_weight = 0, !.aggregate_budget = 0],
   [Config EXCEPT !.fixed_weight = 5], [Config EXCEPT !.governed_methods = <<>>],
   [Config EXCEPT !.governed_methods = <<"*">>],
   [Config EXCEPT !.governed_methods = <<"ping", "ping">>],
   [Config EXCEPT !.contribution = "token-cost"], [Config EXCEPT !.mode = "off"],
   [Config EXCEPT !.identity_source = "trusted-header", !.scope_header = Blank],
   [Config EXCEPT !.ledger_backend = "worker", !.ledger_namespace = "ns"],
   [Config EXCEPT !.ledger_backend = "cluster"]}

(* Comparing the sets in full also puts their members in normal form before*)
(* TLC's workers share them.                                               *)
ASSUME PlainAssumption ==
  /\ Arrivals = Arrivals \cup {[slot \in TwoSlots |-> IF slot = "x" THEN Request ELSE By("bob")]}
  /\ Configs = Configs \cup {Config}
=============================================================================
