----------------------------- MODULE GatePricing -----------------------------
(***************************************************************************)
(* What a request costs under aggregate-risk-gate/src/lib.rs: which JSON-  *)
(* RPC items of its body are governed calls, and their exact price.        *)
(*                                                                         *)
(* A body is [json, batch, items]: json tells how it parses ("strict",     *)
(* "duplicate" members, "malformed"), items are the array's when batch,    *)
(* and otherwise the one root.  An item is                                 *)
(*   object   it is an object; of any other value nothing else is read;    *)
(*   jsonrpc  its jsonrpc member is "2.0";                                 *)
(*   method   a name, None, or Invalid when it is not a string;            *)
(*   id       an id, None, or Invalid when it can be no id;                *)
(*   result, error  the member is there;                                   *)
(*   amount   the value at spendAmountField, Inexact when there is none or *)
(*            it is no non-negative integer literal.                       *)
(***************************************************************************)
EXTENDS Integers, Sequences, SequencesExt

CONSTANTS MaxUnits,    \* MAX_UNITS
          U64Max       \* the largest u64

ASSUME UnitsAssumption == MaxUnits \in Nat /\ U64Max \in Nat /\ MaxUnits <= U64Max

None    == "(none)"
Invalid == "(invalid)"

Inexact == -1

(* ContributionOutcome: the units of Known, or one of these.               *)
Ungoverned  == -1
Unpriceable == -2
OutOfRange  == -3

(* An item, of whatever a JSON reader may find.                            *)
ItemType == [object : BOOLEAN, jsonrpc : BOOLEAN,
             method : STRING \cup {None, Invalid}, id : STRING \cup {None, Invalid},
             result : BOOLEAN, error : BOOLEAN, amount : Int]

Scalar == [object |-> FALSE, jsonrpc |-> FALSE, method |-> None, id |-> None,
           result |-> FALSE, error |-> FALSE, amount |-> Inexact]

(* The body is JSON, and no object in it has a member twice.               *)
Strict(body) == body.json = "strict"

(* An empty array is priced like any other root that is no object.         *)
Items(body) == IF body.items = <<>> THEN <<Scalar>> ELSE body.items

IsJsonRpcResponse(item) ==
  /\ item.object /\ item.jsonrpc
  /\ item.method = None
  /\ item.id # None
  /\ item.result # item.error

(* Only what is surely another message is not governed.                    *)
IsGoverned(methods, item) ==
  \/ ~item.object \/ ~item.jsonrpc
  \/ item.method = Invalid
  \/ (item.method = None /\ ~IsJsonRpcResponse(item))
  \/ item.method \in methods

PerItemTotal(per_item, count) ==
  LET total == per_item * count
  IN  IF total > U64Max \/ total > MaxUnits THEN OutOfRange ELSE total

(* One more spend amount is added, unless the sum has already failed.      *)
AddAmount(total, item) ==
  CASE total \in {Unpriceable, OutOfRange} -> total
    [] total >= 0 /\ item.amount \notin 0 .. U64Max -> Unpriceable
    [] OTHER -> IF item.amount > MaxUnits \/ total + item.amount > MaxUnits
                THEN OutOfRange ELSE total + item.amount

(* price, of the items that are governed.                                  *)
Price(gate, items) ==
  LET governed == {i \in DOMAIN items : IsGoverned(gate.governed_methods, items[i])}
  IN  CASE governed = {} -> Ungoverned
        [] governed # {} /\ gate.contribution = "fixed-weight" ->
             PerItemTotal(gate.fixed_weight, Cardinality(governed))
        [] governed # {} /\ gate.contribution = "estimated-token-weight" ->
             PerItemTotal(gate.estimated_tokens, Cardinality(governed))
        [] OTHER -> FoldLeftDomain(LAMBDA total, i : IF i \in governed
                                     THEN AddAmount(total, items[i]) ELSE total, 0, items)

(* compute_contribution, of a body that is "absent", "uninspectable" or    *)
(* "present".                                                              *)
ComputeContribution(gate, raw, body) ==
  CASE raw = "absent" -> Ungoverned
    [] raw = "uninspectable" \/ (raw = "present" /\ ~Strict(body)) -> Unpriceable
    [] OTHER -> Price(gate, Items(body))

-----------------------------------------------------------------------------
Requested_WithResponses(body) == DOMAIN body.items

(* The items a denial answers, by position: in a batch a client's responses*)
(* carry the server's ids.                                                 *)
Requested(body) ==
  {i \in DOMAIN body.items : body.batch => ~IsJsonRpcResponse(body.items[i])}

(* parse_jsonrpc_request: whether a denial can be told in the caller's own *)
(* ids, and which.                                                         *)
Echoes(raw, body) ==
  /\ raw = "present" /\ Strict(body) /\ body.items # <<>>
  /\ \A i \in Requested(body) :
       LET item == body.items[i]
       IN  item.object /\ item.jsonrpc /\ item.method \notin {None, Invalid} /\ item.id # Invalid

(* Their ids, in order, of those that have one.                            *)
ResponseIds(body) ==
  FoldLeftDomain(LAMBDA ids, i : IF i \in Requested(body) /\ body.items[i].id # None
                                 THEN Append(ids, body.items[i].id) ELSE ids, <<>>, body.items)

(* deny_response: the status, and the ids an error is returned for.        *)
DenyResponse(gate, raw, body) ==
  CASE ~(gate.rpc_error /\ Echoes(raw, body)) -> [status |-> 403, ids |-> <<>>]
    [] gate.rpc_error /\ Echoes(raw, body) /\ ResponseIds(body) = <<>> ->
         [status |-> 202, ids |-> <<>>]
    [] OTHER -> [status |-> 200, ids |-> ResponseIds(body)]
=============================================================================
