-------------------------- MODULE ApprovalPredicates --------------------------
(***************************************************************************)
(* What approval-execution-binding/src/lib.rs checks of one tools/call: the*)
(* canonical form of JSON, the predicates P1, P2, P4, P5 and the presence  *)
(* of a P6 nonce, the order they are evaluated in, and the configurations  *)
(* the policy starts with.                                                 *)
(*                                                                         *)
(* A JSON value is its nodes: for the path to each, its kind, the keys of  *)
(* an object and the scalar of an integer.  SHA-256 is the identity on     *)
(* canonical texts and a MAC is the key and the payload it was computed    *)
(* over: neither collides nor is forged.                                   *)
(*                                                                         *)
(* An operator whose name ends in _No... or _With... is a mutant: the      *)
(* mistaken form of the definition that follows it.                        *)
(***************************************************************************)
EXTENDS Integers, Sequences, SequencesExt, FiniteSets

CONSTANTS Utf8Order,      \* the object keys in use, sorted by UTF-8 bytes
          Utf16Order,     \* the same by UTF-16 code units
          MaxSafe,        \* MAX_SAFE_INTEGER
          MaxSkew,        \* MAX_CLOCK_SKEW_SECONDS
          MaxLifetime,    \* MAX_APPROVAL_LIFETIME_LIMIT_SECONDS
          MaxInstant      \* chrono's latest date

ASSUME OrdersAssumption == ToSet(Utf8Order) = ToSet(Utf16Order)
ASSUME LimitsAssumption == /\ MaxSafe \in Nat /\ MaxSkew \in Nat
                           /\ MaxLifetime \in Nat /\ MaxInstant \in Nat

None == "none"            \* an absent Option
Blank == ""               \* an empty string
Oversized == "oversized"  \* a nonce longer than MAX_NONCE_BYTES
Malformed == "malformed"  \* the label of a denial under no predicate
Absent == -1              \* no not_after, or an empty one
Unparsed == -2            \* a not_after that is no date
Default == -1             \* no maxApprovalLifetimeSeconds

Predicates == <<"P1", "P2", "P4", "P5", "P6">>

(* The order an object's members are emitted in.                           *)
Sorted(order, keys) == SelectSeq(order, LAMBDA key : key \in keys)

Safe_NoLimit(n) == TRUE

Safe(n) == -MaxSafe <= n /\ n <= MaxSafe

(* canonical_json does not refuse the value: its numbers are integers that *)
(* a double holds, and its keys sort alike in both orders.                 *)
Canonicalizable(value) ==
  \A path \in DOMAIN value :
    LET node == value[path]
    IN  CASE node.kind = "object"  -> Sorted(Utf8Order, node.keys) = Sorted(Utf16Order, node.keys)
          [] node.kind = "integer" -> Safe(node.scalar)
          [] OTHER -> node.kind \in {"array", "string", "boolean", "null"}

(* The digest of a value in its canonical form, which says everything of it*)
(* but the order of its members.                                           *)
Digest(value) == value

ContainsRef(value) ==
  \E path \in DOMAIN value : value[path].kind = "object" /\ "$ref" \in value[path].keys

-----------------------------------------------------------------------------
(* The call's arguments are the approved ones.                             *)
ArgumentsMatch(scope, arguments) ==
  /\ ~ContainsRef(arguments)
  /\ Canonicalizable(arguments)
  /\ Digest(arguments) = scope.arguments_digest

(* The deadline an approval has, skew included: none when it is past what  *)
(* a date can hold.                                                        *)
Deadline(approval, binding) == approval.not_after + binding.clock_skew

(* check_freshness_at.                                                     *)
Fresh(approval, binding, now) ==
  LET latest == now + binding.max_lifetime + binding.clock_skew
  IN  /\ approval.not_after \notin {Absent, Unparsed}
      /\ binding.clock_skew \in 0 .. MaxSkew
      /\ Deadline(approval, binding) <= MaxInstant => now <= Deadline(approval, binding)
      /\ binding.max_lifetime # 0 => latest <= MaxInstant /\ approval.not_after <= latest

(* The mcp-v1 payload an attestation authenticates.                        *)
Payload(iss, binding, sub, approval) ==
  [iss |-> iss, aud |-> binding.audience, tenant |-> binding.tenant,
   env |-> binding.environment, sub |-> sub, action |-> approval.scope.action,
   arguments_digest |-> approval.scope.arguments_digest,
   not_after |-> approval.not_after, nonce |-> approval.nonce]

(* One approval attestation holds: by another party than the executor, one *)
(* whose key is known, over exactly this approval, gateway and executor.   *)
Authentic(attestation, binding, executor, approval) ==
  LET authority == attestation.authority
  IN  /\ authority # executor
      /\ authority \in DOMAIN binding.attester_keys
      /\ attestation.mac = [key |-> binding.attester_keys[authority],
                            payload |-> Payload(authority, binding, executor, approval)]

(* check_separate_attester: there is one, and none fails.                  *)
SeparatelyAttested(envelope, binding, executor) ==
  LET approval == envelope.approval
      approvals == {attestation \in envelope.attestations : attestation.claim = "approval"}
  IN  /\ executor # Blank
      /\ approval.not_after # Absent
      /\ approval.nonce \notin {None, Blank}
      /\ approvals # {}
      /\ \A attestation \in approvals : Authentic(attestation, binding, executor, approval)

(* PredicateSet::first.                                                    *)
First(required) == Predicates[Min({i \in DOMAIN Predicates : Predicates[i] \in required})]

(* The order failures are looked for in.                                   *)
Order == <<"oversized", "P5", "P6", "P1", "P2", "P4">>

(* evaluate: the verdict on a call, "allow" or the label of the denial; a  *)
(* denial under no predicate is malformed.  The first failure decides.     *)
Evaluate(binding, call, envelope, executor, verified, now) ==
  LET required == binding.required
  IN  CASE ~envelope.readable ->
             IF "P5" \in required THEN "P5" ELSE First(required)
        [] OTHER ->
             LET approval == envelope.approval
                 fails == [p \in {"oversized", "P1", "P2", "P4", "P5", "P6"} |->
                   CASE p = "oversized" -> approval.nonce = Oversized
                     [] p = "P5" -> ~verified \/ ~SeparatelyAttested(envelope, binding, executor)
                     [] p = "P6" -> approval.nonce \in {None, Blank}
                     [] p = "P1" -> call.action # approval.scope.action
                     [] p = "P2" -> ~ArgumentsMatch(approval.scope, call.arguments)
                     [] p = "P4" -> ~Fresh(approval, binding, now)]
                 failed == {i \in DOMAIN Order :
                              Order[i] \in required \cup {"oversized"} /\ fails[Order[i]]}
             IN  CASE failed = {} -> "allow"
                   [] 1 \in failed -> Malformed
                   [] OTHER -> Order[Min(failed)]

-----------------------------------------------------------------------------
JsonRpcMembers == {"jsonrpc", "id", "method", "params", "result", "error"}

(* Binding::from_config does not refuse the configuration.  A key is its   *)
(* kid and its secret, "short" when under the minimum.                     *)
Valid(config) ==
  /\ config.approval_source \in {"header", "rpc-param"}
  /\ config.required # {} /\ config.required \subseteq ToSet(Predicates)
  /\ "P6" \in config.required => "P4" \in config.required
  /\ \A i \in DOMAIN config.attester_keys :
       /\ config.attester_keys[i].kid # Blank
       /\ config.attester_keys[i].key # "short"
       /\ \A j \in DOMAIN config.attester_keys :
            config.attester_keys[i].kid = config.attester_keys[j].kid => i = j
  /\ "P5" \in config.required =>
       Blank \notin {config.audience, config.tenant, config.environment}
  /\ config.clock_skew \in 0 .. MaxSkew
  /\ config.max_lifetime = Default \/ config.max_lifetime \in 0 .. MaxLifetime
  /\ config.max_lifetime \notin {Default, 0} => "P4" \in config.required
  /\ config.approval_rpc_field \notin JsonRpcMembers
  /\ config.client_responses \in {None, "forward", "deny"}
  /\ config.mode \in {"block", "monitor"}
  /\ config.on_deny \in {"rpc-error", "empty-403"}

(* The Binding a valid configuration makes, its defaults filled in.        *)
Bind(config) ==
  [approval_source |-> config.approval_source,
   required |-> config.required,
   attester_keys |->
     [kid \in {entry.kid : entry \in ToSet(config.attester_keys)} |->
        (CHOOSE entry \in ToSet(config.attester_keys) : entry.kid = kid).key],
   audience |-> config.audience,
   tenant |-> config.tenant,
   environment |-> config.environment,
   clock_skew |-> config.clock_skew,
   max_lifetime |-> IF config.max_lifetime = Default THEN 0 ELSE config.max_lifetime,
   strip |-> config.strip # "off",
   forward_responses |-> config.client_responses # "deny",
   block |-> config.mode = "block",
   rpc_error |-> config.on_deny = "rpc-error"]
=============================================================================
