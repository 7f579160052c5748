--------------------------- MODULE MCApprovalFilter ---------------------------
(* An instance of ApprovalFilter for TLC: one well-made request, and the   *)
(* requests, envelopes, bodies and configurations that differ from it in   *)
(* one respect.                                                            *)
EXTENDS ApprovalFilter

CONSTANTS w1, w2

WorkerSymmetry == Permutations(Workers)

KeysByUtf8  == <<"$ref", "k", "low", "high">>
KeysByUtf16 == <<"$ref", "k", "high", "low">>

(* Values with the given root, above the values its parts name.            *)
Above(root, parts) ==
  [path \in {<<>>} \cup UNION {{<<name>> \o p : p \in DOMAIN parts[name]} : name \in DOMAIN parts} |->
     IF path = <<>> THEN root ELSE parts[Head(path)][Tail(path)]]

Object(members) == Above([kind |-> "object", keys |-> DOMAIN members], members)
Array(items)    == Above([kind |-> "array"], items)
Scalar(node)    == Above(node, <<>>)
Number(n)       == Scalar([kind |-> "integer", scalar |-> n])
Args(n)         == Object([k |-> Number(n)])
TwoKeys         == Object([low |-> Number(1), high |-> Number(1)])
Ref             == Object([key \in {"$ref"} |-> Number(1)])

(* What a canonicalizer that writes numbers as doubles makes of n.         *)
Rounded(n) == IF n > MaxSafe + 1 /\ n % 2 = 1 THEN n - 1 ELSE n

KeyOf(kid) == CASE kid = "alice" -> "key-a" [] kid = "carol" -> "key-c" [] OTHER -> "key-b"

Here == [audience |-> "here", tenant |-> "t", environment |-> "e"]
There == [Here EXCEPT !.audience = "there"]
Nowhere == [Here EXCEPT !.audience = Blank]

Sign(iss, key, sub, place, approval) ==
  [claim |-> "approval", authority |-> iss,
   mac |-> [key |-> key, payload |-> Payload(iss, place, sub, approval)]]

Approval(digest, not_after, nonce) ==
  [scope |-> [action |-> "pay", arguments_digest |-> digest],
   not_after |-> not_after, nonce |-> nonce]

Signed(approval, value) ==
  [readable |-> TRUE, approval |-> approval, approved |-> value,
   attestations |-> {Sign("alice", "key-a", "bob", Here, approval)}]

Good  == Signed(Approval(Digest(Args(1)), 1, "n1"), Args(1))
Plain == Good.approval

Attestations ==
  {{}, {Sign("bob", "key-b", "bob", Here, Plain)},
   {Sign("alice", "key-x", "bob", Here, Plain)},
   {Sign("dan", "key-d", "bob", Here, Plain)},
   {Sign("alice", "key-a", "bob", There, Plain)},
   {Sign("alice", "key-a", "bob", Nowhere, Plain)},
   {Sign("alice", "key-a", "eve", Here, Plain)},
   {[Sign("alice", "key-a", "bob", Here, Plain) EXCEPT !.claim = "execution"]},
   {Sign("alice", "key-a", "bob", Here, Plain), Sign("carol", "key-c", "bob", Here, Plain)},
   {Sign("alice", "key-a", "bob", Here, Plain), Sign("bob", "key-b", "bob", Here, Plain)}}

OtherNonce == [Plain EXCEPT !.nonce = "n2", !.not_after = 0]

Envelopes ==
  {Good, NoEnvelope, Signed(OtherNonce, Args(1))}
  \cup {[Good EXCEPT !.attestations = a] : a \in Attestations}
  \cup {[Good EXCEPT !.approval.nonce = "n3"],          \* changed after it was signed
        [Good EXCEPT !.approval.not_after = 2],
        [Good EXCEPT !.approval.scope.arguments_digest = Digest(Args(2)),
                     !.approved = Args(2)]}
  \cup {Signed(Approval(Digest(Args(1)), at, n), Args(1)) :
          at \in {Absent, Unparsed, 0, 1, 9}, n \in {"n1", None, Blank, Oversized}}
  \cup {Signed(Approval(Digest(Args(Rounded(5))), 1, "n1"), Args(5)),
        Signed(Approval(Digest(TwoKeys), 1, "n1"), TwoKeys),
        Signed(Approval(Digest(Ref), 1, "n1"), Ref)}

Letters(s) == <<Quote>> \o s \o <<Quote>>
Field(text)  == [key |-> <<"f">>, value |-> text]
Other(text)  == [key |-> <<"a">>, value |-> text]
Texts == {<<"1">>, Letters(<<"}">>), Letters(<<Backslash, Quote, ",">>),
          Letters(<<Backslash, Backslash>>),
          <<"{">> \o Letters(<<"f">>) \o <<":", "[", "]", "}">>,
          <<"[", "{", "}", ",">> \o Letters(<<"]">>) \o <<"]">>}
EscapedField == [key |-> <<Backslash, "f">>, value |-> <<"{", "}">>]
QuotedKey    == [key |-> <<Backslash, Quote, "f">>, value |-> <<"{", " ", "}">>]

Wires ==
  {<<Field(<<"{", "}">>)>>, <<Other(<<"1">>)>>, <<EscapedField, QuotedKey>>,
   <<QuotedKey, Other(<<"1">>), EscapedField>>}
  \cup {<<Other(text), Field(<<"{", "}">>)>> : text \in Texts}
  \cup {<<Field(text), Other(<<"1">>)>> : text \in Texts}
  \cup {<<QuotedKey, Field(text), Other(<<"1">>)>> : text \in Texts}

Places == {{}, {"edge", "key", "colon", "value"}, {"key"}, {"value"}}

Message ==
  [strict |-> TRUE, jsonrpc |-> TRUE, id |-> "scalar", method |-> "tools/call",
   result |-> FALSE, error |-> None, extra |-> FALSE, action |-> "pay",
   arguments |-> Args(1), envelope |-> Good,
   wire |-> <<Other(<<"1">>), Field(<<"{", "}">>)>>, spaced |-> {}]

Responses ==
  {[Message EXCEPT !.method = None, !.result = r, !.error = e, !.id = id, !.extra = x] :
     r \in BOOLEAN, e \in {None, "valid", "invalid"}, id \in {"scalar", "null", None},
     x \in BOOLEAN}

Messages ==
  {[Message EXCEPT !.strict = FALSE], [Message EXCEPT !.jsonrpc = FALSE],
   [Message EXCEPT !.method = "other"], [Message EXCEPT !.method = "invalid"],
   [Message EXCEPT !.result = TRUE], [Message EXCEPT !.error = "valid"],
   [Message EXCEPT !.method = "other", !.result = TRUE],
   [Message EXCEPT !.action = "sell"], [Message EXCEPT !.action = None]}
  \cup Responses
  \cup {[Message EXCEPT !.id = id] : id \in {None, "null", "invalid"}}
  \cup {[Message EXCEPT !.arguments = v] :
          v \in {Args(2), Args(4), Args(5), TwoKeys, Ref, Number(1),
                 Object([k |-> Scalar([kind |-> "float"])]),
                 Object([k |-> Array([zero |-> Ref, one |-> Number(1)])])}}
  \cup {[Message EXCEPT !.wire = w, !.spaced = s] : w \in Wires, s \in Places}

Request ==
  [method |-> "POST", contains_body |-> TRUE, media |-> "json", encoded |-> FALSE,
   declared |-> 1, size |-> 1, client_id |-> "bob", principal |-> None,
   executor |-> "bob", header |-> Good, message |-> Message]

(* The approved arguments go with the envelope where they match.           *)
WithEnvelope(e) ==
  [Request EXCEPT !.header = e, !.message.envelope = e,
     !.message.arguments =
       IF e.readable /\ e.approved = Args(5) THEN Args(4)
       ELSE IF e.readable THEN e.approved ELSE @]

SomeRequests ==
  {Request,
   [Request EXCEPT !.method = "GET"], [Request EXCEPT !.contains_body = FALSE],
   [Request EXCEPT !.method = "GET", !.contains_body = FALSE],
   [Request EXCEPT !.method = ""],
   [Request EXCEPT !.media = "json;charset=utf-8"], [Request EXCEPT !.media = "other"],
   [Request EXCEPT !.media = "json;charset=utf-7"], [Request EXCEPT !.encoded = TRUE],
   [Request EXCEPT !.declared = -1], [Request EXCEPT !.declared = 2, !.size = 2],
   [Request EXCEPT !.size = 0],
   [Request EXCEPT !.client_id = None], [Request EXCEPT !.client_id = "eve"],
   [Request EXCEPT !.client_id = Blank, !.principal = "bob"],
   [Request EXCEPT !.client_id = None, !.principal = "bob"],
   [Request EXCEPT !.client_id = None, !.executor = Blank]}
  \cup {WithEnvelope(e) : e \in Envelopes}
  \cup {[Request EXCEPT !.message = m] : m \in Messages}

SomeRivals == {Plain, OtherNonce}
SomeApprovals == {e.approval : e \in Envelopes \ {NoEnvelope}}

-----------------------------------------------------------------------------
Config ==
  [approval_source |-> "header", required |-> ToSet(Predicates),
   attester_keys |-> <<[kid |-> "alice", key |-> "key-a"], [kid |-> "bob", key |-> "key-b"],
                       [kid |-> "carol", key |-> "key-c"]>>,
   audience |-> "here", tenant |-> "t", environment |-> "e",
   clock_skew |-> 0, max_lifetime |-> Default, approval_rpc_field |-> "f",
   client_responses |-> None, mode |-> "block", on_deny |-> "rpc-error",
   strip |-> "default"]

Rpc == [Config EXCEPT !.approval_source = "rpc-param"]

SomeConfigs ==
  {Config, Rpc, [Config EXCEPT !.mode = "monitor"], [Rpc EXCEPT !.mode = "monitor"],
   [Config EXCEPT !.mode = "other"], [Rpc EXCEPT !.strip = "off"],
   [Config EXCEPT !.strip = "off", !.on_deny = "empty-403"],
   [Config EXCEPT !.client_responses = "deny", !.clock_skew = 1],
   [Config EXCEPT !.max_lifetime = 1],
   [Rpc EXCEPT !.required = {"P1", "P2"}], [Config EXCEPT !.required = {"P4", "P6"}],
   [Config EXCEPT !.required = {"P5"}],
   [Config EXCEPT !.required = {"P6"}], [Config EXCEPT !.required = {}],
   [Config EXCEPT !.audience = Blank], [Config EXCEPT !.clock_skew = 9],
   [Config EXCEPT !.required = {"P1"}, !.max_lifetime = 1],
   [Config EXCEPT !.attester_keys[1].key = "short"],
   [Config EXCEPT !.attester_keys[1].kid = "bob"],
   [Config EXCEPT !.approval_source = "sidecar"],
   [Rpc EXCEPT !.approval_rpc_field = "params"]}

(* The plain ones are among them.  Comparing the sets in full also puts    *)
(* their members in normal form before TLC's workers share them.           *)
ASSUME PlainAssumption ==
  /\ Requests = Requests \cup {Request}
  /\ Presented = Presented \cup {Plain}
  /\ Rivals = Rivals \cup {Plain}
  /\ Configs = Configs \cup {Config}

Spellings == {<<"f">>, <<Backslash, "f">>}
=============================================================================
