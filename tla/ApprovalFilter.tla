---------------------------- MODULE ApprovalFilter ----------------------------
(***************************************************************************)
(* The request filter of approval-execution-binding/src/lib.rs: how one    *)
(* worker carries a request from its headers to a verdict and a forwarded  *)
(* or answered call, under any configuration the policy starts with.  A    *)
(* request waits twice, for its body and for the nonce store; meanwhile    *)
(* time passes, and the replica's workers reserve nonces in the same store *)
(* and sweep it.  NonceStore has a reservation and a sweep host call by    *)
(* host call; here a reservation is its create-only store, and a sweep a   *)
(* key's reading and, later, its delete.                                   *)
(*                                                                         *)
(* A request is what the filter reads of it:                               *)
(*   method, contains_body, media, encoded, declared, size  the framing;   *)
(*   client_id, principal, executor  the authenticated and claimed party;  *)
(*   header  the envelope in the approval header;                          *)
(*   message  the body: whether it is strict JSON of one object, what its  *)
(*            JSON-RPC members hold, the envelope among them, and its text *)
(*            as members in order with whitespace in the places of spaced. *)
(*                                                                         *)
(* An operator whose name ends in _No... or _With... is a mutant: the      *)
(* mistaken form of the definition that follows it.                        *)
(***************************************************************************)
EXTENDS ApprovalPredicates, EnvelopeSplice

CONSTANTS Configs,      \* configurations offered to the policy
          Requests,     \* requests that may arrive
          Presented,    \* approvals that may be presented
          Rivals,       \* approvals the replica's other workers are presented
          Workers,      \* the replica's workers, as they sweep
          MaxBody,      \* MAX_BODY_BYTES
          Second        \* instants in a second

CONSTANTS MaxClock,     \* bound: the last instant reached
          MaxStall      \* assumed: instants from a call's P4 check to its store

VARIABLES binding,      \* the Binding of the configuration in force
          call,         \* the request being served, how far, and its answer
          store,        \* the replica's store: nonce -> its expiry, in seconds
          doomed,       \* worker -> the nonce its sweep is to delete, or None
          clock         \* the gateway's clock

(* What really happened, for the properties: how often each approval had   *)
(* its nonce reserved, and when the call in hand was last judged.          *)
VARIABLES uses, judged

vars == <<binding, call, store, doomed, clock, uses, judged>>
storage == <<store, doomed, uses>>

NoEnvelope == [readable |-> FALSE]
Arrived(request) == [at |-> "arrived", request |-> request]

(* extract_envelope: the header's, or the rpc-param member's.              *)
Envelope(request) ==
  IF binding.approval_source = "header" THEN request.header
  ELSE request.message.envelope

IsFunction(f) == f = [x \in DOMAIN f |-> f[x]]

(* The envelopes that arrive.                                              *)
Carried == {e \in {request.header : request \in Requests}
                    \cup {request.message.envelope : request \in Requests} : e.readable}

(* A body's length is a number, and its members are what a JSON reader     *)
(* makes of them.                                                          *)
ASSUME RequestsAssumption ==
  /\ MaxBody \in Nat
  /\ \A request \in Requests :
       /\ request.declared \in Int /\ request.size \in Nat
       /\ request.message.id \in {None, "scalar", "null", "invalid"}
       /\ IsFunction(request.message.arguments)

(* A MAC is over an mcp-v1 payload.                                        *)
ASSUME MacsAssumption ==
  \A e \in Carried : \A attestation \in e.attestations :
    LET mac == attestation.mac
        signed == mac.payload
        place == [audience |-> signed.aud, tenant |-> signed.tenant, environment |-> signed.env]
        approval == [scope |-> [action |-> signed.action,
                                arguments_digest |-> signed.arguments_digest],
                     not_after |-> signed.not_after, nonce |-> signed.nonce]
    IN  mac = [key |-> mac.key, payload |-> Payload(signed.iss, place, signed.sub, approval)]

(* The party that digested what was approved writes it as it is, but for   *)
(* numbers that no double holds, which may become others of the kind       *)
(* ("JCS would round it through a double", lib.rs:230).                    *)
ASSUME WrittenAssumption ==
  \A e \in Carried :
    LET written == e.approval.scope.arguments_digest
    IN  /\ IsFunction(e.approved) /\ IsFunction(written)
        /\ DOMAIN written = DOMAIN e.approved
        /\ \A path \in DOMAIN written :
             \/ written[path] = e.approved[path]
             \/ \A node \in {written[path], e.approved[path]} :
                  node.kind = "integer" /\ node.scalar \in Int \ (-MaxSafe .. MaxSafe)

(* The clock is far from the latest date.                                  *)
ASSUME ClockAssumption ==
  MaxClock \in Nat /\ MaxClock + MaxLifetime + MaxSkew <= MaxInstant

ASSUME PresentedAssumption ==
  /\ Rivals \cup {e.approval : e \in Carried} \subseteq Presented
  /\ \A approval \in Presented : approval.not_after \in Nat \cup {Absent, Unparsed}

ASSUME StallAssumption == Second \in Nat \ {0} /\ MaxStall \in Nat

Init ==
  /\ \E config \in Configs : Valid(config) /\ binding = Bind(config)
  /\ call \in {Arrived(request) : request \in Requests}
  /\ store = <<>> /\ doomed = [worker \in Workers |-> None] /\ clock = 0
  /\ uses = [approval \in Presented |-> 0] /\ judged = 0

-----------------------------------------------------------------------------
(* The ways a call ends: it goes on upstream, stamped, or is answered here.*)
Forward(request, stamp, body, header, violations) ==
  [at |-> "done", request |-> request, flow |-> "continue", stamp |-> stamp,
   body |-> body, header |-> header, violations |-> violations, reserved |-> FALSE]

Deny(request, status, echo, label, violations) ==
  [at |-> "done", request |-> request, flow |-> "break", stamp |-> "denied",
   label |-> label, status |-> status, echo |-> echo, violations |-> violations,
   reserved |-> FALSE]

(* The text of the body.                                                   *)
Space(message, place) == IF place \in message.spaced THEN <<" ">> ELSE <<>>

BodyText(message) ==
  LET gap(place) == Space(message, place)
      member(m) == <<Quote>> \o m.key \o <<Quote>> \o gap("colon") \o <<":">>
                     \o gap("colon") \o m.value \o gap("value")
      texts == [i \in DOMAIN message.wire |->
                  (IF i = 1 THEN <<>> ELSE <<",">> \o gap("key")) \o member(message.wire[i])]
  IN  gap("edge") \o <<"{">> \o gap("key") \o FlattenSeq(texts) \o <<"}">> \o gap("edge")

AsSent(request) == BodyText(request.message)

(* A request this policy cannot admit: denied with an empty body, or       *)
(* forwarded and marked in monitor mode.                                   *)
Refused(request, label) ==
  IF binding.block THEN Deny(request, 403, FALSE, label, 0)
  ELSE Forward(request, "monitor", AsSent(request), TRUE, 0)

(* render_denial: a notification has no answer, an error echoes the id.    *)
Denial(request, label, violations) ==
  CASE request.message.id = None -> Deny(request, 202, FALSE, label, violations)
    [] request.message.id # None /\ binding.rpc_error ->
         Deny(request, 200, TRUE, label, violations)
    [] OTHER -> Deny(request, 403, FALSE, label, violations)

-----------------------------------------------------------------------------
(* A request that cannot carry a tools/call body.                          *)
Exempt(request) == request.method \notin {"POST", ""} /\ ~request.contains_body

Inspectable(request) ==
  request.media \in {"json", "json;charset=utf-8"} /\ ~request.encoded

(* declared_body_length and admitted_length.                               *)
Admissible(request) == request.declared \in 0 .. MaxBody

Exempted(request) ==
  /\ Exempt(request)
  /\ call' = Forward(request, "out-of-scope", <<>>, TRUE, 0)

RefusedMedia(request) ==
  /\ ~Exempt(request)
  /\ ~request.contains_body \/ ~Inspectable(request)
  /\ call' = Refused(request, Malformed)

RefusedFraming(request) ==
  /\ request.contains_body /\ Inspectable(request)
  /\ ~Admissible(request)
  /\ call' = Refused(request, "framing")

Buffering(request) ==
  /\ request.contains_body /\ Inspectable(request) /\ Admissible(request)
  /\ call' = [at |-> "body", request |-> request]

(* The header phase of request_filter.                                     *)
Receive ==
  /\ call.at = "arrived"
  /\ \/ Exempted(call.request)
     \/ RefusedMedia(call.request)
     \/ RefusedFraming(call.request)
     \/ Buffering(call.request)
  /\ UNCHANGED <<binding, storage, clock, judged>>

-----------------------------------------------------------------------------
(* check_jsonrpc_response.                                                 *)
IsResponse(message) ==
  /\ ~message.extra
  /\ message.result # (message.error # None)
  /\ message.id \in {"scalar", "null"}
  /\ message.id = "null" => message.error # None
  /\ message.error \in {None, "valid"}

(* The value is an object: its root is.                                    *)
IsObject(value) == value[<<>>].kind = "object"

IsToolsCall_NoAmbiguity(message) ==
  message.method = "tools/call" /\ message.action # None /\ IsObject(message.arguments)

IsToolsCall(message) ==
  /\ message.method = "tools/call"
  /\ ~message.result /\ message.error = None
  /\ message.action # None
  /\ IsObject(message.arguments)

(* parse_single_jsonrpc.                                                   *)
Parsed(message) ==
  LET framed == message.strict /\ message.jsonrpc /\ message.id \in {None, "scalar", "null"}
      pure   == ~message.result /\ message.error = None
  IN  CASE ~framed -> "error"
        [] framed /\ message.method = None ->
             IF IsResponse(message) /\ binding.forward_responses THEN "response" ELSE "error"
        [] framed /\ IsToolsCall(message) -> "tools/call"
        [] framed /\ message.method = "other" /\ pure -> "out-of-scope"
        [] OTHER -> "error"

(* The executor, and whether authentication vouches for it.  An empty      *)
(* client id hides the principal.                                          *)
Subject(request) ==
  IF request.client_id # None THEN request.client_id ELSE request.principal

Verified(request) == Subject(request) \notin {None, Blank}

Executor(request) == IF Verified(request) THEN Subject(request) ELSE request.executor

Verdict(request) ==
  Evaluate(binding, request.message, Envelope(request), Executor(request),
           Verified(request), clock)

Forwards(verdict) == ~binding.block \/ verdict = "allow"

Splices(verdict) ==
  Forwards(verdict) /\ binding.approval_source = "rpc-param" /\ binding.strip

(* The header the envelope came in is still there.                         *)
HeaderKept == ~(binding.approval_source = "header" /\ binding.strip)

Spliced_NoFailure(request, set_body, splices, cut) ==
  [failed |-> FALSE,
   body   |-> IF splices /\ cut.result = "stripped" /\ set_body
              THEN cut.body ELSE AsSent(request)]

(* The body that goes upstream, when the host's set_body does or does not  *)
(* succeed, and whether the envelope could not be removed from it.         *)
Spliced(request, set_body, splices, cut) ==
  [failed |-> splices /\ cut.result # "absent" /\ ~(cut.result = "stripped" /\ set_body),
   body   |-> IF splices /\ cut.result = "stripped" /\ set_body
              THEN cut.body ELSE AsSent(request)]

Reserves_WithMismatch(verdict) ==
  binding.block /\ "P6" \in binding.required /\ verdict \in {"allow", "P2"}

(* The call goes on to reserve its nonce.                                  *)
Reserves(verdict) ==
  binding.block /\ "P6" \in binding.required /\ verdict = "allow"

(* The answer under a verdict, once there is nothing left to reserve.      *)
Answer(request, verdict, spliced) ==
  IF verdict = "allow"
  THEN Forward(request, IF spliced.failed THEN "monitor" ELSE "allowed", spliced.body,
               HeaderKept, IF spliced.failed THEN 1 ELSE 0)
  ELSE IF binding.block THEN Denial(request, verdict, 1)
  ELSE Forward(request, "would-deny", spliced.body, HeaderKept, 1)

Judged(request, verdict, spliced) ==
  IF binding.block /\ spliced.failed THEN Denial(request, Malformed, 1)
  ELSE IF Reserves(verdict)
  THEN [at |-> "reserve", request |-> request, verdict |-> verdict, spliced |-> spliced]
  ELSE Answer(request, verdict, spliced)

-----------------------------------------------------------------------------
(* The body is in.                                                         *)
RefuseLength ==
  /\ call.at = "body" /\ call.request.size # call.request.declared
  /\ call' = Refused(call.request, "framing")
  /\ UNCHANGED <<binding, storage, clock, judged>>

Complete == call.at = "body" /\ call.request.size = call.request.declared

PassOutOfScope ==
  /\ Complete /\ Parsed(call.request.message) \in {"out-of-scope", "response"}
  /\ call' = Forward(call.request, "out-of-scope", AsSent(call.request), TRUE, 0)
  /\ UNCHANGED <<binding, storage, clock, judged>>

RefuseMalformed ==
  /\ Complete /\ Parsed(call.request.message) = "error"
  /\ call' = Refused(call.request, Malformed)
  /\ UNCHANGED <<binding, storage, clock, judged>>

(* A tools/call is evaluated, and its envelope cut out, before the nonce   *)
(* store is touched.                                                       *)
Judge(set_body) ==
  /\ Complete /\ Parsed(call.request.message) = "tools/call"
  /\ call' = LET request == call.request
                 under(verdict) ==
                   Judged(request, verdict,
                     Spliced(request, set_body, Splices(verdict),
                       Strip(AsSent(request), request.message.wire)))
             IN  under(Verdict(request))
  /\ judged' = clock
  /\ UNCHANGED <<binding, storage, clock>>

Nonce(request) == Envelope(request).approval

(* The deadline in whole seconds; the skew is a number of seconds.         *)
NonceExpiry(approval) == Deadline(approval, binding) \div Second

SweepDue_NoGrace(now, expiry) == now > expiry

(* nonce_sweep_due: strictly past the expiry and one second more.          *)
SweepDue(now, expiry) == now > expiry + 1

(* The store creates a key only where there is none.                       *)
Reserve(approval) ==
  LET nonce == approval.nonce
  IN  /\ nonce \notin DOMAIN store
      /\ store' = [n \in DOMAIN store \cup {nonce} |->
                     IF n = nonce THEN NonceExpiry(approval) ELSE store[n]]
      /\ uses' = [uses EXCEPT ![approval] = @ + 1]
      /\ UNCHANGED <<binding, doomed, clock, judged>>

(* The nonce is reserved: the call is answered as its verdict says.        *)
ReserveGranted ==
  /\ call.at = "reserve"
  /\ Reserve(Nonce(call.request))
  /\ call' = [Answer(call.request, call.verdict, call.spliced) EXCEPT !.reserved = TRUE]

(* A replay, a store at its cap or one that fails: denied under P6.        *)
ReserveRefused ==
  /\ call.at = "reserve"
  /\ call' = Denial(call.request, "P6", 1)
  /\ UNCHANGED <<binding, storage, clock, judged>>

(* Another worker, whose own P4 check was a while ago, forwards an approval*)
(* it was presented.                                                       *)
OtherWorker ==
  /\ "P6" \in binding.required /\ binding.block
  /\ UNCHANGED call
  /\ \E approval \in Rivals, since \in 0 .. clock :
       /\ clock - since <= MaxStall
       /\ Fresh(approval, binding, since)
       /\ approval.nonce \notin {None, Blank, Oversized}
       /\ Reserve(approval)

(* A worker at its cap reads a listed key, and finds it due.               *)
SweepJudges(worker) ==
  /\ doomed[worker] = None
  /\ \E nonce \in DOMAIN store :
       /\ SweepDue(clock \div Second, store[nonce])
       /\ doomed' = [doomed EXCEPT ![worker] = nonce]
  /\ UNCHANGED <<binding, call, store, clock, uses, judged>>

(* Its next step is the delete, whatever the key holds by then; it deletes,*)
(* or fails and ends the sweep.                                            *)
SweepDeletes(worker) ==
  /\ doomed[worker] # None
  /\ store' \in {store, Restrict(store, DOMAIN store \ {doomed[worker]})}
  /\ doomed' = [doomed EXCEPT ![worker] = None]
  /\ UNCHANGED <<binding, call, clock, uses, judged>>

HeldUp == call.at = "reserve" /\ clock - judged >= MaxStall

(* Time passes before a request and while its body or its nonce is awaited,*)
(* which holds no call up longer than assumed.                             *)
Tick ==
  /\ clock < MaxClock
  /\ call.at # "done" /\ ~HeldUp
  /\ clock' = clock + 1
  /\ UNCHANGED <<binding, call, storage, judged>>

(* A client that has its answer may send the request again.                *)
Again ==
  /\ call.at = "done"
  /\ call' = Arrived(call.request)
  /\ UNCHANGED <<binding, storage, clock, judged>>

Next ==
  \/ Receive
  \/ RefuseLength
  \/ PassOutOfScope
  \/ RefuseMalformed
  \/ \E set_body \in BOOLEAN : Judge(set_body)
  \/ ReserveGranted
  \/ ReserveRefused
  \/ OtherWorker
  \/ \E worker \in Workers : SweepJudges(worker) \/ SweepDeletes(worker)
  \/ Again
  \/ Tick

Spec == Init /\ [][Next]_vars

-----------------------------------------------------------------------------
Done   == call.at = "done"
Passed == Done /\ call.flow = "continue"

(* The body's meaning is not one the filter and upstream must agree on: a  *)
(* batch, duplicate members, another charset or encoding, a wrong length, a*)
(* request that is also a response.                                        *)
Unclear(request) ==
  \/ ~request.message.strict
  \/ request.media \notin {"json", "json;charset=utf-8"} \/ request.encoded
  \/ request.size # request.declared
  \/ request.message.method # None /\ (request.message.result \/ request.message.error # None)

MayRunTool(request) ==
  request.contains_body /\ (request.message.method = "tools/call" \/ Unclear(request))

IsJudged(request) ==
  /\ MayRunTool(request) /\ ~Unclear(request)
  /\ request.size <= MaxBody
  /\ request.message.jsonrpc /\ request.message.id # "invalid"
  /\ request.message.action # None /\ IsObject(request.message.arguments)

(* The attester it names, one whose key this gateway knows, who is not the *)
(* executor, signed this approval, with its deadline and its nonce, for    *)
(* this executor at this deployment.                                       *)
SignedHere(attestation, request, approval) ==
  LET signed == attestation.mac.payload
  IN  /\ signed.iss = attestation.authority
      /\ signed.iss \in DOMAIN binding.attester_keys
      /\ attestation.mac.key = binding.attester_keys[signed.iss]
      /\ signed.iss # Subject(request)
      /\ signed.sub = Subject(request) /\ signed.sub \notin {None, Blank}
      /\ Blank \notin {signed.aud, signed.tenant, signed.env}
      /\ signed.aud = binding.audience /\ signed.tenant = binding.tenant
      /\ signed.env = binding.environment
      /\ signed.action = approval.scope.action
      /\ signed.arguments_digest = approval.scope.arguments_digest
      /\ signed.not_after = approval.not_after /\ signed.nonce = approval.nonce
      /\ signed.not_after # Absent /\ signed.nonce \notin {None, Blank}

(* Whoever claims to approve does, and somebody claims to.                 *)
Attested(request) ==
  LET envelope == Envelope(request)
      claims == {a \in envelope.attestations : a.claim = "approval"}
  IN  claims # {} /\ \A a \in claims : SignedHere(a, request, envelope.approval)

(* Every required predicate holds of the call when it is judged; approved  *)
(* are the arguments the approver meant, whichever canonical form its digest came from, and  *)
(* an approver can mean only what every party writes alike.                *)
Approved(request) ==
  LET envelope == Envelope(request)
      approval == envelope.approval
      required == binding.required
  IN  /\ envelope.readable /\ approval.nonce # Oversized
      /\ "P1" \in required => request.message.action = approval.scope.action
      /\ "P2" \in required =>
           /\ request.message.arguments = envelope.approved
           /\ Canonicalizable(envelope.approved) /\ ~ContainsRef(envelope.approved)
      /\ "P4" \in required =>
           /\ approval.not_after >= 0
           /\ judged <= approval.not_after + binding.clock_skew
           /\ binding.max_lifetime # 0 =>
                approval.not_after - judged <= binding.max_lifetime + binding.clock_skew
      /\ "P5" \in required => Attested(request)
      /\ "P6" \in required => approval.nonce \notin {None, Blank}

(* In block mode nothing that upstream could run as a tool call goes on    *)
(* unless it can be read in one way only and every required predicate      *)
(* holds of it (lib.rs:1209, evaluate; lib.rs:1679, "fail closed on the    *)
(* edges").                                                                *)
ForwardedIsBound ==
  Passed /\ binding.block /\ MayRunTool(call.request) =>
    ~Unclear(call.request) /\ Approved(call.request)

(* "a denied attempt must never burn a legitimate future execution's single*)
(* use": a nonce is reserved for a call exactly when that call is forwarded*)
(* in block mode under P6, whatever fails on the way (lib.rs:1215, 1856).  *)
NonceSpentExactly ==
  Done => (call.reserved <=> /\ Passed /\ binding.block /\ "P6" \in binding.required
                             /\ MayRunTool(call.request))

(* No other approval that may come bears the nonce.                        *)
Alone(approval) == \A other \in Presented : other.nonce = approval.nonce => other = approval

(* "Atomic single-use (P6)": a call that goes on in block mode under P6 has*)
(* used its approval, and an approval that shares its nonce with no other  *)
(* was used for that call alone, by whatever worker and however late its   *)
(* store or another worker's delete comes (lib.rs:1889, 1547).             *)
ForwardedOnce ==
  Passed /\ binding.block /\ "P6" \in binding.required /\ MayRunTool(call.request) =>
    LET approval == Nonce(call.request)
    IN  /\ uses[approval] > 0
        /\ Alone(approval) => uses[approval] = 1

(* With stripApprovalEnvelope a judged call never takes its envelope       *)
(* upstream; only monitor mode may, and then it is recorded and not stamped*)
(* allowed.  All that is left of the body is what was sent (lib.rs:1859).  *)
EnvelopeRemoved ==
  Passed /\ IsJudged(call.request) =>
    LET wire == call.request.message.wire
        cut == binding.strip /\ binding.approval_source = "rpc-param"
    IN  /\ call.header => ~(binding.strip /\ binding.approval_source = "header")
        /\ \/ Reads(call.body, IF cut THEN OtherMembers(wire) ELSE wire)
           \/ /\ cut /\ ~binding.block /\ call.stamp # "allowed"
              /\ call.violations = 1 /\ Reads(call.body, wire)

(* The scanner and the cut never refuse a body the parser accepted, however*)
(* it is spelled and laid out (lib.rs:895).                                *)
SpliceSucceeds ==
  Done /\ IsJudged(call.request) =>
    LET message == call.request.message
    IN  Strip(BodyText(message), message.wire).result =
          IF OtherMembers(message.wire) = message.wire THEN "absent" ELSE "stripped"

(* Monitor mode forwards everything and reports what block mode would do:  *)
(* would-deny, with one violation, exactly for the calls that lack a       *)
(* required predicate (lib.rs:1933).                                       *)
MonitorPredicts ==
  Done /\ ~binding.block =>
    /\ Passed
    /\ IsJudged(call.request) =>
         /\ call.stamp = "would-deny" <=> ~Approved(call.request)
         /\ call.violations = IF call.stamp = "allowed" THEN 0 ELSE 1
=============================================================================
