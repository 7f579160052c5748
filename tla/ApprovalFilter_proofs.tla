------------------------ MODULE ApprovalFilter_proofs ------------------------
(***************************************************************************)
(* That the approval filter forwards in block mode only what is approved,  *)
(* reserves a nonce for exactly what it forwards, and in monitor mode      *)
(* reports what block mode would do, for any configurations, requests of   *)
(* any content, approvals, rivals, limits and clock bound.                 *)
(*                                                                         *)
(* Two things meet here.  VerdictIsApproval: evaluate, which looks for     *)
(* failures in an order and compares digests, attestations and instants,   *)
(* allows exactly the calls that are approved in the sense of the          *)
(* properties, which have none of that.  AInv: what is known of a call at  *)
(* each point where it waits.  A call that waits for its nonce is already  *)
(* approved, and still is when the answer comes.                           *)
(*                                                                         *)
(* UInv: why an approval that shares its nonce with no other is used once, *)
(* although a key is judged due in one step and deleted in a later one,    *)
(* and a reservation comes a while after its call was judged.  What a sweep*)
(* finds due under such a nonce belongs to an approval whose last call is  *)
(* over: the second of slack in nonce_sweep_due is no less than that while.*)
(***************************************************************************)
EXTENDS ApprovalFilter, Sums_proofs

(* The properties' words, of the binding b and the time t.                 *)
EnvelopeBy(b, request) ==
  IF b.approval_source = "header" THEN request.header ELSE request.message.envelope

SignedBy(b, attestation, request, approval) ==
  LET signed == attestation.mac.payload
  IN  /\ signed.iss = attestation.authority
      /\ signed.iss \in DOMAIN b.attester_keys
      /\ attestation.mac.key = b.attester_keys[signed.iss]
      /\ signed.iss # Subject(request)
      /\ signed.sub = Subject(request) /\ signed.sub \notin {None, Blank}
      /\ Blank \notin {signed.aud, signed.tenant, signed.env}
      /\ signed.aud = b.audience /\ signed.tenant = b.tenant
      /\ signed.env = b.environment
      /\ signed.action = approval.scope.action
      /\ signed.arguments_digest = approval.scope.arguments_digest
      /\ signed.not_after = approval.not_after /\ signed.nonce = approval.nonce
      /\ signed.not_after # Absent /\ signed.nonce \notin {None, Blank}

Claims(envelope) == {a \in envelope.attestations : a.claim = "approval"}

AttestedBy(b, request, envelope) ==
  Claims(envelope) # {} /\ \A a \in Claims(envelope) : SignedBy(b, a, request, envelope.approval)

Meant(envelope, arguments) ==
  /\ arguments = envelope.approved
  /\ Canonicalizable(envelope.approved) /\ ~ContainsRef(envelope.approved)

Current(b, approval, t) ==
  /\ approval.not_after >= 0
  /\ t <= approval.not_after + b.clock_skew
  /\ b.max_lifetime # 0 => approval.not_after - t <= b.max_lifetime + b.clock_skew

ApprovedBy(b, t, request) ==
  LET envelope == EnvelopeBy(b, request)
      approval == envelope.approval
  IN  /\ envelope.readable /\ approval.nonce # Oversized
      /\ "P1" \in b.required => request.message.action = approval.scope.action
      /\ "P2" \in b.required => Meant(envelope, request.message.arguments)
      /\ "P4" \in b.required => Current(b, approval, t)
      /\ "P5" \in b.required => AttestedBy(b, request, envelope)
      /\ "P6" \in b.required => approval.nonce \notin {None, Blank}

(* The properties say what these say.                                      *)
LEMMA ByBinding ==
  ASSUME NEW request
  PROVE  /\ Envelope(request) = EnvelopeBy(binding, request)
         /\ Approved(request) <=> ApprovedBy(binding, judged, request)
<1>1. Envelope(request) = EnvelopeBy(binding, request)
  BY DEF Envelope, EnvelopeBy
<1>2. \A a, approval : SignedHere(a, request, approval) <=> SignedBy(binding, a, request, approval)
  BY DEF SignedHere, SignedBy
<1>3. Attested(request) <=> AttestedBy(binding, request, EnvelopeBy(binding, request))
  BY <1>1, <1>2 DEF Attested, AttestedBy, Claims
<1>4. Approved(request) <=> ApprovedBy(binding, judged, request)
  BY <1>1, <1>3 DEF Approved, ApprovedBy, Meant, Current
<1>5. QED
  BY <1>1, <1>4

-----------------------------------------------------------------------------
(* A Binding as a valid configuration makes it.                            *)
BindingOK(b) ==
  /\ b.required \subseteq {"P1", "P2", "P4", "P5", "P6"} /\ b.required # {}
  /\ b.block \in BOOLEAN
  /\ b.clock_skew \in 0 .. MaxSkew
  /\ b.max_lifetime \in 0 .. MaxLifetime
  /\ "P5" \in b.required => Blank \notin {b.audience, b.tenant, b.environment}
  /\ "P6" \in b.required => "P4" \in b.required

(* A configuration that is not refused makes one.                          *)
LEMMA BindOK == ASSUME NEW config, Valid(config) PROVE BindingOK(Bind(config))
<1>1. ToSet(Predicates) = {"P1", "P2", "P4", "P5", "P6"}
  BY DEF ToSet, Predicates
<1>2. config.max_lifetime = Default => 0 \in 0 .. MaxLifetime
  BY LimitsAssumption
<1>3. QED
  BY <1>1, <1>2 DEF Valid, Bind, BindingOK

LEMMA EnvelopeCarried ==
  ASSUME NEW b, NEW request \in Requests, EnvelopeBy(b, request).readable
  PROVE  EnvelopeBy(b, request) \in Carried
BY DEF EnvelopeBy, Carried

(* What P2 compares are the arguments the approver meant.                  *)
LEMMA MatchIsMeant ==
  ASSUME NEW e \in Carried, NEW request \in Requests
  PROVE  ArgumentsMatch(e.approval.scope, request.message.arguments)
           <=> Meant(e, request.message.arguments)
<1> DEFINE written == e.approval.scope.arguments_digest
           meant == e.approved
           given == request.message.arguments
<1>1. /\ IsFunction(meant) /\ IsFunction(written) /\ IsFunction(given)
      /\ DOMAIN written = DOMAIN meant
      /\ \A path \in DOMAIN written :
           \/ written[path] = meant[path]
           \/ /\ written[path].kind = "integer" /\ ~Safe(written[path].scalar)
              /\ meant[path].kind = "integer" /\ ~Safe(meant[path].scalar)
  <2>1. /\ IsFunction(meant) /\ IsFunction(written) /\ IsFunction(given)
        /\ DOMAIN written = DOMAIN meant
    BY WrittenAssumption, RequestsAssumption
  <2>2. ASSUME NEW path \in DOMAIN written, written[path] # meant[path],
               NEW node \in {written[path], meant[path]}
        PROVE  node.kind = "integer" /\ ~Safe(node.scalar)
    <3>1. node.kind = "integer" /\ node.scalar \in Int \ (-MaxSafe .. MaxSafe)
      BY <2>2, WrittenAssumption
    <3>2. QED
      BY <3>1, LimitsAssumption DEF Safe
  <2>3. QED
    BY <2>1, <2>2
<1> HIDE DEF written, meant, given
<1>2. ASSUME Canonicalizable(written) \/ Canonicalizable(meant) PROVE written = meant
  <2>1. \A path \in DOMAIN written : written[path] = meant[path]
    BY <1>1, <1>2 DEF Canonicalizable
  <2>2. QED
    BY <1>1, <2>1 DEF IsFunction
<1>3. ~ContainsRef(given) /\ Canonicalizable(given) /\ given = written
        <=> given = meant /\ Canonicalizable(meant) /\ ~ContainsRef(meant)
  BY <1>2
<1>4. QED
  BY <1>3 DEF ArgumentsMatch, Digest, Meant, written, meant, given

(* P4 judges time as the property does, far from the latest date.          *)
LEMMA FreshIsCurrent ==
  ASSUME NEW b, BindingOK(b), NEW e \in Carried, NEW t \in 0 .. MaxClock
  PROVE  Fresh(e.approval, b, t) <=> Current(b, e.approval, t)
<1> DEFINE after == e.approval.not_after
<1>1. after \in Nat \/ after \in {Absent, Unparsed}
  BY PresentedAssumption
<1>2. /\ b.clock_skew \in Nat /\ b.clock_skew <= MaxSkew /\ b.max_lifetime \in Nat
      /\ b.max_lifetime <= MaxLifetime /\ MaxSkew \in Nat /\ MaxLifetime \in Nat
      /\ MaxInstant \in Int /\ t \in Nat /\ MaxClock \in Nat /\ t <= MaxClock
      /\ MaxClock + MaxLifetime + MaxSkew <= MaxInstant
  BY ClockAssumption, LimitsAssumption DEF BindingOK
<1>3. QED
  BY <1>1, <1>2 DEF Fresh, Current, Deadline, Absent, Unparsed

(* An attestation that P5 lets pass is what the property asks of it, and   *)
(* the other way round.                                                    *)
LEMMA AuthenticIsSigned ==
  ASSUME NEW b, BindingOK(b), "P5" \in b.required, NEW request,
         NEW e \in Carried, NEW a \in e.attestations
  PROVE  SignedBy(b, a, request, e.approval) <=>
           /\ Verified(request)
           /\ e.approval.not_after # Absent /\ e.approval.nonce \notin {None, Blank}
           /\ Authentic(a, b, Executor(request), e.approval)
<1> DEFINE approval == e.approval
           signed == a.mac.payload
<1>1. a.mac = [key |-> a.mac.key,
               payload |->
                 Payload(signed.iss,
                         [audience |-> signed.aud, tenant |-> signed.tenant,
                          environment |-> signed.env],
                         signed.sub,
                         [scope |-> [action |-> signed.action,
                                     arguments_digest |-> signed.arguments_digest],
                          not_after |-> signed.not_after, nonce |-> signed.nonce])]
  BY MacsAssumption
<1>2. ASSUME Verified(request), approval.not_after # Absent,
             approval.nonce \notin {None, Blank},
             Authentic(a, b, Executor(request), approval)
      PROVE  SignedBy(b, a, request, approval)
  <2>1. /\ Executor(request) = Subject(request) /\ Subject(request) \notin {None, Blank}
        /\ Blank \notin {b.audience, b.tenant, b.environment}
    BY <1>2 DEF Executor, Verified, BindingOK
  <2>2. /\ a.authority # Subject(request) /\ a.authority \in DOMAIN b.attester_keys
        /\ a.mac = [key |-> b.attester_keys[a.authority],
                    payload |-> Payload(a.authority, b, Subject(request), approval)]
    BY <1>2, <2>1 DEF Authentic
  <2>3. /\ signed = Payload(a.authority, b, Subject(request), approval)
        /\ a.mac.key = b.attester_keys[a.authority]
    BY <2>2
  <2>4. /\ signed.iss = a.authority /\ signed.aud = b.audience /\ signed.tenant = b.tenant
        /\ signed.env = b.environment /\ signed.sub = Subject(request)
        /\ signed.action = approval.scope.action
        /\ signed.arguments_digest = approval.scope.arguments_digest
        /\ signed.not_after = approval.not_after /\ signed.nonce = approval.nonce
    BY <2>3 DEF Payload
  <2>5. QED
    BY <1>2, <2>1, <2>2, <2>3, <2>4 DEF SignedBy
<1>3. ASSUME SignedBy(b, a, request, approval)
      PROVE  /\ Verified(request) /\ approval.not_after # Absent
             /\ approval.nonce \notin {None, Blank}
             /\ Authentic(a, b, Executor(request), approval)
  <2>1. /\ signed.iss = a.authority /\ signed.aud = b.audience /\ signed.tenant = b.tenant
        /\ signed.env = b.environment /\ signed.sub = Subject(request)
        /\ signed.action = approval.scope.action
        /\ signed.arguments_digest = approval.scope.arguments_digest
        /\ signed.not_after = approval.not_after /\ signed.nonce = approval.nonce
    BY <1>3 DEF SignedBy
  <2>2. /\ a.authority # Subject(request) /\ a.authority \in DOMAIN b.attester_keys
        /\ a.mac.key = b.attester_keys[a.authority]
        /\ Subject(request) \notin {None, Blank}
        /\ approval.not_after # Absent /\ approval.nonce \notin {None, Blank}
    BY <1>3, <2>1 DEF SignedBy
  <2>3. Verified(request) /\ Executor(request) = Subject(request)
    BY <2>2 DEF Verified, Executor
  <2>4. a.mac = [key |-> b.attester_keys[a.authority],
                 payload |-> Payload(a.authority, b, Subject(request), approval)]
    <3>1. Payload(signed.iss,
                  [audience |-> signed.aud, tenant |-> signed.tenant,
                   environment |-> signed.env],
                  signed.sub,
                  [scope |-> [action |-> signed.action,
                              arguments_digest |-> signed.arguments_digest],
                   not_after |-> signed.not_after, nonce |-> signed.nonce])
            = Payload(a.authority, b, Subject(request), approval)
      BY <2>1 DEF Payload
    <3>2. QED
      BY <1>1, <2>2, <3>1
  <2>5. QED
    BY <2>2, <2>3, <2>4 DEF Authentic
<1>4. QED
  BY <1>2, <1>3

LEMMA AttestedAgree ==
  ASSUME NEW b, BindingOK(b), "P5" \in b.required, NEW request, NEW e \in Carried
  PROVE  Verified(request) /\ SeparatelyAttested(e, b, Executor(request))
           <=> AttestedBy(b, request, e)
<1>1. Verified(request) => Executor(request) # Blank
  BY DEF Verified, Executor
<1>2. \A a \in Claims(e) :
        SignedBy(b, a, request, e.approval) <=>
          /\ Verified(request)
          /\ e.approval.not_after # Absent /\ e.approval.nonce \notin {None, Blank}
          /\ Authentic(a, b, Executor(request), e.approval)
  BY AuthenticIsSigned DEF Claims
<1>3. SeparatelyAttested(e, b, Executor(request)) <=>
        /\ Executor(request) # Blank /\ Claims(e) # {}
        /\ e.approval.not_after # Absent /\ e.approval.nonce \notin {None, Blank}
        /\ \A a \in Claims(e) : Authentic(a, b, Executor(request), e.approval)
  BY DEF SeparatelyAttested, Claims
<1>4. QED
  BY <1>1, <1>2, <1>3 DEF AttestedBy

-----------------------------------------------------------------------------
(* The least of some of 1 .. n.                                            *)
LEMMA MinIn ==
  ASSUME NEW n \in Nat, NEW s \in SUBSET (1 .. n), s # {} PROVE Min(s) \in s
<1>1. s \subseteq Nat
  OBVIOUS
<1>2. \E x \in s : \A y \in s : x <= y
  BY <1>1, LeastNat
<1>3. QED
  BY <1>2 DEF Min

(* No required predicate fails, as evaluate judges them.                   *)
NoneFails(b, message, e, executor, verified, t) ==
  /\ e.readable /\ e.approval.nonce # Oversized
  /\ "P1" \in b.required => message.action = e.approval.scope.action
  /\ "P2" \in b.required => ArgumentsMatch(e.approval.scope, message.arguments)
  /\ "P4" \in b.required => Fresh(e.approval, b, t)
  /\ "P5" \in b.required => verified /\ SeparatelyAttested(e, b, executor)
  /\ "P6" \in b.required => e.approval.nonce \notin {None, Blank}

(* evaluate allows a call exactly when no required predicate fails.        *)
LEMMA AllowsUnlessFailed ==
  ASSUME NEW b, BindingOK(b), NEW message, NEW e, NEW executor, NEW verified \in BOOLEAN, NEW t
  PROVE  Evaluate(b, message, e, executor, verified, t) = "allow" <=>
           NoneFails(b, message, e, executor, verified, t)
<1> DEFINE fails == [p \in {"oversized", "P1", "P2", "P4", "P5", "P6"} |->
             CASE p = "oversized" -> e.approval.nonce = Oversized
               [] p = "P5" -> ~verified \/ ~SeparatelyAttested(e, b, executor)
               [] p = "P6" -> e.approval.nonce \in {None, Blank}
               [] p = "P1" -> message.action # e.approval.scope.action
               [] p = "P2" -> ~ArgumentsMatch(e.approval.scope, message.arguments)
               [] p = "P4" -> ~Fresh(e.approval, b, t)]
           failed == {i \in DOMAIN Order : Order[i] \in b.required \cup {"oversized"}
                                            /\ fails[Order[i]]}
<1>1. /\ DOMAIN Order = 1 .. 6
      /\ Order[1] = "oversized" /\ Order[2] = "P5" /\ Order[3] = "P6" /\ Order[4] = "P1"
      /\ Order[5] = "P2" /\ Order[6] = "P4"
  BY DEF Order
<1>2. ASSUME ~e.readable
      PROVE  Evaluate(b, message, e, executor, verified, t) # "allow"
  <2>1. First(b.required) \in {"P1", "P2", "P4", "P5", "P6"}
    <3> DEFINE s == {i \in DOMAIN Predicates : Predicates[i] \in b.required}
    <3>1. DOMAIN Predicates = 1 .. 5 /\ s \in SUBSET (1 .. 5) /\ s # {}
      BY DEF Predicates, BindingOK
    <3>2. Min(s) \in s
      BY <3>1, MinIn
    <3>3. QED
      BY <3>2 DEF First, BindingOK
  <2>2. QED
    BY <1>2, <2>1 DEF Evaluate
<1>3. e.readable => Evaluate(b, message, e, executor, verified, t) =
        CASE failed = {} -> "allow" [] 1 \in failed -> Malformed [] OTHER -> Order[Min(failed)]
  BY DEF Evaluate
<1>4. failed # {} => Min(failed) \in 1 .. 6
  <2>1. failed \in SUBSET (1 .. 6)
    BY <1>1
  <2> HIDE DEF failed
  <2>2. QED
    BY <2>1, MinIn
<1>5. failed = {} <=>
        /\ e.approval.nonce # Oversized
        /\ "P1" \in b.required => message.action = e.approval.scope.action
        /\ "P2" \in b.required => ArgumentsMatch(e.approval.scope, message.arguments)
        /\ "P4" \in b.required => Fresh(e.approval, b, t)
        /\ "P5" \in b.required => verified /\ SeparatelyAttested(e, b, executor)
        /\ "P6" \in b.required => e.approval.nonce \notin {None, Blank}
  <2>1. failed = {} <=> \A i \in 1 .. 6 :
                          Order[i] \in b.required \cup {"oversized"} => ~fails[Order[i]]
    BY <1>1
  <2>2. /\ fails["oversized"] <=> e.approval.nonce = Oversized
        /\ fails["P1"] <=> message.action # e.approval.scope.action
        /\ fails["P2"] <=> ~ArgumentsMatch(e.approval.scope, message.arguments)
        /\ fails["P4"] <=> ~Fresh(e.approval, b, t)
        /\ fails["P5"] <=> ~verified \/ ~SeparatelyAttested(e, b, executor)
        /\ fails["P6"] <=> e.approval.nonce \in {None, Blank}
    OBVIOUS
  <2> HIDE DEF fails, failed
  <2>3. (\A i \in 1 .. 6 : Order[i] \in b.required \cup {"oversized"} => ~fails[Order[i]])
          <=> \A p \in {"oversized", "P1", "P2", "P4", "P5", "P6"} :
                p \in b.required \cup {"oversized"} => ~fails[p]
    BY <1>1
  <2>4. QED
    BY <2>1, <2>2, <2>3 DEF BindingOK
<1> HIDE DEF failed, fails
<1>6. failed # {} => Order[Min(failed)] # "allow" /\ Malformed # "allow"
  BY <1>1, <1>4 DEF Malformed
<1>7. QED
  BY <1>2, <1>3, <1>5, <1>6 DEF NoneFails

(* The verdict on a call is to allow it exactly when it is approved.       *)
LEMMA VerdictIsApproval ==
  ASSUME BindingOK(binding), clock \in 0 .. MaxClock, NEW request \in Requests
  PROVE  Verdict(request) = "allow" <=> ApprovedBy(binding, clock, request)
<1> DEFINE e == EnvelopeBy(binding, request)
<1>1. Verdict(request) =
        Evaluate(binding, request.message, e, Executor(request), Verified(request), clock)
  BY ByBinding DEF Verdict
<1>2. Verified(request) \in BOOLEAN
  BY DEF Verified
<1>3. e.readable => e \in Carried
  BY EnvelopeCarried
<1> HIDE DEF e
<1>4. e.readable =>
        /\ (ArgumentsMatch(e.approval.scope, request.message.arguments)
               <=> Meant(e, request.message.arguments))
        /\ (Fresh(e.approval, binding, clock) <=> Current(binding, e.approval, clock))
        /\ "P5" \in binding.required =>
             (Verified(request) /\ SeparatelyAttested(e, binding, Executor(request))
                <=> AttestedBy(binding, request, e))
  BY <1>3, MatchIsMeant, FreshIsCurrent, AttestedAgree
<1>5. ApprovedBy(binding, clock, request) <=>
        /\ e.readable /\ e.approval.nonce # Oversized
        /\ "P1" \in binding.required => request.message.action = e.approval.scope.action
        /\ "P2" \in binding.required => Meant(e, request.message.arguments)
        /\ "P4" \in binding.required => Current(binding, e.approval, clock)
        /\ "P5" \in binding.required => AttestedBy(binding, request, e)
        /\ "P6" \in binding.required => e.approval.nonce \notin {None, Blank}
  BY DEF ApprovedBy, e
<1>6. Verdict(request) = "allow" <=>
        NoneFails(binding, request.message, e, Executor(request), Verified(request), clock)
  BY <1>1, <1>2, AllowsUnlessFailed
<1>7. QED
  BY <1>4, <1>5, <1>6 DEF NoneFails

-----------------------------------------------------------------------------
(* A call that may go on: upstream can run it as a tool call, and reads it *)
(* in one way only.                                                        *)
Clear(request) == MayRunTool(request) /\ ~Unclear(request)

(* What the properties say of a call that is over.                         *)
BoundBy(b, t, c) ==
  c.flow = "continue" /\ b.block /\ MayRunTool(c.request) =>
    ~Unclear(c.request) /\ ApprovedBy(b, t, c.request)

SpentBy(b, c) ==
  c.reserved <=> /\ c.flow = "continue" /\ b.block /\ "P6" \in b.required
                 /\ MayRunTool(c.request)

PredictedBy(b, t, c) ==
  ~b.block =>
    /\ c.flow = "continue"
    /\ IsJudged(c.request) =>
         /\ c.stamp = "would-deny" <=> ~ApprovedBy(b, t, c.request)
         /\ c.violations = IF c.stamp = "allowed" THEN 0 ELSE 1

(* What holds of a call at each point it waits at.                         *)
Awaited(c) ==
  c.request.contains_body /\ Inspectable(c.request) /\ Admissible(c.request)

Reserving(b, t, c) ==
  /\ b.block /\ "P6" \in b.required
  /\ Clear(c.request) /\ ApprovedBy(b, t, c.request)
  /\ c.verdict = "allow" /\ ~c.spliced.failed

Answered(b, t, c) == BoundBy(b, t, c) /\ SpentBy(b, c) /\ PredictedBy(b, t, c)

CallOK(b, t, c) ==
  /\ c.request \in Requests
  /\ c.at \in {"arrived", "body", "reserve", "done"}
  /\ c.at = "body" => Awaited(c)
  /\ c.at = "reserve" => Reserving(b, t, c)
  /\ c.at = "done" => Answered(b, t, c)

(* A call that waits for its nonce was judged no longer ago than assumed.  *)
AInv ==
  /\ BindingOK(binding) /\ CallOK(binding, judged, call)
  /\ clock \in 0 .. MaxClock /\ judged \in 0 .. clock
  /\ call.at = "reserve" => clock - judged <= MaxStall

-----------------------------------------------------------------------------
(* A denial says nothing of a call in block mode, whatever it answers.     *)
LEMMA DenialOK ==
  ASSUME binding.block, NEW t, NEW request \in Requests, NEW label
  PROVE  CallOK(binding, t, Denial(request, label, 1))
<1> DEFINE c == Denial(request, label, 1)
<1>1. c.request = request /\ c.at = "done" /\ c.flow = "break" /\ c.reserved = FALSE
  BY DEF Denial, Deny
<1> HIDE DEF c
<1>2. CallOK(binding, t, c)
  BY <1>1 DEF CallOK, Answered, BoundBy, SpentBy, PredictedBy
<1>3. QED
  BY <1>2 DEF c

(* A request that is refused is none that is judged.                       *)
LEMMA RefusedOK ==
  ASSUME NEW request \in Requests, ~IsJudged(request), NEW t, NEW label
  PROVE  CallOK(binding, t, Refused(request, label))
<1>1. CASE binding.block
  BY <1>1 DEF Refused, Deny, CallOK, Answered, BoundBy, SpentBy, PredictedBy
<1>2. CASE ~binding.block
  BY <1>2 DEF Refused, Forward, CallOK, Answered, BoundBy, SpentBy, PredictedBy
<1>3. QED
  BY <1>1, <1>2

(* What goes on out of scope is nothing upstream could run.                *)
LEMMA OutOfScopeOK ==
  ASSUME NEW b, NEW t, NEW request \in Requests, ~MayRunTool(request), NEW body
  PROVE  CallOK(b, t, Forward(request, "out-of-scope", body, TRUE, 0))
BY DEF Forward, CallOK, Answered, BoundBy, SpentBy, PredictedBy, IsJudged

LEMMA ReceiveOK == ASSUME AInv, Receive PROVE CallOK(binding, judged, call)'
<1> DEFINE request == call.request
<1>0. request \in Requests /\ UNCHANGED <<binding, judged>>
  BY DEF AInv, CallOK, Receive
<1>1. CASE Exempted(request)
  <2>1. ~MayRunTool(request)
    BY <1>1 DEF Exempted, Exempt, MayRunTool
  <2>2. QED
    BY <1>0, <1>1, <2>1, OutOfScopeOK DEF Exempted
<1>2. CASE RefusedMedia(request)
  <2>1. ~IsJudged(request)
    BY <1>2 DEF RefusedMedia, Inspectable, IsJudged, MayRunTool, Unclear
  <2>2. QED
    BY <1>0, <1>2, <2>1, RefusedOK DEF RefusedMedia
<1>3. CASE RefusedFraming(request)
  <2>1. ~IsJudged(request)
    <3>1. request.declared \in Int /\ request.size \in Nat /\ MaxBody \in Nat
      BY <1>0, RequestsAssumption
    <3>2. request.declared \notin 0 .. MaxBody
      BY <1>3 DEF RefusedFraming, Admissible
    <3>3. ~(request.size = request.declared /\ request.size <= MaxBody)
      BY <3>1, <3>2
    <3>4. QED
      BY <3>3 DEF IsJudged, Unclear
  <2>2. QED
    BY <1>0, <1>3, <2>1, RefusedOK DEF RefusedFraming
<1>4. CASE Buffering(request)
  BY <1>0, <1>4 DEF Buffering, CallOK, Awaited, Inspectable, Admissible
<1>5. QED
  BY <1>1, <1>2, <1>3, <1>4 DEF Receive

(* What the parser makes of a body whose length and framing are right.     *)
LEMMA ParsedMeans ==
  ASSUME NEW request \in Requests, request.contains_body, Inspectable(request),
         request.size = request.declared
  PROVE  /\ Parsed(request.message) \in {"out-of-scope", "response"} => ~MayRunTool(request)
         /\ Parsed(request.message) = "error" => ~IsJudged(request)
         /\ Parsed(request.message) = "tools/call" => Clear(request)
<1> DEFINE message == request.message
<1>1. message.id \in {None, "scalar", "null", "invalid"}
  BY RequestsAssumption
<1>2. Parsed(message) \in {"out-of-scope", "response"} => ~MayRunTool(request)
  BY DEF Parsed, MayRunTool, Unclear, Inspectable, IsToolsCall, None
<1>3. Parsed(message) = "error" => ~IsJudged(request)
  BY <1>1 DEF Parsed, IsJudged, MayRunTool, Unclear, Inspectable, IsToolsCall, None
<1>4. Parsed(message) = "tools/call" => Clear(request)
  BY DEF Parsed, Clear, MayRunTool, Unclear, Inspectable, IsToolsCall, None
<1>5. QED
  BY <1>2, <1>3, <1>4

LEMMA BodyAwaited ==
  ASSUME AInv, call.at = "body" PROVE call.request \in Requests /\ Awaited(call)
BY DEF AInv, CallOK

LEMMA RefuseLengthOK == ASSUME AInv, RefuseLength PROVE CallOK(binding, judged, call)'
<1>1. ~IsJudged(call.request)
  BY DEF RefuseLength, IsJudged, Unclear
<1>2. QED
  BY <1>1, BodyAwaited, RefusedOK DEF RefuseLength

LEMMA PassOutOfScopeOK == ASSUME AInv, PassOutOfScope PROVE CallOK(binding, judged, call)'
<1>1. ~MayRunTool(call.request)
  BY BodyAwaited, ParsedMeans DEF PassOutOfScope, Complete, Awaited
<1>2. QED
  BY <1>1, BodyAwaited, OutOfScopeOK DEF PassOutOfScope, Complete

LEMMA RefuseMalformedOK == ASSUME AInv, RefuseMalformed PROVE CallOK(binding, judged, call)'
<1>1. ~IsJudged(call.request)
  BY BodyAwaited, ParsedMeans DEF RefuseMalformed, Complete, Awaited
<1>2. QED
  BY <1>1, BodyAwaited, RefusedOK DEF RefuseMalformed, Complete

(* The answer under a verdict says of a call that reads in one way only    *)
(* what the verdict says of it.                                            *)
LEMMA AnswerOK ==
  ASSUME NEW request \in Requests, Clear(request), NEW t, NEW verdict, NEW spliced,
         verdict = "allow" <=> ApprovedBy(binding, t, request),
         ~(binding.block /\ "P6" \in binding.required /\ verdict = "allow")
  PROVE  CallOK(binding, t, Answer(request, verdict, spliced))
<1>1. CASE verdict = "allow"
  BY <1>1 DEF Clear, Answer, Forward, CallOK, Answered, BoundBy, SpentBy, PredictedBy
<1>2. CASE verdict # "allow" /\ binding.block
  BY <1>2, DenialOK DEF Answer
<1>3. CASE verdict # "allow" /\ ~binding.block
  BY <1>3 DEF Clear, Answer, Forward, CallOK, Answered, BoundBy, SpentBy, PredictedBy
<1>4. QED
  BY <1>1, <1>2, <1>3

LEMMA JudgedOK ==
  ASSUME NEW request \in Requests, Clear(request), NEW t, NEW verdict, NEW spliced,
         verdict = "allow" <=> ApprovedBy(binding, t, request)
  PROVE  CallOK(binding, t, Judged(request, verdict, spliced))
<1>1. CASE binding.block /\ spliced.failed
  BY <1>1, DenialOK DEF Judged
<1>2. CASE ~(binding.block /\ spliced.failed) /\ Reserves(verdict)
  BY <1>2 DEF Judged, Reserves, CallOK, Reserving
<1>3. CASE ~(binding.block /\ spliced.failed) /\ ~Reserves(verdict)
  BY <1>3, AnswerOK DEF Judged, Reserves
<1>4. QED
  BY <1>1, <1>2, <1>3

LEMMA JudgeOK ==
  ASSUME AInv, NEW set_body \in BOOLEAN, Judge(set_body) PROVE CallOK(binding, judged, call)'
<1> DEFINE request == call.request
<1>1. request \in Requests /\ Clear(request)
  BY BodyAwaited, ParsedMeans DEF Judge, Complete, Awaited
<1>2. Verdict(request) = "allow" <=> ApprovedBy(binding, clock, request)
  BY <1>1, VerdictIsApproval DEF AInv
<1>3. PICK spliced : call' = Judged(request, Verdict(request), spliced)
  BY DEF Judge
<1>4. binding' = binding /\ judged' = clock
  BY DEF Judge
<1>5. QED
  BY <1>1, <1>2, <1>3, <1>4, JudgedOK

(* A nonce is reserved for a call that is approved then, and goes on.      *)
LEMMA ReserveGrantedOK == ASSUME AInv, ReserveGranted PROVE CallOK(binding, judged, call)'
<1>1. /\ call.request \in Requests /\ Reserving(binding, judged, call)
      /\ UNCHANGED <<binding, judged>>
  BY DEF AInv, CallOK, ReserveGranted, Reserve
<1>2. Answer(call.request, call.verdict, call.spliced) =
        Forward(call.request, "allowed", call.spliced.body, HeaderKept, 0)
  BY <1>1 DEF Answer, Reserving
<1>3. call' = [Forward(call.request, "allowed", call.spliced.body, HeaderKept, 0)
                 EXCEPT !.reserved = TRUE]
  BY <1>2 DEF ReserveGranted
<1>4. call'.at = "done" /\ call'.request = call.request /\ call'.flow = "continue"
      /\ call'.reserved = TRUE
  BY <1>3 DEF Forward
<1>5. QED
  BY <1>1, <1>4 DEF CallOK, Answered, BoundBy, SpentBy, PredictedBy, Reserving, Clear

LEMMA ReserveRefusedOK == ASSUME AInv, ReserveRefused PROVE CallOK(binding, judged, call)'
<1>1. call.request \in Requests /\ binding.block /\ UNCHANGED <<binding, judged>>
  BY DEF AInv, CallOK, ReserveRefused, Reserving
<1>2. QED
  BY <1>1, DenialOK DEF ReserveRefused

(* What goes on around a call leaves it as it is, and time passes only     *)
(* while nothing was said of it.                                           *)
LEMMA AroundOK ==
  ASSUME AInv, \/ OtherWorker \/ Tick \/ Again
               \/ \E worker \in Workers : SweepJudges(worker) \/ SweepDeletes(worker)
  PROVE  CallOK(binding, judged, call)'
<1>1. UNCHANGED <<binding, judged>> /\ (UNCHANGED call \/ Again)
  BY DEF OtherWorker, Reserve, Tick, Again, SweepJudges, SweepDeletes
<1>2. CASE Again
  BY <1>1, <1>2 DEF Again, Arrived, AInv, CallOK
<1>3. QED
  BY <1>1, <1>2 DEF AInv

LEMMA InitAInv == Init => AInv
<1>1. SUFFICES ASSUME Init PROVE AInv
  OBVIOUS
<1>2. BindingOK(binding)
  BY <1>1, BindOK DEF Init
<1>3. clock \in 0 .. MaxClock /\ judged \in 0 .. clock /\ call.at # "reserve"
  BY <1>1, ClockAssumption DEF Init, Arrived
<1>4. CallOK(binding, judged, call)
  BY <1>1 DEF Init, Arrived, CallOK
<1>5. QED
  BY <1>2, <1>3, <1>4 DEF AInv

(* Only a call that was just judged comes to wait for its nonce.           *)
LEMMA WaitsJudged ==
  ASSUME AInv, Next, call'.at = "reserve", ~\E set_body \in BOOLEAN : Judge(set_body)
  PROVE  call' = call
<1>1. \A request, label : Refused(request, label).at = "done"
  BY DEF Refused, Deny, Forward
<1>2. \A request, label : Denial(request, label, 1).at = "done"
  BY DEF Denial, Deny
<1>3. \A request, verdict, spliced : Answer(request, verdict, spliced).at = "done"
  BY <1>2 DEF Answer, Forward
<1>4. ~Receive
  BY <1>1 DEF Receive, Exempted, RefusedMedia, RefusedFraming, Buffering, Forward
<1>5. ~(RefuseLength \/ PassOutOfScope \/ RefuseMalformed \/ ReserveRefused \/ Again)
  BY <1>1, <1>2 DEF RefuseLength, PassOutOfScope, RefuseMalformed, ReserveRefused, Again,
                    Arrived, Forward
<1>6. ~ReserveGranted
  <2>1. SUFFICES ASSUME ReserveGranted PROVE FALSE
    OBVIOUS
  <2>2. Answer(call.request, call.verdict, call.spliced) =
          Forward(call.request, "allowed", call.spliced.body, HeaderKept, 0)
    BY <2>1 DEF AInv, CallOK, ReserveGranted, Reserving, Answer
  <2>3. QED
    BY <2>1, <2>2 DEF ReserveGranted, Forward
<1>7. QED
  BY <1>4, <1>5, <1>6 DEF Next, OtherWorker, Tick, SweepJudges, SweepDeletes

LEMMA AInductive == ASSUME AInv, [Next]_vars PROVE AInv'
<1>1. CASE UNCHANGED vars
  BY <1>1 DEF vars, AInv
<1>2. CASE Next
  <2>1. binding' = binding
    BY <1>2 DEF Next, Receive, RefuseLength, PassOutOfScope, RefuseMalformed, Judge,
                ReserveGranted, Reserve, ReserveRefused, OtherWorker, SweepJudges,
                SweepDeletes, Again, Tick
  <2>2. \/ Tick /\ judged' = judged
        \/ clock' = clock /\ judged' = judged /\ ~\E set_body \in BOOLEAN : Judge(set_body)
        \/ clock' = clock /\ judged' = clock
    BY <1>2 DEF Next, Receive, RefuseLength, PassOutOfScope, RefuseMalformed, Judge,
                ReserveGranted, Reserve, ReserveRefused, OtherWorker, SweepJudges,
                SweepDeletes, Again, Tick, storage
  <2>3. clock' \in 0 .. MaxClock /\ judged' \in 0 .. clock'
    BY <2>2, ClockAssumption DEF AInv, Tick
  <2>4. call'.at = "reserve" => clock' - judged' <= MaxStall
    <3>1. CASE Tick
      BY <3>1, StallAssumption, ClockAssumption DEF AInv, Tick, HeldUp
    <3>2. CASE clock' = clock /\ judged' = judged /\ ~\E set_body \in BOOLEAN : Judge(set_body)
      BY <1>2, <3>2, WaitsJudged DEF AInv
    <3>3. CASE clock' = clock /\ judged' = clock
      BY <3>3, StallAssumption, ClockAssumption DEF AInv
    <3>4. QED
      BY <2>2, <3>1, <3>2, <3>3
  <2>5. CallOK(binding, judged, call)'
    BY <1>2, ReceiveOK, RefuseLengthOK, PassOutOfScopeOK, RefuseMalformedOK, JudgeOK,
       ReserveGrantedOK, ReserveRefusedOK, AroundOK DEF Next
  <2>6. QED
    BY <2>1, <2>3, <2>4, <2>5 DEF AInv
<1>3. QED
  BY <1>1, <1>2

LEMMA AlwaysAInv == Spec => []AInv
BY InitAInv, AInductive, PTL DEF Spec

(* In block mode nothing that upstream could run as a tool call goes on    *)
(* unless it reads in one way only and every required predicate holds of it*)
(* (lib.rs:1209, evaluate; lib.rs:1679).                                   *)
THEOREM BoundForwarded == Spec => []ForwardedIsBound
<1>1. AInv => ForwardedIsBound
  BY ByBinding DEF AInv, CallOK, Answered, BoundBy, ForwardedIsBound, Passed, Done
<1>2. QED
  BY <1>1, AlwaysAInv, PTL

(* A nonce is reserved for a call exactly when the call is forwarded in    *)
(* block mode under P6, whatever fails on the way (lib.rs:1215, 1856).     *)
THEOREM NonceSpentOnForwarding == Spec => []NonceSpentExactly
<1>1. AInv => NonceSpentExactly
  BY DEF AInv, CallOK, Answered, SpentBy, NonceSpentExactly, Passed, Done
<1>2. QED
  BY <1>1, AlwaysAInv, PTL

(* Monitor mode forwards everything and reports what block mode would do   *)
(* (lib.rs:1933).                                                          *)
THEOREM MonitorAgrees == Spec => []MonitorPredicts
<1>1. AInv => MonitorPredicts
  BY ByBinding DEF AInv, CallOK, Answered, PredictedBy, MonitorPredicts, Passed, Done
<1>2. QED
  BY <1>1, AlwaysAInv, PTL

-----------------------------------------------------------------------------
(* The approval can be presented no more, and no call for it is under way. *)
Gone(approval) == clock > Deadline(approval, binding) + MaxStall

(* What is stored under a nonce that is an approval's alone is its expiry; *)
(* what is to be deleted there is gone; and the approval, once used, is    *)
(* stored while it can come.                                               *)
UsedOnce(approval) ==
  LET nonce == approval.nonce
  IN  /\ nonce \in DOMAIN store =>
           approval.not_after \in Nat /\ store[nonce] = NonceExpiry(approval)
      /\ \A worker \in Workers : doomed[worker] = nonce /\ nonce # None => Gone(approval)
      /\ uses[approval] <= 1
      /\ uses[approval] > 0 => nonce \in DOMAIN store \/ Gone(approval)

UInv ==
  /\ uses \in [Presented -> Nat]
  /\ doomed = [worker \in Workers |-> doomed[worker]]
  /\ \A approval \in Presented : Alone(approval) => UsedOnce(approval)

LEMMA InitUInv == Init => UInv
BY DEF Init, UInv, UsedOnce, None

(* An expiry a sweep finds due is that of an approval that is gone.        *)
LEMMA DueIsGone ==
  ASSUME AInv, MaxStall <= Second, NEW approval, approval.not_after \in Nat,
         SweepDue(clock \div Second, NonceExpiry(approval))
  PROVE  Gone(approval)
<1> DEFINE last == Deadline(approval, binding)
           d == last \div Second
           now == clock \div Second
<1>1. /\ last \in Nat /\ clock \in Nat /\ Second \in Nat \ {0} /\ MaxStall \in Nat
  BY StallAssumption, ClockAssumption, LimitsAssumption DEF AInv, BindingOK, Deadline
<1>2. NonceExpiry(approval) = d /\ now > d + 1
  BY DEF NonceExpiry, SweepDue
<1> HIDE DEF last
<1>3. d \in Nat /\ last < d * Second + Second
  BY <1>1
<1>4. now \in Nat /\ now * Second <= clock
  BY <1>1
<1> HIDE DEF d, now
<1>5. now = (d + 2) + (now - d - 2) /\ now - d - 2 \in Nat
  BY <1>2, <1>3, <1>4
<1>6. now * Second >= (d + 2) * Second
  BY <1>1, <1>3, <1>5
<1>7. (d + 2) * Second = d * Second + Second + Second
  BY <1>1, <1>3
<1>8. clock > last + MaxStall
  BY <1>1, <1>3, <1>4, <1>6, <1>7
<1>9. QED
  BY <1>8 DEF Gone, last

(* An approval is reserved, not long after it was fresh, where there is no *)
(* reservation of its nonce.                                               *)
LEMMA ReserveUInv ==
  ASSUME UInv, NEW approval \in Presented, Reserve(approval), approval.not_after \in Nat,
         ~Gone(approval)
  PROVE  UInv'
<1> DEFINE nonce == approval.nonce
<1>1. /\ nonce \notin DOMAIN store
      /\ DOMAIN store' = DOMAIN store \cup {nonce}
      /\ store'[nonce] = NonceExpiry(approval)
      /\ \A n \in DOMAIN store : store'[n] = store[n]
      /\ uses' = [uses EXCEPT ![approval] = @ + 1]
      /\ UNCHANGED <<binding, doomed, clock>>
  BY DEF Reserve
<1>2. uses \in [Presented -> Nat] /\ uses' \in [Presented -> Nat]
  BY <1>1 DEF UInv
<1>3. \A a : NonceExpiry(a)' = NonceExpiry(a) /\ (Gone(a)' <=> Gone(a))
  BY <1>1 DEF NonceExpiry, Gone, Deadline
<1>4. ASSUME NEW a \in Presented, Alone(a) PROVE UsedOnce(a)'
  <2>1. UsedOnce(a)
    BY <1>4 DEF UInv
  <2>2. CASE a = approval
    <3>1. uses[a] = 0 /\ uses'[a] = 1
      BY <1>1, <1>2, <2>1, <2>2 DEF UsedOnce
    <3>2. QED
      BY <1>1, <1>3, <2>1, <2>2, <3>1 DEF UsedOnce
  <2>3. CASE a # approval
    <3>1. a.nonce # nonce /\ uses'[a] = uses[a]
      BY <1>1, <1>2, <1>4, <2>3 DEF Alone
    <3>2. QED
      BY <1>1, <1>3, <2>1, <3>1 DEF UsedOnce
  <2>4. QED
    BY <2>2, <2>3
<1>5. QED
  BY <1>1, <1>2, <1>4 DEF UInv, Alone

LEMMA GrantedUInv == ASSUME AInv, UInv, ReserveGranted PROVE UInv'
<1> DEFINE approval == Nonce(call.request)
<1>1. call.request \in Requests /\ Reserving(binding, judged, call)
  BY DEF AInv, CallOK, ReserveGranted
<1>2. EnvelopeBy(binding, call.request).approval = approval
  BY ByBinding DEF Nonce
<1>3. EnvelopeBy(binding, call.request).readable /\ Current(binding, approval, judged)
  BY <1>1, <1>2 DEF AInv, BindingOK, Reserving, ApprovedBy
<1>4. approval \in Presented
  BY <1>1, <1>2, <1>3, EnvelopeCarried, PresentedAssumption
<1>5. /\ approval.not_after \in Nat /\ judged <= approval.not_after + binding.clock_skew
      /\ clock - judged <= MaxStall
  BY <1>3, <1>4, PresentedAssumption DEF Current, ReserveGranted, AInv, Absent, Unparsed
<1>6. ~Gone(approval)
  BY <1>5, StallAssumption, ClockAssumption, LimitsAssumption
     DEF Gone, Deadline, AInv, BindingOK
<1>7. QED
  BY <1>4, <1>5, <1>6, ReserveUInv DEF ReserveGranted

LEMMA OtherUInv == ASSUME AInv, UInv, OtherWorker PROVE UInv'
<1>1. PICK approval \in Rivals, since \in 0 .. clock :
        clock - since <= MaxStall /\ Fresh(approval, binding, since) /\ Reserve(approval)
  BY DEF OtherWorker
<1>2. approval \in Presented /\ approval.not_after \in Nat
  BY <1>1, PresentedAssumption DEF Fresh
<1>3. since <= Deadline(approval, binding)
  BY <1>1, <1>2, ClockAssumption, LimitsAssumption DEF Fresh, Deadline, AInv, BindingOK
<1>4. ~Gone(approval)
  BY <1>1, <1>2, <1>3, StallAssumption, ClockAssumption, LimitsAssumption
     DEF Gone, Deadline, AInv, BindingOK
<1>5. QED
  BY <1>1, <1>2, <1>4, ReserveUInv

LEMMA JudgesUInv ==
  ASSUME AInv, UInv, MaxStall <= Second, NEW worker \in Workers, SweepJudges(worker)
  PROVE  UInv'
<1>1. PICK nonce \in DOMAIN store :
        /\ SweepDue(clock \div Second, store[nonce])
        /\ doomed' = [doomed EXCEPT ![worker] = nonce]
  BY DEF SweepJudges
<1>2. UNCHANGED <<binding, store, clock, uses>>
  BY DEF SweepJudges
<1>3. /\ doomed' = [w \in Workers |-> doomed'[w]]
      /\ \A w \in Workers : doomed'[w] = IF w = worker THEN nonce ELSE doomed[w]
  BY <1>1 DEF UInv
<1>4. \A a : NonceExpiry(a)' = NonceExpiry(a) /\ (Gone(a)' <=> Gone(a))
  BY <1>2 DEF NonceExpiry, Gone, Deadline
<1>5. ASSUME NEW a \in Presented, Alone(a) PROVE UsedOnce(a)'
  <2>1. UsedOnce(a)
    BY <1>5 DEF UInv
  <2>2. a.nonce = nonce => Gone(a)
    BY <1>1, <2>1, DueIsGone DEF UsedOnce
  <2>3. QED
    BY <1>2, <1>3, <1>4, <2>1, <2>2 DEF UsedOnce
<1>6. QED
  BY <1>2, <1>3, <1>5 DEF UInv, Alone

LEMMA DeletesUInv ==
  ASSUME AInv, UInv, NEW worker \in Workers, SweepDeletes(worker) PROVE UInv'
<1> DEFINE nonce == doomed[worker]
<1>1. /\ nonce # None
      /\ doomed' = [doomed EXCEPT ![worker] = None]
      /\ UNCHANGED <<binding, clock, uses>>
  BY DEF SweepDeletes
<1>2. /\ DOMAIN store' \subseteq DOMAIN store /\ DOMAIN store \ {nonce} \subseteq DOMAIN store'
      /\ \A n \in DOMAIN store' : store'[n] = store[n]
  BY DEF SweepDeletes, Restrict
<1>3. /\ doomed' = [w \in Workers |-> doomed'[w]]
      /\ \A w \in Workers : doomed'[w] = IF w = worker THEN None ELSE doomed[w]
  BY <1>1 DEF UInv
<1>4. \A a : NonceExpiry(a)' = NonceExpiry(a) /\ (Gone(a)' <=> Gone(a))
  BY <1>1 DEF NonceExpiry, Gone, Deadline
<1> HIDE DEF nonce
<1>5. ASSUME NEW a \in Presented, Alone(a) PROVE UsedOnce(a)'
  <2>1. UsedOnce(a)
    BY <1>5 DEF UInv
  <2>2. a.nonce = nonce => Gone(a)
    BY <1>1, <2>1 DEF UsedOnce, nonce
  <2>3. QED
    BY <1>1, <1>2, <1>3, <1>4, <2>1, <2>2 DEF UsedOnce
<1>6. QED
  BY <1>1, <1>3, <1>5 DEF UInv, Alone

LEMMA UInductive ==
  ASSUME AInv, UInv, MaxStall <= Second, [Next]_vars PROVE UInv'
<1>1. CASE Tick
  <2>1. clock' = clock + 1 /\ UNCHANGED <<binding, store, doomed, uses>>
    BY <1>1 DEF Tick, storage
  <2>2. \A a : NonceExpiry(a)' = NonceExpiry(a)
    BY <2>1 DEF NonceExpiry, Deadline
  <2>3. \A a \in Presented : a.not_after \in Int
    BY PresentedAssumption DEF Absent, Unparsed
  <2>4. \A a \in Presented : Gone(a) => Gone(a)'
    BY <2>1, <2>3, StallAssumption, ClockAssumption, LimitsAssumption
       DEF Gone, Deadline, AInv, BindingOK
  <2>5. QED
    BY <2>1, <2>2, <2>4 DEF UInv, UsedOnce, Alone
<1>2. CASE \/ Receive \/ RefuseLength \/ PassOutOfScope \/ RefuseMalformed
           \/ (\E set_body \in BOOLEAN : Judge(set_body))
           \/ ReserveRefused \/ Again \/ UNCHANGED vars
  <2>1. UNCHANGED <<binding, store, doomed, uses, clock>>
    BY <1>2 DEF Receive, RefuseLength, PassOutOfScope, RefuseMalformed, Judge, ReserveRefused,
                Again, vars, storage
  <2>2. QED
    BY <2>1 DEF UInv, UsedOnce, Alone, NonceExpiry, Gone, Deadline
<1>3. QED
  BY <1>1, <1>2, GrantedUInv, OtherUInv, JudgesUInv, DeletesUInv DEF Next

(* A nonce that was reserved for a call is one that was used.              *)
Counted ==
  call.at = "done" /\ call.reserved =>
    LET approval == EnvelopeBy(binding, call.request).approval
    IN  approval \in Presented /\ uses[approval] > 0

LEMMA CountedWhenGranted ==
  ASSUME AInv, UInv, ReserveGranted PROVE Counted'
<1> DEFINE approval == EnvelopeBy(binding, call.request).approval
<1>1. Nonce(call.request) = approval
  BY ByBinding DEF Nonce
<1>2. call.request \in Requests /\ EnvelopeBy(binding, call.request).readable
  BY DEF AInv, CallOK, Reserving, ApprovedBy, ReserveGranted
<1>3. approval \in Presented /\ uses \in [Presented -> Nat]
  BY <1>2, EnvelopeCarried, PresentedAssumption DEF UInv
<1>4. uses' = [uses EXCEPT ![approval] = uses[approval] + 1]
  BY <1>1 DEF ReserveGranted, Reserve
<1>5. binding' = binding /\ call'.request = call.request
  BY DEF ReserveGranted, Reserve, Answer, Forward, Denial, Deny
<1> HIDE DEF approval
<1>6. uses'[approval] > 0
  BY <1>3, <1>4
<1>7. EnvelopeBy(binding', call'.request).approval = approval
  BY <1>5 DEF approval
<1>8. QED
  BY <1>3, <1>6, <1>7 DEF Counted

(* No other step ends a call with its nonce reserved.                      *)
LEMMA NotReserved ==
  ASSUME \/ Receive \/ RefuseLength \/ PassOutOfScope \/ RefuseMalformed
         \/ (\E set_body \in BOOLEAN : Judge(set_body)) \/ ReserveRefused \/ Again
  PROVE  ~(call'.at = "done" /\ call'.reserved)
<1> DEFINE spends(c) == c.at = "done" /\ c.reserved
<1>1. /\ \A request, label : ~spends(Refused(request, label))
      /\ \A request, label : ~spends(Denial(request, label, 1))
      /\ \A request, verdict, spliced : ~spends(Answer(request, verdict, spliced))
      /\ \A request, body : ~spends(Forward(request, "out-of-scope", body, TRUE, 0))
      /\ \A request : ~spends([at |-> "body", request |-> request])
      /\ \A request : ~spends([at |-> "arrived", request |-> request])
      /\ \A request, verdict, spliced :
           ~spends([at |-> "reserve", request |-> request, verdict |-> verdict,
                    spliced |-> spliced])
  BY DEF Refused, Denial, Answer, Forward, Deny
<1> HIDE DEF spends
<1>2. \A request, verdict, spliced : ~spends(Judged(request, verdict, spliced))
  BY <1>1 DEF Judged
<1>3. ASSUME Receive PROVE ~spends(call')
  BY <1>1, <1>3 DEF Receive, Exempted, RefusedMedia, RefusedFraming, Buffering
<1>4. ASSUME RefuseLength \/ PassOutOfScope \/ RefuseMalformed \/ ReserveRefused \/ Again
      PROVE  ~spends(call')
  BY <1>1, <1>4 DEF RefuseLength, PassOutOfScope, RefuseMalformed, ReserveRefused, Again, Arrived
<1>5. ASSUME NEW set_body \in BOOLEAN, Judge(set_body) PROVE ~spends(call')
  BY <1>2, <1>5 DEF Judge
<1>6. ~spends(call')
  BY <1>3, <1>4, <1>5
<1>7. QED
  BY <1>6 DEF spends

LEMMA CountedAround ==
  ASSUME UInv, Counted, \/ OtherWorker \/ Tick \/ UNCHANGED vars
                        \/ \E worker \in Workers : SweepJudges(worker) \/ SweepDeletes(worker)
  PROVE  Counted'
<1>1. UNCHANGED <<binding, call>>
  BY DEF OtherWorker, Reserve, SweepJudges, SweepDeletes, Tick, vars
<1>2. uses' = uses \/ \E approval : uses' = [uses EXCEPT ![approval] = uses[approval] + 1]
  BY DEF OtherWorker, Reserve, SweepJudges, SweepDeletes, Tick, vars, storage
<1>3. \A approval \in Presented : uses[approval] > 0 => uses'[approval] > 0
  BY <1>2 DEF UInv
<1>4. QED
  BY <1>1, <1>3 DEF Counted

LEMMA CountedInductive ==
  ASSUME AInv, UInv, Counted, [Next]_vars PROVE Counted'
<1>1. CASE \/ Receive \/ RefuseLength \/ PassOutOfScope \/ RefuseMalformed
           \/ (\E set_body \in BOOLEAN : Judge(set_body)) \/ ReserveRefused \/ Again
  BY <1>1, NotReserved DEF Counted
<1>2. QED
  BY <1>1, CountedWhenGranted, CountedAround DEF Next

(* As long as no call waits for the store longer than a second after it was*)
(* judged, a call that goes on in block mode under P6 has used its         *)
(* approval, and one that shares its nonce with no other was used for that *)
(* call alone (lib.rs:1889, 1547).                                         *)
THEOREM ForwardsOnce ==
  ASSUME MaxStall <= Second PROVE Spec => []ForwardedOnce
<1>1. Init => Counted
  BY DEF Init, Arrived, Counted
<1>2. AInv /\ UInv /\ [Next]_vars => UInv'
  BY UInductive
<1>3. AInv /\ UInv /\ Counted => ForwardedOnce
  <2>1. SUFFICES ASSUME AInv, UInv, Counted, Passed, binding.block, "P6" \in binding.required,
                        MayRunTool(call.request)
                 PROVE  /\ uses[Nonce(call.request)] > 0
                        /\ Alone(Nonce(call.request)) => uses[Nonce(call.request)] = 1
    BY DEF ForwardedOnce
  <2>2. call.at = "done" /\ call.reserved
    BY <2>1 DEF AInv, CallOK, Answered, SpentBy, Passed, Done
  <2>3. Nonce(call.request) \in Presented /\ uses[Nonce(call.request)] > 0
    BY <2>1, <2>2, ByBinding DEF Counted, Nonce
  <2>4. QED
    BY <2>1, <2>3 DEF UInv, UsedOnce
<1>4. QED
  BY <1>1, <1>2, <1>3, AlwaysAInv, InitUInv, CountedInductive, PTL DEF Spec
=============================================================================
