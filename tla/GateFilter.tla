------------------------------ MODULE GateFilter ------------------------------
(***************************************************************************)
(* The filter of aggregate-risk-gate/src/lib.rs: how calls in flight on one*)
(* gate, under any configuration it starts with, are identified, priced,   *)
(* admitted against the ledger or refused in the request phase, and settled*)
(* in the response phase.  A call waits for its body and for its upstream; *)
(* meanwhile the other calls go on and time passes.  The ledger is what    *)
(* ExposureLedger promises.                                                *)
(*                                                                         *)
(* A request is what the filter reads of it:                               *)
(*   contains_body, declared, size, media, encoded  the framing;           *)
(*   auth     the authentication data: client_id, principal, property;     *)
(*   headers  the values of the identity header;                           *)
(*   body     as GatePricing describes;                                    *)
(* and who really sent it, for the properties.                             *)
(*                                                                         *)
(* An operator whose name ends in _No... or _With... is a mutant: the      *)
(* mistaken form of the definition that follows it.                        *)
(***************************************************************************)
EXTENDS GatePricing, FiniteSets, FiniteSetsExt

CONSTANTS Slots,       \* names of the calls
          Configs,     \* configurations offered to the policy
          Arrivals,    \* the requests that may arrive: slot -> request
          Statuses,    \* upstream's HTTP statuses
          Folded,      \* a well-formed identity, as spelled -> as canonical
          MaxBody,     \* MAX_INSPECT_BYTES
          Ttl,         \* reservationTimeoutMs
          MaxClock     \* bound: the last instant reached

ASSUME SlotsAssumption == IsFiniteSet(Slots) /\ \A a \in Arrivals : DOMAIN a = Slots

(* The requests that may come.                                             *)
Arriving == {a[slot] : a \in Arrivals, slot \in Slots}

ASSUME ItemsAssumption ==
  \A request \in Arriving : request.body.items \in Seq(ItemType)

(* None and Invalid are no method's name.                                  *)
ASSUME MethodsAssumption ==
  \A config \in Configs : ToSet(config.governed_methods) \cap {None, Invalid} = {}

(* A well-formed identity, however it is spelled and wherever it is given, *)
(* is that of who sent the request: the gateway authenticated it, or a     *)
(* trusted hop set the header.                                             *)
ASSUME IdentityAssumption ==
  \A request \in Arriving :
    /\ DOMAIN request.auth = {"client_id", "principal", "property"}
    /\ request.headers \in Seq(STRING)
    /\ \A raw \in {request.auth[field] : field \in DOMAIN request.auth}
                   \cup (IF Len(request.headers) = 1 THEN ToSet(request.headers) ELSE {}) :
         raw \in DOMAIN Folded => Folded[raw] = request.who

ASSUME TimeAssumption == Ttl \in Nat \ {0} /\ MaxClock \in Nat

(* A response has a final status.                                          *)
ASSUME StatusesAssumption == Statuses \subseteq 200 .. 599

VARIABLES gate,        \* the Gate of the configuration in force
          calls,       \* slot -> its call, and how far it is
          rules, entries, clock    \* the ledger

ledger == <<rules, entries, clock>>
vars == <<gate, calls, rules, entries, clock>>

Blank   == ""
Missing == "(missing)"
Shared  == "*"

Ledger == INSTANCE ExposureLedger
            WITH Ids <- Slots, Scopes <- {Folded[raw] : raw \in DOMAIN Folded}
                                           \cup {Missing, Invalid, Shared},
                 Costs <- 0 .. MaxUnits, Window <- 0, Lag <- 0

-----------------------------------------------------------------------------
(* The configurations from_config_with accepts.                            *)
Contributions == {"fixed-weight", "estimated-token-weight", "spend-amount"}

ValidMethods(methods) ==
  /\ methods # <<>> /\ ToSet(methods) \cap {Blank, "*"} = {}
  /\ Cardinality(ToSet(methods)) = Len(methods)

ValidIdentity(config) ==
  \/ config.budget_scope = "fabric"
  \/ /\ config.identity_source = "authentication"
     /\ config.identity_field \in {"client_id", "principal", "property"}
  \/ config.identity_source = "trusted-header" /\ config.scope_header # Blank

ValidLedger(config) ==
  /\ config.on_reservation_timeout \in {"auto", "commit", "release"}
  /\ config.ledger_backend \in {"node", "worker"}
  /\ config.ledger_namespace # Blank => config.ledger_backend = "node"

Valid(config) ==
  /\ config.budget_scope \in {"agent", "fabric", "tenant"}
  /\ config.contribution \in Contributions
  /\ config.mode \in {"block", "monitor"}
  /\ config.on_deny \in {"rpc-error", "empty-403"}
  /\ \A amount \in {"aggregate_budget", "fixed_weight", "estimated_tokens"} :
       config[amount] \in 0 .. MaxUnits
  /\ ValidIdentity(config) /\ ValidLedger(config)
  /\ config.contribution = "spend-amount" => config.spend_amount_field # Blank
  /\ ValidMethods(config.governed_methods)

Build(config) ==
  [source |-> IF config.budget_scope = "fabric" THEN "shared" ELSE config.identity_source,
   field |-> config.identity_field, contribution |-> config.contribution,
   fixed_weight |-> config.fixed_weight, estimated_tokens |-> config.estimated_tokens,
   governed_methods |-> ToSet(config.governed_methods),
   rpc_error |-> config.on_deny = "rpc-error"]

Provisional(config) ==
  \/ config.on_reservation_timeout = "commit"
  \/ config.on_reservation_timeout = "auto" /\ config.mode = "block"

Init ==
  /\ \E config \in Configs :
       /\ Valid(config)
       /\ gate = Build(config)
       /\ rules = [block |-> config.mode = "block", budget |-> config.aggregate_budget,
                   provisional |-> Provisional(config)]
  /\ calls \in {[slot \in Slots |-> [at |-> "arrived", request |-> arrival[slot]]] :
                  arrival \in Arrivals}
  /\ entries = <<>> /\ clock = 0

-----------------------------------------------------------------------------
Canonical_NoFold(raw) ==
  CASE raw \in {None, Blank} -> Missing
    [] raw \in DOMAIN Folded -> raw
    [] OTHER -> Invalid

(* canonical_identity: trimmed, of one case, or not an identity.           *)
Canonical(raw) ==
  CASE raw \in {None, Blank} -> Missing
    [] raw \in DOMAIN Folded -> Folded[raw]
    [] OTHER -> Invalid

(* The key of the scope a request is charged to, Missing or Invalid.       *)
Identity(request) ==
  CASE gate.source = "shared" -> Shared
    [] gate.source = "authentication" -> Canonical(request.auth[gate.field])
    [] OTHER -> CASE Len(request.headers) = 0 -> Missing
                  [] Len(request.headers) = 1 -> Canonical(request.headers[1])
                  [] OTHER -> Invalid

(* request_is_inspectable, from the headers alone.                         *)
Inspectable(request) ==
  /\ request.declared \in 0 .. MaxBody
  /\ request.media \in {"json", "json;charset=utf-8"}
  /\ ~request.encoded

(* The ways the request phase ends.                                        *)
Continue(slot, reserved, violations) ==
  calls' = [calls EXCEPT ![slot] =
              [at |-> "upstream", request |-> @.request, reserved |-> reserved,
               violations |-> violations, since |-> clock]]

Break(slot, raw, violations) ==
  calls' = [calls EXCEPT ![slot] =
              [at |-> "denied", request |-> @.request, violations |-> violations,
               answer |-> DenyResponse(gate, raw, @.request.body)]]

Outcome(slot, raw) == ComputeContribution(gate, raw, calls[slot].request.body)

Refuses_NoExemption(slot, raw) ==
  /\ rules.block
  /\ Identity(calls[slot].request) \in {Missing, Invalid} \/ Outcome(slot, raw) < Ungoverned

(* Block mode refuses a governed call that has no identity or no price.    *)
Refuses(slot, raw) ==
  /\ rules.block
  /\ Outcome(slot, raw) # Ungoverned
  /\ \/ Identity(calls[slot].request) \in {Missing, Invalid}
     \/ Outcome(slot, raw) \in {Unpriceable, OutOfRange}

(* The stages of decide.                                                   *)
PassUngoverned(slot, raw) ==
  /\ Outcome(slot, raw) = Ungoverned
  /\ Continue(slot, FALSE, 0)
  /\ UNCHANGED <<gate, ledger>>

Refuse(slot, raw) ==
  /\ Refuses(slot, raw)
  /\ Break(slot, raw, 0)
  /\ UNCHANGED <<gate, ledger>>

(* Monitor mode forwards what it cannot price, and holds nothing for it.   *)
PassUnpriced(slot, raw) ==
  /\ ~rules.block
  /\ Outcome(slot, raw) \in {Unpriceable, OutOfRange}
  /\ Continue(slot, FALSE, 0)
  /\ UNCHANGED <<gate, ledger>>

Breached_NoReserved(scope) == Ledger!Exposure(scope) > rules.budget

(* The breach force_reserve_checked reports, of the exposure it leaves.    *)
Breached(scope) == Ledger!Exposure(scope)' > rules.budget

(* admit: the ledger takes the call at instant now, in monitor mode over   *)
(* the budget too.                                                         *)
Admit(slot, raw, now) ==
  /\ ~Refuses(slot, raw) /\ Outcome(slot, raw) >= 0
  /\ \E scope \in {Identity(calls[slot].request)} :
       /\ Ledger!Admit(slot, scope, Outcome(slot, raw), now)
       /\ Continue(slot, TRUE, IF ~rules.block /\ Breached(scope) THEN 1 ELSE 0)
  /\ UNCHANGED gate

(* admit: the ledger refuses, over budget, full, contended or unavailable. *)
AdmitRefused(slot, raw) ==
  /\ ~Refuses(slot, raw) /\ Outcome(slot, raw) >= 0
  /\ IF rules.block THEN Break(slot, raw, 1) ELSE Continue(slot, FALSE, 1)
  /\ UNCHANGED <<gate, ledger>>

Decide(slot, raw, now) ==
  \/ PassUngoverned(slot, raw)
  \/ Refuse(slot, raw)
  \/ PassUnpriced(slot, raw)
  \/ Admit(slot, raw, now)
  \/ AdmitRefused(slot, raw)

-----------------------------------------------------------------------------
(* The header phase of request_filter: the call is decided at once when    *)
(* there is no body, or none that may be read, and waits for it otherwise. *)
DecideAtHeaders(slot) ==
  LET request == calls[slot].request
  IN  /\ calls[slot].at = "arrived"
      /\ ~(request.contains_body /\ Inspectable(request))
      /\ Decide(slot, IF request.contains_body THEN "uninspectable" ELSE "absent", clock)

AwaitBody(slot) ==
  /\ calls[slot].at = "arrived"
  /\ calls[slot].request.contains_body /\ Inspectable(calls[slot].request)
  /\ calls' = [calls EXCEPT ![slot] = [at |-> "body", request |-> @.request, seen |-> clock]]
  /\ UNCHANGED <<gate, ledger>>

Instant_WithHeaderClock(slot) == calls[slot].seen

(* The admission instant, read again once the whole body has arrived.      *)
Instant(slot) == clock

DecideOnBody(slot) ==
  /\ calls[slot].at = "body"
  /\ Decide(slot, IF calls[slot].request.size <= MaxBody THEN "present" ELSE "uninspectable",
            Instant(slot))

IsSuccess_NoRedirect(status) == status \in 200 .. 299

IsSuccess(status) == status \in 200 .. 399

(* response_filter: the reservation settles by the status alone.           *)
Respond(slot, status) ==
  /\ calls[slot].at = "upstream"
  /\ IF calls[slot].reserved THEN Ledger!Settle(slot, IsSuccess(status))
     ELSE UNCHANGED ledger
  /\ calls' = [calls EXCEPT ![slot] =
                 [at |-> "answered", request |-> @.request, reserved |-> @.reserved,
                  violations |-> @.violations, since |-> @.since,
                  status |-> status, answered |-> clock]]
  /\ UNCHANGED gate

(* No response ever comes: the client or the upstream is gone.             *)
Lose(slot) ==
  /\ calls[slot].at = "upstream"
  /\ calls' = [calls EXCEPT ![slot].at = "lost"]
  /\ UNCHANGED <<gate, ledger>>

(* The ledger reclaims what is overdue when other scopes' calls touch it.  *)
Reclaim ==
  /\ Ledger!Age
  /\ UNCHANGED <<gate, calls>>

Tick ==
  /\ clock < MaxClock
  /\ Ledger!Tick
  /\ UNCHANGED <<gate, calls>>

Next ==
  \/ \E slot \in Slots :
       \/ DecideAtHeaders(slot)
       \/ AwaitBody(slot)
       \/ DecideOnBody(slot)
       \/ \E status \in Statuses : Respond(slot, status)
       \/ Lose(slot)
  \/ Reclaim
  \/ Tick

Spec == Init /\ [][Next]_vars

-----------------------------------------------------------------------------
Forwarded(slot) == calls[slot].at \in {"upstream", "answered", "lost"}

(* What upstream may make of a request: it runs an item whose method is a  *)
(* governed one, or one it may take for that, whatever else is in the item.*)
Runs(item) == ~item.object \/ item.method \in gate.governed_methods \cup {Invalid}

ItemWeight(item) ==
  CASE gate.contribution = "fixed-weight" -> gate.fixed_weight
    [] gate.contribution = "estimated-token-weight" -> gate.estimated_tokens
    [] OTHER -> item.amount

Weight(request) ==
  SumFunction([i \in DOMAIN request.body.items |->
                 LET item == request.body.items[i]
                 IN  IF Runs(item) THEN ItemWeight(item) ELSE 0])

(* There is one way to read the body, and it is read.                      *)
Readable(request) ==
  /\ request.size <= MaxBody /\ request.declared \in 0 .. MaxBody
  /\ request.media \in {"json", "json;charset=utf-8"} /\ ~request.encoded
  /\ Strict(request.body)

MayRun(request) ==
  /\ request.contains_body
  /\ ~Readable(request) \/ \E item \in ToSet(request.body.items) : Runs(item)

(* Whom a request's exposure counts against.                               *)
Party(request) == IF gate.source = "shared" THEN Shared ELSE request.who

(* "death by a thousand authorized cuts" (lib.rs:3): in block mode, where  *)
(* an expired hold stays charged, the calls that one party got through and *)
(* that are in flight, were answered with success or never answered cost at*)
(* most the budget together, however they are batched, spelled, raced and  *)
(* settled.                                                                *)
AggregateHeld ==
  rules.block /\ rules.provisional =>
    \A party \in {Party(calls[slot].request) : slot \in Slots} :
      LET counted == {slot \in Slots :
            LET call == calls[slot]
            IN  /\ Forwarded(slot) /\ MayRun(call.request) /\ Party(call.request) = party
                /\ call.at = "answered" => call.status < 400}
      IN  SumFunction([slot \in counted |-> Weight(calls[slot].request)]) <= rules.budget

(* In block mode nothing that may run a governed call is forwarded unless  *)
(* it can be read in one way, its party is known and its whole weight is   *)
(* reserved, for the whole timeout from the moment it is forwarded         *)
(* (lib.rs:1292, "the admission instant"; lib.rs:938, "fail closed").      *)
ForwardedIsReserved ==
  \A slot \in Slots :
    LET call == calls[slot]
    IN  rules.block /\ Forwarded(slot) /\ MayRun(call.request) =>
          /\ Readable(call.request) /\ call.reserved
          /\ entries[slot].scope = Party(call.request)
          /\ entries[slot].units >= Weight(call.request)
          /\ entries[slot].deadline = call.since + Ttl

(* A call has an entry in the ledger exactly when it was forwarded with a  *)
(* reservation; while the ledger knows it, it is charged in the end if and *)
(* only if its own upstream answered it with success, whatever else lapses,*)
(* is reclaimed or settles around it (lib.rs:1376).                        *)
SettledAsAnswered ==
  \A slot \in Slots :
    LET call == calls[slot]
    IN  /\ slot \in DOMAIN entries <=> Forwarded(slot) /\ call.reserved
        /\ call.at = "answered" /\ slot \in DOMAIN entries
             /\ call.answered < entries[slot].deadline + Ttl /\ entries[slot].units > 0 =>
               (entries[slot].charged # Ledger!Uncharged <=> call.status < 400)

(* Surely not a governed call: an MCP handshake, a listing, a notification,*)
(* a client's answer, a request without a body.                            *)
Harmless(request) ==
  \/ ~request.contains_body
  \/ /\ Readable(request) /\ request.body.items # <<>>
     /\ \A item \in ToSet(request.body.items) :
          /\ item.object /\ item.jsonrpc
          /\ \/ item.method \notin gate.governed_methods \cup {None, Invalid}
             \/ item.method = None /\ item.id # None /\ item.result # item.error

(* "never refused, even with no identity or an exhausted budget, and never *)
(* touches the ledger" (lib.rs:1214).                                      *)
HarmlessPasses ==
  \A slot \in Slots :
    Harmless(calls[slot].request) /\ calls[slot].at \notin {"arrived", "body"} =>
      /\ Forwarded(slot) /\ ~calls[slot].reserved
      /\ calls[slot].violations = 0

(* How often an id occurs in a sequence of ids.                            *)
Times(id, ids) == Cardinality({i \in DOMAIN ids : ids[i] = id})

IsRequest(item) ==
  item.object /\ item.jsonrpc /\ item.method \notin {None, Invalid} /\ item.id # Invalid

(* A denied body of JSON-RPC messages is answered in band: every request's *)
(* id gets exactly one error, a notification none, and a client's answer,  *)
(* which carries the server's id, none either; a body of anything else is  *)
(* told nothing (lib.rs:349; README.md:222).                               *)
RequestsAnswered ==
  \A slot \in Slots :
    LET call == calls[slot]
        body == call.request.body
        asked == {item \in ToSet(body.items) : IsRequest(item)}
        ids == [i \in DOMAIN body.items |->
                  IF IsRequest(body.items[i]) THEN body.items[i].id ELSE None]
        spoken == /\ gate.rpc_error /\ call.request.contains_body /\ Readable(call.request)
                  /\ body.items # <<>>
                  /\ \A item \in ToSet(body.items) :
                       IsRequest(item) \/ (body.batch /\ IsJsonRpcResponse(item))
    IN  call.at = "denied" =>
          IF spoken
          THEN /\ \A id \in ToSet(ids) \cup ToSet(call.answer.ids) :
                    id # None => Times(id, call.answer.ids) = Times(id, ids)
               /\ call.answer.status = IF \A item \in asked : item.id = None THEN 202 ELSE 200
          ELSE call.answer = [status |-> 403, ids |-> <<>>]

(* Monitor mode denies nothing, and no party's calls compose past the      *)
(* budget without a policy violation; calls charged only after their hold  *)
(* had expired aside, which nothing reports (lib.rs:1168, "the composition *)
(* breach is real and must be visible").                                   *)
BreachReported ==
  ~rules.block =>
    /\ \A slot \in Slots : calls[slot].at # "denied"
    /\ \A scope \in {entries[slot].scope : slot \in DOMAIN entries} :
         LET own  == {slot \in DOMAIN entries : entries[slot].scope = scope}
             late == {slot \in own : /\ calls[slot].at = "answered"
                                     /\ calls[slot].answered >= entries[slot].deadline}
         IN  Ledger!Exposure(scope) > rules.budget
               + SumFunction([slot \in late |-> entries[slot].units]) =>
               \E slot \in own : calls[slot].violations > 0
=============================================================================
