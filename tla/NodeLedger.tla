------------------------------ MODULE NodeLedger ------------------------------
(***************************************************************************)
(* The node-wide ledger of aggregate-risk-gate/src/node_ledger.rs: one     *)
(* scope's record in the replica's shared data, written by every worker    *)
(* with compare-and-swap only, together with the commit markers and the    *)
(* per-worker queues that keep a commit which could not be written.        *)
(*                                                                         *)
(* A worker is a single-threaded VM that runs one call at a time; every    *)
(* read or write of the shared store is one host call, and workers         *)
(* interleave between any two of them.  Each action below is the code from *)
(* one host call up to the next.  A store operation may fail, an unreadable*)
(* value is reported by the host as no value at all, a failed write may    *)
(* have landed, and a VM may be restarted, which loses its queue and the   *)
(* call it was running.                                                    *)
(*                                                                         *)
(* A version string is compared here by the value it stands for: a write   *)
(* that succeeds replaces exactly the value it was computed from, which is *)
(* all a version protects.  Bounded retry loops give up after any number   *)
(* of lost races, except those on the marker counter, which win.           *)
(*                                                                         *)
(* Slots for scope records, and the Doomed state in which a sweep deletes  *)
(* one, concern several scopes and are left out here: a new record may be  *)
(* refused for want of a slot (the fault "full"), and an idle one is swept *)
(* to Vacant.  Contributions of zero, which touch no record, are left out. *)
(*                                                                         *)
(* An operator whose name ends in _No... or _With... is a mutant: the      *)
(* mistaken form of the definition that follows it, which PROJECT.json     *)
(* names to show that a property would catch the mistake.                  *)
(***************************************************************************)
EXTENDS ScopeState, Sequences

CONSTANTS Workers,          \* the replica's workers
          Mode,             \* "block" or "monitor"
          Budget,           \* aggregate_budget
          Contributions,    \* what a call may cost
          PendingLimit,     \* PENDING_LIMIT
          DrainPerCall,     \* DRAIN_PER_CALL
          MissingAttempts,  \* MISSING_RECORD_ATTEMPTS
          MarkerCap,        \* max_scopes, as the cap on commit markers
          Grace             \* GRACE_MS

CONSTANTS Faults,           \* what may go wrong: see Fails
          MaxFaults,        \* bound: how often
          MaxRestarts,      \* bound: VM restarts
          MaxClock,         \* bound: the last time reached
          MaxId,            \* bound: reservation ids given out
          MaxStall,         \* bound: time that may pass during one call
          SlowPersist       \* whether time may pass while a commit is marked

FaultKinds == {"misread",   \* a host read error, reported as no value
               "unread",    \* a read that fails
               "unwritten", \* a write or delete that fails
               "landed",    \* a write or delete that lands but reports failure
               "full"}      \* no slot for a new scope record

ASSUME WorkersAssumption == IsFiniteSet(Workers)
ASSUME ModeAssumption    == Mode \in {"block", "monitor"}
ASSUME BudgetAssumption  == Budget \in 0 .. MaxUnits
ASSUME ContributionsAssumption == Contributions \subseteq 1 .. MaxUnits
ASSUME LimitsAssumption  == /\ PendingLimit \in Nat \ {0} /\ DrainPerCall \in Nat \ {0}
                            /\ MissingAttempts \in Nat \ {0} /\ MarkerCap \in Nat
                            /\ Grace \in Nat
ASSUME FaultsAssumption  == Faults \subseteq FaultKinds
ASSUME BoundsAssumption  == /\ MaxFaults \in Nat /\ MaxRestarts \in Nat
                            /\ MaxClock \in Nat /\ MaxId \in Nat /\ MaxStall \in Nat
                            /\ SlowPersist \in BOOLEAN

VARIABLES record,       \* the scope's key: Missing, Vacant(period) or Live(state)
          markers,      \* id -> its commit marker: mark, expires_at
          marker_count, \* the shared counter of marker slots
          pending,      \* worker -> its queue of commits not yet written
          call,         \* worker -> the call it runs, and how far
          clock,        \* the gateway clock
          next_id,      \* the next reservation id, unique across workers
          reservations, \* id -> the Reservation granted
          seen          \* how often each fault, or a restart, happened

(* What really happened, for the properties: how often each reservation is *)
(* charged, which are charged late, which calls were settled, which commits*)
(* were answered and how, and which queued commits were lost with their VM *)
(* or given up.                                                            *)
VARIABLES charges, late, settled, answers, marked, lost

shared  == <<record, markers, marker_count>>
history == <<charges, late, settled, answers, marked, lost>>
vars == <<record, markers, marker_count, pending, call, clock, next_id,
          reservations, seen, charges, late, settled, answers, marked, lost>>

Missing == [kind |-> "missing"]
Vacant(period) == [kind |-> "vacant", period |-> period]
Live(state) == [kind |-> "live", state |-> state]

NoMark == "none"
Marks == {"commit", "expired", "dropped", "provisional", "collecting"}
NoEntry == [id |-> 0]
Idle == [at |-> "idle"]

(* The mark of id's marker, NoMark when it has none.                       *)
MarkOf(id) == IF id \in DOMAIN markers THEN markers[id].mark ELSE NoMark

Put(map, key, value) ==
  [k \in DOMAIN map \cup {key} |-> IF k = key THEN value ELSE map[k]]

Init ==
  /\ record = Missing
  /\ markers = <<>> /\ marker_count = 0
  /\ pending = [worker \in Workers |-> <<>>]
  /\ call = [worker \in Workers |-> Idle]
  /\ clock = 1 /\ next_id = 1
  /\ reservations = <<>>
  /\ seen = [kind \in FaultKinds \cup {"restart"} |-> 0]
  /\ charges = [id \in 1 .. MaxId |-> 0]
  /\ late = {} /\ settled = {} /\ marked = {} /\ lost = {}
  /\ answers = <<>>

-----------------------------------------------------------------------------
(* The record a touch at now computes, before it is written.  c is the call*)
(* that touches: c.read is the value it read, c.owed the reservations whose*)
(* marker it found to hold a commit.                                       *)

(* The reservation a settlement is for: a queued commit's, or the call's.  *)
Subject(c) == IF c.entry # NoEntry THEN c.entry.id ELSE c.id
Committing(c) == c.entry # NoEntry \/ c.op = "commit"
Settling(c) == c.task \in {"settle", "resettle"}

Base(value) == CASE value.kind = "live"    -> value.state
                 [] value.kind = "vacant"  -> AtPeriod(value.period)
                 [] value.kind = "missing" -> AtPeriod(0)

(* due: the entries a reclaim takes off the record, which a touch claims.  *)
Expiring(state, now) == Expired(state, now)
Dropping(state, now) ==
  {id \in DOMAIN state.reclaimed : now >= SatAdd(state.reclaimed[id].expires_at, Ttl)}

(* The state whose due entries are claimed: release mode settles first.    *)
Unclaimed(c, value) ==
  LET rolled == Roll(Base(value), Period(c.now))
  IN  IF Settling(c) /\ Timeout = "release"
      THEN Settle(rolled, Subject(c), Committing(c)) ELSE rolled

Due(c, value) ==
  LET state == Unclaimed(c, value)
  IN  Expiring(state, c.now) \cup Dropping(state, c.now)

(* reconcile, its claims made: a marked commit is charged.                 *)
Reconciled(c) ==
  FoldSet(LAMBDA id, state : Settle(state, id, TRUE), Unclaimed(c, c.read), c.owed)

Touched(c) == Reclaim(Reconciled(c), c.now)

(* How the settlement the call is for is applied.                          *)
Applied(c) ==
  IF Settling(c) /\ Timeout = "release"
  THEN Outcome(Roll(Base(c.read), Period(c.now)), Subject(c), Committing(c))
  ELSE Outcome(Touched(c), Subject(c), Committing(c))

RefusedOnRecord(c) ==
  \/ Mode = "block" /\ OverBudget(Touched(c), c.units, Budget)
  \/ Saturated(Touched(c))

Charge(c) ==
  IF Applied(c) = "not-active"
  THEN [Touched(c) EXCEPT !.committed = SatAdd(@, reservations[Subject(c)].contribution)]
  ELSE Settle(Touched(c), Subject(c), TRUE)

(* The state the touch would write.                                        *)
Updated(c) ==
  CASE c.task = "reserve" -> IF RefusedOnRecord(c) THEN Touched(c)
                             ELSE Hold(Touched(c), c.id, c.units, c.now)
    [] c.task = "charge"  -> Charge(c)
    [] c.task = "sweep"   -> Touched(c)
    [] Settling(c)        -> IF Timeout = "release" THEN Touched(c)
                             ELSE Settle(Touched(c), Subject(c), Committing(c))

Written(c) ==
  IF c.task = "sweep" /\ IsIdle(Updated(c)) THEN Vacant(Updated(c).period)
  ELSE Live(Updated(c))

(* A touch that changes nothing writes nothing, and a refused call creates *)
(* no record.                                                              *)
Unwritten(c) ==
  LET same == Updated(c) = Base(c.read)
  IN  CASE c.task = "reserve" -> RefusedOnRecord(c) /\ (same \/ c.read.kind # "live")
        [] c.task = "charge"  -> FALSE
        [] c.task = "sweep"   -> same /\ ~IsIdle(Updated(c))
        [] Settling(c)        -> same /\ Applied(c) = "not-active"

(* The reservations a landed write charges, and those among them that were *)
(* charged late.                                                           *)
OwedAs(c, outcomes) == {id \in c.owed : Outcome(Unclaimed(c, c.read), id, TRUE) \in outcomes}

SubjectIf(c, condition) == IF condition THEN {Subject(c)} ELSE {}

ChargedLate(c) ==
  OwedAs(c, {"late-committed"})
    \cup SubjectIf(c, \/ Settling(c) /\ Applied(c) = "late-committed"
                      \/ c.task = "charge" /\ Applied(c) \in {"late-committed", "not-active"})

Charged(c) ==
  ChargedLate(c)
    \cup OwedAs(c, {"committed"})
    \cup (IF Timeout = "commit" THEN Expired(Reconciled(c), c.now) ELSE {})
    \cup SubjectIf(c, (Settling(c) \/ c.task = "charge") /\ Applied(c) = "committed")

Land(c) ==
  LET charged  == Charged(c)
      refunded == SubjectIf(c, Settling(c) /\ Applied(c) = "refunded")
  IN  /\ record' = Written(c)
      /\ charges' = [id \in DOMAIN charges |->
                       charges[id] + (IF id \in charged THEN 1 ELSE 0)
                                   - (IF id \in refunded THEN 1 ELSE 0)]
      /\ late' = late \cup ChargedLate(c)

-----------------------------------------------------------------------------
(* How a call goes on.  Each of these sets call and what ending lists.     *)
ending == <<pending, answers, marked, lost>>

Go(worker, c) == call' = [call EXCEPT ![worker] = c] /\ UNCHANGED ending

NewCall(op, id, units) ==
  [at |-> "drain", op |-> op, id |-> id, units |-> units, now |-> clock,
   rounds |-> DrainPerCall, entry |-> NoEntry, task |-> "none",
   read |-> Missing, todo |-> {}, owed |-> {}, claim |-> 0, mark |-> NoMark]

At(c, at) == [c EXCEPT !.at = at, !.read = Missing, !.todo = {}, !.owed = {},
                       !.claim = 0, !.mark = NoMark]

(* One attempt at the record: try_settle, or mutate_core.                  *)
Attempt(c, task) == [At(c, "read") EXCEPT !.task = task]

Unpersisted(queue) == {i \in DOMAIN queue : ~queue[i].persisted}

DrainStep_WithCharge(c) == At(c, "charge")

(* A queued commit whose marker was written is only settled: if it is gone,*)
(* a touch charged it.  One that was not is charged.                       *)
DrainStep(c) == IF c.entry.persisted THEN Attempt(c, "settle") ELSE At(c, "charge")

Waiting(c) == [At(c, "drain") EXCEPT !.entry = NoEntry, !.task = "none"]

(* drain_pending goes on with the next queued commit, or, its rounds or the*)
(* queue used up, the call does what it is for.                            *)
Resume(worker, c, queue) ==
  IF c.rounds > 0 /\ queue # <<>>
  THEN LET next == [c EXCEPT !.rounds = @ - 1, !.entry = Head(queue)]
       IN  /\ call' = [call EXCEPT ![worker] =
                          IF next.entry.blocked THEN At(next, "persist") ELSE DrainStep(next)]
           /\ pending' = [pending EXCEPT ![worker] = Tail(queue)]
  ELSE /\ call' = [call EXCEPT ![worker] =
                     IF c.op # "reserve" THEN Attempt(c, "settle")
                     ELSE IF Cardinality(Unpersisted(queue)) >= PendingLimit THEN Idle
                     ELSE Attempt(c, "reserve")]
       /\ pending' = [pending EXCEPT ![worker] = queue]

(* What became of a queued commit that was tried, and the queue it leaves. *)
(* The read that confirms a refused commit's record is missing works.      *)
Drained(worker, c, result) ==
  LET queue  == pending[worker]
      again  == c.entry.attempts + 1
      full   == result = "capacity" /\ ~c.entry.blocked /\ record.kind # "live"
      given_up == full /\ again >= MissingAttempts
      rest == CASE result \in {"done", "gone", "not-active"} \/ given_up -> queue
                [] result = "failed"  -> <<c.entry>> \o queue
                [] full /\ ~given_up -> Append(queue, [c.entry EXCEPT !.attempts = again])
                [] OTHER -> Append(queue, c.entry)
  IN  /\ Resume(worker, [Waiting(c) EXCEPT !.rounds = IF result = "failed" THEN 0 ELSE @], rest)
      /\ lost' = IF given_up THEN lost \cup {c.entry.id} ELSE lost
      /\ UNCHANGED <<answers, marked>>

Answer(c, answer) == answers' = Put(answers, c.id, answer)

(* defer: the commit is queued, unless it is marked and the queue is full. *)
Defer(worker, c, persisted, blocked) ==
  LET entry == [id |-> c.id, persisted |-> persisted, attempts |-> 0, blocked |-> blocked]
  IN  /\ call' = [call EXCEPT ![worker] = Idle]
      /\ pending' = [pending EXCEPT ![worker] =
                       IF ~persisted \/ Len(@) < PendingLimit THEN Append(@, entry) ELSE @]
      /\ Answer(c, "deferred")
      /\ marked' = IF persisted THEN marked \cup {c.id} ELSE marked
      /\ UNCHANGED lost

InWindow(c) ==
  c.now < SatAdd(reservations[Subject(c)].expires_at, Ttl)

(* What a commit does with the result of an attempt.                       *)
Committed(worker, c, result) ==
  CASE result = "done" ->
         /\ call' = [call EXCEPT ![worker] = Idle]
         /\ Answer(c, "charged") /\ UNCHANGED <<pending, marked, lost>>
    [] result = "gone" /\ c.task = "settle" /\ InWindow(c) -> Go(worker, At(c, "charge"))
    [] result = "not-active" \/ (result = "gone" /\ ~(c.task = "settle" /\ InWindow(c))) ->
         /\ call' = [call EXCEPT ![worker] = Idle]
         /\ Answer(c, "not-active") /\ UNCHANGED <<pending, marked, lost>>
    [] OTHER -> IF c.task = "settle" THEN Go(worker, At(c, "persist"))
                ELSE Defer(worker, c, FALSE, FALSE)

(* An attempt, or the call, ends with a result: "done", "gone" (there is no*)
(* record), "not-active", "refused", "capacity", "mismatch" or "failed".   *)
(* charge reports every failure of a settlement as "failed".               *)
Finish(worker, c, result) ==
  LET reported == IF c.task = "resettle" /\ result = "mismatch" THEN "failed" ELSE result
  IN  IF c.entry # NoEntry THEN Drained(worker, c, reported)
      ELSE IF c.op = "commit" THEN Committed(worker, c, reported)
      ELSE Go(worker, Idle)

(* One fault.                                                              *)
Fails(kind) == /\ kind \in Faults
               /\ MapThenSumSet(LAMBDA k : seen[k], FaultKinds) < MaxFaults
               /\ seen' = [seen EXCEPT ![kind] = @ + 1]
Works == UNCHANGED seen

(* A read of the store answers the value it holds; or none, when the host  *)
(* reports an error as no value; or an error.                              *)
ReadAnswers == {"value", "none", "error"}

HostRead(answer) ==
  \/ answer = "value" /\ Works
  \/ answer = "none"  /\ Fails("misread")
  \/ answer = "error" /\ Fails("unread")

(* A write or delete of the store: whether it reports an error, and whether*)
(* it landed.                                                              *)
HostWrite(failed, landed) ==
  \/ ~failed /\ landed /\ Works
  \/ failed /\ ~landed /\ Fails("unwritten")
  \/ failed /\ landed /\ Fails("landed")

-----------------------------------------------------------------------------
(* The start of a call.  The ledger's clock check (check_fresh) passes: the*)
(* gateway reads a request's stamp in the same callback.                   *)
Reserve(worker, units) ==
  /\ call[worker] = Idle /\ next_id <= MaxId
  /\ next_id' = next_id + 1
  /\ Resume(worker, NewCall("reserve", next_id, units), pending[worker])
  /\ UNCHANGED <<shared, clock, reservations, seen, charges, late, settled,
                 answers, marked, lost>>

(* commit or release, by whichever worker gets the response; the filter    *)
(* settles a reservation once.                                             *)
SettleCall(worker, id, op) ==
  /\ call[worker] = Idle /\ id \in DOMAIN reservations \ settled
  /\ settled' = settled \cup {id}
  /\ Resume(worker, NewCall(op, id, reservations[id].contribution), pending[worker])
  /\ UNCHANGED <<shared, clock, next_id, reservations, seen, charges, late,
                 answers, marked, lost>>

(* A sweep comes to the scope's record.                                    *)
Sweep(worker) ==
  /\ call[worker] = Idle
  /\ Go(worker, Attempt(NewCall("sweep", 0, 0), "sweep"))
  /\ UNCHANGED <<shared, clock, next_id, reservations, seen, charges, late, settled>>

(* collect_marker: a sweep comes to a marker, and reads it.                *)
Collect(worker, id) ==
  /\ call[worker] = Idle /\ id \in DOMAIN markers
  /\ clock >= markers[id].expires_at + 2 * Ttl + Grace
  /\ Go(worker, [At(NewCall("collect", 0, 0), "held") EXCEPT
                   !.claim = id, !.mark = MarkOf(id), !.read = markers[id]])
  /\ UNCHANGED <<shared, clock, next_id, reservations, seen, charges, late, settled>>

-----------------------------------------------------------------------------
(* An attempt reads the record, and turns to the entries it would take off.*)
Claiming(c, todo, owed) ==
  [c EXCEPT !.at = IF todo = {} THEN "put" ELSE "claim",
            !.todo = todo, !.owed = owed, !.claim = 0, !.mark = NoMark]

Found(worker, c, value) ==
  IF value.kind # "live" /\ (Settling(c) \/ c.task = "sweep")
  THEN Finish(worker, c, "gone")
  ELSE Go(worker, Claiming([c EXCEPT !.read = value], Due(c, value), {}))

ReadRecord(worker) ==
  LET c == call[worker]
  IN  /\ c.at = "read"
      /\ \E answer \in ReadAnswers :
           /\ HostRead(answer)
           /\ IF answer = "error" THEN Finish(worker, c, "failed")
              ELSE Found(worker, c, IF answer = "value" THEN record ELSE Missing)
      /\ UNCHANGED <<shared, clock, next_id, reservations, charges, late, settled>>

IsCommit_NoCheck(mark) == FALSE

(* claim: the marker holds a commit, which the touch then charges.         *)
IsCommit(mark) == mark = "commit"

(* claim: a marker that already says what the touch would say.             *)
IsClaimed(c, id, mark) ==
  \/ mark \in {"provisional", "dropped"}
  \/ mark # NoMark /\ Timeout = "release" /\ id \in Expiring(Unclaimed(c, c.read), c.now)

ClaimSees(worker, c, id, mark) ==
  IF IsCommit(mark) THEN Go(worker, Claiming(c, c.todo \ {id}, c.owed \cup {id}))
  ELSE IF IsClaimed(c, id, mark) THEN Go(worker, Claiming(c, c.todo \ {id}, c.owed))
  ELSE Go(worker, [c EXCEPT !.at = IF mark = NoMark THEN "slot" ELSE "mark",
                            !.claim = id, !.mark = mark])

Claim(worker) ==
  LET c == call[worker]
  IN  /\ c.at = "claim"
      /\ \E id \in c.todo, answer \in ReadAnswers :
           /\ HostRead(answer)
           /\ IF answer = "error" THEN Finish(worker, c, "failed")
              ELSE ClaimSees(worker, c, id, IF answer = "value" THEN MarkOf(id) ELSE NoMark)
      /\ UNCHANGED <<shared, clock, next_id, reservations, charges, late, settled>>

-----------------------------------------------------------------------------
(* put_marker, for a claim (c.claim is the reservation) or for a commit to *)
(* be marked (c.claim is 0).                                               *)
Persisting(c) == c.claim = 0
MarkId(c) == IF Persisting(c) THEN Subject(c) ELSE c.claim

Stamp(c) ==
  IF Persisting(c) THEN "commit"
  ELSE IF Timeout = "commit" THEN "provisional"
  ELSE IF c.claim \in Expiring(Unclaimed(c, c.read), c.now) THEN "expired"
  ELSE "dropped"

Stamped(c) ==
  LET state == Unclaimed(c, c.read)
      held  == IF c.claim \in DOMAIN state.active THEN state.active ELSE state.reclaimed
  IN  Put(markers, MarkId(c),
          [mark |-> Stamp(c),
           expires_at |-> IF Persisting(c) THEN reservations[MarkId(c)].expires_at
                          ELSE held[c.claim].expires_at])

(* persist_commit returns: to a queued commit that was waiting for a marker*)
(* slot, or to defer.                                                      *)
Persisted(worker, c, persisted, blocked) ==
  IF c.entry = NoEntry THEN Defer(worker, c, persisted, blocked)
  ELSE IF persisted
  THEN /\ call' = [call EXCEPT ![worker] =
                     Attempt([c EXCEPT !.entry.persisted = TRUE, !.entry.blocked = FALSE],
                             "settle")]
       /\ marked' = marked \cup {c.entry.id}
       /\ UNCHANGED <<pending, answers, lost>>
  ELSE Go(worker, At(c, "room"))

(* How put_marker ends: "marked", "full" (no slot for a new marker),       *)
(* "failed" or "mismatch".  At the cap a claim goes on without a marker,   *)
(* and a commit stays queued, blocked.                                     *)
MarkEnds(worker, c, outcome) ==
  IF Persisting(c) THEN Persisted(worker, c, outcome = "marked", outcome = "full")
  ELSE IF outcome \in {"failed", "mismatch"} THEN Finish(worker, c, outcome)
  ELSE Go(worker, Claiming(c, c.todo \ {c.claim}, c.owed))

(* A lost race for a marker: read the marker again, or the whole record.   *)
MarkAgain(worker, c) ==
  IF Persisting(c) THEN Go(worker, At(c, "remark"))
  ELSE \/ Go(worker, Claiming(c, c.todo, c.owed))
       \/ c.task \in {"reserve", "charge"} /\ Go(worker, Attempt(c, c.task))

(* A marker is created where there is none, or written over the one read;  *)
(* a compare-and-swap on a key that is gone creates it, as in Envoy.       *)
MarkWins(id, mark) == MarkOf(id) \in {mark, NoMark}

MarkersFull == marker_count >= MarkerCap

(* marker_slot: a new marker takes a slot, while there is one.             *)
MarkerSlot(worker) ==
  LET c == call[worker]
  IN  /\ c.at = "slot"
      /\ \/ /\ ~MarkersFull /\ Works
            /\ Go(worker, [c EXCEPT !.at = "mark"])
            /\ marker_count' = marker_count + 1
         \/ \E landed \in BOOLEAN :
              /\ \/ MarkersFull /\ ~landed /\ Works
                 \/ ~MarkersFull /\ HostWrite(TRUE, landed)
              /\ MarkEnds(worker, c, IF MarkersFull THEN "full" ELSE "failed")
              /\ marker_count' = IF landed THEN marker_count + 1 ELSE marker_count
      /\ UNCHANGED <<record, markers, clock, next_id, reservations, charges, late, settled>>

PutMarker(worker) ==
  LET c   == call[worker]
      won == MarkWins(MarkId(c), c.mark)
  IN  /\ c.at = "mark"
      /\ \E outcome \in {"marked", "mismatch", "failed"}, landed \in BOOLEAN :
           /\ IF outcome = "mismatch" THEN ~won /\ ~landed /\ Works
              ELSE (landed => won) /\ HostWrite(outcome = "failed", landed)
           /\ markers' = IF landed THEN Stamped(c) ELSE markers
           /\ IF outcome = "mismatch" /\ c.mark = NoMark
              THEN Go(worker, [c EXCEPT !.at = "unslot"])
              ELSE \/ outcome = "mismatch" /\ MarkAgain(worker, c)
                   \/ MarkEnds(worker, c, outcome)
      /\ UNCHANGED <<record, marker_count, clock, next_id, reservations, charges, late, settled>>

(* release_marker_slot, best effort, after a marker was not created.       *)
ReleaseSlot(worker) ==
  LET c == call[worker]
  IN  /\ c.at = "unslot"
      /\ \/ Works /\ marker_count' = SatSub(marker_count, 1)
         \/ Fails("unwritten") /\ UNCHANGED marker_count
      /\ MarkAgain(worker, c) \/ MarkEnds(worker, c, "mismatch")
      /\ UNCHANGED <<record, markers, clock, next_id, reservations, charges, late, settled>>

-----------------------------------------------------------------------------
(* persist_commit: not once the tombstone's window has passed.             *)
Persist(worker) ==
  LET c == call[worker]
  IN  /\ c.at = "persist"
      /\ IF clock >= SatAdd(reservations[Subject(c)].expires_at, Ttl)
         THEN Persisted(worker, c, FALSE, FALSE)
         ELSE Go(worker, At(c, "remark"))
      /\ UNCHANGED <<shared, clock, next_id, reservations, seen, charges, late, settled>>

(* persist_commit writes only where there is no marker, or one that says   *)
(* the reservation expired: a later mark already counts it, or forbids it. *)
PersistSees(worker, c, mark) ==
  IF mark \in {NoMark, "expired"}
  THEN Go(worker, [At(c, IF mark = NoMark THEN "slot" ELSE "mark") EXCEPT !.mark = mark])
  ELSE Persisted(worker, c, mark \in {"commit", "provisional"}, FALSE)

ReadMark(worker) ==
  LET c == call[worker]
  IN  /\ c.at = "remark"
      /\ \E answer \in ReadAnswers :
           /\ HostRead(answer)
           /\ PersistSees(worker, c, CASE answer = "value" -> MarkOf(Subject(c))
                                       [] answer = "none"  -> NoMark
                                       [] answer = "error" -> "unread")
      /\ UNCHANGED <<shared, clock, next_id, reservations, charges, late, settled>>

(* A queued commit that could not be marked: it waits until its marker's   *)
(* window has passed and there is room for markers again.                  *)
ReadRoom(worker) ==
  LET c == call[worker]
  IN  /\ c.at = "room"
      /\ \E answer \in ReadAnswers :
           /\ HostRead(answer)
           /\ IF answer = "value" /\ ~InWindow(c) /\ ~MarkersFull
              THEN Go(worker, At(c, "charge"))
              ELSE /\ Resume(worker, Waiting(c), Append(pending[worker], c.entry))
                   /\ UNCHANGED <<answers, marked, lost>>
      /\ UNCHANGED <<shared, clock, next_id, reservations, charges, late, settled>>

(* charge: only settles what its deadline has charged, or what commit mode *)
(* no longer charges.  Its marker read counts only if it succeeds.         *)
ChargeSees(worker, c, mark) ==
  Go(worker, Attempt(c, IF (Timeout = "commit" /\ ~InWindow(c)) \/ mark = "provisional"
                        THEN "resettle" ELSE "charge"))

ReadCharged(worker) ==
  LET c == call[worker]
  IN  /\ c.at = "charge"
      /\ \E answer \in ReadAnswers :
           /\ HostRead(answer)
           /\ ChargeSees(worker, c, IF answer = "value" THEN MarkOf(Subject(c)) ELSE NoMark)
      /\ UNCHANGED <<shared, clock, next_id, reservations, charges, late, settled>>

-----------------------------------------------------------------------------
Wins_NoCompare(c) == TRUE

(* The compare-and-swap: the record is still what the attempt read.        *)
Wins(c) == record = c.read

(* The call is granted: the filter carries its reservation.                *)
Grant(c) ==
  IF c.task = "reserve" /\ ~RefusedOnRecord(c)
  THEN reservations' = Put(reservations, c.id,
                           [contribution |-> c.units, expires_at |-> SatAdd(c.now, Ttl)])
  ELSE UNCHANGED reservations

Result(c) ==
  CASE c.task = "reserve" -> IF RefusedOnRecord(c) THEN "refused" ELSE "done"
    [] Settling(c) /\ Applied(c) = "not-active" -> "not-active"
    [] OTHER -> "done"

(* How the attempt's write ends, and whether it landed: there is nothing to*)
(* write, it won, it lost the race, it failed, or there is no slot.        *)
PutEnds(c, unwritten, result, landed) ==
  IF unwritten THEN result = "ok" /\ ~landed /\ Works
  ELSE \/ result = "ok" /\ landed /\ Wins(c) /\ Works
       \/ result = "mismatch" /\ ~landed /\ ~Wins(c) /\ Works
       \/ result = "failed" /\ (landed => Wins(c)) /\ HostWrite(TRUE, landed)
       \/ /\ result = "capacity" /\ ~landed /\ Fails("full")
          /\ c.task \in {"reserve", "charge"} /\ c.read.kind # "live"

(* A lost race is run again from the read, or retries have run out.        *)
PutRecord(worker) ==
  LET c == call[worker]
  IN  /\ c.at = "put"
      /\ \E unwritten \in {Unwritten(c)}, landed \in BOOLEAN,
            result \in {"ok", "mismatch", "failed", "capacity"} :
           /\ PutEnds(c, unwritten, result, landed)
           /\ IF landed THEN Land(c) ELSE UNCHANGED <<record, charges, late>>
           /\ IF landed /\ result = "ok" THEN Grant(c) ELSE UNCHANGED reservations
           /\ \/ result = "mismatch" /\ Go(worker, Attempt(c, c.task))
              \/ Finish(worker, c, IF result = "ok" THEN Result(c) ELSE result)
      /\ UNCHANGED <<markers, marker_count, clock, next_id, settled>>

-----------------------------------------------------------------------------
CollectSees_NoHeld(worker, c, value) ==
  IF c.mark = "collecting" THEN Go(worker, Idle)
  ELSE Go(worker, [c EXCEPT !.at = "collecting"])

(* collect_marker goes on: no record may still hold the reservation.       *)
CollectSees(worker, c, value) ==
  IF (value.kind = "live" /\ Holds(value.state, c.claim)) \/ c.mark = "collecting"
  THEN Go(worker, Idle)
  ELSE Go(worker, [c EXCEPT !.at = "collecting"])

CollectRead(worker) ==
  LET c == call[worker]
  IN  /\ c.at = "held"
      /\ \E answer \in ReadAnswers :
           /\ HostRead(answer)
           /\ IF answer = "error" THEN Go(worker, Idle)
              ELSE CollectSees(worker, c, IF answer = "value" THEN record ELSE Missing)
      /\ UNCHANGED <<shared, clock, next_id, reservations, charges, late, settled>>

(* The marker the collection read, with its mark changed.                  *)
MarkAs(c, mark) == Put(markers, c.claim, [c.read EXCEPT !.mark = mark])

CollectMark(worker) ==
  LET c   == call[worker]
      won == MarkWins(c.claim, c.mark)
  IN  /\ c.at = "collecting"
      /\ \E failed, landed \in BOOLEAN :
           /\ IF won THEN HostWrite(failed, landed) ELSE ~failed /\ ~landed /\ Works
           /\ markers' = IF landed THEN MarkAs(c, "collecting") ELSE markers
           /\ Go(worker, IF landed /\ ~failed THEN [c EXCEPT !.at = "delete"] ELSE Idle)
      /\ UNCHANGED <<record, marker_count, clock, next_id, reservations, charges, late, settled>>

CollectDelete(worker) ==
  LET c == call[worker]
  IN  /\ c.at = "delete"
      /\ \E failed, landed \in BOOLEAN :
           /\ HostWrite(failed, landed)
           /\ markers' = IF landed THEN Restrict(markers, DOMAIN markers \ {c.claim})
                         ELSE markers
           /\ Go(worker, [c EXCEPT !.at = IF failed THEN "restore" ELSE "uncount"])
      /\ UNCHANGED <<record, marker_count, clock, next_id, reservations, charges, late, settled>>

(* The delete failed: the marker is read again, and its mark put back      *)
(* unless another worker changes it first; one that reads as gone is taken *)
(* to be deleted after all.                                                *)
CollectRestore(worker) ==
  LET c     == call[worker]
      found == c.claim \in DOMAIN markers
  IN  /\ c.at = "restore"
      /\ \E answer \in ReadAnswers :
           /\ HostRead(answer)
           /\ IF answer # "error" /\ ~(answer = "value" /\ found)
              THEN UNCHANGED markers /\ Go(worker, [c EXCEPT !.at = "uncount"])
              ELSE /\ Go(worker, Idle)
                   /\ markers' \in {markers} \cup
                        (IF answer = "value" THEN {MarkAs(c, c.mark)} ELSE {})
      /\ UNCHANGED <<record, marker_count, clock, next_id, reservations, charges, late, settled>>

CollectUncount(worker) ==
  LET c == call[worker]
  IN  /\ c.at = "uncount"
      /\ \/ Works /\ marker_count' = SatSub(marker_count, 1)
         \/ Fails("unwritten") /\ UNCHANGED marker_count
      /\ Go(worker, Idle)
      /\ UNCHANGED <<record, markers, clock, next_id, reservations, charges, late, settled>>

-----------------------------------------------------------------------------
QueuedBy(worker) ==
  {pending[worker][i] : i \in DOMAIN pending[worker]}
    \cup (IF call[worker] # Idle /\ call[worker].entry # NoEntry
          THEN {call[worker].entry} ELSE {})

(* A worker's VM restarts: its call and its queue are gone.                *)
Restart(worker) ==
  /\ seen["restart"] < MaxRestarts
  /\ seen' = [seen EXCEPT !["restart"] = @ + 1]
  /\ call' = [call EXCEPT ![worker] = Idle]
  /\ pending' = [pending EXCEPT ![worker] = <<>>]
  /\ lost' = lost \cup {e.id : e \in {f \in QueuedBy(worker) : ~f.persisted}}
  /\ UNCHANGED <<shared, clock, next_id, reservations, charges, late, settled,
                 answers, marked>>

(* Between persist_commit's look at the clock and its marker write.        *)
MarkingCommit(c) == c.at \in {"remark", "slot", "mark", "unslot"} /\ Persisting(c)

HeldUp(c) == c # Idle /\ (clock - c.now >= MaxStall \/ (~SlowPersist /\ MarkingCommit(c)))

Tick ==
  /\ clock < MaxClock
  /\ ~\E worker \in Workers : HeldUp(call[worker])
  /\ clock' = clock + 1
  /\ UNCHANGED <<shared, pending, call, next_id, reservations, seen, history>>

Step(worker) ==
  \/ \E units \in Contributions : Reserve(worker, units)
  \/ \E id \in DOMAIN reservations, op \in {"commit", "release"} : SettleCall(worker, id, op)
  \/ Sweep(worker)
  \/ \E id \in DOMAIN markers : Collect(worker, id)
  \/ ReadRecord(worker) \/ Claim(worker) \/ PutRecord(worker)
  \/ MarkerSlot(worker) \/ PutMarker(worker) \/ ReleaseSlot(worker)
  \/ Persist(worker) \/ ReadMark(worker) \/ ReadRoom(worker) \/ ReadCharged(worker)
  \/ CollectRead(worker) \/ CollectMark(worker) \/ CollectDelete(worker)
  \/ CollectRestore(worker) \/ CollectUncount(worker)
  \/ Restart(worker)

Next == Tick \/ \E worker \in Workers : Step(worker)

Spec == Init /\ [][Next]_vars

-----------------------------------------------------------------------------
Ids == 1 .. (next_id - 1)

StateOK(state) ==
  /\ state.period \in Nat /\ state.committed \in Nat /\ state.reserved \in Nat
  /\ DOMAIN state.active \subseteq Ids /\ DOMAIN state.reclaimed \subseteq Ids
  /\ state.active \in [DOMAIN state.active -> Held]
  /\ state.reclaimed \in [DOMAIN state.reclaimed -> Held]

EntryOK(entry) ==
  /\ entry.id \in settled
  /\ entry.persisted \in BOOLEAN /\ entry.blocked \in BOOLEAN
  /\ ~(entry.persisted /\ entry.blocked)
  /\ entry.attempts \in 0 .. MissingAttempts - 1

(* The shape of the shared record, the markers and the queues; and that the*)
(* record's reserved total is the units of its active holds, whichever     *)
(* workers wrote it.                                                       *)
TypeOK ==
  /\ record.kind \in {"missing", "vacant", "live"}
  /\ record.kind = "vacant" => record.period \in Nat
  /\ record.kind = "live" =>
       /\ StateOK(record.state)
       /\ record.state.reserved = Units(record.state.active, DOMAIN record.state.active)
  /\ DOMAIN markers \subseteq Ids
  /\ \A id \in DOMAIN markers : markers[id].mark \in Marks /\ markers[id].expires_at \in Nat
  /\ marker_count \in Nat
  /\ \A worker \in Workers : \A entry \in QueuedBy(worker) : EntryOK(entry)
  /\ DOMAIN reservations \subseteq Ids /\ settled \subseteq DOMAIN reservations
  /\ DOMAIN answers \subseteq settled
  /\ \A id \in DOMAIN charges : charges[id] \in Nat

OnRecord(id) == record.kind = "live" /\ Holds(record.state, id)

Queued(id) == \E worker \in Workers : \E entry \in QueuedBy(worker) : entry.id = id

(* M2, "a commit marked before the tombstone is dropped" is never lost,    *)
(* "whether or not the committing worker ever runs again or keeps its      *)
(* queue": a commit answered as written or deferred is charged; or it is   *)
(* still held and its deadline will charge it (commit mode); or it is      *)
(* marked and still on the record, where the touch that takes it off       *)
(* charges it; or it was never marked and waits in its worker's queue,     *)
(* unless that queue was lost.                                             *)
CommitsKept ==
  \A id \in DOMAIN answers :
    answers[id] # "not-active" =>
      \/ charges[id] > 0
      \/ Timeout = "commit" /\ OnRecord(id) /\ id \in DOMAIN record.state.active
      \/ id \in marked /\ OnRecord(id) /\ MarkOf(id) \in {"commit", "provisional"}
      \/ id \notin marked /\ (Queued(id) \/ id \in lost)

(* No reservation is charged twice, by whichever of its deadline, its      *)
(* marker, its queued copy and its own settlement, unless a failed write   *)
(* landed. Where deadlines charge, a failed or misreported read does so    *)
(* too; where they release, neither does.                                  *)
ChargedOnce ==
  /\ seen["landed"] = 0
  /\ Timeout = "commit" => seen["misread"] = 0 /\ seen["unread"] = 0
  => \A id \in DOMAIN charges : charges[id] <= 1

(* In block mode, within one window, the workers together never grant past *)
(* the one budget: the calls still in flight before their deadline, and    *)
(* those charged, but for the ones charged after their hold had expired    *)
(* uncharged, fit it (each counted once).                                  *)
BudgetHeld ==
  Mode = "block" /\ Window = 0 =>
    LET in_flight == {id \in DOMAIN reservations \ settled :
                        clock < reservations[id].expires_at}
        charged   == {id \in DOMAIN reservations \ late : charges[id] > 0}
    IN  Units(reservations, in_flight \cup charged) <= Budget

(* A reservation that was granted and not yet settled stays on the shared  *)
(* record, holding its budget, until its deadline, whatever other workers  *)
(* do to the record and however often VMs restart.                         *)
HeldUntilDeadline ==
  \A id \in DOMAIN reservations \ settled :
    clock < reservations[id].expires_at =>
      OnRecord(id) /\ id \in DOMAIN record.state.active

(* A commit is answered not-active only for a reservation that is off the  *)
(* record ("charged too, never dropped").                                  *)
NotActiveIsGone ==
  [][\A id \in DOMAIN answers' \ DOMAIN answers :
       answers'[id] = "not-active" => ~OnRecord(id)']_vars

(* While a reservation is on the record, whichever worker touches, settles *)
(* or sweeps it, its commit marker is not deleted and a marked commit is   *)
(* not marked otherwise: collect_marker judges the record and the time in  *)
(* calls of its own before it marks and deletes, and a claim compares.     *)
(* A record misread as missing defeats it.                                 *)
MarksStand ==
  [][seen'["misread"] = 0 =>
       \A id \in DOMAIN markers :
         OnRecord(id)' => /\ id \in DOMAIN markers'
                          /\ MarkOf(id) = "commit" => MarkOf(id)' = "commit"]_vars

(* What the cap on markers promises: never more markers than the cap, and a*)
(* counter that never counts fewer than there are.  It holds only until two*)
(* sweeps collect the same marker at once, so that no run checks it.       *)
MarkersBounded ==
  /\ Cardinality(DOMAIN markers) <= MarkerCap
  /\ Cardinality(DOMAIN markers) <= marker_count
=============================================================================
