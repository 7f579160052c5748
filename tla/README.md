# Formal models of the agent governance policies

Two Rust filters for a MuleSoft Flex Gateway (Envoy/proxy-wasm) live in this
repository. `aggregate-risk-gate` limits the *running total* of what agents
spend: every governed call reserves its price before it is forwarded and commits
or releases it when the answer arrives. `approval-execution-binding` forwards a
call only with a signed approval that binds exactly that call, and lets each
approval be used once. Neither has a database: state is a per-VM table behind a
mutex, or keys in shared storage that several single-threaded VMs ("workers")
reach one host call at a time.

These modules model that state and every step that changes it. Paths below are
relative to the repository root (`src/aggregate-risk-gate/...` in
`PROJECT.json`); `ledger.rs`, `node_ledger.rs` are in `aggregate-risk-gate/src`.

## 1. Inventory

### Aggregate risk gate

| component | state | operations | made hard by | must hold |
|---|---|---|---|---|
| **Scope state** `ledger.rs` `ScopeState` | `period`, `committed`, `reserved`, `active` and `reclaimed` entries, `indexed_at` | `roll` (new window), `reclaim` (expiry to tombstone, tombstone dropped), `check`, `hold`, `settle`, `idle_at` | expiry, late and duplicate settlement and window changes in any order; saturating arithmetic | `reserved` is the sum of the active entries; a unit is charged once |
| **Worker ledger** `ledger.rs` `Ledger` | scope table, idle index, id counter, counters; one mutex | `reserve`, `force_reserve_checked`, `commit`, `release`; `evict_one` when the table is full | callers interleave between request and response; a request's stamp lags the clock; eviction reads only the index | exposure is exact; the budget is held; no live state is evicted; caps |
| **Node ledger** `node_ledger.rs` | one record per scope (missing, vacant, live, doomed), one commit marker per commit that could not be settled, counters of both; a queue of commits per worker | settle, reserve, charge, defer and drain, claim/reconcile, sweep, collect markers | workers interleave between any two host calls; reads that fail look like absence; writes fail or land and report failure; VMs restart | a commit that was answered is charged, once; the budget is held across workers; a marker outlives the reservation it is for |
| **Slots and sweeps** `node_ledger.rs` | slot counter `n`, sweep claim and cursor, not-before hints | `acquire_slot`, `adjust_count`, `delete_vacant`, recovery of `Doomed`, `sweep` | deletion is unconditional, so it is guarded by a mark; counter and records drift | no more records than `maxScopes`; space comes back |
| **Filter** `lib.rs` | none of its own: the reservation travels from request to response | header phase, body, `decide`, `admit`, denial; commit or release on the status | calls wait for bodies and upstreams while time passes and others are admitted; a response that never comes | one party's calls together stay within the budget; a reservation settles as its own call was answered |
| **Identity, pricing** `lib.rs` | none | canonical identity; governed items; per-item totals, exact minor units; ids a denial answers | batches, spellings, bodies two parsers read differently; rounding and 2^53 | a forwarded call's whole weight is reserved; what is harmless passes |
| **Configuration** `lib.rs`, `generated/config.rs` | none | validation | fields that need each other | an unsound configuration does not start |

### Approval-execution binding (`approval-execution-binding/src/lib.rs`)

| component | state | operations | made hard by | must hold |
|---|---|---|---|---|
| **Single-use nonce store (P6)** | keys in shared local storage: nonce to expiry; per worker a `NonceCap` | `reserve_nonce`: get, list, read, delete, create | several workers on one store; unconditional delete; whole seconds against instants; a cap counted per worker; failures | an approval is forwarded at most once; a nonce is forgotten only when its approval is stale |
| **Request pipeline** | none | framing, buffering, parsing, verdict, rewrite, nonce, denial | order: what is refused before what is written; a failed rewrite must not burn a nonce; two modes | what is forwarded is what was approved; a nonce is spent for it and for nothing else; monitor mode reports what block mode would do |
| **Predicates P1, P2, P4, P5; canonical JSON** | none | canonical forms, digests and MACs, freshness, attesters | two canonical forms that differ; deadlines past what a date holds | only what every party writes alike can match |
| **Envelope removal** | none | cut one member out of the raw body | hand-written scanner: strings, escapes, nesting, commas, whitespace | what remains is the rest of the document; no parsed body is refused |
| **Configuration** | none | validation, defaults | fields that need each other | P6 and a lifetime need P4; P5 needs its scope |

Outside both: the storage adapter over PDK shared data, modelled by the outcomes a
read or a write may have; schemas, playground and packaging scripts, which have no
run-time behaviour.

**Interactions.** The filter stamps a request with the gateway clock when its body
is in, then calls its ledger, which reads the clock again; the response phase
settles with a clock of its own. Worker ledgers share nothing. Node ledgers share
the records, the markers, the counters of both and the sweep's claim, by compare-and-swap, and nothing
else: a queue belongs to one VM. In the approval filter all predicates are
evaluated before the nonce is reserved; nonce stores share only the stored keys.

`PROJECT.json` lists the hazards at the line where each bites, with the properties
that would catch it.

## 2. Plan

In order of importance; ✔ is done.

1. `ScopeState` ✔: the arithmetic both ledgers are built from.
2. `WorkerLedger` ✔ with `MCWorkerLedger`, and proofs (`Sums_proofs`,
   `ScopeState_proofs`, `WorkerLedger_proofs`) ✔.
3. `NonceStore` ✔ with `MCNonceStore`.
4. `NodeLedger` ✔ with `MCNodeLedger`, and `NodeLedger_proofs` ✔.
5. `NodeSlots` ✔ with `MCNodeSlots`, and `NodeSlots_proofs` ✔.
6. `ExposureLedger` ✔: what a ledger promises; `WorkerLedger` implements it, proved in
   `WorkerLedger_proofs` ✔.
   `NonceRegister` ✔ likewise for `NonceStore`, with `NonceStore_proofs` ✔.
7. `GatePricing` and `GateFilter` ✔ with `MCGateFilter`, on `ExposureLedger`, and
   `GateFilter_proofs` ✔.
8. `ApprovalPredicates`, `EnvelopeSplice` and `ApprovalFilter` ✔ with
   `MCApprovalFilter`, with nonce keys and sweeps of its own, and `ApprovalFilter_proofs` ✔.

Left: `NodeLedger` as a refinement of a wider `ExposureLedger` (one in which a commit
may be charged late and a call may end unanswered), and liveness of its queue.

| abstract | implemented by | used by |
|---|---|---|
| `ExposureLedger` | `WorkerLedger` (`ImplementsExposure`, checked in both its runs and proved) | `GateFilter` |
| `NonceRegister` | `NonceStore` (`ImplementsRegister`, checked and proved) | none: `ApprovalFilter` runs on the keys themselves |

`ApprovalFilter` does not stand on `NonceRegister`, because the store is such a register
only where no two approvals share a nonce, and a filter is presented whatever clients send.

## 3. Modules

### ScopeState

Each method of `ScopeState` is a pure operator from state and arguments to state; a
`HashMap` of reservations is a function on a set of ids. Saturating additions and
subtractions keep their bounds (`SatAdd`, `SatSub`, `U64Max`): that a subtraction
never actually saturates is a property (`ReservedIsActive`), not an assumption.
`Window = 0` stands for no window. The one number left to the caller is the gateway
clock.

### WorkerLedger

One action per call: the mutex is held from a call's start to its end.

| action | code |
|---|---|
| `RefuseStale` | `check_fresh` |
| `RefuseAtCapacity`, `RefuseBusyVictim` | no room in `with_state` and `evict_one` returning false (nothing due; or the first is busy once touched, and is reindexed) |
| `AdmitInRoom`, `AdmitEvicting` | `reserve` (block) or `force_reserve_checked` (monitor) around `with_state`: roll, reclaim, budget, cap, hold, reindex |
| `SettleFree`, `SettleUntracked`, `SettleTracked` | `settle` of a zero, of an evicted scope, of a tracked scope (reclaim first in commit mode, settle first in release mode) |
| `Tick` | the clock |

The environment is any caller the filter allows: a stamp up to `MaxLag` behind the
ledger's clock (body buffering, a wall clock stepping back), calls settled in any
order, late, again, or never. The history variables `charged` and `late`
record what happened to each reservation, independently of the ledger's totals.
`settle_free` keeps no account of the calls of no cost, so one settled again is counted
again; `free` is how often it ran, at most `MaxFree` times.
Left out: the `not_active` counter; a poisoned mutex; `force_reserve`, which the filter
never calls; ties in the index, which the code orders by scope name and the
model leaves open (any first entry). `evict_one`'s branch for an index entry without a
scope cannot happen while `IndexExact` holds, which is proved.

### ExposureLedger

What the trait `LedgerStore` promises, without table, index or cap: every reservation
is an entry, `held` until its own call settles it or until, past its deadline, it lapses
(charged or not as the timeout rule says), `lapsed` for at most one more ttl, then `closed`;
block mode admits within the budget. Which overdue entries lapse in a step is open, since
a ledger reclaims when it next touches a scope.

The refinement mapping is `EntryOf` in `WorkerLedger`: an entry is held when its id is
among its scope's active ones, lapsed when among the reclaimed, closed otherwise, and
charged in the period the history gives. A call that evicts a scope, or finds it evicted,
maps to the same abstract step as one that does not, so what would lose a total through
eviction, or an entry before its deadline, is a step the abstract ledger does not have.
`Lag` is there because a period may be judged by a lagging stamp (`Current`).

### NonceStore

`reserve_nonce` from one store operation to the next, run by every worker on one
store. `GetAbsent` covers a get that found nothing *and* one the host failed, which
the code cannot tell apart; likewise `VisitAbsent`. `Swept` is the end of a sweep with the worker's
bookkeeping; `Store` creates the key and forwards the call. `StoreFails` is any
failed listing, delete or create; such an operation is taken not to have landed.
`Rebuild` loses the worker's `NonceCap` and call, never the store. Assumptions:
a VM is single-threaded; local storage is one host call per operation;
P6 is enabled only with P4 (configuration refuses otherwise); monitor mode reserves
no nonce; from a call's P4 check to its create at most `MaxStall` ticks pass
(the code is synchronous there). `max_approval_lifetime` only refuses more and is left
out. Time is in ticks, `Second` to the second, since P4 compares instants and the sweep
whole seconds.

An earlier build may have left unreadable keys behind (`Corrupt`), which no sweep takes away.

### NonceRegister

A set of reserved nonces. `Reserve` is atomic and granted only where there is no
reservation, up to `Grace` past the approval's deadline (`MaxStall` for a call that was
checked in time and held up); `Forget` takes away only what no approval can need any more. The
mapping is plain: the keys in the store are the reserved nonces.

### NodeLedger

One scope's record, two or more workers, one action per host call. A call is a
record `call[worker]`: `at` is the host call it makes next, `op` what it is for
(reserve, commit, release), `task` what the present attempt on the record is for,
`entry` the queued commit it is draining, `read` what it last read.

| actions | code |
|---|---|
| `Reserve`, `SettleCall`, `Sweep`, `Collect` | entry of a call; `drain_pending` runs first (`Resume`) |
| `ReadRecord`, `Claim`, `PutRecord` | one attempt of `mutate_core`/`try_settle`: read, `claim` every entry about to leave the record, reconcile, compare-and-swap |
| `MarkerSlot`, `PutMarker`, `ReleaseSlot` | `put_marker` with its slot in the shared counter |
| `Persist`, `ReadMark` | `persist_commit` |
| `ReadCharged` | `charge` |
| `ReadRoom`, `Drained`, `Defer` | the queue: `drain_pending`, `defer` |
| `CollectRead` ... `CollectUncount` | `collect_marker` |
| `Restart` | a VM restart: queue and call are lost |

Abstractions: a version is compared by the value it protects: a write wins when
the record still *equals* what was read, which allows strictly more than the code
(a record changed and changed back is the same state to every reader).
A marker's compare-and-swap on a key that is gone creates it, as in Envoy
(`MarkWins`); `CollectRestore` does not write over a marker deleted between its read
and its write.
Retry loops give up after any number of lost races; those on the marker counter are
taken to win. Sweeps and collections may start at any time, so whatever schedules them
(`next_gc`, `not_before`, the sweep claim, `SWEEP_BUDGET`) is covered; `NodeSlots`
models that schedule. The faults are
a read error the host reports as no value (`misread`), a read that fails
(`unread`), a write that fails (`unwritten`), one that lands and reports
failure (`landed`) and a full slot table (`full`). `Drained`'s second read of the record
is taken to work. `CollectRestore` merges a read and the write that follows it, with
the lost race kept as an outcome. Left out: slots and `Doomed` records (in
`NodeSlots`), recounting the markers of earlier builds, zero contributions (they
touch no record), the counters, a stamp that lags the clock (the stamp is the clock).

### NodeSlots

Several scopes' records at once, one action per host call. A record keeps what decides
its slot: the holds on it and whether it is charged, or since when it is `Vacant` or
`Doomed`. What a touch does to totals and markers is `NodeLedger`'s.

| actions | code |
|---|---|
| `Reserve`, `CheckGc` | `reserve`, with `maybe_collect` before it |
| `Settle` | a commit or release of a granted reservation: `try_settle` |
| `ReadRecord`, `PutRecord` | one attempt of `mutate_core` or `try_settle` |
| `AcquireSlot`, `AtCap`, `GiveBack` | `acquire_slot`; `adjust_count` for an attempt that did not write |
| `HintIdle`, `Hint` | `hint_idle` |
| `Claim`, `ReadBack` | `put_sweep` of a claim, for `maybe_collect` or at the cap |
| `List`, `Visit`, `Swap`, `Uncount`, `SweepDone` | `sweep` |
| `Delete`, `RestoreRead`, `Restore` | `delete_vacant` |
| `Restart`, `Forget`, `Tick` | a VM restart, a response that never comes, the clock |

Versions are links here: a compare-and-swap wins if nobody wrote the key since it was
read, or if the key is gone (in Envoy a swap on a missing key creates it, which the tests'
store repeats). Times are relative to the clock, so no clock bound is needed and fair
behaviours are infinite: ages of tombstones grow to where they no longer matter, what is
due shrinks to nothing. Abstractions: a hold and its tombstone are one entry of 2 ttl, so
the move from the one to the other is not a write; a counter's read and write are one step,
its lost races taken to win in the end; a sweep lists the keys and reads the cursor in one step;
markers are not among the keys it visits; reads do not fail.

`leaked` is history: slots on the count that nobody holds any more, because a decrement
failed, a write half-failed or a VM died. `StallAssumption` is what the code relies on without
stating it in full: a call's `now`, and a sweep's clock, are at most `MaxStall` old, `RECOVER_MS` is more than that
and `GRACE_MS` more than twice that. Once is not enough: a stalled sweep stamps its
tombstone early by its own stall, and a writer that read the record before
the sweep is stalled by as much again. With `Grace = 2` and `MaxStall = 1`,
`SlotsExact` fails. In the code the margin is wide (30 s against back-to-back host calls).

### GatePricing and GateFilter

`GatePricing` is the pricing as operators: which items of a body are governed
(`IsGoverned`, `IsJsonRpcResponse`), the total (`PerItemTotal`, `AddAmount`), and which ids a
denial answers (`Echoes`, `ResponseIds`, `DenyResponse`). A body is the sequence of its items
and how it parses; an item is the members the code looks at.

| action of `GateFilter` | code |
|---|---|
| `Init` | `from_config_with` (`Valid`, `Build`) for any configuration offered |
| `DecideAtHeaders`, `AwaitBody`, `DecideOnBody` | `request_filter`: the header phase, the wait for the body, the clock read again and `decide` |
| `PassUngoverned`, `Refuse`, `PassUnpriced` | the stages of `decide` before the ledger |
| `Admit`, `AdmitRefused` | `admit` in both modes |
| `Respond` | `response_filter`: settlement by status alone |
| `Lose`, `Reclaim`, `Tick` | a response that never comes; the ledger reclaiming; the clock |

The ledger is `ExposureLedger`'s, instantiated, with no window. `AdmitRefused` may happen at
any time: a ledger may be full or contended. A request carries who really sent it
(`who`), which the filter does not read; the properties compare it with the scope the
filter charged. That a well-formed identity, in the authentication data or in the trusted header,
is the sender's is an assumption (`IdentityAssumption`): the gateway authenticated it, or a trusted
hop set it. Left out: the walk along `spendAmountField` (an item has the
value found there, or `Inexact`), the wording of stamps, messages and logs, disclosure of
scope names, and the ranges of `windowMs`, `maxScopes` and `reservationTimeoutMs`,
which are assumptions of the ledger modules.

### ApprovalPredicates, EnvelopeSplice and ApprovalFilter

`ApprovalPredicates` has the predicates and the order they decide in (`Evaluate`), canonical
JSON as far as it can go wrong (keys that sort differently by UTF-8 and UTF-16, numbers a double
cannot hold, `$ref`), freshness with its limits, and configuration (`Valid`, `Bind`). A JSON value
is a function from the path of each of its nodes to that node (its kind, an object's keys, an
integer's number): what the code finds by recursion, a key order or a `$ref` at any depth, is
then a statement about all nodes. A digest
is the value itself and a MAC its key and payload: collisions and forgeries are not
modelled. `EnvelopeSplice` is the scanner on sequences of characters, of which
only the structural ones are told apart: `SkipString`, `SkipContainer`, `SkipScalar`,
`Members`, `Cut`, `Strip`. `Reads` is the reference: what a JSON reader makes of a text,
told from its expected lexemes and not with the scanner.

| action of `ApprovalFilter` | code |
|---|---|
| `Receive` | the header phase of `request_filter`: exempt methods, media type, encoding, declared length |
| `RefuseLength`, `RefuseMalformed`, `PassOutOfScope` | the body phase up to `parse_single_jsonrpc` |
| `Judge` | `evaluate`, and the removal of the envelope with a `set_body` that may fail |
| `ReserveGranted`, `ReserveRefused` | `reserve_nonce` and what follows its answer |
| `OtherWorker` | another worker's P4 check, some time ago, and its create |
| `SweepJudges`, `SweepDeletes` | a sweep's read of a key that is due, and its delete of that key in a later host call, whatever it holds by then |
| `Again`, `Tick` | a client's retry; the clock |

Of the nonce store the filter has the keys with their expiry and the three host calls that
change them: a create that wins only on a missing key, a sweep's judgement and its delete.
What a worker counts and when it sweeps is `NonceStore`'s; here a sweep of any worker, this
one's included, may start at any time, and a reservation may be refused at any time. Time passes
while the body is awaited and while the reservation is, there for at most `MaxStall`
(`HeldUp`), an assumption on the gateway that the code relies on without stating it. The approver's side is
in the constants: `approved` is what the approver meant, `arguments_digest` what its
tools digested. The two are equal but for integers outside ±(2^53 − 1), which a tool that keeps numbers as
doubles writes as another (`WrittenAssumption`).

## 4. What the runs check

Operators named `..._No...` or `..._With...` are the mistaken forms that show each
property can fail; `PROJECT.json` pairs them.

| run | instance | shows |
|---|---|---|
| `worker_block_commit` | 2 scopes, 1 slot, block mode, deadlines charge, window 4, ttl 2, clock to 5, 3 reservations of 1 or 2 units, stamps lag by up to 2, budget 2 | exposure is exact (`ReservedIsActive`, `CommittedIsCharged`), `BudgetHeld`; `ImplementsExposure` |
| `worker_monitor_release` | 3 scopes, 2 slots, monitor mode, deadlines release, window 2, ttl 1, clock to 4, calls of 0 or 1 unit, three settlements of the former | `IndexExact`, `Bounded`, `CountersBalance`, `AtCapacityMeansFull`; `ImplementsExposure` |
| `nonce_single_use` | 2 workers, 3 approvals with deadlines within, between and beyond the representable seconds, one unreadable leftover, one rebuild, faults | `SingleUse`, `KeptWhileFresh`, `BoundHonest`; `ImplementsRegister` |
| `nonce_cap` | cap 1, 2 workers | `StoreBounded`: the shared store exceeds the cap by no more than the cap per worker |
| `node_release` | 2 workers, release mode, marker cap 1, one fault (`full` or `landed`) and one restart | `CommitsKept`, `BudgetHeld`, `NotActiveIsGone` |
| `node_commit` | 2 workers, commit mode, window 2, clock to 4, one fault (`misread` or `unwritten`), collection | `ChargedOnce`, `HeldUntilDeadline`, `MarksStand` |
| `node_slots` | 2 workers, 2 scopes for 1 slot, commits and releases, stalls of one tick, no faults | `SlotsExact`, `CapHeld`, `HeldInWindow`, `LeavesInOrder` |
| `node_slots_live` | the same without stalls and settlements, two faults (`unwritten`, `landed`, `restart`), sweeps that visit one key | `TypeOK`, `RoomReturns` under `FairSpec` |
| `gate_requests` | 2 calls in flight, ttl 2, clock to 3, statuses 200, 302 and 404; a governed call, and what differs from it in one respect, beside a second call | `AggregateHeld`, `ForwardedIsReserved`, `SettledAsAnswered`, `HarmlessPasses`, `RequestsAnswered`, `BreachReported` |
| `approval_requests` | a well-made request, and the requests, envelopes, bodies and configurations that differ from it in one respect; retries; other workers and two sweeps at once; reservations held up for one second; clock to 2 | `ForwardedIsBound`, `NonceSpentExactly`, `ForwardedOnce`, `EnvelopeRemoved`, `SpliceSucceeds`, `MonitorPredicts` |

**Bounds.** The interesting life of a reservation is its deadline and one further ttl, and
in windowed runs the next period: each clock bound passes all three for a
reservation made early (ttl 1 or 2, clock to 4 or 5; in `node_release` and
`gate_requests` clock 3 is the end of the deadline, or of the tombstone, of one made
at 1 or 0; what a filter does after that is nothing). Two or three reservations are enough
for two calls in flight with a third evicting or refused. Two workers make every
pairwise race; two of each kind of call exhaust what one record can be asked.
`MaxStall` 1 lets a node-ledger call straddle one tick and `MaxStall` 2 a nonce call one
whole second. `MaxHeld` 2 reaches the per-scope cap.
In `gate_requests` units go to 4, `MaxUnits`, and a u64 to 7, so that a sum of two
items passes either; two calls are enough for one to be admitted while another waits for its
body or its upstream, in one scope or two. In `approval_requests` the clock passes the
deadlines 0 and 1, with skews 0 and 1 between, and 2 is when a sweep finds an expiry of 0 due, a
reservation made at 0 being held up to 1; integers to `MaxSafe` + 2 reach the first one a
double rounds; bodies have up to three members, the envelope first, in the middle or last, its
key spelled with an escape or not, each structural character in a string or a nested value, and
whitespace in the places where it may be.
In `node_slots` two scopes for one slot make every new record wait for the other to
be swept; `MaxRescan` 2 leaves a hint something to bring forward; sweeps visit both keys, and
in `node_slots_live` one, so that the cursor is used. There the two faults are enough
to leave a `Doomed` record behind (a delete and its restore fail, or a VM dies between)
and then fail once more. `U64Max` is large against every sum in
a run: the configuration bounds 512 entries of 2^53 - 1 units below 2^64
(`WidthAssumption`), so only `indexed_at = u64::MAX` is ever met.

In the node runs time does not pass while a commit is being marked
(`SlowPersist = FALSE`), because with it `CommitsKept` fails: see
below. In `node_release` one marker slot serves two commits, so that the second goes on without; its clock
stops before a marker is collected. In `node_commit` it does not, and the collectors of two workers
meet each other and every touch: `MarksStand` is checked there, with slots enough. `MarkersBounded`,
what the slot count promises, is in no run: with overlapping collectors it fails, see below. No
passing run uses the fault `unread`: it differs from `misread` only in that the call gives up.

**Fairness.** `RoomReturns` is checked under `FairSpec`: a call that began is run to its end
(weak fairness of `Continue` for each worker: a request's ledger call is
synchronous and a proxy worker runs it), and the clock goes on for ever (`[]<><<Tick>>`; weak
fairness of `Tick` would say less, for a tick waits until no call is `MaxStall` behind
and calls may overlap without end). Nothing is assumed of which calls arrive: that
the scope keeps being reserved for, and that no other scope is, are premises of the
property (`OnlyCalled`, `Reserving`), as is that not every slot has leaked ("nothing
recounts `n`"). Restarts and failures are not fair and are bounded by `MaxFaults`; all other
properties are safety properties.

### Disagreements between the code and its comments

Two have a run whose counterexample shows them.

* `nonce_shared`: two approvals whose issuers picked the same nonce share a key. A
  sweep that found the first expired deletes, unconditionally and one host call later,
  the reservation of the second, which can then be used again.
* `slots_restore`: a delete that reports failure but landed makes the sweep "restore" its
  `Vacant` over whatever is there by then, a live record another worker has created
  included: its total is lost and its slot stays counted.

Seven more are not among the runs; other constants of the same modules show them.

* With deadlines that charge, a call is refused `AtCapacity` although a tracked scope is idle.
  The index holds the idle time computed before the deadline charged, so the first entry can
  be busy once touched (`ledger.rs:661` calls that unreachable) while a later one is idle:
  `AtCapacityMeansFull` fails in `WorkerMonitorRelease.cfg` with `Mode = "block"`,
  `Timeout = "commit"`, `Window = 3`, `Contributions = {1}`, `MaxLag = 0` and `MaxClock = 5`.
* A commit marked just after its tombstone was dropped is answered as deferred and never
  charged; the clock was read before (`node_ledger.rs:579`): `CommitsKept` fails in
  `NodeRelease.cfg` with `SlowPersist = TRUE`.
* Two overlapping collectors of one marker both delete and both decrement, since `claim`
  writes over a `Collecting` mark and the delete is unconditional
  (`node_ledger.rs:524`, `634`; line 255 says only the collector that wrote the mark may), and a
  claim's write to a marker deleted since it was read creates it again without a slot:
  `MarkersBounded` fails in `NodeRelease.cfg` with `Window = 2`,
  `Timeout = "commit"`, `MaxClock = 4` and neither faults nor restarts.
* A commit whose record is misread after its window has passed is answered not-active
  though the untouched record still holds the reservation (`node_ledger.rs:1378`
  against 80-82): `NotActiveIsGone` fails in `NodeRelease.cfg` with `Faults = {"misread"}`,
  `MaxClock = 4` and no restart.
* A collection that misreads the record as missing deletes a marked commit's marker while its
  tombstone is still on the record (`node_ledger.rs:623-634`), and the touch that then drops the
  tombstone charges nothing, although lines 71-74 have the commit "in the total at every moment":
  `CommitsKept` fails in `NodeRelease.cfg` with `Faults = {"misread"}`, `MaxClock = 4` and no
  restart.
* At the marker cap, a commit that judges its window by an old stamp charges again what
  its deadline had charged (`node_ledger.rs:1378` against 542-544): `ChargedOnce` fails in
  `NodeCommit.cfg` with `MarkerCap = 1` and no faults.
* With deadlines that charge, a queued commit may be charged although its deadline charged it:
  `charge` reads no marker (`node_ledger.rs:1185-1202`), and before it reads the record the
  window ends and one touch of another worker expires the hold, charging it, and drops it. The
  charge finds it gone and adds it again, against line 253 ("never charge a queued commit
  twice"). `ChargedOnce` fails in `NodeCommit.cfg` with `Faults = {"unwritten"}` and
  `MaxFaults = 2`.

One more, not a run: the trait's comment at `ledger.rs:515` says every method first reclaims;
in release mode `settle` (`ledger.rs:838-845`) deliberately settles first.

## 5. What is proved

Of the worker ledger, for every set of scopes, caps, budget, window, ttl, timeout mode, lag and clock bound, from
the assumptions named in `ScopeState` and `WorkerLedger` (positive ttl and
caps; a budget and contributions of at most `MaxUnits`; `MaxHeld * MaxUnits < U64Max`;
finitely many scopes):

| theorem | states |
|---|---|
| `TypeCorrect` | `Spec => []TypeOK` |
| `ReservedExact` | `Spec => []ReservedIsActive`: no saturating subtraction ever hides an underflow |
| `BudgetBound` | `Spec => []BudgetHeld`: block mode never passes the budget but by calls charged after their hold expired uncharged |
| `IndexCorrect` | `Spec => []IndexExact`: what `evict_one` relies on |
| `CapsKept` | `Spec => []Bounded` |
| `CountersExact` | `Spec => []CountersBalance`: the operator's counters tell every reservation apart, and count every settlement of a call of no cost |
| `FullMeansBusy` | `Spec => []AtCapacityMeansFull`, where deadlines do not charge and from `ClockFits`: `MaxClock + 1 < U64Max` |

**Argument.** None of the first five is inductive alone. The budget needs `reserved` to be
the sum of the active holds; settling a hold moves its units from `reserved` to `committed`
and must find them there; the overshoot needs the history to agree with the entries
(a late settlement is one whose entry is a tombstone that was not charged). `IInv`
is their conjunction: `HistoryOK` (the shape of the history), `Table` (each tracked
scope's books, indexed at its idle time) and the table's cap.

* `Sums_proofs`: the sum of a function over a finite set (`SumFunction`), unfolded without
  an induction theorem over data: adding or removing one member, changing one value,
  splitting, bounding (`SumAdd`, `SumRemove`, `SumExcept`, `SumSplit`, `SumBound`).
* `ScopeState_proofs`: what each method preserves (`RollSound`, `ReclaimSound`,
  `HoldSound`, `SettleSound`).
* `WorkerLedger_proofs`: the books of one scope under each operator (`Books...`),
  the table under put and evict, one lemma per action, then `Inductive`.

The counters and the refusal need more. `CountersExact` adds to `IInv` that the active counter is
the entries of the whole table (`Tally`, a sum that one `put` or eviction changes in one
summand), that what expired and is not settled since is the table's tombstones, and that the
rest is the balance of the reservations given and settled (`Counted`). `FullMeansBusy` is about the
code's shortcut of looking at one index entry only: where deadlines do not charge, a scope touched at
any later time is idle exactly from its `idle_at` on (`IdleFromThenOn`), so an entry that is
due is a victim that can go, and no entry due means none idle. Where they do charge it is false
(§4). `ClockFits` is needed because an index entry at the largest u64 says never.

Two more theorems of the worker ledger, at the end of `WorkerLedger_proofs`, each have a
hypothesis about the width of a u64:

| theorem | states |
|---|---|
| `CommittedCharged` | `Spec => []CommittedIsCharged`, from `Exact`: the mode is block and deadlines charge, or `MaxId * MaxUnits <= U64Max` |
| `Refines` | `Spec => ImplementsExposure`, from `TimesFit`: `MaxClock + 1 + 2 * Ttl <= U64Max` |

`Exact` is needed because the code saturates: in monitor mode, and where calls are charged
after their hold expired uncharged, nothing bounds what is committed but the number of calls, and
past 2^64 - 1 units the total is no longer what was charged. In block mode with deadlines
that charge the budget bounds it and there is no condition. `TimesFit` is the same of
times: a deadline that saturates would be earlier than its stamp plus the ttl, which the
contract says it is. Milliseconds reach 2^64 in 584 million years.

**Argument.** `IInv` says nothing of which calls a total is made of. `AInv` adds each
scope's account: an entry's `provisional_period` is where the history says its call is charged;
`committed` counts what is owed in the state's own period, never more; and a scope whose
state is of an older period, or that is not tracked, owes nothing in the current one. The last
part is what eviction relies on, and all it can: a scope evicted and tracked again
by a call with a lagging stamp has forgotten what it owed in that stamp's older
period, so for an older period equality is false and only the bound is invariant.

For the refinement each reservation is a row: its units and deadline, the status its scope's
state gives it, its charge (`View`). `Ages` says what time alone may make of a row's status and charge
(held to lapsed, charged in a current period if deadlines charge; lapsed to closed a ttl later). It is
transitive, and rows that each age make one step of the abstract ledger's `Aged`
(`AgedRows`): so a call that rolls, reclaims, evicts another scope and writes the table ages
every row but its own (`TouchAges`, `EvictionAges`, `AgesPut`), and its own is admitted or
settled as the contract says (`AdmittedRefines`, `SettleTrackedRefines`). The budget of
an admission is `BudgetHeld`'s arithmetic on the abstract sum (`ExposureUnits`).

Of the nonce store, for every set of workers and approvals, cap, backoff, clock bound and number
of rebuilds, from the assumptions named in `NonceStore`; the first three also from no
two approvals sharing a nonce (`NoncesDistinct`; without it the code does not, see
`nonce_shared`) and `MaxStall <= Second`, the others from what they name:

| theorem | states |
|---|---|
| `NonceSingleUse` | `Spec => []SingleUse`: no approval is forwarded twice, whatever workers it is presented to |
| `NonceKept` | `Spec => []KeptWhileFresh`: no nonce is forgotten while its approval would pass P4 |
| `StoreIsRegister` | `Spec => ImplementsRegister`: every step of every worker is a step of the atomic register or none |
| `BoundIsHonest` | `Spec => []BoundHonest`, from `NoncesDistinct` and `BackoffFits` (`MaxClock + Backoff < Never`): a worker that refuses because it is full has nothing of its own to sweep, and one that would for ever, nothing that will come due |
| `StoreIsBounded` | `Spec => []StoreBounded`, from finitely many workers only |
| `RegisterSingleUse` | `Register!Spec => []Register!SingleUse`: such a register grants single use, of shared nonces too |

**Argument.** A sweep judges a key in one host call and deletes it, unconditionally, in a later one. The
inductive invariant (`NonceStore_proofs`, `IInv`) says that what a worker is about to delete can
come no more (`CallOK`) and that the nonce of an approval that was used is stored, or its
approval gone (`Remembered`). The lemma it turns on is `DueIsGone`: the seconds of slack
in `nonce_sweep_due` cover both the rounding of the expiry and the call that is held up, and it is
where `MaxStall <= Second` is needed. With a call held up for a
second and a half, `SingleUse` fails in TLC (`NonceSingleUse.cfg` with `MaxStall = 3`).

The bound a worker keeps (`full_until`, or the `earliest` of its sweep) outlives the keys it was
computed from: others delete and store them again. `BInv` therefore says that it bounds
the expiry of every approval whose nonce the worker knows, stored or not (`Bounds`), with one
case for a leftover that cannot be read. For the size of the store no worker's count can
be compared with the store, which others fill. `CInv` shares the readable nonces out:
some assignment gives each worker at most `Cap` of those it knows of, and each
rebuild at most `Cap` that nobody knows any more (`Shared`); `UnionBound` then adds up.

Of slots and sweeps, for every set of workers and scopes, cap, ttl, sweep interval and budget, number of
faults and of stalls, from the assumptions named in `NodeSlots` (positive times and cap;
`StallAssumption`; a rescan is no longer than the gc interval, 1 s and 60 s in
`node_ledger.rs:151`, `155`):

| theorem | states |
|---|---|
| `TypeCorrect` | `Spec => []TypeOK`, whatever the faults |
| `SlotsAreExact` | `Spec => []SlotsExact`: the counter is the live records, the slots in hand and those leaked |
| `CapIsHeld` | `Spec => []CapHeld` |
| `HoldsAreKept` | `Spec => []HeldInWindow`: no sweep, deletion or re-creation loses a hold within its window |
| `RecordsLeaveInOrder` | `Spec => LeavesInOrder` |

All but the first from `"landed" \notin Faults`: a write that fails did not land. With that fault
they are false, as `slots_restore` shows. Failed writes, restarts and lost races are allowed.

**Argument.** None of the four can be had without the others: a slot is lost
where a live record is, and a live record is lost where two calls each take a key for their own.
The invariant (`NodeSlots_proofs`, `Safe`) says what a call may rely on between its read and its write.
A call that is still linked finds what it read. A call that knows a live record, though
others may have written it since, finds it live, or Vacant for no longer than the call and
one sweep can stall, so no sweep finds it old yet. A record that a sweep is deleting is
that sweep's own `Doomed` one, too young for another sweep to take it back, and no two
calls delete in one scope (`Apart`). The first needs `2 * MaxStall < Grace`, the second
`MaxStall < Recover`, and nothing else needs time. `HeldOn` and `Counted` then follow step by
step, the count by changing one summand (`SumExcept`).

Of the node ledger, for every set of workers, ttl, window, timeout mode, budget, caps, number and
kind of faults, restarts and stalls, from the assumptions named in `ScopeState` and `NodeLedger`:

| theorem | states |
|---|---|
| `TypeCorrect` | `Spec => []TypeOK`: the shared record is sound whoever wrote it, `reserved` is the sum of its active holds, a queue holds only settled reservations |
| `HoldsUntilDeadline` | `Spec => []HeldUntilDeadline`: nothing but its settlement takes a hold off before its deadline |
| `BudgetBound` | `Spec => []BudgetHeld`: all workers together keep to the one budget |
| `CommitsAreKept` | `Spec => []CommitsKept`, if deadlines charge, or else if `"misread" \notin Faults` and `~SlowPersist` |
| `NotActiveMeansGone` | `Spec => NotActiveIsGone`, from `"misread" \notin Faults` |
| `ChargedAtMostOnce` | `Spec => []ChargedOnce`, where deadlines release: unless a failed write landed, and whatever reads fail or are misreported |
| `MarkersStand` | `Spec => MarksStand`, from `"misread" \notin Faults`: no marker is deleted, and no commit mark written over, while its reservation is on the record |

The first three have no hypothesis of their own: they hold under every fault, restart and stall. The
hypotheses of the others are where the code is wrong: §4 has the constants that show
each of them failing without.

**Argument.** A worker computes from a record it read some host calls ago, so an invariant of the
shared record alone says nothing of what is about to be written. `Inv` (`NodeLedger_proofs`)
speaks of every copy: the record, what each call read and what it would write hold only
reservations already given out, in sound books (`Recorded`); each call is at a step its operation
has, with the values it has there (`Calls`); a queue holds only commits that were answered
(`Queues`); no two calls own one reservation (`Apart`); what was not given out was not
charged (`Fresh`). The compare-and-swap gives the rest: a write lands only on the record
it was computed from (`LandedFacts`), so each theorem is about one pure function, the whole touch
(reconcile, settle, reclaim, admit), and about the three kinds of step that are not a
write (`StepKinds`: a call begins, moves on, or is lost in a restart). What each adds to `Inv`:
`Upheld`, that a hold not yet settled is on the record; `Budgeted`, that what is reserved and the
reservations charged in time fit the budget, an accounting by reservation that a commit moves
from one side to the other; `OffStays`, that what a settlement did not find in the record it read
stays off it. `Keeping` is the largest: no reservation whose answer is awaited is lost before
its window ends (`StillThere`), a marked commit that is on the record keeps its
mark (`MarkedKept`), every call knows what it read of a marker (`Known`), and each deferred commit is
charged, marked, queued or lost with its queue (`Deferred`).

A second charge of one commit could come from its own call, its queued copy, its marker, or a touch
that read the marker some steps ago. `Safe` says that a commit is open, and then nothing has charged
it, or closed: no call, and no queue but for a marked entry, still has to write it (`Closed`).
Whatever is charged, marked, taken from a marker into a touch or held by a collector is closed (`Once`).
This needs that a queue names no commit twice and its worker's call none that waits (`Good`), and that
no two workers have entries for one commit (`Separate`). A marked entry is only settled, and a
settlement charges only what is on the record, where deadlines release uncharged. It needs that a
write that failed did not land (lines 90-91), and nothing of what is read: `ChargedOnce` excludes
failed and misreported reads only where deadlines charge.

`MarksStand` is about a delete that looks at nothing (`collect_marker`). What makes it safe is
that a collector read, some host calls before, a record without the reservation, after the reservation
was given out: such a reservation never comes back to the record. So the invariant says that whatever a
collector goes on with is off the record (`Cleared`) and that a reservation yet to be granted has no
marker and no collector (`Unseen`), and a claim or a commit that would write over the mark of a reservation that is on it has compared it first.

Of the aggregate gate's filter, for every set of calls, requests of any number of items,
configurations, statuses, identities and spellings of them, limits, ttl and clock bound, from the
assumptions named in `GatePricing` and `GateFilter`:

| theorem | states |
|---|---|
| `NothingUnreserved` | `Spec => []ForwardedIsReserved`: in block mode nothing that may run a governed call is forwarded before its whole weight is reserved under its own party |
| `PartiesWithinBudget` | `Spec => []AggregateHeld`: what one party got through costs at most the budget, however it was batched, spelled, raced and settled |
| `ChargedAsAnswered` | `Spec => []SettledAsAnswered`: an entry for every reservation, charged if and only if its own call succeeded |
| `HarmlessUntouched` | `Spec => []HarmlessPasses`: what is surely ungoverned passes, in every mode |
| `BreachesShow` | `Spec => []BreachReported`: monitor mode denies nothing and hides no breach |
| `DenialsAnswer` | `Spec => []RequestsAnswered`: a denied batch gets one error for each of its requests' ids, and for nothing else |

The assumptions say what a request is, not what the filter makes of it: finitely many calls; items
have the members `GatePricing` reads, of the types a JSON reader gives them (`ItemsAssumption`;
an amount is an integer of minor units or `Inexact`); the markers for an absent and for a non-string
member are no method's name (`MethodsAssumption`); a well-formed identity is the sender's
(`IdentityAssumption`, see §3); times are numbers and the ttl positive; a response has a
final status (`StatusesAssumption`: Envoy hands the response phase no 1xx).

**Argument.** A price is computed by a fold over the items, with two ways out of range, and what
upstream may run is defined independently of it. `PriceCovers` is where they meet: a price the code
accepts is at least the weight of everything upstream may run, since an item that runs is governed
(`RunsGoverned`) and a running total that went out of range does not come back (`TallyIsSum`).
The theorem library has no fact about folds, so `FoldExists` builds the fold's function place by
place, and the fold unfolds like any recursive function. `IdentityFacts` is the same for the
scope: an identity is the sender's own key, or one of the two markers that block mode refuses.

The inductive invariant (`Inv` in `GateFilter_proofs`, checked by TLC on the instance of
`gate_requests` first) then says of every forwarded call that may run that its entry
covers it (`Backed`), of every entry how far its call and the clock allow it to be
(`Timed`), and of every scope that what it holds and is charged, what late answers charged
apart, is within the budget (`Within`). That sum, not `Ledger!Exposure`, is what is
inductive: exposure also grows when a call is answered after its hold lapsed uncharged,
which no admission could foresee. Every step but an admission only takes entries out of the
sum (`KeptShrinks`), and an admission enforces the budget on the larger exposure, or in
monitor mode says so (`AdmitMoves`). For a denial the invariant says what it was computed from
(`Denial`); that its ids are the requests' ids, each as often as requests carry it, is a fact about
`ResponseIds` alone (`EchoCounts`).

Of the approval filter, for any configurations (those `Valid` refuses among them), requests and
envelopes, approvals shared or not, rivals, limits and clock bound, from the assumptions named in `ApprovalPredicates`
and `ApprovalFilter`:

| theorem | states |
|---|---|
| `BoundForwarded` | `Spec => []ForwardedIsBound`: in block mode nothing that may run a tool goes on unless it reads in one way only and every required predicate holds of it |
| `NonceSpentOnForwarding` | `Spec => []NonceSpentExactly`: a nonce is reserved for exactly the calls forwarded in block mode under P6 |
| `MonitorAgrees` | `Spec => []MonitorPredicts`: monitor mode forwards everything and says would-deny of exactly the calls that lack a predicate |
| `ForwardsOnce` | `Spec => []ForwardedOnce`, from `MaxStall <= Second`: a call that went on under P6 used its approval, and if no other approval bears the nonce, no worker uses that approval again |

The assumptions say what arrives: a body's length is a number and its members have the types a JSON reader gives
them (`RequestsAssumption`); a MAC is over an mcp-v1 payload (`MacsAssumption`); a deadline is a
date, absent or no date (`PresentedAssumption`); digests are of what was approved
(`WrittenAssumption`, §3); and the clock is further from chrono's last date than a lifetime and a skew
(`ClockAssumption`).

**Argument.** The properties say what approval is with no order of checks, no digest and no canonical
form. `VerdictIsApproval` is where they meet `evaluate`: the first failure in its order is none exactly
when no required predicate fails (`AllowsUnlessFailed`); arguments whose digest matches and that have a
canonical form are those the approver meant, since a number that a tool may have changed has no
canonical form (`MatchIsMeant`); the instants compared with limits are those compared without
(`FreshIsCurrent`); an attestation whose MAC verifies was signed for this call, here
(`AuthenticIsSigned`). The rest is `AInv`, what is known of a call at each point where it
waits: one that waits for its nonce reads in one way only, is approved, and lost nothing in the splice.
What it adds to the properties is that the parser's verdicts are about what upstream would run (`ParsedMeans`).
Single use is not inductive: a nonce may be forgotten and reserved again. `UInv` says of an approval
whose nonce no other bears that what is stored there is its own expiry, that what a sweep has judged and
is yet to delete is gone, and that once used it is stored or gone (`UsedOnce`). Gone is later than any
store of it can come, and `DueIsGone` is where the second of grace and `MaxStall <= Second` meet. Of a nonce that two
approvals share nothing is claimed: the code forwards the second twice (`nonce_shared`).

**Only model-checked:** `AtCapacityMeansFull` of the worker ledger where deadlines charge (false in
general, see §4); `ChargedOnce` of `NodeLedger` where deadlines charge (false outside the
bounds of its run, at the marker cap or with two lost writes, see §4); `EnvelopeRemoved` and
`SpliceSucceeds` of `ApprovalFilter`, where a scanner is compared with a reference reader text by text,
an induction over data. The invariants of `ApprovalFilter_proofs` were checked by TLC on the requests of
`approval_requests` first. Liveness
(`RoomReturns`) stays with TLC, as does what a recursive definition computes for every input.

## 6. Not modelled

Cryptography and text: SHA-256, HMAC, base64 and constant-time comparison (a digest is an
identity, a MAC its key and payload), the parsing of dates, the wording of answers, stamps and
logs. The bytes of a body below its lexemes (UTF-8 validation). Ranges of the aggregate gate's
times and counts, which appear as assumptions (`ScopeState`, `WorkerLedger`). Recounting
the markers of earlier builds in the node ledger, which runs once at an upgrade. The
storage adapter appears only as the outcomes it may have. Schemas, playground and scripts
do not run in the gateway.

## 7. Running

`tlc -config X.cfg M` for a run of module `M` (the table in `PROJECT.json`), and
`tlapm WorkerLedger_proofs.tla`, likewise `ScopeState_proofs`, `Sums_proofs`,
`NodeLedger_proofs`, `NodeSlots_proofs`, `NonceStore_proofs`, `GateFilter_proofs` and
`ApprovalFilter_proofs`.
