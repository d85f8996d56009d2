# Kiana: verification of the journal, approvals, dispatch, cancellation, harness and outbox

Kiana runs coding agents. Its daemon decides what an agent may do, records every decision and every
effect in an event journal, tells the runner (which talks to the model) what happened, and notifies people outside. This
directory holds TLA+ models of the parts that decide and record, the TLC runs that check them and
the TLAPS proofs about them.

* [1. The system](#1-the-system)
* [2. Modules, and how they correspond to the code](#2-modules-and-how-they-correspond-to-the-code)
* [3. Runs, bounds and fairness](#3-runs-bounds-and-fairness)
* [4. Where code and documentation part](#4-where-code-and-documentation-part)
* [5. Proofs](#5-proofs)
* [6. What is not modelled](#6-what-is-not-modelled)
* [7. Plan](#7-plan)

`PROJECT.json` lists components, runs, mutants, hazards and theorems, and maps every definition to the
lines it stands for.

## 1. The system

The product is a Rust workspace of about thirty crates. The legacy tree, the documentation, release
scripts, fixtures and the desktop shell make up most of its files; the logic that must not go wrong is in a few.

| Component | State it keeps | Operations | Must be true of it |
|---|---|---|---|
| **Event journal** (`kiana-eventlog`: `journal_core.rs`, `event_store_core.rs`, `memory.rs`, `jsonl.rs`; `kiana-domain/src/journal.rs`) | the accepted events, receipts by command, a version index, commit boundaries; on disk one JSONL file, per handle a cache of it, a lifecycle, a file lock | `commit_transition`, `read_command`, `read_from`, two compatibility appends, flush, close, open with recovery | a command commits once and only on the versions it read; what was answered is durable; readers get whole commits in order; a crash never makes the file unreadable |
| **Approval gateway** (`kiana-daemon/src/journal_approvals.rs`) | per approval a stream of facts (staged, active, approved, denied, expired, cancelled, consumed); raw payloads that may not be written stay in memory | stage, activate (with the run's pause), decide, list, consume, invalidate, sweep a project | a grant is good for one use, under the authority it was asked for; one decision stands; a sweep that reports success left nothing alive |
| **Dispatch and permits** (`kiana-core/src/dispatch.rs`, `capabilities.rs`; `kiana-domain/src/dispatch.rs`) | an authority pin per request, a permit stream per execution, a delivery claim per request | pin, gather the read set, prepare (and consume the approval), verify and consume, settle, claim, call back | a handler is entered at most once, only while everything checked still holds; the facts tell after a crash whether it may have run; the runner gets a result at most once |
| **Run lifecycle** (`kiana-core/src/lifecycle.rs`, `sessions.rs`, `stop_tracker.rs`; `kiana-domain/src/execution_stop.rs`) | the run's stream (prompts, `run.cancelling`, terminal facts), a cancellation watch, a stop set of executions | `continue_run`, `drive_run`, `cancel_run` | one outcome a turn; `run.cancelled` only when everything has stopped; a cancellation ends its turn although model and handlers hang |
| **Runner harness** (`kiana-runner`: `harness.rs`, `inbox.rs`, `state_driver.rs`, `recovery.rs`) | where each run is (stored, taken by a task, in flight, dropped), its driver frame, an inbox of inputs, inputs deferred while it is in flight, pending tool calls, cancellation handles | start, continue, capability result, resume, model step, inject, cancel, checkpoint, restore, evict | a run is held once; an accepted input reaches the model exactly once; a call is requested once; a cancelled run is silent |
| **Capability broker** (`kiana-capability-broker`) | registered capabilities | `execute_cancellable` | no handler without a consumed permit |
| **Notification outbox** (`kiana-domain/src/notification_outbox.rs`, `kiana-eventlog/src/notification_outbox.rs`, `kiana-core/src/notification_delivery.rs`) | records with revision, lease, generation; pressure counters; a journal file that is replayed | enqueue, admit, claim, submit, acknowledge, fail, release, abandon, reconcile, open; the worker's plan and drain | a notification is sent at most once; what a caller was told survives; replay equals memory |
| **Durable workflow** (`kiana-workflow`, `kiana-eventlog/src/workflow_queue.rs`, `kiana-daemon/src/workflow_service.rs`) | queue leases with fencing tokens, step records, retry counters | enqueue, claim, renew, finish, retry | no step finished under a lost lease, no retry of a done step |
| **Automation, credentials** (`kiana-eventlog`: `automation_*.rs`, `credential_rotation.rs`; `kiana-daemon/src/secret_leases.rs`) | effect reservations, rotations and leases | reserve, cancel, rotate | at most one effect for a reservation, no lease that outlives a rotation |
| Policy, gates, projections, company domain, provider gateway, presentation, bridges, tools | pure functions, folds of the journal, I/O | see `components` in `PROJECT.json` | not modelled (section 6) |

**How they interact.** The daemon's tasks share no mutable decision state but the journal: each reads
some streams, awaits, and then commits a batch on the versions it read (`TransitionBatch` with its
expected versions). Every race of the system is therefore a race between a gathered read set and someone
else's commit, plus four things that are *not* in the journal: raw payloads of approvals, the handler's
effect, the runner's callback, and the in-memory watch and stop set of a run. The broker calls back into
dispatch (`JournalPermitVerifier::verify_and_consume`) between admission and the handler. The runner
is called through a port (`RunnerPort`) and has no journal; Core decides which commands reach it, checkpoints a run that
waits into the journal and may restore it there after a restart. The outbox has a journal file of its own and shares
nothing with the rest but the clock and the authority epoch. An approval is activated in the same batch that pauses its run, and
consumed in the same batch that prepares the permit.

**What is hard.** Reads and commits are separated by awaits; commits may end unknown (`commit_confirmed`,
`Confirm`); the daemon restarts between any two steps; an append tears or loses its newline; a barrier
fails after the write; several handles cache one file; the wall clock moves; sweeps race decisions; a
cancellation races the end of its turn and the next prompt; the harness keeps a run in one of three maps, each behind its own
lock, and commands look into them one after the other; a delivery worker acts on a plan it made under a lease that has
meanwhile run out. `hazards` in `PROJECT.json` names each one at its
line, with the properties that would catch it.

## 2. Modules, and how they correspond to the code

```
EventStore  <--implements--  MemoryEventLog  --EXTENDS-->  Journal  <--EXTENDS--  JsonlEventLog  --implements-->  EventStore
                                  ^                            ^
   MemoryEventLogTheorems  --EXTENDS-->  JournalTheorems  <--EXTENDS--  JsonlTheorems  --EXTENDS-->  JsonlEventLog

Grants  <--implements--  Approvals  <--EXTENDS--  ApprovalsTheorems

Cancellation  <--EXTENDS--  CancellationTheorems      Dispatch  <--EXTENDS--  DispatchTheorems

Outbox  <--EXTENDS--  OutboxTheorems      Harness  <--EXTENDS--  HarnessTheorems
```

Each `MC*` module instantiates one of them for TLC: model values, the batches or operations that are
tried, the symmetry.

**Journal** is `JournalState`, pure: `Appends`/`NewReceipt`/`ApplyTransition` are `plan_transition` and
`apply_transition`, `AppendsLegacy`/`ApplyLegacy` the compatibility path, `Index` is `index_event`,
`PageEnd`/`PageEvents` are `page`. A stream is what `same_stream` compares: the aggregate of an event with
aggregate metadata, else its request. Digests, ids, keys and payloads are values that are only compared.

**EventStore** is what the port promises: a sequence of commits, each admitted against the versions it
read, callers told only of commits that are in it, readers taken on by whole commits. No index, file
or process.

**MemoryEventLog** has one atomic action per port operation (the adapter holds its mutex throughout).

**JsonlEventLog** models the file as chunks: a record, and the newline that ends it; a record cut short is
`Torn`. `file` is what processes see, `disk` what the last barrier made durable. An operation goes through
`Submit` (first lifecycle check, worker permit), `Start` (second check), `Lock` (`flock`), `Load`
(`load_delta`: scan from the cached offset, mend the tail, barrier, `remember_file`), a plan, `WriteHeader`
when an old file is upgraded, `WriteRecord` or `WriteFails`, and `Answer`. As the lock is held from
`Load` on, each of these is one action; its failure outcomes leave file and cache as an error half way
through the code would. `Crash` kills the process of one handle, `PowerFailure` all, and leaves any
`Survivors`: at least `disk`, at most `file`, the last chunk possibly torn. A file may be absent at the
start, in the current format, or in the format of an older release (`InitialFiles`).

**Grants** is the promise of the approval store: a grant takes one step at a time towards one use, each
under the authority it was requested under, or is withdrawn for good.

**Approvals** keeps the journal as `stream` (facts of an approval), `authority` and `run`. A call
records in `call` how far it got and what it saw: `ReadAuthority`, `ReadReceipt`, `ReadRun`, `Load`,
`Check`, `CheckAuthority`, `TakeMaterial`, `Mint` are its awaits in the order of the code, `Commit`
succeeds when the streams it read are `Unmoved` (or, with the run, when it `Holds`). `Revise` and
`CancelFirst` start the two sweeps; `Sweep`/`WithdrawOne` are `invalidate_project` with its bounded attempts.
`Abandon` drops a call at an await.

**Dispatch** follows one request from its pin to the runner's callback. `Pin`, `Begin`, `ReadRevision`,
`ReadScopes`, `Guard` and `TakeApproval` gather the read set; `Prepare` commits the permit with the
approval's consumption; `Prepping`/`Fence` handle an unconfirmed commit; `Admit`, `Consume`, `Handle`, `Finish`
are the broker and the handler; `Settle`, `Record`, `Deliver`, `Claim`, `Send`, `Conclude` the rest. Around
them: revisions, company facts, quarantine and its `Release`, cancellation, the end of a turn, the next
prompt, approvals granted and withdrawn (`Approvals` has the steps), restarts. Facts of the run's stream that
nothing here reads are one kind, "note", which still moves its version.

**Cancellation** models two prompts and two cancellations of one run. A drive takes the watch, asks the
runner for a step, dispatches (as much of it as a cancellation meets), delivers, ends its turn and clears
watch and stop set; a dispatch that the broker refuses ends without a certain result. A cancellation records its intent, signals, asks the runner, begins the stop, waits at
most ten seconds and writes the outcome its proof allows. Watches and stop sets are numbered objects, because
tasks go on holding one that the run has dropped.

**Harness** is one run in the runner. `stored`, `inFlight`/`cancelled` and `deferred` are its entries in the three maps
(`runs`, `in_flight`, `deferred_inputs`); a command is a task that takes the run (`Take` is `take_run`), goes through
`Register`, `BeginStep`, `AnswerCalls` or `Answer`, `Complete`, `Leave`, `Store`, one action for what it does between two
accesses to a map. A run is its driver frame (phase, pending count, steps), its inbox (two queues and what the model
has seen) and its calls. `Inject`, `LookUp`, `LookInFlight` and `Defer` are the accesses of `enqueue_injected`.
`Cancel` chooses between `Signal` and `CancelStored`, as `cancel` does. Of Core it has what decides on commands: prompts,
the single delivery of a result, `Checkpoint`, and `Restore` with the rule that nothing may have followed the checkpoint.
`Restorable` is what `restore` checks.

**Outbox** keeps the map of records, the counters and, of the journal file, what a replay of it yields, whether it
parses at all, and whether its last line has its newline. Every call of the store holds the store's mutex and is one
action: `Enqueue`, `Shed`, `Claim`, `Submit`, `Settle`, `Release`, `Abandon`, `Reconcile`. `Appended` and `AppendFailed` are
the append: a failed one leaves nothing, a torn line or a whole line without its newline. `Follows` is what
`derive_transition` accepts in a replay, so a live path that writes what a replay refuses shows. A worker reads, plans
(`PlanOf`) and calls later, with the lease it planned on (`task`).

## 3. Runs, bounds and fairness

| Run | Checks | Shows |
|---|---|---|
| `memory` | `TypeOK` `LogSound` `CallersServed`, `ImplementsEventStore` | the journal's bookkeeping (streams rise, the index is exact, ids and keys are unique), that receipts describe the log, acknowledgements stand and readers have a prefix, and that the adapter implements `EventStore` |
| `jsonl_durability` | `CacheIsReplay` `Survives` `Recoverable`, `ImplementsEventStore` | the durable file implements `EventStore` through crashes, torn appends, failed repairs and barriers; what was acknowledged or shown survives a power failure, and no survivor reads as corrupt |
| `jsonl_lifecycle` | `TypeOK` `WithinCapacity` `Finishes` | a file made from nothing, upgrade between event kinds, close against queued work; every operation ends |
| `approvals_deciding` | `HistoriesFold` `DecisionsStand` `MaterialKept` `NothingAfterCancel` | deciders, dispatcher, expiry, cancellation and restarts on one approval |
| `approvals_sweeping` | `TypeOK` `SweepComplete` `KeepsPromise` | revisions and invalidations against everything else; what a sweep said is gone stays gone; `Approvals` implements `Grants` |
| `dispatch_turns` | `TypeOK` `StartedOnce` `CrashClassSound` `DeliveredOnce` | one request, two tasks, two turns, a cancellation, a restart, an unknown commit |
| `dispatch_race` | `ApprovalSpent` `StartsPermitted` `ReleasedAtRest` | a revision, a company change, a quarantine and a withdrawal race the checks |
| `dispatch_progress` | `Progress` | every permit is settled and every handler accounted for while the daemon lives |
| `cancel_turns` | `TypeOK` `RunningTracked` `CancelledAtRest` `SignalHeard` `CancelEnds` | two turns and two cancellations, the client waiting for its answers |
| `harness` | `TypeOK` `OneHolder` `InputsServed` `RequestsTrue` `CancelledMute` | prompts, injected inputs, results, a cancellation, eviction, a checkpoint, a restart and a resumption on one run |
| `outbox` | `TypeOK` `ReplayAgrees` `PromisesKept` `OneSender` | three workers on two notifications with expiring leases, a drain, a failed append and a restart |
| `jsonl_unended_line` | `AckedSurvives`, violated | section 4 |

For every property of a passing run `PROJECT.json` has a mutant of the code's model that violates it.

**Bounds, and why they are enough.**

* `memory`: five events, batches of two, pages of up to three, three versions. The batches include two that share a
  command with different read sets, two with different digests, one over two aggregates, one that reads an
  aggregate it does not write, one with a version gap; single events skip a version or share a key. Every
  refusal of `plan_transition` and every order of the two paths occurs. `MaxEvents` is the code's
  `MAX_JOURNAL_EVENTS`, so the limit is reached too.
* `jsonl_durability`: two handles, two chained commits (the second needs the first), one of them with two
  events, a file in either format; one crash or power failure, one torn append, one failed repair or barrier, in
  any combination. Each property relates at most one failure of each kind; `MaxLog` of six chunks admits two
  commits on a current file and the upgrade with one commit on an old one. The handles are interchangeable
  (`SYMMETRY`).
* `jsonl_lifecycle`: one handle with two workers, no file at the start, room for two records and a
  header. No symmetry, as liveness is checked.
* `approvals_deciding`: one approval, two callers, time 0..3 with a lifetime of 2, so before, at and after the expiry
  occur; a cancellation, a restart, an unknown commit. `approvals_sweeping`: two approvals, three
  configurations (one not trusted), two revisions, and one attempt per approval in a sweep, so that giving up occurs. Time stands
  still there; in neither does it go back (section 4).
* `dispatch_*`: two tasks that dispatch the same request, two executions, two turns of up to four facts
  before calls stop starting (three where approvals, revisions and company facts are added or liveness is checked).
* `cancel_turns`: two drives, two cancellations, two executions. `Unanswered = {}` says that a client sends
  its next prompt when the prompt and the cancellations before it have been answered.

* `harness`: two tasks (one in the model loop and one command beside it; runs are exclusive, so a third only queues), one
  input for the next step and one for the next turn, two prompts, two steps a turn so that the step limit is met, answers
  of up to two calls so that a queue behind the first exists, a mailbox of two so that it is full, one cancellation, one restart.
  `Unanswered = {}` says that a client sends its next prompt when its cancellation was answered (section 4).
* `outbox`: a best-effort and a protected notification with different windows, three worker tasks of which two share an id (a
  worker that was restarted while its last task still runs), a lease of one tick on a clock of two, so that a lease
  ends and is claimed again; one failed append and one restart in any order, capacity for one, so that shedding occurs.
  `OutboxTheorems` proves the same properties without any of these bounds, as `DispatchTheorems` does for `dispatch_turns`
  and `dispatch_race`.

**Fairness.** `JsonlEventLog!FairSpec`: a worker with a thread runs on (the operating system schedules it), and
`flock(2)` is granted to a waiter that asks again and again (strong fairness of `Lock`); nobody has to call, open or
fail. `Dispatch!FairSpec`: the runtime polls a task that can go on, and handlers answer; that is what
`Progress` (`Settles` and `Accounted`) is relative to. `Cancellation!FairSpec` asks less: only cancellations are polled and
their timer fires; the model, the handlers and the drive may hang for ever, and `CancelEnds` still holds. In the
first the enabledness in weak fairness is spelled out (`pc[c] \in Runnable`): every such step can always be taken, so the
formula is `WF_vars(Work(c))`, which TLC would evaluate far more slowly.

`CHECK_DEADLOCK FALSE` is set everywhere: all of these systems may stop, when nobody calls any more or a bound is
reached.

## 4. Where code and documentation part

A run finds a violation of what the repository says (`findings` quotes the lines):

* `jsonl_unended_line`: a last record without its newline is kept, says the comment. `load_delta` moves the cached
  offset past it before it writes the newline; if that write fails, the next load adds none, the next commit lands on
  the same line and is acknowledged, and no replay reads either.

More of the same kind show up when a constant of a passing run is widened. They are kept out of the runs above, whose
configurations exclude them by that constant:

| Change | Property that fails | Why |
|---|---|---|
| `JsonlDurability.cfg`: `InitialFiles <- MCNoFile` | `Recoverable` | the guard at `jsonl.rs:1019-1022` forgives a torn line only after a header or an event: a file whose first header was cut short never opens again |
| `JsonlLifecycle.cfg`: check `CloseIsFinal` | `CloseIsFinal` | the lifecycle is checked before the file lock is waited for: a worker past the check writes after close has answered |
| `ApprovalsDeciding.cfg`: `MaxRollbacks = 1` | `HistoriesFold`, `MaterialKept` | the clock is read again when an event is dated; set back in between, `fold` refuses the stream for good |
| `CancelTurns.cfg`: `Unanswered = {"cancels"}` | `CancelledAtRest` | after its intent a cancellation acts on the run, not the turn: it may record the next turn as cancelled while a handler of it runs |
| `CancelTurns.cfg`: `Unanswered = {"prompts"}` | `RunningTracked` | a prompt sent while the turn before is driven is refused by the runner, and its end drops the watch and stop set of the other drive |
| `DispatchProgress.cfg`: `MaxCrashes = 1` | `Progress` (`Settles`) | the doc of `classify_dispatch_execution` says that the recovery path supplies the missing terminal fact; nothing calls it, and a permit prepared before a restart is never settled |
| `CancelTurns.cfg`: check `CancelledKnown` | `CancelledKnown` | an execution whose handler failed with an unknown effect before the signal counts as completed, so the turn is recorded as cancelled |
| `Harness.cfg`: `Unanswered = {"cancels"}` | `RequestsTrue` | a prompt between a cancellation's record and its effect lets a new checkpoint be taken; the run is then dropped, its calls reported as not executed, and after a restart it is resumed and requests them |
| `CancelTurns.cfg`: check `CancelledByRequest` | `CancelledByRequest` | the command of a cancellation is named after the run: that of a later turn is answered from the first one's receipt and commits nothing |

Reading the code for `Harness` and `Outbox` showed more, which the models have as the code does it and which no property
calls wrong:

* `continue_run` of the harness does not update the run's `turn_id`, while Core aims an input for the next step at the last
  prompt's turn: such an input in the second turn fails the run (`inbox_target_turn_mismatch`; `BeginStep` compares `aim`).
* A checkpoint taken after the first call of a batch was settled cannot be restored, because calls are numbered from their
  place in the queue (`runner_checkpoint_invocation_identity_mismatch`; `Restorable`); the resumption was claimed by then.
* After a question to the user no command carries the answer: a prompt is an invalid transition and drops the run; a
  resumption leaves the question pending, so a later checkpoint cannot be restored. The doc comment at
  `lifecycle.rs:1899` expects the resumption of a run that is still in memory to work; it conflicts after the claim.
* Inputs that were deferred are in no checkpoint: an input the client was told is queued is lost when the process dies and the
  run is resumed (`forgotten`, which `InputsServed` excludes).
* A cancellation or an input that comes between `take_run` and `register_in_flight`, or between `unregister_in_flight` and the
  store, is told that there is no such run; so is a result that comes while a prompt to a busy run has taken it and not put it back.
* A cancellation that cloned the handle before the run was unregistered marks a stored run, which notices at its next step.
* A submitted notification whose lease ran out is stuck: `notification_outbox.rs:17-18` of the event log says it is reconciled to
  unknown, but `assert_lease` refuses an expired lease and `claim_next` takes only pending and claimed records.
* A failed append of the outbox may leave part of a line; the next append goes onto the same line and is acknowledged,
  and the file does not open again (`ReplayAgrees` allows it after a fault; the comment at :323-324 speaks only of memory).
* The first claimable record being of an older epoch makes `claim_next` fail for all the others; best-effort records that are
  done count towards the capacity for ever.

## 5. Proofs

`MemoryEventLogTheorems` proves of the memory adapter, for every set of streams, commands, events, batches and
readers and for every value of the limits, what `memory` checks on one instance: `TypeCorrect`,
`AcknowledgementsStand`, `StreamsAlwaysRise`, `IndexAlwaysAgrees`, `IdentitiesStayUnique`, `ReadersAlwaysSeePrefix`; and
`CommandsStayDisjoint` (no two receipts share an event), `PagesAlwaysProgress` (no page is empty while events are left)
and `LogAppendOnly`, which need no run beside their proof.

*Assumptions.* `JournalAssumption` (aggregates and requests are disjoint, the absent values are not members, limits are
naturals) and `StoreAssumption` (callers pass well-typed batches and events). TLC evaluates both in the run `memory`.

*The inductive invariant.* None of the properties is inductive alone. Versions rise only because a commit is checked
against the index, so they need that the index is exact; the index is exact only because versions rise (the last indexed
version is then the largest); a receipt's place means something only if boundaries are ordered and no boundary lies inside
a command; readers see prefixes only if cursors are boundaries. `JournalInv` is the conjunction of these parts:
types, ids and keys once, versions rising, index exact, boundaries ordered and ending with the log, receipts within the log and
apart. `Inv == JournalInv(journal) /\ AckedInv /\ ReaderInv`.

*The argument.* `JournalTheorems` reasons about the pure operators. `IndexedVersionsSpec` and `IndexSpec` say what
indexing computes; `Extends(j, events)` is what both planners establish (`AppendsExtends` for transitions, in the course
of `ApplyLegacyKeeps` for single events), and `IndexKeeps` shows once that indexing such events keeps `JournalInv`.
`ApplyTransitionKeeps` adds the receipt. `PageEndSpec` says that a page ends on a boundary and makes progress;
`CurrentVersionIsIndexed` that the scan used by the compatibility path equals the index. `CommitGrows` and `AppendGrows` lift
this to the actions as `Grows`: the log is extended by one commit, receipts stay. `ReadersKeep` and `AckedKeeps` take
readers and acknowledgements through any `Grows` step, `NextInv` has one step per action, and every property follows from `Inv`.

`LogStaysSound` and `CallersAlwaysServed` state the run's two composite properties. The second needs one more invariant,
`ReceiptsDescribeLog`: a receipt's command is the part of the log it was stored with, and logs only grow.

`KeepsContract` is the refinement, `Spec => ImplementsEventStore`. Its invariant `LogInv` relates the journal, which
knows events, an index and boundaries, to the ghost log of commits that the contract sees: the boundaries are the ends of
the commits and the first n commits hold the events up to the n-th boundary (`Placed`), both hold the same events
(`SameEvents`), and a command has a receipt exactly if it is in the log, at the receipt's cursor (`Recorded`).
`AppendAdmitted` and `LegacyAdmitted` say that what the journal plans the contract admits: the index stands for the versions
of the log, and checked_add's versions are those the contract counts. `ToldIsTrue` and `PageShows` are the callers' and the
readers' side. `EventsTo` is a recursive function of the contract; `EventsToSpec` unfolds it by a smallest counterexample
(`LeastExists`), which needs no induction theorem.

`OutboxTheorems` proves all four properties of `outbox`: `TypeCorrect`, `PromisesAlwaysKept`, `AlwaysOneSender`,
`ReplayAlwaysAgrees`, for every set of notifications and workers, every assignment of worker ids, any time-to-live and capacity,
and any number of faults, restarts and drains, from `OutboxAssumption` (ids are naturals, the time-to-live is positive, no
worker goes by `NoLease`), which TLC evaluates in `outbox`.

*The inductive invariant.* That a notification is sent once is not inductive: it depends on records being past sending
from the moment a worker may send, in memory and in every file the process may be restarted from. `Covers` says what a map
of records has to keep (spent notifications are past sending, leases have tokens the record knows, promises are there),
`Kept` that memory and a readable file both have it and how they differ (`Agrees`: not at all, or, behind an unended
line, by one successor that was refused, so that the next append makes the file unreadable). `TaskInv` adds that at most one
worker is about to send a notification and that it has not been sent, `LeasesApart` that tokens are never reused.

*The argument.* `CoversWith` takes any successor of a record through `Covers`; `CommitKeeps`, `RefusalKeeps` and `AdmissionKeeps`
lift it to the file for appends that succeed and fail; `NewSucceeds`, `ClaimedSucceeds`, `SubmittedSucceeds` and
`ClearedSucceeds` show that every operation writes a record a replay accepts. Each action is then one of these changes, and
`NextInv` has one step per action.

`DispatchTheorems` proves all seven safety properties of `dispatch_turns` and `dispatch_race`: `TypeCorrect`, `EnteredOnce`
(`StartedOnce`), `ClassSound` (`CrashClassSound`), `SpentOnce` (`ApprovalSpent`), `PermittedStart` (`StartsPermitted`),
`RestedRelease` (`ReleasedAtRest`) and `OneDelivery` (`DeliveredOnce`), for every number of callers, requests, executions,
revisions, turns, company changes, restarts and unknown commits, from `DispatchAssumption` (gated requests are requests, the
absent execution is none, the bounds are naturals), which TLC evaluates in the runs of `Dispatch`. The runs have one request, gated
or not; the theorems have any number of both, pinned, prepared and delivered at once.

*The inductive invariant.* A dispatch reads four streams, lets go of them and commits later; `verify_and_consume` then compares
versions and looks at nothing else. That this is enough rests on streams that only grow: what was seen at some versions is still
so while they are the current ones (`Aging`). `Checked` keeps this for each step of a call (before the run is read only the
pin counts, then the run and the quarantine, then the company, then the approval), and `Stands` for a permit, which outlives the
call that prepared it. `Written` has the order of a permit's facts, `Ran` what they say of the handler, `Owns` how far a call
has come with its execution, and `Alone` that no two calls have the same execution or the same delivery, without which the
counts of `Ran` and `SentWell` are not inductive. `OnePermit` and `Spent` relate permits to requests and approvals, `Delivers`
a claim to the turn it was read in.

*The argument.* `OneMoves`, `OneCall`, `CallOnly` and `NoneMoves` say once what is left to show when one call moves and touches at
most its own execution, when only its own fields change, and when no call moves; `Writes` and `Prepares` do it for the
commits on a permit. Each action then has a lemma (`PinKeeps` to `CrashKeeps`), and `NextKeeps` one step per action. For the action
properties, `Writers` names the actions that write a permit, a claim or the quarantine, and `Consumption` shows that a permit gets
its third fact only where its versions were compared.

`ApprovalsTheorems` proves all properties of `approvals_deciding` and `approvals_sweeping`: `TypeCorrect`,
`HistoriesAlwaysFold` (`HistoriesFold`), `DecisionsAlwaysStand`, `MaterialAlwaysKept` (`MaterialKept`), `SweepsComplete`,
`NothingComesAfterCancel` and the refinement `PromiseKept` (`KeepsPromise`: `Approvals` implements `Grants`), for every number of
approvals, callers, configurations, revisions, restarts and attempts, from `ApprovalsAssumption`, which TLC evaluates in
both runs. Two theorems are about executions whose clock was not set back (`rollbacks = 0 =>`), because both fail otherwise
(section 4); what remains of a history when it was, is `HistoriesLawful`: its transitions are legal, though its times may not rise.

*The inductive invariant.* A call decides on the stream it loaded and commits only while that is still the whole stream; between
the two it awaits an authority, a payload, a run. So the invariant keeps, for each step of a call (`Kept`): that what it saw is how
the stream began (`Begins`); what its check has established of that (`Looked`, `Placed`); when it is dated (`Dated`); that the
turn it read was not cancelling (`Paused`); that the payload it minted is there (`Minted`); and what its sweep has dealt with
(`Sweeping`). Around it, `Lawful` and `History` are what `fold` accepts, `Answered` what an answer that was given stands for,
`Swept` what a finished sweep does.

*The argument.* A step of one call reaches another only through `World`, which says how shared state moves: a stream grows
by one fact that may follow, authorities, runs and times only grow, payloads go only when they are spent or late. `CommitKeeps` and
`WithdrawOneKeeps` show that the two places that write a fact write one that may follow and answer what it says; each other action
has a lemma, and `NextKeeps` one step per action. For the refinement, `StepCases` splits a step by whether it writes a fact, and `CommitSteps`
and `WithdrawSteps` name that fact; `GrantCases` and `GrantWritten` then find the step of `Grants` that it is.

`CancellationTheorems` proves the four invariants of `cancel_turns`, for every number of prompts, cancellations and executions,
from `CancellationAssumption` (TLC evaluates it in the run), in three parts, each under what it needs of the client. `TypeCorrect`
needs nothing. `RunningIsTracked` (a handler that may run is in the stop set of its run) and `SignalIsHeard` need that a client
sends its next prompt after the answer to the last (`"prompts" \notin Unanswered`); `CancelledIsAtRest` needs that it
waits for its cancellations too (`Unanswered = {}`). The rows of section 4 are the counterexamples without these hypotheses.

*The inductive invariant.* `Driven` says that there is one drive at a time, that its watch is the run's, that its handlers are in
the run's set, that it drops watch and set only when its turn is over, and that who signals has a record to show for it. A
recorded cancellation is at rest (`Quiet`) for two reasons: a set that owes its stop takes no new executions, so that what its
wait found settled stays settled (`Waits`, `QuietEnd`); and an execution whose effect is unknown is never taken for
stopped (`Kept`, `NotStopped`), so that either it was over before the signal or the turn ends with an unknown outcome
(`Doubt`). `HeardAll` and `Over` exclude that a drive goes on with its turn after someone else has ended it.

*The argument.* `DriveSteps` and `CancelSteps` put the actions of `Next` into forms (`Starts`, `Passes`, `Prepares`,
`Registers`, `Resolves`, `Ends`, `Clear`, and so on; `Records`, `Signals`, `AwaitsStop`, `EndsCancel`), which say of each
action what it does to watch, set, stream and the drive. Each form has one lemma for each of the three parts.

`HarnessTheorems` proves all five properties of `harness`: `TypeCorrect`, `AlwaysOneHolder` (`OneHolder`), `InputsAlwaysServed`
(`InputsServed`), `RequestsAlwaysTrue` (`RequestsTrue`) and `CancelledAlwaysMute` (`CancelledMute`), for every number of
tasks, inputs, steps, calls, prompts, cancellations and restarts and every capacity of the inbox, from `HarnessAssumption`
(TLC evaluates it in the run). The run has two tasks; the theorems have any number. Four of the five need nothing of the
client. `RequestsAlwaysTrue` assumes that it waits for the answer to its cancellation (`Unanswered = {}`); the row of
`Harness.cfg` in section 4 is the counterexample without it.

*The inductive invariant.* `Alone` says where the run may be: two tasks never carry it, nobody carries it while it is stored or
while a checkpoint of it can be claimed. That is not inductive without what may happen to a question: a run that asks the
user is taken only by the task that resumes it, and no checkpoint of it is left then (`Asked`, `Resuming`). `Counted` relates every
accepted input to the run wherever that is (`Held`, checkpoint included), from which `InputsServed` follows; `Typed` gives
each step of a task the phase its run is in (`Fits`). `Distinct` says why no request comes twice: a call that waits behind
another was neither requested nor given up, wherever its run is, and the next step of the model has a new number. It is
the part that needs the client: whoever cancels must find no checkpoint of the run it is about to drop.

*The argument.* Every action is one of four moves of the run, or an own case of them: the task that has it goes on (`Works`),
puts it down or drops it (`Puts`), a task takes it (`Takes`), or nobody takes it (`Rests`). Each move has one lemma for
`Alone`, one for `Counted` and one for `Distinct`; `Counting` and `Numbering` are what these have in common. The lemmas on runs
(`TurnBegunSound` to `SettledSound`) say that no change of a frame, inbox or queue of calls leaves a run that disagrees with
itself. `NextKeeps` has one step per action, and `NextMute` goes through them once more for the action property.

`JsonlTheorems` proves of the JSONL store, for any number of handles and clients: `TypeCorrect` and `LogWithinCapacity`
(`WithinCapacity`) whatever fails and from any initial file; `Durability` (`Survives`), `Recovery` (`Recoverable`) and `CachesReplay`
(`CacheIsReplay`) under `Calm`. All rest on `JsonlAssumption` and `JsonlInputs` (an initial file is made of chunks and fits, with
the newline its last line may lack; TLC evaluates both in the JSONL runs). `Calm` leaves out exactly the two cases in which the
properties are false: the file has begun (its header is complete, or it has an event; section 4, the first line), and
the newline that mends an unended line does not fail on its own (section 4, `jsonl_unended_line`). The constants of
`jsonl_durability` satisfy it.

*Types and capacity.* That the file never outgrows what `load_delta` accepts is not
obvious: a repair adds a newline that no capacity check has counted. `Shape`, the inductive invariant, says that only a file
that fits ends without one (`Fits`), and that a client about to write has room for a header its cache has not seen (`Planned`).
Nothing in it depends on which failures happen. `StepCases` splits the loop of `load_delta` by what one chunk does to it,
and `ScanSound` says for any sequence of chunks, whatever wrote it, that the cache it leads to is a well-formed
journal (`JournalInv`) whose offset is within the file. `ReplaySpec` and `LoadsSpec` sum up the outcomes of `load_delta`, with repairs
and barriers that fail half way, as four cases each, and `ShapeNext` has one lemma per action.

*Durability.* The properties are not inductive: that an answer survives depends on what is on the disk when the answer is
decided, hence on what the cache of the operation was when it was last synced. `Safe` says three things. The file and the
disk open, and the disk holds a beginning of the file and perhaps a cut line (`Backed`); a handle that is not
uncertain and has nothing left to read holds only what the disk holds (`Sane`). An operation past its load is at the end of
the file, on durable facts (`AtHand`). Every answer, given or about to be, is true of the journal that the disk alone would give
(`Answered`). What may happen to the file is one relation, `Becomes`: nothing durable is lost and no cache of
any handle is led astray. It is transitive and has one lemma per kind of write (`RecordWritten`, `RecordTorn`, `LineEnded`, `CutOff`, `Synced`);
`LoadMoves`, `LineWritten` and `WriteFailsSafe` put these together as the code does, in every order in which it may stop.
They rest on lemmas about the scan of any file: where it may be cut (`RecoverCut`, `OpensFront`), that a longer file holds
what its fronts hold (`ViewGrows`), that a line cut short hides nothing (`TornTail`), and that a handle resumes in the
middle as if it had read from the start (`Resumes`).

*Only model-checked.* `ImplementsEventStore` of the JSONL store;
liveness (`Progress` of `Dispatch`, `CancelEnds`, `Finishes`). Out of the prover's reach for good: liveness under fairness and
`ENABLED`. The induction theorems of the library take an operator as a parameter, which no installed prover can instantiate;
where a proof needs what a recursive function computes (`EventsTo` of `EventStore`, `Scan` of `JsonlEventLog`) it argues by the
smallest counterexample instead. No module here declares a `RECURSIVE` operator.

## 6. What is not modelled

* **Journal:** `read_all`, `read_request`, `read_stream`, `cursor_snapshot` (reads without a cursor), deletion or
  replacement of the file by other programs, the resolution of modification times, file tails filled with zeros, a worker
  that panics.
* **Approvals:** comparisons of bindings and proofs, which a call passes or fails before it touches state; pure views;
  the project's runs being stopped after a synchronisation.
* **Dispatch:** capability calls outside a run, leases of cells and admission, quotas and policies (a nondeterministic
  refusal), the sixty seconds a permit lives (likewise), the notes of an early refusal. Handlers die with the daemon.
* **Cancellation:** pauses for approvals, restarts (`Dispatch` has them), port errors of the runner, budgets.
* **Harness:** other runs (they share only the retention budget, `Evict`); retries, compaction, token and output
  budgets and provider errors are one nondeterministic failure of a step; the order within a queue of inputs; the ledger limits
  of 256 and 4096 entries; input ids are fresh; panics and event sinks that fail; the progress gate in the middle of a batch,
  which the code computes and drops; a checkpoint of a finished turn. Inputs, results and prompts reach the
  harness in any order, but one result is delivered once, as `Dispatch` shows.
* **Outbox:** the channel and its receipts are outside; no production loop drives the worker, so its calls come in any
  order; processes die, machines do not (the store does not sync); one process at a time opens the file; a record that is
  enqueued is pending and new, though `enqueue` also takes others, which a replay then refuses.
* **Tool batches** (`tool_batch_scheduler.rs`): not wired. The harness requests calls one at a time and nothing in
  production constructs the scheduler.
* **Whole components:** policy and gates (pure), projections and receipts (folds of the journal), the company domain
  (values written through the same commits), providers, tools, bridges, presentation (I/O), notification dedup (one mutex,
  and the outbox does not ask it). The workflow queue, automation and credential stores are not modelled yet. `components` gives the
  reason for each.

## 7. Plan

Done: journal and both adapters with the abstract store; approvals with their promise; dispatch; cancellation; the harness
with its inbox, checkpoints and resumption; the outbox. Proved: the safety of the memory adapter, of approvals, of
dispatch, of cancellation, of the harness and of the outbox, and that `Approvals` implements `Grants` and the memory adapter `EventStore`;
of the JSONL store its types, its capacity and its durability. Left:

1. **Workflow queue** (`kiana-eventlog/src/workflow_queue.rs`, `kiana-workflow/src/durable.rs`): leases, fencing, retry and
   restart, against a queue that runs each step once.
2. **Automation effects and credential rotation**: reservation against cancellation, lease expiry against rotation.
3. **Turns composed**: a drive that writes only to its own turn; the pause for an approval between `Dispatch`,
   `Approvals` and `Harness`.
4. **Proofs**: the refinement of `EventStore` by the JSONL store.
