-------------------------------- MODULE Harness --------------------------------
(***************************************************************************)
(* The runner's harness: one run in kiana-runner/src/harness.rs with its      *)
(* inbox (inbox.rs) and its driver frame (state_driver.rs), and as much of    *)
(* kiana-core as decides which commands reach it: prompts, injected inputs,   *)
(* results of capability requests, cancellations, checkpoints and resumption  *)
(* after a restart.                                                           *)
(*                                                                          *)
(* Commands run on tasks of their own.  They share three maps, each behind a  *)
(* mutex that is held for one access only: the stored runs, the cancellation  *)
(* handles of runs in flight, and the inputs deferred while a run is in       *)
(* flight.  One action is what a task does between two such accesses.  Only    *)
(* one run is modelled; runs share nothing but the retention budget.          *)
(***************************************************************************)
EXTENDS Integers, Sequences, FiniteSets

CONSTANTS
    Tasks,          \* the tasks commands run on
    Inputs,         \* the inputs clients inject, each by one command
    Target,         \* the boundary each input is queued for: "next_step" or "next_turn"
    MailboxCapacity,    \* inputs a stored run accepts per turn
    MaxSteps,           \* max_steps_per_turn
    MaxCalls,       \* bound: calls in one answer of the model
    Unanswered,     \* {"cancels"}: a client may send a prompt before a cancellation of
                    \* its was answered
    MaxTurns, MaxCancels, MaxRestarts   \* bounds: prompts, cancellations, restarts

ASSUME HarnessAssumption ==
    /\ Unanswered \subseteq {"cancels"}
    /\ Target \in [Inputs -> {"next_step", "next_turn"}]
    /\ {MailboxCapacity, MaxSteps, MaxCalls, MaxTurns} \subseteq Nat \ {0}
    /\ {MaxCancels, MaxRestarts} \subseteq Nat

VARIABLES
    stored,         \* the run in the map of stored runs, if it is there
    inFlight,       \* whether its cancellation handle is in the map
    cancelled,      \* whether that handle was used
    deferred,       \* the inputs deferred for the run
    task,           \* what each task does, and the run it has taken
    input,          \* how far each injected input got
    aim,            \* the turn each input is meant for
    turns,          \* the prompts Core has recorded; the last is the current turn
    open,           \* requests, and a question, that Core has taken from the events
    waiting,        \* whether Core waits for an approval of such a request
    snapshot,       \* the checkpoint Core would resume from, if the journal has one
    requested,      \* every capability request that was emitted, in order
    notExecuted,    \* calls that were reported as cancelled without execution
    forgotten,      \* accepted inputs that the checkpoint a run came back from had not
    fenced,         \* whether Core recorded a cancellation of the current turn
    stepIds, cancels, restarts

vars == <<stored, inFlight, cancelled, deferred, task, input, aim, turns, open, waiting,
          snapshot, requested, notExecuted, forgotten, fenced, stepIds, cancels, restarts>>
maps == <<stored, inFlight, cancelled, deferred>>
told == <<requested, notExecuted>>
bounds == <<fenced, stepIds, cancels, restarts>>

------------------------------------------------------------------------------
(* A run: its driver frame, its inbox and its pending calls                  *)

NoRun == [turn |-> 0, terminal |-> "none"]

NewRun ==
    [turn |-> 1, phase |-> "Idle", pending |-> 0, asking |-> FALSE, terminal |-> "none",
     accepted |-> 0, steps |-> 0, calls |-> <<>>,
     next_turn |-> {}, next_step |-> {}, seen |-> {}]

\* move_phase: the moves the harness makes; staying is always allowed.
Moves == { <<"Idle", "Preparing">>, <<"Preparing", "ModelPending">>,
           <<"ModelPending", "ToolPending">>, <<"ModelPending", "TurnFinished">>,
           <<"ToolPending", "ModelPending">>, <<"ModelPending", "AwaitingInput">>,
           <<"AwaitingInput", "ModelPending">>, <<"AwaitingInput", "Cancelling">>,
           <<"ModelPending", "Cancelling">>, <<"ToolPending", "Cancelling">>,
           <<"TurnFinished", "Preparing">> }
CanMove(run, phase) == run.phase = phase \/ <<run.phase, phase>> \in Moves

\* begin_turn and the prompt: counters and terminal start again, and what waited
\* for the next turn goes to the model with it.
TurnBegun(run) ==
    [run EXCEPT !.phase = "Preparing", !.pending = 0, !.asking = FALSE, !.terminal = "none",
                !.accepted = 1, !.steps = 0, !.next_turn = {}, !.seen = @ \cup run.next_turn]

\* Inputs put into the inbox, each for its boundary.
Queued(run, inputs) ==
    [run EXCEPT !.next_turn = @ \cup { i \in inputs : Target[i] = "next_turn" },
                !.next_step = @ \cup { i \in inputs : Target[i] = "next_step" }]

StepBegun(run) ==
    [run EXCEPT !.phase = "ModelPending", !.steps = @ + 1,
                !.next_step = {}, !.seen = @ \cup run.next_step]

\* An answer with calls: the first one is requested at once.
Call(step, ordinal, phase) == [step |-> step, ordinal |-> ordinal, phase |-> phase]
WithCalls(run, count) ==
    [run EXCEPT !.phase = "ToolPending", !.pending = count,
                !.calls = [k \in 1 .. count |->
                             Call(stepIds, k, IF k = 1 THEN "Dispatched" ELSE "Queued")]]

\* Mutant: the settled call stays counted.
Settled_Counted(run) ==
    LET rest == Tail(run.calls)
    IN  [run EXCEPT !.phase = IF rest = <<>> THEN "ModelPending" ELSE "ToolPending",
                    !.calls = IF rest = <<>> THEN rest
                              ELSE [rest EXCEPT ![1].phase = "Dispatched"]]

\* A settled call, and the request of the one behind it.
Settled(run) ==
    LET rest == Tail(run.calls)
    IN  [run EXCEPT !.pending = Len(rest),
                    !.phase = IF rest = <<>> THEN "ModelPending" ELSE "ToolPending",
                    !.calls = IF rest = <<>> THEN rest
                              ELSE [rest EXCEPT ![1].phase = "Dispatched"]]

Question == [step |-> 0, ordinal |-> 0]
RequestOf(call) == [step |-> call.step, ordinal |-> call.ordinal]
Request(run) == IF run.calls = <<>> THEN Question ELSE RequestOf(Head(run.calls))
Asking(run) == [run EXCEPT !.phase = "AwaitingInput", !.asking = TRUE]
Ended(run, outcome) == [run EXCEPT !.phase = "TurnFinished", !.terminal = outcome]

\* What restore asks of a checkpoint: a frame its validate accepts, and calls whose
\* identity is the one of their place in the queue.
Restorable(run) ==
    /\ run.asking = (run.phase = "AwaitingInput")
    /\ \A k \in DOMAIN run.calls : run.calls[k].ordinal = k

------------------------------------------------------------------------------
(* Tasks                                                                     *)

Idle == [step |-> "idle", run |-> NoRun, failed |-> FALSE, asks |-> FALSE, due |-> {}]
At(c, step) == task[c].step = step
To(c, step, run) == task' = [task EXCEPT ![c] = [Idle EXCEPT !.step = step, !.run = run]]
Done(c) == task' = [task EXCEPT ![c] = Idle]

\* The model loop is over; `failed` says whether store_unless_terminal drops the run.
Leaving(c, run, failed, asks) ==
    task' = [task EXCEPT ![c] = [Idle EXCEPT !.step = "leaving", !.run = run,
                                             !.failed = failed, !.asks = asks]]
Failing(c) == Leaving(c, task[c].run, TRUE, FALSE)
Storing(c, run) ==
    task' = [task EXCEPT ![c] = [Idle EXCEPT !.step = "storing", !.run = run, !.asks = TRUE]]

\* Mutant: the events after a checkpoint are not looked at.
Recorded_Kept == UNCHANGED snapshot

\* An event of the run's stream after the checkpoint makes it stale.
Recorded == snapshot' = NoRun

\* Mutant: the run is read, not removed.
Take_Read == stored # NoRun /\ stored' = stored

\* take_run
Take == stored # NoRun /\ stored' = NoRun

------------------------------------------------------------------------------
(* Commands                                                                  *)

\* start, for a run id nobody else knows yet.
Start(c) ==
    /\ At(c, "idle") /\ turns = 0
    /\ turns' = 1
    /\ To(c, "prepared", TurnBegun(NewRun))
    /\ UNCHANGED <<maps, input, aim, open, waiting, snapshot, told, forgotten, bounds>>

\* continue_run of Core, which records the prompt, and of the harness.  A run with
\* pending calls is put back; one that may not begin a turn is lost.
Continue(c) ==
    /\ At(c, "idle") /\ turns \in 1 .. MaxTurns - 1 /\ ~waiting
    /\ "cancels" \in Unanswered \/ \A d \in Tasks : task[d].step \notin {"signalling", "cancelling"}
    /\ turns' = turns + 1 /\ fenced' = FALSE
    /\ Recorded
    /\ \/ stored = NoRun /\ UNCHANGED <<stored, task>>
       \/ /\ Take
          /\ IF stored.calls # <<>> THEN To(c, "returning", stored)
             ELSE IF CanMove(stored, "Preparing") THEN To(c, "prepared", TurnBegun(stored))
             ELSE UNCHANGED task
    /\ UNCHANGED <<inFlight, cancelled, deferred, input, aim, open, waiting, told, forgotten,
                   stepIds, cancels, restarts>>

PutBack(c) ==
    /\ At(c, "returning")
    /\ stored' = task[c].run
    /\ Done(c)
    /\ UNCHANGED <<inFlight, cancelled, deferred, input, aim, turns, open, waiting, snapshot,
                   told, forgotten, bounds>>

\* on_capability_result, for a result Core delivers once.  "bad" stands for a result
\* that ends the run: an unknown effect, a denial, a cancelled call; "stuck" for one
\* that makes the progress tracker ask the user, once.  A result that is not that of the
\* first call in the queue changes nothing.
Result(c, request, outcome) ==
    /\ At(c, "idle") /\ request \in open \ {Question}
    /\ open' = open \ {request} /\ waiting' = FALSE
    /\ Recorded
    /\ \/ stored = NoRun /\ UNCHANGED <<stored, task, requested>>
       \/ /\ Take
          /\ LET run == Settled(stored)
             IN  IF stored.calls = <<>> THEN UNCHANGED <<task, requested>>
                 ELSE IF Head(stored.calls).phase # "Dispatched" \/ Request(stored) # request
                 THEN To(c, "returning", stored) /\ UNCHANGED requested
                 ELSE IF \/ outcome = "bad"
                         \/ IF run.calls = <<>> THEN outcome = "stuck" /\ run.asking ELSE cancelled
                 THEN UNCHANGED <<task, requested>>
                 ELSE IF run.calls # <<>>
                 THEN Storing(c, run) /\ requested' = Append(requested, Request(run))
                 ELSE /\ UNCHANGED requested
                      /\ IF outcome = "stuck" THEN Storing(c, Asking(run)) ELSE To(c, "prepared", run)
    /\ UNCHANGED <<inFlight, cancelled, deferred, input, aim, turns, notExecuted, forgotten, bounds>>

\* resume, after a restore that left no call pending.
Resume(c) ==
    /\ At(c, "resuming")
    /\ \/ stored = NoRun /\ Done(c) /\ UNCHANGED stored
       \/ /\ Take
          /\ To(c, IF stored.calls # <<>> THEN "returning" ELSE "prepared", stored)
    /\ UNCHANGED <<inFlight, cancelled, deferred, input, aim, turns, open, waiting, snapshot,
                   told, forgotten, bounds>>

------------------------------------------------------------------------------
(* The model loop                                                            *)

\* register_in_flight
Register(c) ==
    /\ At(c, "prepared")
    /\ IF inFlight THEN Done(c) /\ UNCHANGED inFlight
       ELSE To(c, "stepping", task[c].run) /\ inFlight' = TRUE
    /\ UNCHANGED <<stored, cancelled, deferred, input, aim, turns, open, waiting, snapshot,
                   told, forgotten, bounds>>

\* The beginning of model_step_once.  "late" is the wall time budget: it ends the turn
\* but keeps the run.
BeginStep(c, timing) ==
    /\ At(c, "stepping")
    /\ LET run == task[c].run
           queued == Queued(run, deferred)
       IN  IF cancelled \/ run.steps >= MaxSteps
           THEN Failing(c) /\ UNCHANGED <<deferred, stepIds>>
           ELSE IF timing = "late"
           THEN Leaving(c, Ended(run, "Failed"), FALSE, FALSE) /\ UNCHANGED <<deferred, stepIds>>
           ELSE /\ deferred' = {}
                /\ stepIds' = stepIds + 1
                /\ IF CanMove(run, "ModelPending") /\ \A i \in queued.next_step : aim[i] = run.turn
                   THEN To(c, "asking", StepBegun(queued))
                   ELSE Failing(c)
    /\ UNCHANGED <<stored, inFlight, cancelled, input, aim, turns, open, waiting, snapshot,
                   told, forgotten, fenced, cancels, restarts>>

\* The model answers with calls.
AnswerCalls(c, count) ==
    /\ At(c, "asking")
    /\ IF cancelled THEN Failing(c) /\ UNCHANGED requested
       ELSE LET run == WithCalls(task[c].run, count)
            IN  /\ Leaving(c, run, FALSE, TRUE)
                /\ requested' = Append(requested, Request(run))
    /\ UNCHANGED <<maps, input, aim, turns, open, waiting, snapshot, notExecuted,
                   forgotten, bounds>>

\* Mutant: what was deferred while the model answered waits for the next turn.
Answer_Undrained(c, answer) ==
    /\ At(c, "asking")
    /\ LET run == task[c].run
           due == { i \in Inputs : input[i] = "accepted" /\ Target[i] = "next_step" }
       IN  IF cancelled \/ answer = "error" THEN Failing(c) /\ UNCHANGED deferred
           ELSE /\ UNCHANGED deferred
                /\ IF run.next_step # {} THEN To(c, "stepping", run)
                   ELSE CASE answer = "text"  -> task' = [task EXCEPT ![c] =
                                [Idle EXCEPT !.step = "completing", !.run = run, !.due = due]]
                          [] answer = "empty" -> To(c, "stepping", run)
                          [] answer = "stuck" -> Leaving(c, Asking(run), run.asking, ~run.asking)
    /\ UNCHANGED <<stored, inFlight, cancelled, input, aim, turns, open, waiting, snapshot,
                   told, forgotten, bounds>>

\* The model answers with text, with nothing, or not at all.  Inputs that came
\* meanwhile are taken in first, and make it answer again.
Answer(c, answer) ==
    /\ At(c, "asking")
    /\ LET run == Queued(task[c].run, deferred)
           due == { i \in Inputs : input[i] = "accepted" /\ Target[i] = "next_step" }
       IN  IF cancelled \/ answer = "error" THEN Failing(c) /\ UNCHANGED deferred
           ELSE /\ deferred' = {}
                /\ IF run.next_step # {} THEN To(c, "stepping", run)
                   ELSE CASE answer = "text"  -> task' = [task EXCEPT ![c] =
                                [Idle EXCEPT !.step = "completing", !.run = run, !.due = due]]
                          [] answer = "empty" -> To(c, "stepping", run)
                          [] answer = "stuck" -> Leaving(c, Asking(run), run.asking, ~run.asking)
    /\ UNCHANGED <<stored, inFlight, cancelled, input, aim, turns, open, waiting, snapshot,
                   told, forgotten, bounds>>

\* Mutant: the handle is not looked at again once the model has answered.
Complete_Unchecked(c) ==
    /\ At(c, "completing")
    /\ Leaving(c, Ended(task[c].run, "Completed"), FALSE, FALSE)
    /\ UNCHANGED <<maps, input, aim, turns, open, waiting, snapshot, told, forgotten, bounds>>

\* Completed is emitted under the lock of the cancellation handle.
Complete(c) ==
    /\ At(c, "completing")
    /\ IF cancelled THEN Failing(c)
       ELSE Leaving(c, Ended(task[c].run, "Completed"), FALSE, FALSE)
    /\ UNCHANGED <<maps, input, aim, turns, open, waiting, snapshot, told, forgotten, bounds>>

\* unregister_in_flight
Leave(c) ==
    /\ At(c, "leaving")
    /\ inFlight' = FALSE
    /\ task' = [task EXCEPT ![c].step = "storing"]
    /\ UNCHANGED <<stored, cancelled, deferred, input, aim, turns, open, waiting, snapshot,
                   told, forgotten, bounds>>

\* store_unless_terminal; the events go back to Core.
Store(c) ==
    /\ At(c, "storing")
    /\ IF task[c].failed THEN UNCHANGED stored ELSE stored' = task[c].run
    /\ open' = IF task[c].asks THEN open \cup {Request(task[c].run)} ELSE open
    /\ Done(c)
    /\ UNCHANGED <<inFlight, cancelled, deferred, input, aim, turns, waiting, snapshot,
                   told, forgotten, bounds>>

------------------------------------------------------------------------------
(* Cancellation                                                              *)

\* cancel_run of Core records the cancellation; cancel of the harness looks for a
\* handle first.
Cancel(c) ==
    /\ At(c, "idle") /\ turns > 0 /\ cancels < MaxCancels
    /\ cancels' = cancels + 1 /\ fenced' = TRUE
    /\ Recorded
    /\ To(c, IF inFlight THEN "signalling" ELSE "cancelling", NoRun)
    /\ UNCHANGED <<maps, input, aim, turns, open, waiting, told, forgotten, stepIds, restarts>>

Signal(c) ==
    /\ At(c, "signalling")
    /\ cancelled' = TRUE
    /\ Done(c)
    /\ UNCHANGED <<stored, inFlight, deferred, input, aim, turns, open, waiting, snapshot,
                   told, forgotten, bounds>>

\* A stored run is dropped; its first call may be with Core already, the others are
\* reported as never executed.
CancelStored(c) ==
    /\ At(c, "cancelling")
    /\ \/ stored = NoRun /\ UNCHANGED <<stored, notExecuted>>
       \/ /\ Take
          /\ notExecuted' = notExecuted \cup
                IF CanMove(stored, "Cancelling")
                THEN { RequestOf(stored.calls[k]) : k \in 2 .. Len(stored.calls) }
                ELSE {}
    /\ Done(c)
    /\ UNCHANGED <<inFlight, cancelled, deferred, input, aim, turns, open, waiting, snapshot,
                   requested, forgotten, bounds>>

\* enforce_retention, after a command of another run: a finished run is removed with
\* whatever is deferred for it.
Evict ==
    /\ stored # NoRun /\ stored.terminal # "none"
    /\ stored' = NoRun /\ deferred' = {}
    /\ UNCHANGED <<inFlight, cancelled, task, input, aim, turns, open, waiting, snapshot, told,
                   forgotten, bounds>>

------------------------------------------------------------------------------
(* Injected inputs                                                           *)

\* queue_run_input of Core: the input is recorded, for the turn that is current.
Inject(i) ==
    /\ input[i] = "new" /\ turns > 0
    /\ input' = [input EXCEPT ![i] = "recorded"]
    /\ aim' = [aim EXCEPT ![i] = turns]
    /\ Recorded
    /\ UNCHANGED <<maps, task, turns, open, waiting, told, forgotten, bounds>>

\* enqueue_injected, access by access: the stored run, the handle, the deferred inputs.
LookUp(i) ==
    /\ input[i] = "recorded"
    /\ IF stored = NoRun THEN input' = [input EXCEPT ![i] = "missed"] /\ UNCHANGED stored
       ELSE IF stored.accepted >= MailboxCapacity
       THEN input' = [input EXCEPT ![i] = "refused"] /\ UNCHANGED stored
       ELSE /\ input' = [input EXCEPT ![i] = "accepted"]
            /\ stored' = [Queued(stored, {i}) EXCEPT !.accepted = @ + 1]
    /\ UNCHANGED <<inFlight, cancelled, deferred, task, aim, turns, open, waiting, snapshot,
                   told, forgotten, bounds>>

LookInFlight(i) ==
    /\ input[i] = "missed"
    /\ input' = [input EXCEPT ![i] = IF inFlight THEN "found" ELSE "refused"]
    /\ UNCHANGED <<maps, task, aim, turns, open, waiting, snapshot, told, forgotten, bounds>>

Defer(i) ==
    /\ input[i] = "found"
    /\ deferred' = deferred \cup {i}
    /\ input' = [input EXCEPT ![i] = "accepted"]
    /\ UNCHANGED <<stored, inFlight, cancelled, task, aim, turns, open, waiting, snapshot,
                   told, forgotten, bounds>>

------------------------------------------------------------------------------
(* Checkpoints and restarts                                                  *)

\* checkpoint_run of Core, when a request needs an approval or the run asks the user.
Checkpoint ==
    /\ stored # NoRun /\ ~inFlight /\ ~cancelled
    /\ Request(stored) \in open /\ ~waiting
    /\ snapshot' = IF fenced THEN NoRun ELSE stored
    /\ waiting' = (stored.calls # <<>>)
    /\ open' = open \ {Question}
    /\ UNCHANGED <<maps, task, input, aim, turns, told, forgotten, bounds>>

\* The process dies.  Core's projection of the journal still says that the run waits.
Crash ==
    /\ restarts < MaxRestarts
    /\ restarts' = restarts + 1
    /\ stored' = NoRun /\ inFlight' = FALSE /\ cancelled' = FALSE /\ deferred' = {}
    /\ task' = [c \in Tasks |-> Idle]
    /\ input' = [i \in Inputs |-> IF input[i] \in {"new", "accepted"} THEN input[i] ELSE "refused"]
    /\ open' = {}
    /\ UNCHANGED <<aim, turns, waiting, snapshot, told, forgotten, fenced, stepIds, cancels>>

\* resume_run of Core: a checkpoint nothing followed is claimed once, whether or not
\* the harness then restores it.
Claimable == snapshot # NoRun
Restore(c) ==
    /\ At(c, "idle") /\ Claimable
    /\ Recorded
    /\ LET run == snapshot
       IN  IF stored = NoRun /\ ~inFlight /\ Restorable(run)
           THEN /\ stored' = run
                /\ cancelled' = FALSE
                /\ forgotten' = { i \in Inputs : input[i] = "accepted" }
                                    \ (run.next_turn \cup run.next_step \cup run.seen)
                /\ IF run.calls = <<>> THEN To(c, "resuming", NoRun) /\ UNCHANGED open
                   ELSE open' = {Request(run)} /\ UNCHANGED task
           ELSE UNCHANGED <<stored, cancelled, forgotten, task, open>>
    /\ UNCHANGED <<inFlight, deferred, input, aim, turns, waiting, told, bounds>>

------------------------------------------------------------------------------

Init ==
    /\ stored = NoRun /\ inFlight = FALSE /\ cancelled = FALSE /\ deferred = {}
    /\ task = [c \in Tasks |-> Idle]
    /\ input = [i \in Inputs |-> "new"] /\ aim = [i \in Inputs |-> 0]
    /\ turns = 0 /\ open = {} /\ waiting = FALSE
    /\ snapshot = NoRun /\ requested = <<>> /\ notExecuted = {} /\ forgotten = {}
    /\ fenced = FALSE /\ stepIds = 0 /\ cancels = 0 /\ restarts = 0

Loop(c) ==
    \/ Register(c) \/ \E timing \in {"timely", "late"} : BeginStep(c, timing)
    \/ \E count \in 1 .. MaxCalls : AnswerCalls(c, count)
    \/ \E answer \in {"text", "empty", "stuck", "error"} : Answer(c, answer)
    \/ Complete(c) \/ Leave(c) \/ Store(c)

Next ==
    \/ \E c \in Tasks :
        \/ Start(c) \/ Continue(c) \/ Resume(c) \/ PutBack(c) \/ Restore(c)
        \/ \E request \in open, outcome \in {"good", "stuck", "bad"} : Result(c, request, outcome)
        \/ Cancel(c) \/ Signal(c) \/ CancelStored(c)
        \/ Loop(c)
    \/ \E i \in Inputs : Inject(i) \/ LookUp(i) \/ LookInFlight(i) \/ Defer(i)
    \/ Evict \/ Checkpoint \/ Crash

Spec == Init /\ [][Next]_vars

------------------------------------------------------------------------------
(* Properties                                                                *)

Phases == {"Idle", "Preparing", "ModelPending", "ToolPending", "AwaitingInput", "TurnFinished"}

\* A run: a frame, an inbox and calls.  Calls are pending exactly in the phase that
\* waits for them, as many as the frame counts, the first of them requested and no
\* other; a turn that ended has an outcome, and a run that asks the user a question.
RunOK(run) ==
    /\ run.phase \in Phases
    /\ run.next_turn \cup run.next_step \cup run.seen \subseteq Inputs
    /\ run.steps \in 0 .. MaxSteps
    /\ (run.phase = "ToolPending") = (run.calls # <<>>)
    /\ run.pending = Len(run.calls)
    /\ \A k \in DOMAIN run.calls : (run.calls[k].phase = "Dispatched") = (k = 1)
    /\ (run.terminal # "none") = (run.phase = "TurnFinished")
    /\ run.phase = "AwaitingInput" => run.asking

Tasking == {"idle", "prepared", "returning", "resuming", "stepping", "asking", "completing",
            "leaving", "storing", "signalling", "cancelling"}

\* The stored run, the run of each task and the checkpoint are runs whose frame, inbox
\* and calls agree with each other, and a stored run waits for something or is over.
TypeOK ==
    /\ \A run \in {stored, snapshot} \cup { task[c].run : c \in Tasks } :
            run = NoRun \/ RunOK(run)
    /\ stored # NoRun => stored.phase \in {"ToolPending", "TurnFinished", "AwaitingInput"}
    /\ {inFlight, cancelled, waiting, fenced} \subseteq BOOLEAN
    /\ \A c \in Tasks : task[c].step \in Tasking
    /\ deferred \cup forgotten \subseteq Inputs
    /\ input \in [Inputs -> {"new", "recorded", "missed", "found", "accepted", "refused"}]
    /\ aim \in [Inputs -> 0 .. MaxTurns]

\* The tasks that hold a run, and the run that is not lost.
Holding == { c \in Tasks : task[c].run # NoRun }
Alive ==
    ({stored} \cup { task[c].run : c \in { d \in Holding : ~task[d].failed } }) \ {NoRun}

\* The run is in one place: stored, or held by one task; and its handle is in the map
\* while a task is in the model loop, and only then.
OneHolder ==
    /\ Cardinality(Holding) <= 1
    /\ stored # NoRun => Holding = {}
    /\ inFlight = (\E c \in Tasks : task[c].step \in {"stepping", "asking", "completing", "leaving"})

\* An input a client was told is queued is in exactly one place: deferred, in the inbox
\* or given to the model.
InputsAccounted ==
    \A i \in Inputs \ forgotten : input[i] = "accepted" =>
        \A run \in Alive :
            \/ i \in deferred /\ i \notin run.next_turn \cup run.next_step \cup run.seen
            \/ i \notin deferred /\ (i \in run.seen) # (i \in run.next_turn \cup run.next_step)

\* A turn does not complete past an input for its next step that was accepted before the
\* model answered.
AnsweredInTurn ==
    \A c \in Tasks :
        task[c].step = "completing" => task[c].due \ forgotten \subseteq task[c].run.seen

\* Accepted inputs are neither lost nor doubled between the inbox, the deferred inputs
\* and the model, and none is passed over by the end of the turn it was for.
InputsServed == InputsAccounted /\ AnsweredInTurn

\* No call is requested twice, over restarts too, and what was reported as not executed
\* was never requested.
RequestsTrue ==
    /\ \A j, k \in DOMAIN requested : requested[j] = requested[k] => j = k
    /\ \A k \in DOMAIN requested : requested[k] \notin notExecuted

\* Once its handle was used a run requests nothing and completes nothing.
CancelledMute ==
    [][cancelled =>
        /\ requested' = requested
        /\ \A c \in Tasks : task'[c].run.terminal = "Completed" => task[c].run.terminal = "Completed"]_vars
==============================================================================
