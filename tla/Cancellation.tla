----------------------------- MODULE Cancellation -----------------------------
(***************************************************************************)
(* Turns of one run, and their cancellation: drive_run, continue_run and      *)
(* cancel_run (kiana-core/src/lifecycle.rs), the cancellation watch and the   *)
(* stop set of the run (sessions.rs, stop_tracker.rs and execution_stop.rs of *)
(* kiana-domain), and the place the runner keeps a run in (harness.rs of      *)
(* kiana-runner).                                                            *)
(*                                                                          *)
(* A dispatch is here what a cancellation meets of it: the module Dispatch    *)
(* has the rest.  Watches and stop sets are objects that a task may still     *)
(* hold after the run has dropped them, so they are numbered.                *)
(***************************************************************************)
EXTENDS Integers, Sequences, FiniteSets

CONSTANTS
    Drives,         \* tasks that drive a turn, one for each prompt
    Cancels,        \* tasks that cancel the run
    Executions,     \* execution ids
    NoExecution,
    Unanswered      \* what may still be unanswered when the next prompt is sent

ASSUME CancellationAssumption ==
    /\ NoExecution \notin Executions
    /\ Unanswered \subseteq {"prompts", "cancels"}

VARIABLES
    run,            \* the run's stream
    runner,         \* where the runner has the run, and what it holds
    watch, signals, \* the run's watch (0 for none), and whether each was signalled
    stops, sets,    \* the run's stop set (0 for none), and all of them
    drive,          \* what each drive is doing
    cancel,         \* what each cancellation is doing
    lost            \* executions whose handler gave no certain result

vars == <<run, runner, watch, signals, stops, sets, drive, cancel, lost>>
watches == <<watch, signals>>
stopping == <<stops, sets>>

------------------------------------------------------------------------------
(* The run's stream                                                          *)

TerminalKinds == {"completed", "failed", "cancelled", "unknown"}

PromptsOf(r) == { i \in DOMAIN r : r[i] = "prompt" }
ThisTurn == { run[i] : i \in { j \in DOMAIN run : \A p \in PromptsOf(run) : p <= j } }
Ended == ThisTurn \cap TerminalKinds # {}
Active == ThisTurn \cap (TerminalKinds \cup {"cancelling"}) = {}

\* record_terminal_event: the first terminal fact of a turn stays the only one.
EndTurn(kind) == run' = IF Ended THEN run ELSE Append(run, kind)

------------------------------------------------------------------------------
(* The stop set of a run                                                     *)

NewSet == [requested |-> FALSE, entry |-> [x \in {} |-> "inflight"]]

\* RunExecutionStopSet::resolution.
Resolution(s) ==
    LET states == { s.entry[x] : x \in DOMAIN s.entry }
    IN  CASE "unconfirmed" \in states -> "unconfirmed"
          [] states \subseteq {"stopped", "completed"} -> "confirmed"
          [] OTHER -> "pending"

\* RunStopChannel::register: a set that is settled and was not asked to stop
\* starts again; an execution that comes after the request owes its stop too.
Registered(s, x) ==
    LET t == IF ~s.requested /\ Resolution(s) = "confirmed" THEN NewSet ELSE s
        state == IF t.requested THEN "stopping" ELSE "inflight"
    IN  [t EXCEPT !.entry = [y \in DOMAIN t.entry \cup {x} |->
                                IF y = x THEN state ELSE t.entry[y]]]

BeginStop(s) ==
    [requested |-> TRUE,
     entry |-> [x \in DOMAIN s.entry |->
                   IF s.entry[x] = "inflight" THEN "stopping" ELSE s.entry[x]]]

\* RunStopChannel::resolve.  A completion that comes after the stop was asked
\* for is refused, and the execution keeps owing its stop.
Resolved(s, x, asked, confirmed) ==
    LET was == s.entry[x]
        state ==
            CASE ~asked -> IF was = "inflight" THEN "completed" ELSE was
              [] asked /\ confirmed -> IF was = "completed" THEN was ELSE "stopped"
              [] OTHER -> IF was \in {"stopped", "completed"} THEN was ELSE "unconfirmed"
    IN  IF x \in DOMAIN s.entry THEN [s EXCEPT !.entry[x] = state] ELSE s

------------------------------------------------------------------------------
(* Drives                                                                    *)

Idle == [step |-> "idle"]
Asking == [step |-> "take", asked |-> FALSE, event |-> "none", channel |-> 0,
           execution |-> NoExecution, seen |-> 0, set |-> 0, result |-> FALSE, known |-> FALSE]

At(d, step) == drive[d].step = step
GoTo(d, step) == drive' = [drive EXCEPT ![d].step = step]
With(d, event, step) == drive' = [drive EXCEPT ![d].event = event, ![d].step = step]
Return(d) == drive' = [drive EXCEPT ![d] = [step |-> "done"]]
Execution(d) == drive[d].execution
Hears(d) == signals[drive[d].channel]

\* continue_run up to its prompt.  Neither it nor the daemon asks whether the
\* last prompt, or a cancellation, has been answered: that is up to the client.
Continue(d) ==
    /\ At(d, "idle")
    /\ "unknown" \notin ThisTurn
    /\ "prompts" \in Unanswered \/ \A e \in Drives : drive[e].step \in {"idle", "done"}
    /\ "cancels" \in Unanswered \/ \A k \in Cancels : cancel[k].step \in {"idle", "done"}
    /\ run' = Append(run, "prompt")
    /\ drive' = [drive EXCEPT ![d] = Asking]
    /\ UNCHANGED <<runner, watches, stopping, cancel, lost>>

\* take_run, for a prompt or for a result.
Take(d) ==
    /\ At(d, "take")
    /\ IF runner.at = "stored"
       THEN /\ runner' = [runner EXCEPT !.at = "held", !.tool = @ /\ ~drive[d].result]
            /\ IF runner.tool /\ ~drive[d].result
               THEN With(d, "busy", "store") ELSE GoTo(d, "begin")
       ELSE /\ UNCHANGED runner
            /\ With(d, IF drive[d].result THEN "unknown" ELSE "missing",
                    IF drive[d].result THEN "event" ELSE "drive")
    /\ UNCHANGED <<run, watches, stopping, cancel, lost>>

\* The model is asked with the run registered as in flight, or the next tool of
\* the same answer is requested, or the result ends the turn.
Begin(d) ==
    /\ At(d, "begin")
    /\ \/ runner' = [runner EXCEPT !.at = "stepping"] /\ GoTo(d, "model")
       \/ /\ drive[d].result /\ ~runner.cancelled
          /\ runner' = [runner EXCEPT !.tool = TRUE] /\ With(d, "tool", "store")
       \/ /\ drive[d].result /\ UNCHANGED runner
          /\ With(d, IF runner.cancelled THEN "cancelled" ELSE "failed", "store")
    /\ UNCHANGED <<run, watches, stopping, cancel, lost>>

\* model_step: a cancelled run neither completes nor asks for a tool.
Model(d) ==
    /\ At(d, "model")
    /\ \/ ~runner.cancelled /\ With(d, "completed", "leave") /\ UNCHANGED runner
       \/ /\ ~runner.cancelled /\ With(d, "tool", "leave")
          /\ runner' = [runner EXCEPT !.tool = TRUE]
       \/ runner.cancelled /\ With(d, "cancelled", "leave") /\ UNCHANGED runner
       \/ \E event \in {"failed", "overtime"} : With(d, event, "leave") /\ UNCHANGED runner
    /\ UNCHANGED <<run, watches, stopping, cancel, lost>>

Leave(d) ==
    /\ At(d, "leave")
    /\ runner' = [runner EXCEPT !.at = "held"]
    /\ GoTo(d, "store")
    /\ UNCHANGED <<run, watches, stopping, cancel, lost>>

NoRun == [at |-> "none", tool |-> FALSE, cancelled |-> FALSE]

\* store_unless_terminal; a turn out of time leaves a run that can go on.
Store(d) ==
    /\ At(d, "store")
    /\ runner' = IF drive[d].event \in {"failed", "cancelled"} THEN NoRun
                 ELSE [runner EXCEPT !.at = "stored"]
    /\ GoTo(d, IF drive[d].result THEN "event" ELSE "drive")
    /\ UNCHANGED <<run, watches, stopping, cancel, lost>>

\* Mutant: a drive makes a watch of its own.
Watch_Own(d) ==
    /\ signals' = Append(signals, FALSE) /\ watch' = Len(signals) + 1
    /\ drive' = [drive EXCEPT ![d].channel = Len(signals) + 1, ![d].step = "event"]

\* watch_cancel; a turn whose outcome is unknown is then left alone.
Watch(d) ==
    LET new == watch = 0
        channel == IF new THEN Len(signals) + 1 ELSE watch
    IN  /\ signals' = IF new THEN Append(signals, FALSE) ELSE signals
        /\ watch' = channel
        /\ drive' = [drive EXCEPT ![d] = IF "unknown" \in ThisTurn THEN [step |-> "done"]
                                        ELSE [@ EXCEPT !.channel = channel, !.step = "event"]]

\* The beginning of drive_run.
Drive(d) ==
    /\ At(d, "drive")
    /\ Watch(d)
    /\ UNCHANGED <<run, runner, stopping, cancel, lost>>

\* The loop of drive_run: a tool is dispatched while the run is active, anything
\* else ends the turn.  A refusal drops the run from the runner.
Event(d) ==
    /\ At(d, "event")
    /\ CASE Hears(d) /\ "unknown" \in ThisTurn -> Return(d)
         [] drive[d].event # "tool" -> GoTo(d, "end")
         [] Hears(d) -> With(d, "cancelled", "drop")
         [] ~Active -> With(d, "unknown", "drop")
         [] OTHER -> \/ \E x \in Executions :
                           /\ \A e \in Drives : drive[e].step \notin {"idle", "done"}
                                                   => Execution(e) # x
                           /\ \A i \in DOMAIN sets : x \notin DOMAIN sets[i].entry
                           /\ drive' = [drive EXCEPT ![d].execution = x, ![d].seen = Len(run),
                                                     ![d].known = FALSE, ![d].step = "prepared"]
                     \/ \E event \in {"failed", "unknown"} : With(d, event, "drop")
    /\ UNCHANGED <<run, runner, watches, stopping, cancel, lost>>

\* Mutant: an execution is added to a set that is there, and none is made.
Register_Existing(d) ==
    /\ sets' = IF stops = 0 THEN sets ELSE [sets EXCEPT ![stops] = Registered(@, Execution(d))]
    /\ UNCHANGED stops

\* register_execution_stop: the set is made when the run has none.
Register(d) ==
    LET i == IF stops = 0 THEN Len(sets) + 1 ELSE stops
        s == IF stops = 0 THEN NewSet ELSE sets[stops]
    IN  /\ stops' = i
        /\ sets' = [j \in 1..(IF stops = 0 THEN i ELSE Len(sets)) |->
                       IF j = i THEN Registered(s, Execution(d)) ELSE sets[j]]

Prepared(d) ==
    /\ At(d, "prepared")
    /\ IF Hears(d) THEN With(d, "cancelled", "drop") /\ UNCHANGED stopping
       ELSE GoTo(d, "broker") /\ Register(d)
    /\ UNCHANGED <<run, runner, watches, cancel, lost>>

\* The broker looks at the watch before the permit, refuses a request it cannot
\* serve, and the permit is bound to the run as it was when it was prepared.  What
\* it refuses ends like a handler that failed, with no certain result.
Admit(d) ==
    /\ At(d, "broker")
    /\ \/ ~Hears(d) /\ GoTo(d, "consume")
       \/ GoTo(d, "handled")
    /\ UNCHANGED <<run, runner, watches, stopping, cancel, lost>>

Consume(d) ==
    /\ At(d, "consume")
    /\ \/ Len(run) = drive[d].seen /\ GoTo(d, "running")
       \/ GoTo(d, "handled")
    /\ UNCHANGED <<run, runner, watches, stopping, cancel, lost>>

\* A handler answers with a certain result, or fails with its effect unknown.
Finish(d) ==
    /\ At(d, "running")
    /\ \E known \in BOOLEAN :
          /\ drive' = [drive EXCEPT ![d].known = known, ![d].step = "handled"]
          /\ lost' = IF known THEN lost ELSE lost \cup {Execution(d)}
    /\ UNCHANGED <<run, runner, watches, stopping, cancel>>

\* The watch is read, and the set told afterwards.
Handled(d) ==
    /\ At(d, "handled")
    /\ drive' = [drive EXCEPT ![d].asked = Hears(d), ![d].step = "resolve"]
    /\ UNCHANGED <<run, runner, watches, stopping, cancel, lost>>

\* resolve_execution_stop finds the set by the run.
Resolve(d) ==
    /\ At(d, "resolve")
    /\ sets' = IF stops = 0 THEN sets
               ELSE [sets EXCEPT ![stops] =
                        Resolved(@, Execution(d), drive[d].asked, drive[d].known)]
    /\ GoTo(d, "settled")
    /\ UNCHANGED <<run, runner, watches, stops, cancel, lost>>

\* finalize_capability_action: a result that comes with the cancellation is not
\* given to the runner; if the set was not told of it, its stop is waited for.
Settled(d) ==
    /\ At(d, "settled")
    /\ CASE ~drive[d].known -> With(d, "unknown", "drop") /\ UNCHANGED sets
         [] drive[d].known /\ ~Hears(d) -> GoTo(d, "deliver") /\ UNCHANGED sets
         [] drive[d].known /\ Hears(d) /\ (drive[d].asked \/ stops = 0) ->
               With(d, "cancelled", "drop") /\ UNCHANGED sets
         [] OTHER -> /\ sets' = [sets EXCEPT ![stops] = BeginStop(@)]
                     /\ drive' = [drive EXCEPT ![d].set = stops, ![d].step = "await"]
    /\ UNCHANGED <<run, runner, watches, stops, cancel, lost>>

\* await_capability_stop; ten seconds may pass at any time.
AwaitOwn(d) ==
    /\ At(d, "await")
    /\ \/ Resolution(sets[drive[d].set]) = "confirmed" /\ With(d, "cancelled", "drop")
       \/ With(d, "unknown", "drop")
    /\ UNCHANGED <<run, runner, watches, stopping, cancel, lost>>

\* deliver_capability_result (the module Dispatch has its steps).
Deliver(d) ==
    /\ At(d, "deliver")
    /\ IF Active /\ Len(run) = drive[d].seen
       THEN drive' = [drive EXCEPT ![d].step = "take", ![d].result = TRUE]
       ELSE With(d, IF Active THEN "unknown" ELSE "cancelled", "event")
    /\ UNCHANGED <<run, runner, watches, stopping, cancel, lost>>

\* The runner's cancel: a run in a model step is told, a stored one dropped,
\* and one that a command has taken is not found.
CancelRunner ==
    CASE runner.at = "stepping" -> runner' = [runner EXCEPT !.cancelled = TRUE]
      [] runner.at = "stored" -> runner' = NoRun
      [] OTHER -> UNCHANGED runner

\* cancel_pending_tools.
Drop(d) ==
    /\ At(d, "drop")
    /\ CancelRunner
    /\ GoTo(d, "end")
    /\ UNCHANGED <<run, watches, stopping, cancel, lost>>

\* Mutant: the reasons of a refused prompt are no kinds of outcome.
KindOf_Plain(event) == IF event = "missing" THEN "failed" ELSE event

KindOf(event) ==
    CASE event \in {"busy", "missing", "overtime", "failed"} -> "failed"
      [] OTHER -> event

Afterwards(d) ==
    IF KindOf(drive[d].event) = "unknown" THEN Return(d) ELSE GoTo(d, "clear")

\* record_drive_terminal.  A failure is recorded where the event is read and
\* again after the loop; a different outcome already recorded makes drive_run return.
End(d) ==
    /\ drive[d].step \in {"end", "again"}
    /\ EndTurn(KindOf(drive[d].event))
    /\ CASE Ended /\ KindOf(drive[d].event) \notin ThisTurn -> Return(d)
         [] OTHER -> \/ At(d, "end") /\ drive[d].event # "completed" /\ GoTo(d, "again")
                     \/ Afterwards(d)
    /\ UNCHANGED <<runner, watches, stopping, cancel, lost>>

\* clear_cancel.
Clear(d) ==
    /\ At(d, "clear")
    /\ watch' = 0 /\ stops' = 0
    /\ Return(d)
    /\ UNCHANGED <<run, runner, signals, sets, cancel, lost>>

------------------------------------------------------------------------------
(* Cancellations                                                             *)

On(k, step) == cancel[k].step = step
Proceed(k, step) == cancel' = [cancel EXCEPT ![k].step = step]

\* cancel_run answers at once for a turn that is over.
Cancel(k) ==
    /\ On(k, "idle") /\ ~Ended
    /\ Proceed(k, "record")
    /\ UNCHANGED <<run, runner, watches, stopping, drive, lost>>

\* record_cancel_requested: the command is named after the run.  The same
\* request counts as recorded, another one is a conflict.
RecordCancelling(k) ==
    /\ On(k, "record")
    /\ CASE \E i \in DOMAIN run : run[i] = "cancelling" ->
               (Proceed(k, "signal") \/ Proceed(k, "done")) /\ UNCHANGED run
         [] OTHER -> IF Ended THEN Proceed(k, "done") /\ UNCHANGED run
                     ELSE Proceed(k, "signal") /\ run' = Append(run, "cancelling")
    /\ UNCHANGED <<runner, watches, stopping, drive, lost>>

\* signal_cancel: a drive that has no watch yet will find this one.
SignalCancel ==
    IF watch = 0 THEN signals' = Append(signals, TRUE) /\ watch' = Len(signals) + 1
    ELSE signals' = [signals EXCEPT ![watch] = TRUE] /\ UNCHANGED watch

Signal(k) ==
    /\ On(k, "signal")
    /\ SignalCancel
    /\ Proceed(k, "runner")
    /\ UNCHANGED <<run, runner, stopping, drive, lost>>

AskRunner(k) ==
    /\ On(k, "runner")
    /\ CancelRunner
    /\ cancel' = [cancel EXCEPT ![k].step = "stop",
                                ![k].answered = runner.at \in {"stepping", "stored"}]
    /\ UNCHANGED <<run, watches, stopping, drive, lost>>

\* await_capability_stop: without a set nothing is running.
AskStop(k) ==
    /\ On(k, "stop")
    /\ IF stops = 0
       THEN cancel' = [cancel EXCEPT ![k].step = "end", ![k].stopped = TRUE] /\ UNCHANGED sets
       ELSE /\ sets' = [sets EXCEPT ![stops] = BeginStop(@)]
            /\ cancel' = [cancel EXCEPT ![k].step = "wait", ![k].set = stops]
    /\ UNCHANGED <<run, runner, watches, stops, drive, lost>>

\* Mutant: the wait has no end of its own.
AwaitStop_Forever(k) ==
    /\ On(k, "wait") /\ Resolution(sets[cancel[k].set]) # "pending"
    /\ cancel' = [cancel EXCEPT ![k].step = "end",
                                ![k].stopped = Resolution(sets[cancel[k].set]) = "confirmed"]
    /\ UNCHANGED <<run, runner, watches, stopping, drive, lost>>

AwaitStop(k) ==
    /\ On(k, "wait")
    /\ \/ /\ Resolution(sets[cancel[k].set]) # "pending"
          /\ cancel' = [cancel EXCEPT ![k].step = "end",
                           ![k].stopped = Resolution(sets[cancel[k].set]) = "confirmed"]
       \/ Proceed(k, "end")
    /\ UNCHANGED <<run, runner, watches, stopping, drive, lost>>

\* Mutant: the runner's answer is enough.
Proven_Answered(k) == cancel[k].answered

Proven(k) == cancel[k].stopped /\ cancel[k].answered

EndCancel(k) ==
    /\ On(k, "end")
    /\ EndTurn(IF Proven(k) THEN "cancelled" ELSE "unknown")
    /\ Proceed(k, "done")
    /\ UNCHANGED <<runner, watches, stopping, drive, lost>>

------------------------------------------------------------------------------

\* A run has been started: its first drive has the watch, and the runner is
\* about to make the first model step.
Init ==
    /\ run = <<"prompt">>
    /\ runner = [at |-> "held", tool |-> FALSE, cancelled |-> FALSE]
    /\ watch = 1 /\ signals = <<FALSE>>
    /\ stops = 0 /\ sets = << >>
    /\ \E first \in Drives :
          drive = [d \in Drives |-> IF d = first THEN [Asking EXCEPT !.step = "begin"] ELSE Idle]
    /\ cancel = [k \in Cancels |->
                    [step |-> "idle", answered |-> FALSE, set |-> 0, stopped |-> FALSE]]
    /\ lost = {}

Dispatching(d) ==
    \/ Prepared(d) \/ Admit(d) \/ Consume(d) \/ Handled(d) \/ Resolve(d)
    \/ Settled(d) \/ AwaitOwn(d) \/ Deliver(d) \/ Drop(d)

Driving(d) ==
    \/ Take(d) \/ Begin(d) \/ Model(d) \/ Leave(d) \/ Store(d) \/ Drive(d) \/ Event(d)
    \/ Dispatching(d) \/ End(d) \/ Clear(d)

Cancelling(k) ==
    \/ RecordCancelling(k) \/ Signal(k) \/ AskRunner(k) \/ AskStop(k) \/ AwaitStop(k)
    \/ EndCancel(k)

Next ==
    \/ \E d \in Drives : Continue(d) \/ Driving(d) \/ Finish(d)
    \/ \E k \in Cancels : Cancel(k) \/ Cancelling(k)

Spec == Init /\ [][Next]_vars

\* The runtime polls every cancellation that can go on, and its timer fires.
\* Nothing is asked of the model or of the handlers: they may never answer.
FairSpec == Spec /\ \A k \in Cancels : WF_vars(Cancelling(k))

------------------------------------------------------------------------------
(* Properties                                                                *)

EntryStates == {"inflight", "stopping", "stopped", "completed", "unconfirmed"}

\* What the stream, the runner, the watches and the sets hold, and that a task
\* only ever refers to a watch or a set that was made.
TypeOK ==
    /\ run \in Seq({"prompt", "cancelling"} \cup TerminalKinds)
    /\ runner \in [at : {"none", "stored", "held", "stepping"}, tool : BOOLEAN,
                   cancelled : BOOLEAN]
    /\ signals \in Seq(BOOLEAN) /\ watch \in 0..Len(signals)
    /\ stops \in 0..Len(sets)
    /\ \A i \in DOMAIN sets :
          /\ sets[i].requested \in BOOLEAN /\ DOMAIN sets[i].entry \subseteq Executions
          /\ \A x \in DOMAIN sets[i].entry : sets[i].entry[x] \in EntryStates
    /\ \A d \in Drives : drive[d].step \notin {"idle", "done"}
          => drive[d].channel \in 0..Len(signals)
    /\ \A k \in Cancels : cancel[k].set \in 0..Len(sets)
    /\ lost \subseteq Executions

Running == { d \in Drives : At(d, "running") }

\* While a handler runs, the stop set of the run knows of it: whoever asks for
\* the proof that everything has stopped (a cancellation, the release of a
\* quarantined project, the release of path locks) does not get it.
RunningTracked ==
    Running # {} => stops # 0 /\ Resolution(sets[stops]) # "confirmed"

\* A turn is recorded as cancelled only when none of the run's handlers runs; and of
\* the handlers whose effect is unknown, only those pass for settled that had failed
\* before the cancellation was signalled.
CancelledAtRest ==
    "cancelled" \in ThisTurn =>
        /\ Running = {}
        /\ \A x \in lost : stops # 0 /\ x \in DOMAIN sets[stops].entry
                => sets[stops].entry[x] = "completed"

\* A drive that is in its turn hears of every cancellation that was signalled
\* in it, whichever of the two came first to the watch.
SignalHeard ==
    \A d \in Drives, k \in Cancels :
        (/\ drive[d].step \in {"event", "prepared", "broker", "consume", "running"}
         /\ ~Ended /\ "cancelling" \in ThisTurn
         /\ cancel[k].step \in {"runner", "stop", "wait", "end"})
            => Hears(d)

\* A turn is recorded as cancelled only when its cancellation was.  A second
\* cancellation, in a later turn, breaks this.
CancelledByRequest == "cancelled" \in ThisTurn => "cancelling" \in ThisTurn

\* A turn is not recorded as cancelled when the effect of one of its handlers
\* is unknown.  A handler that failed before the signal breaks this.
CancelledKnown == "cancelled" \in ThisTurn => lost = {}

\* A cancellation that is recorded ends the turn, whatever the runner, the model
\* and the handlers do.
CancelEnds == "cancelling" \in ThisTurn ~> Ended

==============================================================================
