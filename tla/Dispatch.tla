------------------------------- MODULE Dispatch -------------------------------
(***************************************************************************)
(* From a tool request that may go ahead to the callback of the runner:       *)
(* dispatch_authorized, the permit verifier of the capability broker and      *)
(* deliver_capability_result (kiana-core/src/dispatch.rs), with the facts     *)
(* their callers in capabilities.rs and approvals.rs write on the run.        *)
(*                                                                          *)
(* One run of one project.  The journal is a set of streams that change by    *)
(* compare-and-swap on the versions read before; the handler's effect and the *)
(* runner's callback happen outside it.                                      *)
(***************************************************************************)
EXTENDS Integers, Sequences, FiniteSets

CONSTANTS
    Callers,        \* tasks of the daemon that drive the run
    Requests,       \* tool requests of the run
    Gated,          \* the requests that need an approval
    Executions,     \* execution ids, one for each attempt
    NoExecution,
    MaxFacts,       \* bound: facts on the run's stream before calls stop starting
    MaxPrompts, MaxRevisions, MaxChanges,   \* bounds: turns, revisions, company facts
    MaxCrashes, MaxUnknowns     \* bounds: restarts, commits with an unknown outcome

ASSUME DispatchAssumption ==
    /\ Gated \subseteq Requests
    /\ NoExecution \notin Executions
    /\ {MaxFacts, MaxPrompts, MaxRevisions, MaxChanges, MaxCrashes, MaxUnknowns} \subseteq Nat

VARIABLES
    authority,      \* version of the project's authority stream
    company,        \* the company stream: "open" or "closed" for this work
    quarantine,     \* the quarantine stream of the project
    run,            \* the run's stream
    pin,            \* authority version each request is pinned to, 0 when it is not
    approval,       \* the approval of each request, and the authority it binds
    permit,         \* the execution_permit stream of each execution
    delivery,       \* the turn each request's result was claimed for, 0 when it was not
    call,           \* what each caller is doing
    started,        \* how often each execution entered its handler
    sent,           \* how often each request's result was handed to the runner
    crashes, unknowns

vars == <<authority, company, quarantine, run, pin, approval, permit, delivery,
          call, started, sent, crashes, unknowns>>
scope == <<authority, company, quarantine, run>>
effects == <<started, sent>>
bounds == <<crashes, unknowns>>

------------------------------------------------------------------------------
(* Reading the journal                                                       *)

TerminalKinds == {"completed", "failed", "cancelled", "unknown"}

PromptsOf(r) == { i \in DOMAIN r : r[i] = "prompt" }

\* The facts of a run since its last prompt, and the number of that prompt.
Turn == Cardinality(PromptsOf(run))
ThisTurn == { run[i] : i \in { j \in DOMAIN run : \A p \in PromptsOf(run) : p <= j } }
Ended == ThisTurn \cap TerminalKinds # {}
Active == ThisTurn \cap (TerminalKinds \cup {"cancelling"}) = {}

Quarantined == quarantine # << >> /\ quarantine[Len(quarantine)] = "quarantined"
Open == company[Len(company)] = "open"

\* The run was authorized under the first revision of the authority.
Authorized == 1

\* The streams a dispatch depends on, at their current versions.
Versions == [authority |-> authority, company |-> Len(company),
             quarantine |-> Len(quarantine), run |-> Len(run)]
NoVersions == [authority |-> 0, company |-> 0, quarantine |-> 0, run |-> 0]

PreparedFact(x) == permit[x][1]
RequestOf(x) == PreparedFact(x).request
Prepared(x) == permit[x] # << >>
Executing(x) == Len(permit[x]) >= 3
ResultOf(x) == permit[x][Len(permit[x])].outcome
Settled(x) == Prepared(x) /\ permit[x][Len(permit[x])].is = "result"

\* The receipt of a request's prepare command.
AlreadyPrepared(r) == \E x \in Executions : Prepared(x) /\ RequestOf(x) = r

\* classify_dispatch_stream.
CrashClass(s) ==
    LET kinds == [i \in DOMAIN s |-> s[i].is]
    IN  CASE kinds = << >> -> "NotPrepared"
          [] kinds = <<"prepared">> -> "PreparedUndispatched"
          [] kinds = <<"prepared", "dispatching">> -> "DispatchUnconfirmed"
          [] kinds = <<"prepared", "dispatching", "executing">> -> "EffectPossiblyStarted"
          [] kinds \in {<<"prepared", "dispatching", "executing", "result">>,
                        <<"prepared", "result">>} -> "ResultCommitted"
          [] OTHER -> "Corrupt"

------------------------------------------------------------------------------
(* Calls                                                                     *)

Idle == [step |-> "idle"]

Begun(r) == [step |-> "pin", request |-> r, execution |-> NoExecution, seen |-> NoVersions,
             outcome |-> "known", hears |-> FALSE]

At(c, step) == call[c].step = step
Request(c) == call[c].request
Execution(c) == call[c].execution
Seen(c) == call[c].seen
GoTo(c, step) == call' = [call EXCEPT ![c].step = step]
Return(c) == call' = [call EXCEPT ![c] = Idle]

\* The versions a later commit will expect are read.
Look(c, step) == call' = [call EXCEPT ![c].step = step, ![c].seen = Versions]
Leave(c, step, outcome) == call' = [call EXCEPT ![c].step = step, ![c].outcome = outcome]

\* A dispatch that ends without a result for the runner ends the turn.
Doom(c, outcome) == Leave(c, "conclude", outcome)

Start(c) ==
    /\ call[c] = Idle /\ Len(run) < MaxFacts
    /\ \E r \in Requests : call' = [call EXCEPT ![c] = Begun(r)]
    /\ UNCHANGED <<scope, pin, approval, permit, delivery, effects, bounds>>

\* signal_cancel reaches the watch of a call some time after run.cancelling.
Hear(c) ==
    /\ call[c] # Idle /\ ~call[c].hears
    /\ \E i \in DOMAIN run : run[i] = "cancelling"
    /\ call' = [call EXCEPT ![c].hears = TRUE]
    /\ UNCHANGED <<scope, pin, approval, permit, delivery, effects, bounds>>

\* A policy, a quota, an expiry or a failed read refuses the dispatch before
\* anything is prepared.
Refuse(c) ==
    /\ call[c].step \in {"pin", "pinning", "begin", "revision", "scopes", "guard",
                         "approval", "prepare"}
    /\ \/ Doom(c, "unknown")
       \/ call[c].step \in {"pin", "pinning", "begin"} /\ Doom(c, "failed")
    /\ UNCHANGED <<scope, pin, approval, permit, delivery, effects, bounds>>

------------------------------------------------------------------------------
(* Pin                                                                       *)

\* pin_action_authority.
Pin(c) ==
    /\ At(c, "pin")
    /\ CASE pin[Request(c)] = 0 ->
               Look(c, "pinning")
         [] pin[Request(c)] = authority -> GoTo(c, "announce")
         [] OTHER -> Doom(c, "failed")
    /\ UNCHANGED <<scope, pin, approval, permit, delivery, effects, bounds>>

\* A pin that another call has just made answers as a replay of this one.
CommitPin(c) ==
    /\ At(c, "pinning")
    /\ \/ /\ pin[Request(c)] # 0
          /\ GoTo(c, "announce") /\ UNCHANGED <<pin, unknowns>>
       \/ /\ pin[Request(c)] = 0
          /\ IF authority = Seen(c).authority
             THEN pin' = [pin EXCEPT ![Request(c)] = authority] /\ GoTo(c, "announce")
             ELSE Doom(c, "failed") /\ UNCHANGED pin
          /\ UNCHANGED unknowns
       \/ /\ unknowns < MaxUnknowns /\ unknowns' = unknowns + 1
          /\ pin' \in {pin} \cup
                (IF pin[Request(c)] = 0 /\ authority = Seen(c).authority
                 THEN {[pin EXCEPT ![Request(c)] = authority]} ELSE {})
          /\ Doom(c, "unknown")
    /\ UNCHANGED <<scope, approval, permit, delivery, effects, crashes>>

\* The facts of the request and of the decision on it (one fact stands for
\* them).  A request that needs an approval waits for it here, and comes back.
Announce(c) ==
    /\ At(c, "announce")
    /\ run' = Append(run, "note")
    /\ IF Request(c) \in Gated /\ approval[Request(c)].is = "none"
       THEN Return(c) ELSE GoTo(c, "begin")
    /\ UNCHANGED <<authority, company, quarantine, pin, approval, permit, delivery,
                   effects, bounds>>

------------------------------------------------------------------------------
(* Prepare                                                                   *)

Fresh == { x \in Executions : ~Prepared(x) /\ \A c \in Callers :
               call[c] # Idle => Execution(c) # x }

\* Cancellation and the receipt of an earlier attempt are looked at first.
Begin(c) ==
    /\ At(c, "begin")
    /\ \/ call[c].hears /\ Doom(c, "cancelled")
       \/ ~call[c].hears /\ AlreadyPrepared(Request(c)) /\ Doom(c, "unknown")
       \/ /\ ~call[c].hears /\ ~AlreadyPrepared(Request(c))
          /\ \E x \in Fresh : call' = [call EXCEPT ![c].execution = x, ![c].step = "revision"]
    /\ UNCHANGED <<scope, pin, approval, permit, delivery, effects, bounds>>

\* dispatch_authority_versions reads the authority twice: first the revision
\* the run must have been authorized under, then its version with the rest.
ReadRevision(c) ==
    /\ At(c, "revision")
    /\ IF authority = Authorized THEN GoTo(c, "scopes") ELSE Doom(c, "unknown")
    /\ UNCHANGED <<scope, pin, approval, permit, delivery, effects, bounds>>

ReadScopes(c) ==
    /\ At(c, "scopes")
    /\ IF Active /\ ~Quarantined
       THEN Look(c, "guard")
       ELSE Doom(c, "unknown")
    /\ UNCHANGED <<scope, pin, approval, permit, delivery, effects, bounds>>

\* guard_company_capability reads the company again, then the pin is compared.
Guard(c) ==
    /\ At(c, "guard")
    /\ IF Open /\ pin[Request(c)] = Seen(c).authority
       THEN GoTo(c, IF Request(c) \in Gated THEN "approval" ELSE "prepare")
       ELSE Doom(c, "unknown")
    /\ UNCHANGED <<scope, pin, approval, permit, delivery, effects, bounds>>

\* prepare_consumption, and its versions against those already read.
TakeApproval(c) ==
    /\ At(c, "approval")
    /\ LET a == approval[Request(c)]
       IN  IF /\ a.is = "approved" /\ a.under = authority
              /\ authority = Seen(c).authority /\ Len(run) = Seen(c).run
           THEN GoTo(c, "prepare") ELSE Doom(c, "unknown")
    /\ UNCHANGED <<scope, pin, approval, permit, delivery, effects, bounds>>

\* Mutant: the run is read, and not expected.
Holds_NoRun(seen) == [Versions EXCEPT !.run = seen.run] = seen

Holds(seen) == Versions = seen

\* Consuming the approval moves its own stream, and the permit expects that.
PermitOf(c) ==
    [is |-> "prepared", request |-> Request(c), turn |-> Turn, needs |-> Seen(c),
     approval |-> IF Request(c) \in Gated THEN "consumed" ELSE "none"]

\* Mutant: the approval is not consumed with the permit.
WritePrepared_Apart(c) ==
    /\ permit' = [permit EXCEPT ![Execution(c)] = <<PermitOf(c)>>]
    /\ UNCHANGED approval

WritePrepared(c) ==
    /\ permit' = [permit EXCEPT ![Execution(c)] = <<PermitOf(c)>>]
    /\ approval' = IF Request(c) \in Gated
                   THEN [approval EXCEPT ![Request(c)].is = "consumed"] ELSE approval

\* Mutant: the command of a prepare is named after the execution.
PrepareHolds_ByExecution(c) ==
    Holds(Seen(c)) /\ (Request(c) \in Gated => approval[Request(c)].is = "approved")

\* Another prepare of the same request is its replay, whatever it prepares.
PrepareHolds(c) ==
    /\ ~AlreadyPrepared(Request(c))
    /\ Holds(Seen(c))
    /\ Request(c) \in Gated => approval[Request(c)].is = "approved"

Prepare(c) ==
    /\ At(c, "prepare")
    /\ \/ PrepareHolds(c) /\ WritePrepared(c) /\ GoTo(c, "prepared") /\ UNCHANGED unknowns
       \/ /\ ~PrepareHolds(c) /\ Doom(c, "unknown")
          /\ UNCHANGED <<permit, approval, unknowns>>
       \/ /\ unknowns < MaxUnknowns /\ unknowns' = unknowns + 1
          /\ \/ PrepareHolds(c) /\ WritePrepared(c)
             \/ UNCHANGED <<permit, approval>>
          /\ Doom(c, "unknown")
    /\ UNCHANGED <<scope, pin, delivery, effects, crashes>>

------------------------------------------------------------------------------
(* Execute                                                                   *)

\* A result says too whether its execution was stopped by the cancellation.
Result(outcome, stopped) == [is |-> "result", outcome |-> outcome, stopped |-> stopped]

\* Data revocation or the checkpoint fails, or the call hears of the
\* cancellation: the prepared permit is closed without an execution.
Prepping(c) ==
    /\ At(c, "prepared")
    /\ \/ ~call[c].hears /\ GoTo(c, "broker")
       \/ Leave(c, "fence", IF call[c].hears THEN "cancelled" ELSE "unknown")
    /\ UNCHANGED <<scope, pin, approval, permit, delivery, effects, bounds>>

\* commit_prepared_result_unknown.
Fence(c) ==
    /\ At(c, "fence")
    /\ LET closed == [permit EXCEPT ![Execution(c)] = Append(@, Result("unknown", FALSE))]
       IN  \/ Len(permit[Execution(c)]) = 1 /\ permit' = closed
              /\ Doom(c, call[c].outcome) /\ UNCHANGED unknowns
           \/ /\ unknowns < MaxUnknowns /\ unknowns' = unknowns + 1
              /\ permit' \in {permit, closed} /\ Doom(c, "unknown")
    /\ UNCHANGED <<scope, pin, approval, delivery, effects, crashes>>

\* execute_cancellable up to the permit: a missing handler, an extension, a
\* quota or the cancellation refuse the request.
Admit(c) ==
    /\ At(c, "broker")
    /\ \/ ~call[c].hears /\ GoTo(c, "consume")
       \/ Leave(c, "settle", "unknown")
    /\ UNCHANGED <<scope, pin, approval, permit, delivery, effects, bounds>>

\* What verify_and_consume expects.  It also compares the versions in a first
\* pass, and refuses there for the same reason the commit would.
Consumable(x) ==
    /\ Len(permit[x]) = 1
    /\ Holds(PreparedFact(x).needs)
    /\ approval[RequestOf(x)].is = PreparedFact(x).approval

\* Mutant: only one of the two facts is written.
WriteConsumed_Half(x) == permit' = [permit EXCEPT ![x] = Append(@, [is |-> "dispatching"])]

WriteConsumed(x) ==
    permit' = [permit EXCEPT ![x] = @ \o <<[is |-> "dispatching"], [is |-> "executing"]>>]

Consume(c) ==
    /\ At(c, "consume")
    /\ LET x == Execution(c)
           refused == Leave(c, "settle", "unknown")
       IN  \/ Consumable(x) /\ WriteConsumed(x) /\ GoTo(c, "handler") /\ UNCHANGED unknowns
           \/ refused /\ UNCHANGED <<permit, unknowns>>
           \/ /\ unknowns < MaxUnknowns /\ unknowns' = unknowns + 1
              /\ Consumable(x) /\ WriteConsumed(x) /\ refused
    /\ UNCHANGED <<scope, pin, approval, delivery, effects, crashes>>

Handle(c) ==
    /\ At(c, "handler")
    /\ started' = [started EXCEPT ![Execution(c)] = @ + 1]
    /\ GoTo(c, "running")
    /\ UNCHANGED <<scope, pin, approval, permit, delivery, sent, bounds>>

\* The handler answers, stops because of the cancellation, or fails.
Finish(c) ==
    /\ At(c, "running")
    /\ \E outcome \in {"known", "unknown"} :
          Leave(c, "settle",
                IF outcome = "known" /\ call[c].hears THEN "cancelled" ELSE outcome)
    /\ UNCHANGED <<scope, pin, approval, permit, delivery, effects, bounds>>

\* execution.result_committed at the version after the last one.
Settle(c) ==
    /\ At(c, "settle")
    /\ LET stopped == call[c].hears /\ call[c].outcome # "unknown"
           done == [permit EXCEPT ![Execution(c)] =
                       Append(@, Result(call[c].outcome, stopped))]
       IN  \/ permit' = done /\ GoTo(c, "record") /\ UNCHANGED unknowns
           \/ /\ unknowns < MaxUnknowns /\ unknowns' = unknowns + 1
              /\ permit' \in {permit, done}
              /\ Leave(c, "record", "unknown")
    /\ UNCHANGED <<scope, pin, approval, delivery, effects, crashes>>

\* finalize_capability_action: a result that comes after the cancellation is
\* not given to the runner any more, and unknown when the stop is not proved.
Record(c) ==
    /\ At(c, "record")
    /\ run' = Append(run, "note")
    /\ \/ call[c].outcome = "known" /\ ~call[c].hears /\ GoTo(c, "deliver")
       \/ /\ call[c].outcome = "known" /\ call[c].hears
          /\ \E outcome \in {"cancelled", "unknown"} : Doom(c, outcome)
       \/ call[c].outcome # "known" /\ Doom(c, call[c].outcome)
    /\ UNCHANGED <<authority, company, quarantine, pin, approval, permit, delivery,
                   effects, bounds>>

------------------------------------------------------------------------------
(* Deliver                                                                   *)

\* The run is active, and the committed result belongs to its turn.
Deliverable(x) ==
    /\ Active
    /\ Settled(x) /\ ResultOf(x) = "known"
    /\ PreparedFact(x).turn = Turn

\* Mutants: the turn ends with the status of the result; a result that cannot be
\* delivered is dropped.
Deliver_ByStatus(c) ==
    /\ At(c, "deliver")
    /\ IF Deliverable(Execution(c))
       THEN Look(c, "claim")
       ELSE GoTo(c, "conclude")
    /\ UNCHANGED <<scope, pin, approval, permit, delivery, effects, bounds>>
Deliver_Drops(c) ==
    /\ At(c, "deliver")
    /\ IF Deliverable(Execution(c))
       THEN Look(c, "claim")
       ELSE Return(c)
    /\ UNCHANGED <<scope, pin, approval, permit, delivery, effects, bounds>>

Deliver(c) ==
    /\ At(c, "deliver")
    /\ IF Deliverable(Execution(c))
       THEN Look(c, "claim")
       ELSE Doom(c, IF Active THEN "unknown" ELSE "cancelled")
    /\ UNCHANGED <<scope, pin, approval, permit, delivery, effects, bounds>>

\* result.delivery_claimed expects the delivery and the run as they were read.
Claimable(c) == delivery[Request(c)] = 0 /\ Len(run) = Seen(c).run

Claim(c) ==
    /\ At(c, "claim")
    /\ LET claimed == [delivery EXCEPT ![Request(c)] = PreparedFact(Execution(c)).turn]
       IN  \/ Claimable(c) /\ delivery' = claimed /\ GoTo(c, "send") /\ UNCHANGED unknowns
           \/ ~Claimable(c) /\ Doom(c, "unknown") /\ UNCHANGED <<delivery, unknowns>>
           \/ /\ unknowns < MaxUnknowns /\ unknowns' = unknowns + 1
              /\ delivery' \in {delivery} \cup (IF Claimable(c) THEN {claimed} ELSE {})
              /\ Doom(c, "unknown")
    /\ UNCHANGED <<scope, pin, approval, permit, effects, crashes>>

\* Mutant: a callback that failed is made again.
Send_Retried(c) ==
    /\ At(c, "send")
    /\ sent' = [sent EXCEPT ![Request(c)] = @ + 1]
    /\ Return(c) \/ (sent[Request(c)] = 0 /\ UNCHANGED call)
    /\ UNCHANGED <<scope, pin, approval, permit, delivery, started, bounds>>

\* The runner is called once; when the answer is lost nobody knows.
Send(c) ==
    /\ At(c, "send")
    /\ sent' = [sent EXCEPT ![Request(c)] = @ + 1]
    /\ Return(c) \/ Doom(c, "unknown")
    /\ UNCHANGED <<scope, pin, approval, permit, delivery, started, bounds>>

\* record_terminal_event: the first terminal fact of a turn stays the only one,
\* and an unknown outcome quarantines the project with it.
EndTurn(kind) ==
    /\ run' = IF Ended THEN run ELSE Append(run, kind)
    /\ quarantine' = IF ~Ended /\ kind = "unknown" THEN Append(quarantine, "quarantined")
                     ELSE quarantine

Conclude(c) ==
    /\ At(c, "conclude")
    /\ EndTurn(call[c].outcome)
    /\ Return(c)
    /\ UNCHANGED <<authority, company, pin, approval, permit, delivery, effects, bounds>>

------------------------------------------------------------------------------
(* Around the calls                                                          *)

Revise ==
    /\ authority <= MaxRevisions /\ authority' = authority + 1
    /\ UNCHANGED <<company, quarantine, run, pin, approval, permit, delivery, call,
                   effects, bounds>>

ChangeCompany ==
    /\ Len(company) <= MaxChanges
    /\ \E state \in {"open", "closed"} : company' = Append(company, state)
    /\ UNCHANGED <<authority, quarantine, run, pin, approval, permit, delivery, call,
                   effects, bounds>>

\* A reconciled project is released with the evidence that every execution that
\* was dispatched has been stopped.
Stopped(x) == Settled(x) /\ permit[x][Len(permit[x])].stopped

\* Mutant: the release asks for the reconciliation alone.
Release_Reconciled ==
    /\ Quarantined /\ quarantine' = Append(quarantine, "released")
    /\ UNCHANGED <<authority, company, run, pin, approval, permit, delivery, call,
                   effects, bounds>>

Release ==
    /\ Quarantined /\ \A x \in Executions : Executing(x) => Stopped(x)
    /\ quarantine' = Append(quarantine, "released")
    /\ UNCHANGED <<authority, company, run, pin, approval, permit, delivery, call,
                   effects, bounds>>

\* An approval is staged and decided under the authority of its day, or
\* withdrawn (the module Approvals has the steps).
Grant(r) ==
    /\ r \in Gated /\ pin[r] # 0 /\ approval[r].is = "none"
    /\ approval' = [approval EXCEPT ![r] = [is |-> "approved", under |-> authority]]
    /\ UNCHANGED <<scope, pin, permit, delivery, call, effects, bounds>>

Withdraw(r) ==
    /\ approval[r].is = "approved"
    /\ approval' = [approval EXCEPT ![r].is = "void"]
    /\ UNCHANGED <<scope, pin, permit, delivery, call, effects, bounds>>

\* record_cancel_requested.
Cancel ==
    /\ Active /\ \A i \in DOMAIN run : run[i] # "cancelling"
    /\ Len(run) < MaxFacts
    /\ run' = Append(run, "cancelling")
    /\ UNCHANGED <<authority, company, quarantine, pin, approval, permit, delivery, call,
                   effects, bounds>>

\* The turn ends by its cancellation or by the runner's own account.
Stop ==
    /\ ~Ended /\ Len(run) < MaxFacts
    /\ \E kind \in IF Active THEN {"completed", "failed"} ELSE {"cancelled", "unknown"} :
          EndTurn(kind)
    /\ UNCHANGED <<authority, company, pin, approval, permit, delivery, call, effects, bounds>>

\* continue_run: a further prompt, unless the last outcome is unknown.
Prompt ==
    /\ "unknown" \notin ThisTurn /\ Turn < MaxPrompts /\ Len(run) < MaxFacts
    /\ run' = Append(run, "prompt")
    /\ UNCHANGED <<authority, company, quarantine, pin, approval, permit, delivery, call,
                   effects, bounds>>

\* The daemon restarts; nothing takes up what its tasks were doing.
Crash ==
    /\ crashes < MaxCrashes /\ crashes' = crashes + 1
    /\ call' = [c \in Callers |-> Idle]
    /\ UNCHANGED <<scope, pin, approval, permit, delivery, effects, unknowns>>

Init ==
    /\ authority = Authorized
    /\ company = <<"open">> /\ quarantine = << >> /\ run = <<"prompt">>
    /\ pin = [r \in Requests |-> 0]
    /\ approval = [r \in Requests |-> [is |-> "none", under |-> 0]]
    /\ permit = [x \in Executions |-> << >>]
    /\ delivery = [r \in Requests |-> 0]
    /\ call = [c \in Callers |-> Idle]
    /\ started = [x \in Executions |-> 0] /\ sent = [r \in Requests |-> 0]
    /\ crashes = 0 /\ unknowns = 0

Work(c) ==
    \/ Pin(c) \/ CommitPin(c) \/ Announce(c)
    \/ Begin(c) \/ ReadRevision(c) \/ ReadScopes(c) \/ Guard(c) \/ TakeApproval(c)
    \/ Prepare(c) \/ Prepping(c) \/ Fence(c)
    \/ Admit(c) \/ Consume(c) \/ Handle(c) \/ Finish(c) \/ Settle(c) \/ Record(c)
    \/ Deliver(c) \/ Claim(c) \/ Send(c) \/ Conclude(c)

Next ==
    \/ \E c \in Callers : Start(c) \/ Hear(c) \/ Refuse(c) \/ Work(c)
    \/ \E r \in Requests : Grant(r) \/ Withdraw(r)
    \/ Revise \/ ChangeCompany \/ Release \/ Cancel \/ Stop \/ Prompt \/ Crash

Spec == Init /\ [][Next]_vars

\* The runtime polls every task that can go on, and handlers answer.
FairSpec == Spec /\ \A c \in Callers : WF_vars(Work(c))

------------------------------------------------------------------------------
(* Properties                                                                *)

Steps == {"pin", "pinning", "announce", "begin", "revision", "scopes", "guard", "approval",
          "prepare", "prepared", "fence", "broker", "consume", "handler", "running",
          "settle", "record", "deliver", "claim", "send", "conclude"}

VersionsType == [authority : Nat, company : Nat, quarantine : Nat, run : Nat]

CallType ==
    {Idle} \cup [step : Steps, request : Requests, execution : Executions \cup {NoExecution},
                 seen : VersionsType, outcome : {"known", "unknown", "cancelled", "failed"},
                 hears : BOOLEAN]

PermitFacts ==
    [is : {"prepared"}, request : Requests, turn : Nat, needs : VersionsType,
     approval : {"none", "consumed"}]
    \cup [is : {"dispatching", "executing"}]
    \cup [is : {"result"}, outcome : {"known", "unknown", "cancelled"}, stopped : BOOLEAN]

\* What the streams, the calls and the counters hold, and that a permit's
\* stream has at most one fact of each of its four kinds: what dispatch.rs and
\* classify_dispatch_stream read by index.
TypeOK ==
    /\ authority \in Nat
    /\ company \in Seq({"open", "closed"})
    /\ quarantine \in Seq({"quarantined", "released"})
    /\ run \in Seq({"prompt", "note", "cancelling"} \cup TerminalKinds)
    /\ pin \in [Requests -> Nat]
    /\ approval \in [Requests -> [is : {"none", "approved", "consumed", "void"}, under : Nat]]
    /\ \A x \in Executions : permit[x] \in Seq(PermitFacts) /\ Len(permit[x]) <= 4
    /\ delivery \in [Requests -> Nat]
    /\ call \in [Callers -> CallType]
    /\ started \in [Executions -> Nat] /\ sent \in [Requests -> Nat]
    /\ crashes \in Nat /\ unknowns \in Nat

\* However often a request is dispatched, by however many tasks, with restarts
\* and unconfirmed commits in between, its handler is entered at most once.
StartedOnce ==
    \A x, y \in Executions :
        started[x] > 0 /\ started[y] > 0 /\ RequestOf(x) = RequestOf(y)
            => x = y /\ started[x] = 1

\* The permit is consumed (dispatching and executing) only while everything
\* that was checked for it still holds: the run is active in the turn of the
\* permit, the project trusted at the version the run and the action are bound
\* to and not quarantined, and the company open.  None of it is looked at
\* again by verify_and_consume, which compares versions only.
StartsPermitted ==
    [][\A x \in Executions :
          ~Executing(x) /\ Len(permit'[x]) >= 3
            => /\ Active /\ Turn = PreparedFact(x).turn
               /\ authority = Authorized /\ pin[RequestOf(x)] = authority
               /\ ~Quarantined /\ Open]_vars

\* The project is not released while a handler of the quarantined run runs or is
\* about to: the evidence asked of the ledger stands for the handlers themselves.
ReleasedAtRest ==
    [][Quarantined /\ quarantine'[Len(quarantine')] = "released"
          => \A c \in Callers : call[c].step \notin {"handler", "running"}]_vars

\* An approval is used up exactly when an execution of its request is prepared,
\* by exactly one execution, and under the authority it was granted for.
ApprovalSpent ==
    \A r \in Gated :
        LET uses == { x \in Executions : Prepared(x) /\ RequestOf(x) = r }
        IN  /\ approval[r].is = "consumed" <=> uses # {}
            /\ Cardinality(uses) <= 1
            /\ \A x \in uses : PreparedFact(x).needs.authority = approval[r].under

\* Whatever the moment of a crash, classify_dispatch_stream tells from the
\* committed facts alone whether the handler may have been entered, and never
\* meets a stream it has no class for.
CrashClassSound ==
    \A x \in Executions :
        /\ CrashClass(permit[x]) \notin {"DispatchUnconfirmed", "Corrupt"}
        /\ started[x] > 0 => CrashClass(permit[x]) \in {"EffectPossiblyStarted", "ResultCommitted"}
        /\ Settled(x) /\ Len(permit[x]) = 2 => started[x] = 0

\* The runner is called back at most once for a request, with a committed
\* result of an execution whose handler ran, and never without the claim.
SentOnce ==
    \A r \in Requests : sent[r] > 0 =>
        /\ sent[r] = 1 /\ delivery[r] # 0
        /\ \E x \in Executions :
              /\ Settled(x) /\ RequestOf(x) = r
              /\ ResultOf(x) = "known" /\ started[x] = 1

\* A result is claimed for the runner only while the turn it was prepared in
\* is the current one and neither cancelled nor over.
ClaimedInTurn ==
    \A r \in Requests : delivery'[r] # delivery[r] =>
        /\ Active /\ delivery'[r] = Turn
        /\ \E x \in Executions : Prepared(x) /\ RequestOf(x) = r /\ PreparedFact(x).turn = Turn

\* However often a delivery is tried, and whatever dies in between, a result reaches
\* the runner at most once and only in the turn that asked for it.
DeliveredOnce == [][SentOnce' /\ ClaimedInTurn]_vars

\* Every permit that is prepared gets its terminal fact.
Settles == \A x \in Executions : Prepared(x) ~> Settled(x)

\* No handler runs without consequence: its result is handed to the runner, or
\* the run is told that the turn is over.
Accounted ==
    \A x \in Executions, r \in Requests :
        started[x] > 0 /\ RequestOf(x) = r ~> sent[r] > 0 \/ Ended

\* While the process lives, what was begun is finished: permits get their terminal
\* facts, and what handlers did reaches the runner or the end of the turn.
Progress == Settles /\ Accounted
==============================================================================
