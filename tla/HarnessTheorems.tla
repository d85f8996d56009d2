---------------------------- MODULE HarnessTheorems ----------------------------
(***************************************************************************)
(* The safety of Harness for every number of tasks, inputs, turns, calls,     *)
(* cancellations and restarts.                                                *)
(*                                                                          *)
(* The run is in one place at a time, although no lock is held from one       *)
(* access to the next: who takes it removes it, and a checkpoint can only be  *)
(* claimed while nothing has followed it (Alone).  An accepted input is then  *)
(* where the run is, or deferred (Counted), and a call that waits behind      *)
(* another is in no other place from which it could be requested or given up  *)
(* (Distinct).  The last needs a client that waits for its cancellations.     *)
(***************************************************************************)
EXTENDS Harness, FiniteSetTheorems, SequenceTheorems, TLAPS

------------------------------------------------------------------------------
(* The inductive invariant                                                   *)

Requests == [step : Nat, ordinal : Nat \ {0}]
Calls == [step : Nat, ordinal : Nat \ {0}, phase : {"Dispatched", "Queued"}]
Outcomes == {"none", "Failed", "Completed"}
Runs ==
    [turn : Nat \ {0}, phase : Phases, pending : Nat, asking : BOOLEAN, terminal : Outcomes,
     accepted : Nat, steps : 0 .. MaxSteps, calls : Seq(Calls),
     next_turn : SUBSET Inputs, next_step : SUBSET Inputs, seen : SUBSET Inputs]
TaskRecords ==
    [step : Tasking, run : Runs \cup {NoRun}, failed : BOOLEAN, asks : BOOLEAN,
     due : SUBSET Inputs]

\* The phases a stored run waits in.
Resting == {"ToolPending", "TurnFinished", "AwaitingInput"}

\* The steps of a task that holds the run, and those of the model loop.
Loops == {"stepping", "asking", "completing", "leaving"}
Carries == Loops \cup {"prepared", "returning", "storing"}

\* The inputs of a run.
Inside(run) == run.next_turn \cup run.next_step \cup run.seen

\* A run that agrees with itself: its frame with its calls, each input once and in
\* the queue it is meant for, and no call twice.
Queues(run) ==
    /\ \A i \in run.next_turn : Target[i] = "next_turn"
    /\ \A i \in run.next_step : Target[i] = "next_step"
    /\ run.seen \cap (run.next_turn \cup run.next_step) = {}
Apart(calls) ==
    \A j, k \in DOMAIN calls : RequestOf(calls[j]) = RequestOf(calls[k]) => j = k
Sound(run) == run \in Runs /\ RunOK(run) /\ Queues(run) /\ Apart(run.calls)

\* What a task holds at each of its steps.
Fits(t) ==
    /\ t.step \in Carries => Sound(t.run)
    /\ t.step \notin Carries => t.run = NoRun
    /\ t.failed => t.step \in {"leaving", "storing"} /\ ~t.asks
    /\ t.asks => t.run.phase \in {"ToolPending", "AwaitingInput"}
    /\ t.step \in {"prepared", "stepping", "asking", "completing"} => t.run.calls = <<>>
    /\ t.step \in {"asking", "completing"} => t.run.phase = "ModelPending"
    /\ t.step \in {"leaving", "storing", "returning"} /\ ~t.failed => t.run.phase \in Resting

InputStates == {"new", "recorded", "missed", "found", "accepted", "refused"}
TasksFit == task \in [Tasks -> TaskRecords] /\ \A c \in Tasks : Fits(task[c])
RunsFit ==
    /\ stored # NoRun => Sound(stored) /\ stored.phase \in Resting
    /\ snapshot # NoRun => Sound(snapshot) /\ snapshot.phase \in {"ToolPending", "AwaitingInput"}
Values ==
    /\ inFlight \in BOOLEAN /\ cancelled \in BOOLEAN /\ waiting \in BOOLEAN /\ fenced \in BOOLEAN
    /\ deferred \subseteq Inputs /\ forgotten \subseteq Inputs
    /\ input \in [Inputs -> InputStates]
    /\ aim \in [Inputs -> 0 .. MaxTurns] /\ turns \in 0 .. MaxTurns
    /\ open \subseteq Requests \cup {Question}
    /\ requested \in Seq(Requests) /\ notExecuted \subseteq Requests /\ stepIds \in Nat
Typed == TasksFit /\ RunsFit /\ Values

\* The run is in one place, and a checkpoint that can be claimed is the run's last
\* word: nobody has taken the run since, and nobody is about to.
Carrying(c) == task[c].step \in Carries
Free == \A c \in Tasks : ~Carrying(c)
Asked ==
    Question \in open =>
        /\ Free
        /\ stored # NoRun => stored.phase = "AwaitingInput"
        /\ snapshot # NoRun => snapshot.phase = "ToolPending"
Resuming ==
    \A c \in Tasks : At(c, "resuming") =>
        /\ snapshot = NoRun /\ Free /\ \A d \in Tasks : At(d, "resuming") => d = c
        /\ stored # NoRun => stored.phase = "AwaitingInput" /\ Question \notin open
Unborn ==
    turns = 0 =>
        /\ stored = NoRun /\ snapshot = NoRun /\ open = {}
        /\ task = [c \in Tasks |-> Idle] /\ input = [i \in Inputs |-> "new"]
Alone ==
    /\ \A c, d \in Tasks : Carrying(c) /\ Carrying(d) => c = d
    /\ stored # NoRun \/ snapshot # NoRun => Free
    /\ inFlight <=> \E c \in Tasks : task[c].step \in Loops
    /\ Asked /\ Resuming /\ Unborn

\* An accepted input is deferred or in the run, wherever that is.
Held == ({stored, snapshot} \cup { task[c].run : c \in Tasks }) \ {NoRun}
Counted ==
    /\ \A i \in deferred : input[i] = "accepted"
    /\ \A run \in Held : \A i \in Inside(run) : input[i] = "accepted" /\ i \notin deferred
    /\ \A run \in Alive : \A i \in Inputs \ forgotten :
          input[i] = "accepted" => i \in deferred \cup Inside(run)
    /\ AnsweredInTurn

Whole == Typed /\ Alone /\ Counted

\* A call behind the first of its queue was neither requested nor given up, and the
\* next step of the model has a number of its own.
Used(q) == q \in notExecuted \/ \E k \in DOMAIN requested : requested[k] = q
Distinct ==
    /\ RequestsTrue
    /\ \A q \in Requests : Used(q) => q.step <= stepIds
    /\ \A run \in Held : \A k \in DOMAIN run.calls :
          run.calls[k].step <= stepIds /\ (k # 1 => ~Used(RequestOf(run.calls[k])))
    /\ \A c \in Tasks : At(c, "asking") => \A q \in Requests : Used(q) => q.step # stepIds
    /\ \A c \in Tasks : task[c].step \in {"signalling", "cancelling"} => fenced /\ snapshot = NoRun

------------------------------------------------------------------------------
(* Runs                                                                      *)

\* A run is told from none by its turn.
LEMMA RunsAreRuns == \A run : Sound(run) => run # NoRun
<1>1. NoRun.turn = 0
  BY DEF NoRun
<1>2. \A run \in Runs : run.turn # 0
  BY DEF Runs
<1>. QED
  BY <1>1, <1>2 DEF Sound

\* The calls of a run wait in one phase only.
LEMMA PhaseTells ==
    ASSUME NEW run, Sound(run)
    PROVE  /\ run.calls = <<>> <=> run.phase # "ToolPending"
           /\ run.terminal = "none" <=> run.phase # "TurnFinished"
           /\ run.calls \in Seq(Calls) /\ Inside(run) \subseteq Inputs
           /\ run.steps \in 0 .. MaxSteps /\ run.asking \in BOOLEAN
  BY DEF Sound, RunOK, Runs, Inside

\* A run without calls may change its frame.
LEMMA FrameSound ==
    ASSUME NEW run, Sound(run), run.calls = <<>>, NEW r \in Runs,
           r.calls = <<>>, r.pending = 0, Queues(r),
           r.phase # "ToolPending", (r.terminal # "none") = (r.phase = "TurnFinished"),
           r.phase = "AwaitingInput" => r.asking
    PROVE  Sound(r)
<1>1. Len(r.calls) = 0 /\ DOMAIN r.calls = {}
  OBVIOUS
<1>2. r.phase \in Phases /\ r.next_turn \cup r.next_step \cup r.seen \subseteq Inputs
      /\ r.steps \in 0 .. MaxSteps
  BY DEF Runs
<1>. QED
  BY <1>1, <1>2 DEF Sound, RunOK, Apart

LEMMA NewRunSound == Sound(NewRun) /\ NewRun.calls = <<>> /\ Inside(NewRun) = {}
<1>1. MaxSteps \in Nat \ {0}
  BY HarnessAssumption
<1>2. NewRun \in Runs
  BY <1>1 DEF NewRun, Runs, Phases, Outcomes
<1>3. /\ NewRun.calls = <<>> /\ NewRun.pending = 0 /\ NewRun.phase = "Idle"
      /\ NewRun.terminal = "none" /\ NewRun.next_turn = {} /\ NewRun.next_step = {}
      /\ NewRun.seen = {} /\ NewRun.steps = 0
  BY DEF NewRun
<1>4. Len(NewRun.calls) = 0 /\ DOMAIN NewRun.calls = {}
  BY <1>3
<1>5. RunOK(NewRun)
  BY <1>1, <1>3, <1>4 DEF RunOK, Phases
<1>. QED
  BY <1>2, <1>3, <1>4, <1>5 DEF Sound, Queues, Apart, Inside

\* A turn begins with what waited for it.
LEMMA TurnBegunSound ==
    ASSUME NEW run, Sound(run), run.calls = <<>>
    PROVE  /\ Sound(TurnBegun(run)) /\ TurnBegun(run).calls = <<>>
           /\ TurnBegun(run).terminal = "none"
           /\ Inside(TurnBegun(run)) = Inside(run)
<1>1. MaxSteps \in Nat \ {0}
  BY HarnessAssumption
<1>2. run \in Runs /\ 1 \in Nat /\ 0 \in 0 .. MaxSteps /\ "Preparing" \in Phases /\ "none" \in Outcomes
  BY <1>1 DEF Sound, Phases, Outcomes
<1>3. PICK seen \in SUBSET Inputs : seen = run.seen \cup run.next_turn
  BY <1>2 DEF Runs
<1>4. PICK r : r = [run EXCEPT !.phase = "Preparing", !.pending = 0, !.asking = FALSE,
                               !.terminal = "none", !.accepted = 1, !.steps = 0,
                               !.next_turn = {}, !.seen = seen]
  OBVIOUS
<1>5. /\ r \in Runs /\ r.phase = "Preparing" /\ r.pending = 0 /\ r.terminal = "none"
      /\ r.calls = run.calls /\ r.next_turn = {} /\ r.next_step = run.next_step
      /\ r.seen = seen
  BY <1>2, <1>4 DEF Runs
<1>6. r = TurnBegun(run)
  BY <1>2, <1>3, <1>4 DEF TurnBegun, Runs
<1>7. Queues(r)
  <2>1. \A i \in run.next_turn \cap run.next_step : FALSE
    BY DEF Sound, Queues
  <2>. QED
    BY <1>3, <1>5, <2>1 DEF Sound, Queues
<1>8. Sound(r)
  BY <1>5, <1>7, FrameSound
<1>. QED
  BY <1>3, <1>5, <1>6, <1>8 DEF Inside

\* A run may change its inbox.
LEMMA InboxSound ==
    ASSUME NEW run, Sound(run), NEW r \in Runs, Queues(r),
           r.phase = run.phase, r.pending = run.pending, r.asking = run.asking,
           r.terminal = run.terminal, r.calls = run.calls
    PROVE  Sound(r)
<1>1. r.next_turn \cup r.next_step \cup r.seen \subseteq Inputs /\ r.steps \in 0 .. MaxSteps
  BY DEF Runs
<1>. QED
  BY <1>1 DEF Sound, RunOK

\* Each input goes into the queue of its boundary, unless the run had it already.
LEMMA QueuedSound ==
    ASSUME NEW run, Sound(run), NEW inputs \in SUBSET Inputs, inputs \cap Inside(run) = {}
    PROVE  LET r == Queued(run, inputs)
           IN  /\ Sound(r) /\ r.phase = run.phase /\ r.calls = run.calls
               /\ r.steps = run.steps /\ r.asking = run.asking /\ r.terminal = run.terminal
               /\ r.accepted = run.accepted /\ r.turn = run.turn
               /\ Inside(r) = Inside(run) \cup inputs
<1>1. PICK nt \in SUBSET Inputs : nt = run.next_turn \cup { i \in inputs : Target[i] = "next_turn" }
  BY DEF Sound, Runs
<1>2. PICK ns \in SUBSET Inputs : ns = run.next_step \cup { i \in inputs : Target[i] = "next_step" }
  BY DEF Sound, Runs
<1>3. PICK r : r = [run EXCEPT !.next_turn = nt, !.next_step = ns]
  OBVIOUS
<1>4. /\ r \in Runs /\ r.phase = run.phase /\ r.pending = run.pending /\ r.asking = run.asking
      /\ r.terminal = run.terminal /\ r.calls = run.calls /\ r.steps = run.steps
      /\ r.accepted = run.accepted /\ r.turn = run.turn
      /\ r.next_turn = nt /\ r.next_step = ns /\ r.seen = run.seen
  BY <1>3 DEF Sound, Runs
<1>5. r = Queued(run, inputs)
  <2>1. run \in Runs
    BY DEF Sound
  <2>. QED
    BY <1>1, <1>2, <1>3, <2>1 DEF Queued, Runs
<1>6. Queues(r)
  BY <1>1, <1>2, <1>4 DEF Sound, Queues, Inside
<1>7. Sound(r)
  BY <1>4, <1>6, InboxSound
<1>8. \A i \in inputs : Target[i] \in {"next_step", "next_turn"}
  BY HarnessAssumption
<1>9. Inside(r) = Inside(run) \cup inputs
  BY <1>1, <1>2, <1>4, <1>8 DEF Inside
<1>. QED
  BY <1>4, <1>5, <1>7, <1>9

\* An accepted input is counted.
LEMMA AcceptedSound ==
    ASSUME NEW run, Sound(run), NEW i \in Inputs, i \notin Inside(run)
    PROVE  LET r == [Queued(run, {i}) EXCEPT !.accepted = @ + 1]
           IN  /\ Sound(r) /\ r.phase = run.phase /\ r.calls = run.calls
               /\ Inside(r) = Inside(run) \cup {i}
<1>1. PICK q : q = Queued(run, {i})
  OBVIOUS
<1>2. /\ Sound(q) /\ q.phase = run.phase /\ q.calls = run.calls
      /\ Inside(q) = Inside(run) \cup {i}
  BY <1>1, QueuedSound
<1>3. q.accepted + 1 \in Nat
  BY <1>2 DEF Sound, Runs
<1>4. PICK n \in Nat : n = q.accepted + 1
  BY <1>3
<1>5. PICK r : r = [q EXCEPT !.accepted = n]
  OBVIOUS
<1>6. /\ r \in Runs /\ r.phase = q.phase /\ r.pending = q.pending /\ r.asking = q.asking
      /\ r.terminal = q.terminal /\ r.calls = q.calls
      /\ r.next_turn = q.next_turn /\ r.next_step = q.next_step /\ r.seen = q.seen
  BY <1>2, <1>5 DEF Sound, Runs
<1>7. Queues(r)
  BY <1>2, <1>6 DEF Sound, Queues
<1>8. Sound(r)
  BY <1>2, <1>6, <1>7, InboxSound
<1>9. r = [Queued(run, {i}) EXCEPT !.accepted = @ + 1]
  BY <1>1, <1>4, <1>5
<1>. QED
  BY <1>2, <1>6, <1>8, <1>9 DEF Inside

\* A step gives the model what waited for it.
LEMMA StepBegunSound ==
    ASSUME NEW run, Sound(run), run.calls = <<>>, run.steps < MaxSteps,
           CanMove(run, "ModelPending")
    PROVE  LET r == StepBegun(run)
           IN  /\ Sound(r) /\ r.phase = "ModelPending" /\ r.calls = <<>>
               /\ r.terminal = run.terminal /\ Inside(r) = Inside(run)
<1>1. run \in Runs /\ "ModelPending" \in Phases /\ MaxSteps \in Nat \ {0}
  BY HarnessAssumption DEF Sound, Phases
<1>2. PICK seen \in SUBSET Inputs : seen = run.seen \cup run.next_step
  BY <1>1 DEF Runs
<1>3. run.steps + 1 \in 0 .. MaxSteps
  BY <1>1 DEF Runs
<1>4. PICK steps \in 0 .. MaxSteps : steps = run.steps + 1
  BY <1>3
<1>5. PICK r : r = [run EXCEPT !.phase = "ModelPending", !.steps = steps, !.next_step = {},
                               !.seen = seen]
  OBVIOUS
<1>6. /\ r \in Runs /\ r.phase = "ModelPending" /\ r.pending = run.pending
      /\ r.terminal = run.terminal /\ r.calls = run.calls /\ r.next_turn = run.next_turn
      /\ r.next_step = {} /\ r.seen = seen
  BY <1>1, <1>5 DEF Runs
<1>7. r = StepBegun(run)
  BY <1>1, <1>2, <1>4, <1>5 DEF StepBegun, Runs
<1>8. Queues(r)
  <2>1. \A i \in run.next_turn \cap run.next_step : FALSE
    BY DEF Sound, Queues
  <2>. QED
    BY <1>2, <1>6, <2>1 DEF Sound, Queues
<1>9. run.phase # "TurnFinished" /\ run.pending = 0
  BY DEF CanMove, Moves, Sound, RunOK
<1>10. r.terminal = "none"
  BY <1>6, <1>9, PhaseTells
<1>11. Sound(r)
  BY <1>6, <1>8, <1>9, <1>10, FrameSound
<1>. QED
  BY <1>2, <1>6, <1>7, <1>11 DEF Inside

\* An answer with calls: the first is requested, and all have a step of their own.
LEMMA WithCallsSound ==
    ASSUME NEW run, Sound(run), run.phase = "ModelPending", NEW count \in 1 .. MaxCalls,
           stepIds \in Nat
    PROVE  LET r == WithCalls(run, count)
           IN  /\ Sound(r) /\ r.phase = "ToolPending" /\ r.terminal = run.terminal
               /\ Inside(r) = Inside(run) /\ DOMAIN r.calls = 1 .. count
               /\ \A k \in 1 .. count : RequestOf(r.calls[k]) = [step |-> stepIds, ordinal |-> k]
               /\ Request(r) = [step |-> stepIds, ordinal |-> 1]
<1>1. run \in Runs /\ "ToolPending" \in Phases /\ count \in Nat \ {0}
  BY HarnessAssumption DEF Sound, Phases
<1>2. PICK calls : calls = [k \in 1 .. count |->
                              Call(stepIds, k, IF k = 1 THEN "Dispatched" ELSE "Queued")]
  OBVIOUS
<1>3. \A k \in 1 .. count :
         /\ calls[k] \in Calls /\ RequestOf(calls[k]) = [step |-> stepIds, ordinal |-> k]
         /\ (calls[k].phase = "Dispatched") = (k = 1)
  BY <1>1, <1>2 DEF Call, Calls, RequestOf
<1>4. calls \in [1 .. count -> Calls]
  BY <1>2, <1>3
<1>5. calls \in Seq(Calls) /\ Len(calls) = count /\ DOMAIN calls = 1 .. count
  BY <1>1, <1>4
<1>6. PICK r : r = [run EXCEPT !.phase = "ToolPending", !.pending = count, !.calls = calls]
  OBVIOUS
<1>7. /\ r \in Runs /\ r.phase = "ToolPending" /\ r.pending = count /\ r.calls = calls
      /\ r.terminal = run.terminal /\ r.next_turn = run.next_turn
      /\ r.next_step = run.next_step /\ r.seen = run.seen
  BY <1>1, <1>5, <1>6 DEF Runs
<1>8. r = WithCalls(run, count)
  BY <1>1, <1>2, <1>6 DEF WithCalls, Runs
<1>9. calls # <<>> /\ Head(calls) = calls[1]
  BY <1>1, <1>5
<1>10. r.terminal = "none"
  BY <1>7, PhaseTells
<1>11. RunOK(r)
  <2>1. r.next_turn \cup r.next_step \cup r.seen \subseteq Inputs /\ r.steps \in 0 .. MaxSteps
    BY <1>7 DEF Runs
  <2>. QED
    BY <1>1, <1>3, <1>5, <1>7, <1>9, <1>10, <2>1 DEF RunOK
<1>12. Apart(calls)
  BY <1>3, <1>5 DEF Apart
<1>13. Queues(r)
  BY <1>7 DEF Sound, Queues
<1>14. Request(r) = [step |-> stepIds, ordinal |-> 1]
  <2>1. 1 \in 1 .. count
    BY <1>1
  <2>2. RequestOf(calls[1]) = [step |-> stepIds, ordinal |-> 1]
    BY <1>3, <2>1
  <2>. QED
    BY <1>7, <1>9, <2>2, Zenon DEF Request
<1>. QED
  BY <1>3, <1>5, <1>7, <1>8, <1>11, <1>12, <1>13, <1>14 DEF Sound, Inside

\* A question, and an end, of a turn that waits for no call.
LEMMA AskingSound ==
    ASSUME NEW run, Sound(run), run.calls = <<>>, run.terminal = "none"
    PROVE  LET r == Asking(run)
           IN  /\ Sound(r) /\ r.phase = "AwaitingInput" /\ r.calls = <<>>
               /\ r.terminal = "none" /\ Inside(r) = Inside(run)
<1>1. run \in Runs /\ "AwaitingInput" \in Phases /\ run.pending = 0
  BY DEF Sound, Phases, RunOK
<1>2. PICK r : r = [run EXCEPT !.phase = "AwaitingInput", !.asking = TRUE]
  OBVIOUS
<1>3. /\ r \in Runs /\ r.phase = "AwaitingInput" /\ r.asking = TRUE /\ r.pending = run.pending
      /\ r.terminal = run.terminal /\ r.calls = run.calls
      /\ r.next_turn = run.next_turn /\ r.next_step = run.next_step /\ r.seen = run.seen
  BY <1>1, <1>2 DEF Runs
<1>4. Queues(r)
  BY <1>3 DEF Sound, Queues
<1>5. Sound(r)
  BY <1>1, <1>3, <1>4, FrameSound
<1>6. r = Asking(run)
  BY <1>2 DEF Asking
<1>. QED
  BY <1>3, <1>5, <1>6 DEF Inside

LEMMA EndedSound ==
    ASSUME NEW run, Sound(run), run.calls = <<>>, NEW outcome \in {"Failed", "Completed"}
    PROVE  LET r == Ended(run, outcome)
           IN  /\ Sound(r) /\ r.phase = "TurnFinished" /\ r.calls = <<>>
               /\ r.terminal = outcome /\ Inside(r) = Inside(run)
<1>1. run \in Runs /\ "TurnFinished" \in Phases /\ outcome \in Outcomes /\ run.pending = 0
  BY DEF Sound, Phases, Outcomes, RunOK
<1>2. PICK r : r = [run EXCEPT !.phase = "TurnFinished", !.terminal = outcome]
  OBVIOUS
<1>3. /\ r \in Runs /\ r.phase = "TurnFinished" /\ r.pending = run.pending
      /\ r.terminal = outcome /\ r.calls = run.calls
      /\ r.next_turn = run.next_turn /\ r.next_step = run.next_step /\ r.seen = run.seen
  BY <1>1, <1>2 DEF Runs
<1>4. Queues(r)
  BY <1>3 DEF Sound, Queues
<1>5. Sound(r)
  BY <1>1, <1>3, <1>4, FrameSound
<1>6. r = Ended(run, outcome)
  BY <1>2 DEF Ended
<1>. QED
  BY <1>3, <1>5, <1>6 DEF Inside

\* A settled call makes way for the one behind it.
LEMMA SettledSound ==
    ASSUME NEW run, Sound(run), run.calls # <<>>
    PROVE  LET r == Settled(run)
           IN  /\ Sound(r) /\ r.terminal = "none" /\ Inside(r) = Inside(run)
               /\ r.asking = run.asking
               /\ DOMAIN r.calls = 1 .. Len(run.calls) - 1
               /\ \A k \in DOMAIN r.calls :
                     k + 1 \in DOMAIN run.calls /\ RequestOf(r.calls[k]) = RequestOf(run.calls[k + 1])
               /\ r.calls # <<>> =>
                     2 \in DOMAIN run.calls /\ Request(r) = RequestOf(run.calls[2])
<1>1. run \in Runs /\ run.calls \in Seq(Calls) /\ Apart(run.calls)
      /\ run.terminal = "none" /\ {"ModelPending", "ToolPending"} \subseteq Phases
  BY PhaseTells DEF Sound, Phases
<1>2. PICK n \in Nat : n = Len(run.calls) - 1
  BY <1>1
<1>3. PICK rest \in Seq(Calls) : /\ rest = Tail(run.calls) /\ Len(rest) = n
                                 /\ \A k \in 1 .. n : rest[k] = run.calls[k + 1]
  <2>1. PICK calls \in Seq(Calls) : calls = run.calls
    BY <1>1
  <2>2. PICK rest : rest = Tail(calls)
    OBVIOUS
  <2>3. calls # <<>> /\ Len(calls) = n + 1
    BY <1>2, <2>1
  <2>4. rest \in Seq(Calls) /\ Len(rest) = n /\ \A k \in 1 .. n : rest[k] = calls[k + 1]
    BY <2>1, <2>2, <2>3
  <2>. QED
    BY <2>1, <2>2, <2>4
<1>4. \A k \in 1 .. n : rest[k] \in Calls /\ rest[k].phase = "Queued"
  <2>1. \A k \in 1 .. n : k + 1 \in DOMAIN run.calls /\ k + 1 # 1
    BY <1>1, <1>2
  <2>2. \A k \in DOMAIN run.calls : k # 1 => run.calls[k].phase # "Dispatched"
    BY DEF Sound, RunOK
  <2>3. \A k \in 1 .. n : rest[k] \in Calls
    BY <1>3
  <2>. QED
    BY <1>3, <2>1, <2>2, <2>3 DEF Calls
<1>5. CASE n = 0
  <2>1. rest = <<>>
    BY <1>3, <1>5
  <2>2. PICK r : r = [run EXCEPT !.pending = 0, !.phase = "ModelPending", !.calls = <<>>]
    OBVIOUS
  <2>3. /\ r \in Runs /\ r.phase = "ModelPending" /\ r.pending = 0 /\ r.calls = <<>>
        /\ r.terminal = run.terminal /\ r.next_turn = run.next_turn /\ r.asking = run.asking
        /\ r.next_step = run.next_step /\ r.seen = run.seen
    <3>1. <<>> \in Seq(Calls) /\ 0 \in Nat
      OBVIOUS
    <3>. QED
      BY <1>1, <2>2, <3>1 DEF Runs
  <2>4. r = Settled(run)
    BY <1>1, <1>3, <1>5, <2>1, <2>2 DEF Settled, Runs
  <2>5. Len(r.calls) = 0 /\ DOMAIN r.calls = {}
    BY <2>3
  <2>6. Queues(r)
    BY <2>3 DEF Sound, Queues
  <2>7. RunOK(r)
    <3>1. r.next_turn \cup r.next_step \cup r.seen \subseteq Inputs /\ r.steps \in 0 .. MaxSteps
      BY <2>3 DEF Runs
    <3>. QED
      BY <1>1, <2>3, <2>5, <3>1 DEF RunOK
  <2>8. Sound(r)
    BY <2>3, <2>5, <2>6, <2>7 DEF Sound, Apart
  <2>9. Inside(r) = Inside(run)
    BY <2>3 DEF Inside
  <2>10. DOMAIN r.calls = 1 .. Len(run.calls) - 1
    <3>1. 1 .. Len(run.calls) - 1 = 1 .. n
      BY <1>2
    <3>2. 1 .. n = {}
      BY <1>5
    <3>. QED
      BY <2>5, <3>1, <3>2
  <2>. QED
    BY <1>1, <2>3, <2>4, <2>5, <2>8, <2>9, <2>10
<1>6. CASE n # 0
  <2>1. rest # <<>> /\ 1 \in 1 .. n
    <3>1. Len(rest) # 0
      BY <1>3, <1>6
    <3>. QED
      BY <1>6, <3>1
  <2>2. PICK first : first = [rest[1] EXCEPT !.phase = "Dispatched"]
    OBVIOUS
  <2>3. first \in Calls /\ first.phase = "Dispatched" /\ first.step = rest[1].step
        /\ first.ordinal = rest[1].ordinal
    BY <1>4, <2>1, <2>2 DEF Calls
  <2>4. PICK calls : calls = [rest EXCEPT ![1] = first]
    OBVIOUS
  <2>5. calls \in Seq(Calls) /\ Len(calls) = n /\ calls[1] = first
        /\ \A k \in 1 .. n : k # 1 => calls[k] = rest[k]
    <3>1. rest \in [1 .. n -> Calls]
      <4>1. rest \in [1 .. Len(rest) -> Calls] /\ Len(rest) = n
        BY <1>3, LenProperties
      <4>. QED
        BY <4>1
    <3>2. /\ calls \in [1 .. n -> Calls] /\ calls[1] = first
          /\ \A k \in 1 .. n : k # 1 => calls[k] = rest[k]
      BY <2>1, <2>3, <2>4, <3>1, Zenon
    <3>. QED
      BY <3>2
  <2>6. /\ DOMAIN calls = 1 .. n /\ calls # <<>> /\ Head(calls) = calls[1]
    BY <1>6, <2>5
  <2>7. \A k \in 1 .. n : /\ RequestOf(calls[k]) = RequestOf(rest[k])
                          /\ (calls[k].phase = "Dispatched") = (k = 1)
    BY <1>4, <2>3, <2>5 DEF RequestOf
  <2>8. \A k \in 1 .. n : /\ k + 1 \in DOMAIN run.calls
                          /\ RequestOf(calls[k]) = RequestOf(run.calls[k + 1])
    BY <1>1, <1>2, <1>3, <2>7
  <2>9. Apart(calls)
    <3>1. \A j, k \in 1 .. n : j + 1 = k + 1 => j = k
      BY <1>2
    <3>. QED
      BY <1>1, <2>6, <2>8, <3>1 DEF Apart
  <2>10. PICK r : r = [run EXCEPT !.pending = n, !.phase = "ToolPending", !.calls = calls]
    OBVIOUS
  <2>11. /\ r \in Runs /\ r.phase = "ToolPending" /\ r.pending = n /\ r.calls = calls
         /\ r.terminal = run.terminal /\ r.next_turn = run.next_turn /\ r.asking = run.asking
         /\ r.next_step = run.next_step /\ r.seen = run.seen
    BY <1>1, <2>5, <2>10 DEF Runs
  <2>12. r = Settled(run)
    BY <1>3, <2>1, <2>2, <2>4, <2>10 DEF Settled
  <2>13. Queues(r)
    BY <2>11 DEF Sound, Queues
  <2>14. RunOK(r)
    <3>1. r.next_turn \cup r.next_step \cup r.seen \subseteq Inputs /\ r.steps \in 0 .. MaxSteps
      BY <2>11 DEF Runs
    <3>. QED
      BY <1>1, <2>5, <2>6, <2>7, <2>11, <3>1 DEF RunOK
  <2>15. Sound(r)
    BY <2>9, <2>11, <2>13, <2>14 DEF Sound
  <2>16. Request(r) = RequestOf(run.calls[2]) /\ 2 \in DOMAIN run.calls
    <3>1. RequestOf(calls[1]) = RequestOf(run.calls[1 + 1]) /\ 1 + 1 \in DOMAIN run.calls
      BY <2>1, <2>8
    <3>2. Request(r) = RequestOf(calls[1])
      BY <2>6, <2>11, Zenon DEF Request
    <3>. QED
      BY <3>1, <3>2
  <2>17. Inside(r) = Inside(run)
    BY <2>11 DEF Inside
  <2>18. DOMAIN r.calls = 1 .. Len(run.calls) - 1
    BY <1>2, <2>6, <2>11
  <2>19. \A k \in DOMAIN r.calls :
            k + 1 \in DOMAIN run.calls /\ RequestOf(r.calls[k]) = RequestOf(run.calls[k + 1])
    BY <2>6, <2>8, <2>11
  <2>. QED
    BY <1>1, <2>11, <2>12, <2>15, <2>16, <2>17, <2>18, <2>19
<1>. QED
  BY <1>5, <1>6

------------------------------------------------------------------------------
(* What a task becomes                                                       *)

LEMMA IdleIs ==
    /\ Idle \in TaskRecords /\ Idle.step = "idle" /\ Idle.run = NoRun /\ ~Idle.failed /\ ~Idle.asks
    /\ Fits(Idle)
<1>1. /\ Idle \in TaskRecords /\ Idle.step = "idle" /\ Idle.run = NoRun /\ Idle.failed = FALSE
      /\ Idle.asks = FALSE
  BY DEF Idle, TaskRecords, Tasking
<1>. QED
  BY <1>1 DEF Fits, Carries, Loops

\* A task has another record, and no other task has.
Others(c) == \A d \in Tasks : d # c => task'[d] = task[d]
Becomes(c, step, run, failed, asks) ==
    /\ task' \in [Tasks -> TaskRecords] /\ Others(c)
    /\ task'[c].step = step /\ task'[c].run = run
    /\ task'[c].failed = failed /\ task'[c].asks = asks

LEMMA Replaced ==
    ASSUME TasksFit, NEW c \in Tasks, NEW t \in TaskRecords, task' = [task EXCEPT ![c] = t]
    PROVE  Becomes(c, t.step, t.run, t.failed, t.asks) /\ task'[c] = t
  BY DEF TasksFit, Becomes, Others

LEMMA ToBecomes ==
    ASSUME TasksFit, NEW c \in Tasks, NEW step \in Tasking, NEW run \in Runs \cup {NoRun},
           To(c, step, run)
    PROVE  Becomes(c, step, run, FALSE, FALSE)
<1>1. PICK t : t = [Idle EXCEPT !.step = step, !.run = run]
  OBVIOUS
<1>2. t \in TaskRecords /\ t.step = step /\ t.run = run /\ t.failed = FALSE /\ t.asks = FALSE
  BY <1>1 DEF Idle, TaskRecords
<1>3. task' = [task EXCEPT ![c] = t]
  BY <1>1 DEF To
<1>4. Becomes(c, t.step, t.run, t.failed, t.asks)
  BY <1>2, <1>3, Replaced
<1>. QED
  BY <1>2, <1>4

LEMMA DoneBecomes ==
    ASSUME TasksFit, NEW c \in Tasks, Done(c)
    PROVE  /\ Becomes(c, "idle", NoRun, FALSE, FALSE) /\ task'[c] = Idle
           /\ (TasksFit)'
<1>1. Becomes(c, Idle.step, Idle.run, Idle.failed, Idle.asks) /\ task'[c] = Idle
  BY IdleIs, Replaced DEF Done
<1>2. Idle.step = "idle" /\ Idle.run = NoRun /\ Idle.failed = FALSE /\ Idle.asks = FALSE
  BY DEF Idle
<1>3. Becomes(c, "idle", NoRun, FALSE, FALSE)
  BY <1>1, <1>2
<1>4. \A d \in Tasks : Fits(task'[d])
  BY <1>1, IdleIs DEF Becomes, Others, TasksFit
<1>. QED
  BY <1>1, <1>3, <1>4 DEF TasksFit, Becomes, Fits, Sound, RunOK, Queues, Apart, Phases

LEMMA LeavingBecomes ==
    ASSUME TasksFit, NEW c \in Tasks, NEW run \in Runs \cup {NoRun},
           NEW failed \in BOOLEAN, NEW asks \in BOOLEAN, Leaving(c, run, failed, asks)
    PROVE  Becomes(c, "leaving", run, failed, asks)
<1>1. PICK t : t = [Idle EXCEPT !.step = "leaving", !.run = run, !.failed = failed, !.asks = asks]
  OBVIOUS
<1>2. t \in TaskRecords /\ t.step = "leaving" /\ t.run = run /\ t.failed = failed /\ t.asks = asks
  BY <1>1 DEF Idle, TaskRecords, Tasking
<1>3. task' = [task EXCEPT ![c] = t]
  BY <1>1 DEF Leaving
<1>4. Becomes(c, t.step, t.run, t.failed, t.asks)
  BY <1>2, <1>3, Replaced
<1>. QED
  BY <1>2, <1>4

LEMMA StoringBecomes ==
    ASSUME TasksFit, NEW c \in Tasks, NEW run \in Runs \cup {NoRun}, Storing(c, run)
    PROVE  Becomes(c, "storing", run, FALSE, TRUE)
<1>1. PICK t : t = [Idle EXCEPT !.step = "storing", !.run = run, !.asks = TRUE]
  OBVIOUS
<1>2. t \in TaskRecords /\ t.step = "storing" /\ t.run = run /\ t.failed = FALSE /\ t.asks = TRUE
  BY <1>1 DEF Idle, TaskRecords, Tasking
<1>3. task' = [task EXCEPT ![c] = t]
  BY <1>1 DEF Storing
<1>4. Becomes(c, t.step, t.run, t.failed, t.asks)
  BY <1>2, <1>3, Replaced
<1>. QED
  BY <1>2, <1>4

\* The turn that is about to complete, with the inputs it has to have answered.
LEMMA CompletingBecomes ==
    ASSUME TasksFit, NEW c \in Tasks, NEW run \in Runs, NEW due \in SUBSET Inputs,
           task' = [task EXCEPT ![c] = [Idle EXCEPT !.step = "completing", !.run = run, !.due = due]]
    PROVE  Becomes(c, "completing", run, FALSE, FALSE) /\ task'[c].due = due
<1>1. PICK t : t = [Idle EXCEPT !.step = "completing", !.run = run, !.due = due]
  OBVIOUS
<1>2. t \in TaskRecords /\ t.step = "completing" /\ t.run = run /\ t.failed = FALSE
      /\ t.asks = FALSE /\ t.due = due
  BY <1>1 DEF Idle, TaskRecords, Tasking
<1>3. task' = [task EXCEPT ![c] = t]
  BY <1>1
<1>4. Becomes(c, t.step, t.run, t.failed, t.asks) /\ task'[c] = t
  BY <1>2, <1>3, Replaced
<1>. QED
  BY <1>2, <1>4

LEMMA LeaveBecomes ==
    ASSUME TasksFit, NEW c \in Tasks, task' = [task EXCEPT ![c].step = "storing"]
    PROVE  Becomes(c, "storing", task[c].run, task[c].failed, task[c].asks)
<1>1. PICK t : t = [task[c] EXCEPT !.step = "storing"]
  OBVIOUS
<1>2. task[c] \in TaskRecords
  BY DEF TasksFit
<1>3. t \in TaskRecords /\ t.step = "storing" /\ t.run = task[c].run
      /\ t.failed = task[c].failed /\ t.asks = task[c].asks
  BY <1>1, <1>2 DEF TaskRecords, Tasking
<1>4. task' = [task EXCEPT ![c] = t]
  BY <1>1
<1>5. Becomes(c, t.step, t.run, t.failed, t.asks)
  BY <1>3, <1>4, Replaced
<1>. QED
  BY <1>3, <1>5

\* A task that becomes what its step asks for keeps the tasks fitting.
LEMMA BecomesFits ==
    ASSUME TasksFit, NEW c \in Tasks, NEW step, NEW run, NEW failed, NEW asks,
           Becomes(c, step, run, failed, asks), Fits(task'[c])
    PROVE  (TasksFit)'
<1>1. \A d \in Tasks : Fits(task'[d])
  BY DEF Becomes, Others, TasksFit
<1>. QED
  BY <1>1 DEF TasksFit, Becomes, Fits, Sound, RunOK, Queues, Apart

------------------------------------------------------------------------------
(* How the run moves                                                         *)

\* A task has a run just when it carries one, and has lost it only on its way out.
LEMMA TaskFacts ==
    ASSUME TasksFit, NEW c \in Tasks
    PROVE  /\ task[c] \in TaskRecords /\ Fits(task[c])
           /\ Carrying(c) <=> task[c].run # NoRun
           /\ Carrying(c) => Sound(task[c].run)
           /\ task[c].failed => task[c].step \in {"leaving", "storing"}
           /\ task[c].step \in Loops => Carrying(c)
<1>1. task[c] \in TaskRecords /\ Fits(task[c])
  BY DEF TasksFit
<1>. QED
  BY <1>1, RunsAreRuns DEF Fits, Carrying, Carries

\* Where the run is.
LEMMA HeldIs ==
    \A run : run \in Held <=> /\ run # NoRun
                              /\ run = stored \/ run = snapshot \/ \E c \in Tasks : run = task[c].run
  BY DEF Held

LEMMA AliveIs ==
    \A run : run \in Alive <=>
        /\ run # NoRun
        /\ run = stored \/ \E c \in Tasks : run = task[c].run /\ ~task[c].failed
  BY DEF Alive, Holding

\* While a task carries the run, it is nowhere else.
LEMMA CarriedAlone ==
    ASSUME Typed, Alone, NEW c \in Tasks, Carrying(c)
    PROVE  /\ stored = NoRun /\ snapshot = NoRun /\ Question \notin open /\ turns # 0
           /\ \A d \in Tasks : d # c => ~Carrying(d) /\ task[d].run = NoRun
           /\ \A d \in Tasks : ~At(d, "resuming")
           /\ Held = {task[c].run} /\ Alive = (IF task[c].failed THEN {} ELSE {task[c].run})
<1>1. ~Free
  BY DEF Free
<1>2. \A d \in Tasks : d # c => ~Carrying(d) /\ task[d].run = NoRun
  BY TaskFacts DEF Alone, Typed
<1>3. stored = NoRun /\ snapshot = NoRun /\ Question \notin open
  BY <1>1 DEF Alone, Asked
<1>4. \A d \in Tasks : ~At(d, "resuming")
  BY <1>1 DEF Alone, Resuming
<1>5. turns # 0
  <2>1. task[c] # Idle
    BY IdleIs DEF Carrying, Carries, Loops
  <2>. QED
    BY <2>1 DEF Alone, Unborn
<1>6. task[c].run # NoRun
  BY TaskFacts DEF Typed
<1>7. Held = {task[c].run}
  BY <1>2, <1>3, <1>6, HeldIs
<1>8. Alive = IF task[c].failed THEN {} ELSE {task[c].run}
  BY <1>2, <1>3, <1>6, AliveIs
<1>. QED
  BY <1>2, <1>3, <1>4, <1>5, <1>7, <1>8

\* While it is stored, no task carries it.
LEMMA StoredAlone ==
    ASSUME Typed, Alone, stored # NoRun
    PROVE  /\ Free /\ turns # 0 /\ ~inFlight /\ Sound(stored) /\ stored.phase \in Resting
           /\ \A d \in Tasks : task[d].run = NoRun /\ task[d].step \notin Loops
           /\ stored \in Held /\ Alive = {stored}
<1>1. Free
  BY DEF Alone
<1>2. \A d \in Tasks : task[d].run = NoRun /\ task[d].step \notin Loops
  BY <1>1, TaskFacts DEF Free, Typed
<1>3. Alive = {stored}
  BY <1>2, AliveIs
<1>. QED
  BY <1>1, <1>2, <1>3, HeldIs DEF Alone, Unborn, Typed, RunsFit

\* The task that has the run goes on with it.
Works(c) ==
    /\ Carrying(c) /\ task'[c].step \in Carries /\ Others(c)
    /\ inFlight' <=> task'[c].step \in Loops
    /\ UNCHANGED <<stored, snapshot, open, turns, input, forgotten>>

LEMMA WorksAlone ==
    ASSUME Typed, Alone, NEW c \in Tasks, Works(c)
    PROVE  /\ Alone' /\ \A d \in Tasks : d # c => task'[d].run = NoRun /\ ~At(d, "completing")'
           /\ stored' = NoRun /\ snapshot' = NoRun
<1>1. /\ stored = NoRun /\ snapshot = NoRun /\ Question \notin open /\ turns # 0
      /\ \A d \in Tasks : d # c => ~Carrying(d) /\ task[d].run = NoRun
      /\ \A d \in Tasks : ~At(d, "resuming")
  BY CarriedAlone DEF Works
<1>2. \A d \in Tasks : d # c => ~(Carrying(d))' /\ task'[d].run = NoRun /\ ~(At(d, "completing"))'
  BY <1>1 DEF Works, Others, Carrying, Carries, Loops, At
<1>3. \A d \in Tasks : ~(At(d, "resuming"))'
  BY <1>1 DEF Works, Others, At, Carries, Loops
<1>4. inFlight' <=> \E d \in Tasks : task'[d].step \in Loops
  BY <1>2 DEF Works, Carrying, Carries
<1>5. (Asked)' /\ (Resuming)' /\ (Unborn)'
  BY <1>1, <1>3 DEF Works, Asked, Resuming, Unborn
<1>6. \A d, e \in Tasks : (Carrying(d))' /\ (Carrying(e))' => d = e
  BY <1>2
<1>. QED
  BY <1>1, <1>2, <1>4, <1>5, <1>6 DEF Alone, Works

\* It stores the run, or drops it.
Puts(c) ==
    /\ Carrying(c) /\ task[c].step \notin Loops /\ task'[c] = Idle /\ Others(c)
    /\ stored' = NoRun \/ (~task[c].failed /\ stored' = task[c].run)
    /\ Question \in open' /\ stored' # NoRun => stored'.phase = "AwaitingInput"
    /\ UNCHANGED <<inFlight, deferred, snapshot, turns, input, forgotten>>

LEMMA PutsAlone ==
    ASSUME Typed, Alone, NEW c \in Tasks, Puts(c)
    PROVE  Alone' /\ snapshot' = NoRun /\ \A d \in Tasks : task'[d].run = NoRun
<1>1. /\ snapshot = NoRun /\ turns # 0
      /\ \A d \in Tasks : d # c => ~Carrying(d) /\ task[d].run = NoRun
      /\ \A d \in Tasks : ~At(d, "resuming")
  BY CarriedAlone DEF Puts
<1>2. \A d \in Tasks : ~(Carrying(d))' /\ task'[d].run = NoRun
  BY <1>1, IdleIs DEF Puts, Others, Carrying, Carries, Loops
<1>3. \A d \in Tasks : ~(At(d, "resuming"))'
  BY <1>1, IdleIs DEF Puts, Others, At
<1>4. \A d \in Tasks : task[d].step \notin Loops /\ task'[d].step \notin Loops
  BY <1>1, <1>2 DEF Puts, Carrying, Carries
<1>5. ~inFlight'
  BY <1>4 DEF Alone, Puts
<1>6. (Free)'
  BY <1>2 DEF Free
<1>7. (Asked)' /\ (Resuming)' /\ (Unborn)'
  BY <1>1, <1>3, <1>6 DEF Puts, Asked, Resuming, Unborn
<1>. QED
  BY <1>1, <1>2, <1>4, <1>5, <1>6, <1>7 DEF Alone, Puts

\* A task takes the run.  One that waits for a question is only taken to resume.
Takes(c) ==
    /\ stored # NoRun
    /\ stored.phase # "AwaitingInput" \/ At(c, "resuming")
    /\ stored' = NoRun /\ snapshot' = NoRun
    /\ task'[c].step \in {"prepared", "returning", "storing"} /\ Others(c)
    /\ open' \subseteq open /\ turns' # 0
    /\ UNCHANGED <<inFlight, deferred, input, forgotten>>

LEMMA TakesAlone ==
    ASSUME Typed, Alone, NEW c \in Tasks, Takes(c)
    PROVE  Alone' /\ \A d \in Tasks : d # c => task'[d].run = NoRun
<1>1. /\ Free /\ ~inFlight
      /\ \A d \in Tasks : task[d].run = NoRun /\ task[d].step \notin Loops
  BY StoredAlone DEF Takes
<1>2. \A d \in Tasks : d # c => ~(Carrying(d))' /\ task'[d].run = NoRun
  BY <1>1 DEF Takes, Others, Carrying, Free
<1>3. \A d \in Tasks : At(d, "resuming") => d = c
  BY DEF Takes, Alone, Resuming
<1>4. \A d \in Tasks : ~(At(d, "resuming"))'
  BY <1>3 DEF Takes, Others, At
<1>5. Question \notin open'
  BY DEF Takes, Alone, Asked, Resuming
<1>6. \A d \in Tasks : task'[d].step \notin Loops
  BY <1>1 DEF Takes, Others, Loops
<1>7. (Asked)' /\ (Resuming)' /\ (Unborn)'
  BY <1>4, <1>5 DEF Takes, Asked, Resuming, Unborn
<1>8. \A d, e \in Tasks : (Carrying(d))' /\ (Carrying(e))' => d = e
  BY <1>2
<1>. QED
  BY <1>1, <1>2, <1>6, <1>7, <1>8 DEF Alone, Takes

\* Nobody takes the run, though it may be dropped or given an input.
Calm == {"idle", "signalling", "cancelling"}
Rests ==
    /\ \A d \in Tasks : task'[d] = task[d] \/ (~Carrying(d) /\ task'[d].step \in Calm)
    /\ stored' = NoRun \/ (stored # NoRun /\ stored'.phase = stored.phase)
    /\ snapshot' \in {NoRun, snapshot}
    /\ open' \subseteq open /\ turns' # 0
    /\ UNCHANGED <<inFlight>>

LEMMA RestsAlone ==
    ASSUME Typed, Alone, Rests
    PROVE  Alone'
<1>1. \A d \in Tasks : /\ (Carrying(d))' => Carrying(d)
                       /\ task'[d].step \in Loops <=> task[d].step \in Loops
                       /\ (At(d, "resuming"))' => At(d, "resuming")
  BY DEF Rests, Carrying, Carries, Loops, Calm, At
<1>2. (Free) => (Free)'
  BY <1>1 DEF Free
<1>3. (Asked)'
  BY <1>2 DEF Alone, Rests, Asked
<1>4. (Resuming)'
  BY <1>1, <1>2 DEF Alone, Rests, Resuming
<1>5. (Unborn)'
  BY DEF Rests, Unborn
<1>6. inFlight' <=> \E d \in Tasks : task'[d].step \in Loops
  BY <1>1 DEF Rests, Alone
<1>7. stored' # NoRun \/ snapshot' # NoRun => (Free)'
  BY <1>2 DEF Rests, Alone
<1>8. \A c, d \in Tasks : (Carrying(c))' /\ (Carrying(d))' => c = d
  BY <1>1 DEF Alone
<1>. QED
  BY <1>3, <1>4, <1>5, <1>6, <1>7, <1>8 DEF Alone

------------------------------------------------------------------------------
(* Where the inputs are                                                      *)

\* What is counted stays counted while no input is accepted and whoever has the run
\* has what it had, and what was deferred if that was taken.
LEMMA Counting ==
    ASSUME Typed, Counted,
           \A i \in Inputs : input'[i] = "accepted" <=> input[i] = "accepted",
           deferred' \subseteq deferred, forgotten' = forgotten,
           \A run \in Held' : /\ Inside(run) \subseteq Inputs
                              /\ \E q \in Held : Inside(run) \subseteq Inside(q) \cup (deferred \ deferred'),
           \A run \in Alive' : \E q \in Alive : deferred \cup Inside(q) \subseteq deferred' \cup Inside(run),
           (AnsweredInTurn)'
    PROVE  Counted'
<1>1. deferred \subseteq Inputs
  BY DEF Typed, Values
<1>2. \A i \in deferred' : input'[i] = "accepted"
  BY <1>1 DEF Counted
<1>3. ASSUME NEW run \in Held', NEW i \in Inside(run)
      PROVE  input'[i] = "accepted" /\ i \notin deferred'
  <2>1. PICK q \in Held : Inside(run) \subseteq Inside(q) \cup (deferred \ deferred')
    OBVIOUS
  <2>2. CASE i \in Inside(q)
    BY <2>2 DEF Counted
  <2>3. CASE i \in deferred \ deferred'
    BY <2>3 DEF Counted
  <2>. QED
    BY <2>1, <2>2, <2>3
<1>4. ASSUME NEW run \in Alive', NEW i \in Inputs \ forgotten', input'[i] = "accepted"
      PROVE  i \in deferred' \cup Inside(run)
  <2>1. PICK q \in Alive : deferred \cup Inside(q) \subseteq deferred' \cup Inside(run)
    OBVIOUS
  <2>2. i \in deferred \cup Inside(q)
    BY <1>4 DEF Counted
  <2>. QED
    BY <2>1, <2>2
<1>. QED
  BY <1>2, <1>3, <1>4, Zenon DEF Counted

\* What completes goes on as it was.
LEMMA AnsweredStays ==
    ASSUME AnsweredInTurn, forgotten' = forgotten,
           \A d \in Tasks : (At(d, "completing"))' => task'[d] = task[d]
    PROVE  (AnsweredInTurn)'
  BY DEF AnsweredInTurn, At

LEMMA WorksCounted ==
    ASSUME Whole, NEW c \in Tasks, Works(c), deferred' \subseteq deferred,
           \/ Inside(task'[c].run) = Inside(task[c].run) \cup (deferred \ deferred')
           \/ task'[c].failed /\ Inside(task'[c].run) = Inside(task[c].run),
           ~task'[c].failed => ~task[c].failed,
           task'[c].run \in Runs,
           task'[c].step = "completing" => task'[c].due \ forgotten \subseteq task'[c].run.seen
    PROVE  Counted'
<1>1. /\ Held = {task[c].run} /\ Alive = (IF task[c].failed THEN {} ELSE {task[c].run})
  BY CarriedAlone DEF Whole, Works
<1>2. /\ \A d \in Tasks : d # c => task'[d].run = NoRun /\ task'[d].step # "completing"
      /\ stored' = NoRun /\ snapshot' = NoRun
  BY WorksAlone DEF Whole, At
<1>3. \A run \in Held' : run = task'[c].run
  BY <1>2 DEF Held
<1>4. \A run \in Alive' : run = task'[c].run /\ ~task'[c].failed
  BY <1>2 DEF Alive, Holding
<1>5. Inside(task'[c].run) \subseteq Inputs
  BY DEF Runs, Inside
<1>6. \A run \in Held' : /\ Inside(run) \subseteq Inputs
                         /\ Inside(run) \subseteq Inside(task[c].run) \cup (deferred \ deferred')
  BY <1>3, <1>5
<1>7. \A run \in Alive' : deferred \cup Inside(task[c].run) \subseteq deferred' \cup Inside(run)
  BY <1>4
<1>8. \A run \in Alive' : task[c].run \in Alive
  BY <1>1, <1>4
<1>9. (AnsweredInTurn)'
  BY <1>2 DEF AnsweredInTurn, Works
<1>10. task[c].run \in Held
  BY <1>1
<1>11. input' = input /\ forgotten' = forgotten
  BY DEF Works
<1>. QED
  BY <1>6, <1>7, <1>8, <1>9, <1>10, <1>11, Counting DEF Whole

LEMMA PutsCounted ==
    ASSUME Whole, NEW c \in Tasks, Puts(c)
    PROVE  Counted'
<1>1. /\ Held = {task[c].run} /\ Alive = (IF task[c].failed THEN {} ELSE {task[c].run})
  BY CarriedAlone DEF Whole, Puts
<1>2. snapshot' = NoRun /\ \A d \in Tasks : task'[d].run = NoRun
  BY PutsAlone DEF Whole
<1>3. \A run \in Held' : run = task[c].run
  BY <1>2 DEF Held, Puts
<1>4. \A run \in Alive' : run = task[c].run /\ ~task[c].failed
  BY <1>2 DEF Alive, Holding, Puts
<1>5. Inside(task[c].run) \subseteq Inputs
  BY TaskFacts, PhaseTells DEF Whole, Typed, Puts
<1>6. \A d \in Tasks : (At(d, "completing"))' => task'[d] = task[d]
  BY IdleIs DEF Puts, Others, At
<1>7. (AnsweredInTurn)'
  BY <1>6, AnsweredStays DEF Whole, Counted, Puts
<1>8. deferred' = deferred /\ input' = input /\ forgotten' = forgotten
  BY DEF Puts
<1>9. \A run \in Held' : /\ Inside(run) \subseteq Inputs
                         /\ \E q \in Held : Inside(run) \subseteq Inside(q) \cup (deferred \ deferred')
  BY <1>1, <1>3, <1>5
<1>10. \A run \in Alive' : \E q \in Alive : deferred \cup Inside(q) \subseteq deferred' \cup Inside(run)
  BY <1>1, <1>4, <1>8
<1>. QED
  BY <1>7, <1>8, <1>9, <1>10, Counting DEF Whole

LEMMA TakesCounted ==
    ASSUME Whole, NEW c \in Tasks, Takes(c), Inside(task'[c].run) = Inside(stored)
    PROVE  Counted'
<1>1. stored \in Held /\ Alive = {stored} /\ Inside(stored) \subseteq Inputs
  BY StoredAlone, PhaseTells DEF Whole, Takes
<1>2. \A d \in Tasks : d # c => task'[d].run = NoRun
  BY TakesAlone DEF Whole
<1>3. \A run \in Held' : run = task'[c].run
  BY <1>2 DEF Held, Takes
<1>4. \A run \in Alive' : run = task'[c].run
  BY <1>2 DEF Alive, Holding, Takes
<1>5. \A d \in Tasks : (At(d, "completing"))' => task'[d] = task[d]
  BY DEF Takes, Others, At
<1>6. (AnsweredInTurn)'
  BY <1>5, AnsweredStays DEF Whole, Counted, Takes
<1>7. deferred' = deferred /\ input' = input /\ forgotten' = forgotten
  BY DEF Takes
<1>8. \A run \in Held' : /\ Inside(run) \subseteq Inputs
                         /\ \E q \in Held : Inside(run) \subseteq Inside(q) \cup (deferred \ deferred')
  BY <1>1, <1>3
<1>9. \A run \in Alive' : \E q \in Alive : deferred \cup Inside(q) \subseteq deferred' \cup Inside(run)
  BY <1>1, <1>4, <1>7
<1>. QED
  BY <1>6, <1>7, <1>8, <1>9, Counting DEF Whole

\* The runs that are left are runs that were there.
LEMMA RestsHeld ==
    ASSUME Typed, Rests, (TasksFit)', stored' \in {NoRun, stored}
    PROVE  /\ Held' \subseteq Held /\ Alive' \subseteq Alive
           /\ \A d \in Tasks : (At(d, "completing"))' \/ (At(d, "asking"))' => task'[d] = task[d]
<1>1. \A d \in Tasks : task'[d] = task[d] \/ task'[d].run = NoRun
  BY DEF Rests, TasksFit, Fits, Carries, Loops, Calm
<1>2. Held' \subseteq Held
  BY <1>1 DEF Held, Rests
<1>3. Alive' \subseteq Alive
  BY <1>1 DEF Alive, Holding, Rests
<1>. QED
  BY <1>2, <1>3 DEF Rests, Calm, At

LEMMA RestsCounted ==
    ASSUME Whole, Rests, (TasksFit)', stored' \in {NoRun, stored},
           \A i \in Inputs : input'[i] = "accepted" <=> input[i] = "accepted",
           deferred' = deferred, forgotten' = forgotten
    PROVE  Counted'
<1>1. /\ Held' \subseteq Held /\ Alive' \subseteq Alive
      /\ \A d \in Tasks : (At(d, "completing"))' => task'[d] = task[d]
  BY RestsHeld DEF Whole
<1>2. (AnsweredInTurn)'
  BY <1>1, AnsweredStays DEF Whole, Counted
<1>3. \A run \in Held : Inside(run) \subseteq Inputs
  BY HeldIs, TaskFacts, PhaseTells DEF Whole, Typed, RunsFit
<1>4. \A run \in Held' : /\ Inside(run) \subseteq Inputs
                         /\ \E q \in Held : Inside(run) \subseteq Inside(q) \cup (deferred \ deferred')
  BY <1>1, <1>3
<1>5. \A run \in Alive' : \E q \in Alive : deferred \cup Inside(q) \subseteq deferred' \cup Inside(run)
  BY <1>1
<1>. QED
  BY <1>2, <1>4, <1>5, Counting DEF Whole

------------------------------------------------------------------------------
(* Which calls are requested                                                 *)

Ending(c) == task[c].step \in {"signalling", "cancelling"}

\* What is distinct stays distinct while nothing is requested or given up, whoever has
\* the run has the calls it had, and a step of the model has a new number.
LEMMA Numbering ==
    ASSUME Typed, Distinct, UNCHANGED told, stepIds' \in Nat, stepIds <= stepIds',
           \A run \in Held' : run.calls = <<>> \/ \E q \in Held : run.calls = q.calls,
           \A d \in Tasks : (At(d, "asking"))' =>
               \/ At(d, "asking") /\ stepIds' = stepIds
               \/ stepIds' = stepIds + 1,
           \A d \in Tasks : (Ending(d))' => fenced' /\ snapshot' = NoRun
    PROVE  Distinct'
<1>1. requested' = requested /\ notExecuted' = notExecuted
  BY DEF told
<1>2. \A q : Used(q)' <=> Used(q)
  BY <1>1 DEF Used
<1>3. (RequestsTrue)'
  BY <1>1 DEF Distinct, RequestsTrue
<1>4. \A q \in Requests : q.step \in Nat
  BY DEF Requests
<1>5. stepIds \in Nat
  BY DEF Typed, Values
<1>6. \A q \in Requests : Used(q)' => q.step <= stepIds'
  BY <1>2, <1>4, <1>5 DEF Distinct
<1>7. \A run \in Held : \A k \in DOMAIN run.calls : run.calls[k].step \in Nat
  <2>1. \A run \in Held : run.calls \in Seq(Calls)
    BY HeldIs, TaskFacts, PhaseTells DEF Typed, RunsFit
  <2>2. \A calls \in Seq(Calls) : \A k \in DOMAIN calls : calls[k] \in Calls
    OBVIOUS
  <2>. QED
    BY <2>1, <2>2 DEF Calls
<1>8. ASSUME NEW run \in Held', NEW k \in DOMAIN run.calls
      PROVE  run.calls[k].step <= stepIds' /\ (k # 1 => ~Used(RequestOf(run.calls[k]))')
  <2>1. run.calls # <<>>
    BY <1>8
  <2>2. PICK q \in Held : run.calls = q.calls
    BY <2>1
  <2>3. q.calls[k].step <= stepIds /\ q.calls[k].step \in Nat
        /\ (k # 1 => ~Used(RequestOf(q.calls[k])))
    BY <1>7, <1>8, <2>2 DEF Distinct
  <2>. QED
    BY <1>2, <1>5, <2>2, <2>3
<1>9. ASSUME NEW d \in Tasks, (At(d, "asking"))', NEW q \in Requests, Used(q)'
      PROVE  q.step # stepIds'
  BY <1>2, <1>4, <1>5, <1>9 DEF Distinct
<1>10. \A d \in Tasks : task'[d].step \in {"signalling", "cancelling"} => fenced' /\ snapshot' = NoRun
  BY DEF Ending
<1>. QED
  BY <1>3, <1>6, <1>8, <1>9, <1>10 DEF Distinct

\* One more call is requested.
LEMMA UsedMore ==
    ASSUME requested \in Seq(Requests), NEW q \in Requests, requested' = Append(requested, q),
           notExecuted' = notExecuted
    PROVE  \A p : Used(p)' <=> Used(p) \/ p = q
<1>1. PICK n \in Nat : n = Len(requested)
  OBVIOUS
<1>2. /\ DOMAIN requested = 1 .. n /\ DOMAIN requested' = 1 .. n + 1
      /\ requested'[n + 1] = q /\ \A k \in 1 .. n : requested'[k] = requested[k]
  BY <1>1
<1>3. \A k : k \in 1 .. n + 1 <=> k \in 1 .. n \/ k = n + 1
  BY <1>1
<1>. QED
  BY <1>2, <1>3 DEF Used

\* It is requested once, if it was not used before.
LEMMA RequestedOnce ==
    ASSUME RequestsTrue, requested \in Seq(Requests), NEW q \in Requests, ~Used(q),
           requested' = Append(requested, q), notExecuted' = notExecuted
    PROVE  (RequestsTrue)'
<1>1. PICK n \in Nat : n = Len(requested)
  OBVIOUS
<1>2. /\ DOMAIN requested = 1 .. n /\ DOMAIN requested' = 1 .. n + 1
      /\ requested'[n + 1] = q /\ \A k \in 1 .. n : requested'[k] = requested[k]
  BY <1>1
<1>3. \A k : k \in 1 .. n + 1 <=> k \in 1 .. n \/ k = n + 1
  BY <1>1
<1>4. q \notin notExecuted /\ \A k \in 1 .. n : requested[k] # q
  BY <1>2 DEF Used
<1>5. \A j, k \in 1 .. n + 1 : requested'[j] = requested'[k] => j = k
  BY <1>2, <1>3, <1>4 DEF RequestsTrue
<1>6. \A k \in 1 .. n + 1 : requested'[k] \notin notExecuted
  BY <1>2, <1>3, <1>4 DEF RequestsTrue
<1>. QED
  BY <1>2, <1>5, <1>6 DEF RequestsTrue

LEMMA WorksDistinct ==
    ASSUME Whole, Distinct, NEW c \in Tasks, Works(c), UNCHANGED <<told, fenced>>,
           task'[c].run.calls = <<>> \/ task'[c].run.calls = task[c].run.calls,
           stepIds' \in {stepIds, stepIds + 1},
           task'[c].step = "asking" => stepIds' = stepIds + 1
    PROVE  Distinct'
<1>1. /\ Held = {task[c].run} /\ \A d \in Tasks : d # c => ~Carrying(d)
  BY CarriedAlone DEF Whole, Works
<1>2. /\ \A d \in Tasks : d # c => task'[d].run = NoRun
      /\ stored' = NoRun /\ snapshot' = NoRun
  BY WorksAlone DEF Whole
<1>3. \A run \in Held' : run.calls = <<>> \/ \E q \in Held : run.calls = q.calls
  BY <1>1, <1>2 DEF Held
<1>4. \A d \in Tasks : (At(d, "asking"))' => d = c
  BY <1>1 DEF Works, Others, At, Carrying, Carries, Loops
<1>5. \A d \in Tasks : (Ending(d))' => fenced' /\ snapshot' = NoRun
  BY <1>2 DEF Distinct, Ending, Works, Others, Carries, Loops
<1>6. stepIds \in Nat /\ stepIds' \in Nat /\ stepIds <= stepIds'
  BY DEF Whole, Typed, Values
<1>. QED
  BY <1>3, <1>4, <1>5, <1>6, Numbering DEF Whole, At

LEMMA PutsDistinct ==
    ASSUME Whole, Distinct, NEW c \in Tasks, Puts(c), UNCHANGED <<told, fenced, stepIds>>
    PROVE  Distinct'
<1>1. Held = {task[c].run}
  BY CarriedAlone DEF Whole, Puts
<1>2. snapshot' = NoRun /\ \A d \in Tasks : task'[d].run = NoRun
  BY PutsAlone DEF Whole
<1>3. \A run \in Held' : run.calls = <<>> \/ \E q \in Held : run.calls = q.calls
  BY <1>1, <1>2 DEF Held, Puts
<1>4. \A d \in Tasks : (At(d, "asking"))' => At(d, "asking")
  BY IdleIs DEF Puts, Others, At
<1>5. \A d \in Tasks : (Ending(d))' => fenced' /\ snapshot' = NoRun
  BY <1>2, IdleIs DEF Distinct, Ending, Puts, Others
<1>6. stepIds \in Nat /\ stepIds' \in Nat /\ stepIds <= stepIds'
  BY DEF Whole, Typed, Values
<1>. QED
  BY <1>3, <1>4, <1>5, <1>6, Numbering DEF Whole

LEMMA TakesDistinct ==
    ASSUME Whole, Distinct, NEW c \in Tasks, Takes(c), UNCHANGED <<told, stepIds>>,
           task'[c].run.calls = <<>> \/ task'[c].run.calls = stored.calls,
           fenced' = fenced \/ \A d \in Tasks : ~Ending(d)
    PROVE  Distinct'
<1>1. stored \in Held
  BY StoredAlone DEF Whole, Takes
<1>2. \A d \in Tasks : d # c => task'[d].run = NoRun
  BY TakesAlone DEF Whole
<1>3. \A run \in Held' : run.calls = <<>> \/ \E q \in Held : run.calls = q.calls
  BY <1>1, <1>2 DEF Held, Takes
<1>4. \A d \in Tasks : (At(d, "asking"))' => At(d, "asking")
  BY DEF Takes, Others, At
<1>5. \A d \in Tasks : (Ending(d))' => fenced' /\ snapshot' = NoRun
  <2>1. \A d \in Tasks : (Ending(d))' => Ending(d)
    BY DEF Ending, Takes, Others
  <2>2. \A d \in Tasks : Ending(d) => fenced
    BY DEF Distinct, Ending
  <2>3. snapshot' = NoRun
    BY DEF Takes
  <2>. QED
    BY <2>1, <2>2, <2>3, fenced \in BOOLEAN DEF Whole, Typed, Values
<1>6. stepIds \in Nat /\ stepIds' \in Nat /\ stepIds <= stepIds'
  BY DEF Whole, Typed, Values
<1>. QED
  BY <1>3, <1>4, <1>5, <1>6, Numbering DEF Whole

LEMMA RestsDistinct ==
    ASSUME Whole, Distinct, Rests, (TasksFit)', stored' \in {NoRun, stored},
           UNCHANGED <<told, stepIds>>,
           \A d \in Tasks : (Ending(d))' => fenced' /\ snapshot' = NoRun
    PROVE  Distinct'
<1>1. /\ Held' \subseteq Held /\ \A d \in Tasks : (At(d, "asking"))' => task'[d] = task[d]
  BY RestsHeld DEF Whole
<1>2. \A d \in Tasks : (At(d, "asking"))' => At(d, "asking")
  BY <1>1 DEF At
<1>3. \A run \in Held' : run.calls = <<>> \/ \E q \in Held : run.calls = q.calls
  BY <1>1
<1>4. stepIds \in Nat /\ stepIds' \in Nat /\ stepIds <= stepIds'
  BY DEF Whole, Typed, Values
<1>. QED
  BY <1>2, <1>3, <1>4, Numbering DEF Whole

------------------------------------------------------------------------------
(* The model loop keeps it all                                               *)

Keeps == Whole' /\ (Distinct /\ Unanswered = {} => Distinct')

\* What a task in the model loop has.
LEMMA LoopHas ==
    ASSUME Whole, NEW c \in Tasks, task[c].step \in Carries
    PROVE  /\ TasksFit /\ Carrying(c) /\ Sound(task[c].run) /\ task[c].run \in Runs
           /\ Fits(task[c]) /\ snapshot = NoRun /\ stored = NoRun
           /\ Question \notin open /\ turns # 0
  BY TaskFacts, CarriedAlone DEF Whole, Typed, Carrying, Sound

\* Only the task in the model loop moves.
LEMMA WorksKeeps ==
    ASSUME Whole, NEW c \in Tasks, Works(c), (TasksFit)', (Values)',
           deferred' \subseteq deferred,
           \/ Inside(task'[c].run) = Inside(task[c].run) \cup (deferred \ deferred')
           \/ task'[c].failed /\ Inside(task'[c].run) = Inside(task[c].run),
           ~task'[c].failed => ~task[c].failed,
           task'[c].run \in Runs,
           task'[c].step = "completing" => task'[c].due \ forgotten \subseteq task'[c].run.seen
    PROVE  Whole'
<1>1. Alone' /\ stored' = NoRun /\ snapshot' = NoRun
  BY WorksAlone DEF Whole
<1>2. Counted'
  BY WorksCounted
<1>. QED
  BY <1>1, <1>2 DEF Whole, Typed, RunsFit

\* Nothing but the steps of tasks and these moves.
LEMMA ValuesStay ==
    ASSUME Values, UNCHANGED <<cancelled, waiting, fenced, forgotten, input, aim, turns, open, told>>,
           inFlight' \in BOOLEAN, deferred' \subseteq Inputs, stepIds' \in Nat
    PROVE  (Values)'
  BY DEF Values, told

LEMMA RegisterKeeps ==
    ASSUME Whole, NEW c \in Tasks, Register(c)
    PROVE  Keeps
<1>1. At(c, "prepared")
  BY DEF Register
<1>2. task[c].step \in Carries
  BY <1>1 DEF At, Carries
<1>3. /\ TasksFit /\ Carrying(c) /\ Sound(task[c].run) /\ task[c].run \in Runs /\ Fits(task[c])
  BY <1>2, LoopHas
<1>4. ~inFlight
  <2>1. \A d \in Tasks : task[d].step \in Loops => d = c
    BY <1>3 DEF Whole, Alone, Carrying, Carries
  <2>. QED
    BY <1>1, <2>1 DEF Whole, Alone, At, Loops
<1>5. To(c, "stepping", task[c].run) /\ inFlight' = TRUE
      /\ UNCHANGED <<stored, cancelled, deferred, input, aim, turns, open, waiting, snapshot,
                     told, forgotten, bounds>>
  BY <1>4 DEF Register
<1>6. Becomes(c, "stepping", task[c].run, FALSE, FALSE)
  BY <1>3, <1>5, ToBecomes DEF Tasking
<1>7. Fits(task'[c])
  BY <1>1, <1>3, <1>6 DEF Becomes, Fits, At, Carries, Loops
<1>8. (TasksFit)'
  BY <1>3, <1>6, <1>7, BecomesFits
<1>9. Works(c)
  BY <1>3, <1>5, <1>6 DEF Works, Becomes, Carries, Loops
<1>10. (Values)'
  BY <1>5, ValuesStay DEF Whole, Typed, Values, bounds
<1>11. ~task[c].failed
  BY <1>1, <1>3, TaskFacts DEF At
<1>12. Whole'
  BY <1>3, <1>5, <1>6, <1>8, <1>9, <1>10, <1>11, WorksKeeps DEF Becomes
<1>13. ASSUME Distinct PROVE Distinct'
  BY <1>5, <1>6, <1>9, <1>13, WorksDistinct DEF Becomes, bounds
<1>. QED
  BY <1>12, <1>13 DEF Keeps

\* What the model loop leaves alone.
beside == <<stored, inFlight, cancelled, input, aim, turns, open, waiting, snapshot, forgotten,
            fenced, cancels, restarts>>

LEMMA GoesWhole ==
    ASSUME Whole, NEW c \in Tasks, task[c].step \in Loops, ~task[c].failed,
           NEW step \in Loops, NEW run, Sound(run), NEW failed, NEW asks,
           Becomes(c, step, run, failed, asks), Fits(task'[c]),
           UNCHANGED beside, deferred' \subseteq deferred,
           requested' \in Seq(Requests), notExecuted' = notExecuted, stepIds' \in Nat,
           \/ Inside(run) = Inside(task[c].run) \cup (deferred \ deferred')
           \/ failed /\ Inside(run) = Inside(task[c].run),
           step = "completing" => task'[c].due \ forgotten \subseteq run.seen
    PROVE  Whole' /\ Works(c)
<1>1. TasksFit /\ Carrying(c) /\ inFlight
  BY LoopHas DEF Carries, Whole, Alone
<1>2. (TasksFit)'
  BY <1>1, BecomesFits
<1>3. Works(c)
  BY <1>1 DEF Works, Becomes, Carries, beside
<1>4. deferred \subseteq Inputs
  BY DEF Whole, Typed, Values
<1>5. (Values)'
  BY <1>4 DEF Whole, Typed, Values, beside
<1>6. /\ task'[c].run = run /\ run \in Runs /\ task'[c].failed = failed /\ task'[c].step = step
  BY DEF Becomes, Sound
<1>7. \/ Inside(task'[c].run) = Inside(task[c].run) \cup (deferred \ deferred')
      \/ task'[c].failed /\ Inside(task'[c].run) = Inside(task[c].run)
  BY <1>6
<1>8. task'[c].step = "completing" => task'[c].due \ forgotten \subseteq task'[c].run.seen
  BY <1>6
<1>. QED
  BY <1>2, <1>3, <1>5, <1>6, <1>7, <1>8, WorksKeeps

LEMMA GoesKeeps ==
    ASSUME Whole, NEW c \in Tasks, task[c].step \in Loops, ~task[c].failed,
           NEW step \in Loops, NEW run, Sound(run), NEW failed, NEW asks,
           Becomes(c, step, run, failed, asks), Fits(task'[c]),
           UNCHANGED <<beside, told>>, deferred' \subseteq deferred,
           \/ Inside(run) = Inside(task[c].run) \cup (deferred \ deferred')
           \/ failed /\ Inside(run) = Inside(task[c].run),
           step = "completing" => task'[c].due \ forgotten \subseteq run.seen,
           run.calls = <<>> \/ run.calls = task[c].run.calls,
           stepIds' \in {stepIds, stepIds + 1}, step = "asking" => stepIds' = stepIds + 1
    PROVE  Keeps
<1>1. requested' \in Seq(Requests) /\ notExecuted' = notExecuted /\ stepIds' \in Nat
  BY DEF Whole, Typed, Values, told
<1>2. Whole' /\ Works(c)
  BY <1>1, GoesWhole
<1>3. task'[c].run = run /\ task'[c].step = step /\ fenced' = fenced
  BY DEF Becomes, beside
<1>4. ASSUME Distinct PROVE Distinct'
  BY <1>2, <1>3, <1>4, WorksDistinct
<1>. QED
  BY <1>2, <1>4 DEF Keeps

\* A task that fails keeps the run until it is dropped.
LEMMA FailingKeeps ==
    ASSUME Whole, NEW c \in Tasks, task[c].step \in Loops, ~task[c].failed, Failing(c),
           UNCHANGED <<beside, told>>, deferred' \subseteq deferred,
           stepIds' \in {stepIds, stepIds + 1}
    PROVE  Keeps
<1>1. TasksFit /\ Sound(task[c].run) /\ task[c].run \in Runs
  BY LoopHas DEF Carries
<1>2. Becomes(c, "leaving", task[c].run, TRUE, FALSE)
  BY <1>1, LeavingBecomes DEF Failing
<1>3. Fits(task'[c])
  BY <1>1, <1>2 DEF Becomes, Fits, Carries, Loops
<1>4. "leaving" \in Loops /\ "leaving" # "completing" /\ "leaving" # "asking"
  BY DEF Loops
<1>. QED
  BY <1>1, <1>2, <1>3, <1>4, GoesKeeps

\* What a task in a step has.
LEMMA StepHas ==
    ASSUME Whole, NEW c \in Tasks, task[c].step \in {"stepping", "asking", "completing"}
    PROVE  /\ task[c].step \in Loops /\ ~task[c].failed /\ TasksFit
           /\ Sound(task[c].run) /\ task[c].run.calls = <<>>
           /\ task[c].step # "stepping" =>
                 task[c].run.phase = "ModelPending" /\ task[c].run.terminal = "none"
           /\ deferred \subseteq Inputs /\ deferred \cap Inside(task[c].run) = {}
           /\ \A i \in Inputs \ forgotten :
                 input[i] = "accepted" => i \in deferred \cup Inside(task[c].run)
<1>1. task[c].step \in Loops /\ task[c].step \in Carries
  BY DEF Loops, Carries
<1>2. TasksFit /\ Carrying(c) /\ Sound(task[c].run) /\ Fits(task[c])
  BY <1>1, LoopHas
<1>3. ~task[c].failed /\ task[c].run.calls = <<>>
  BY <1>2 DEF Fits
<1>4. task[c].run \in Held /\ task[c].run \in Alive
  BY <1>2, <1>3, CarriedAlone DEF Whole
<1>5. task[c].step # "stepping" =>
         task[c].run.phase = "ModelPending" /\ task[c].run.terminal = "none"
  BY <1>2, PhaseTells DEF Fits
<1>. QED
  BY <1>1, <1>2, <1>3, <1>4, <1>5 DEF Whole, Typed, Values, Counted

LEMMA BeginStepKeeps ==
    ASSUME Whole, NEW c \in Tasks, NEW timing \in {"timely", "late"}, BeginStep(c, timing)
    PROVE  Keeps
<1>1. task[c].step = "stepping"
  BY DEF BeginStep, At
<1>2. /\ task[c].step \in Loops /\ ~task[c].failed /\ TasksFit
      /\ Sound(task[c].run) /\ task[c].run.calls = <<>>
      /\ deferred \subseteq Inputs /\ deferred \cap Inside(task[c].run) = {}
  BY <1>1, StepHas
<1>3. UNCHANGED <<beside, told>>
  BY DEF BeginStep, beside
<1>4. PICK queued : queued = Queued(task[c].run, deferred)
  OBVIOUS
<1>5. /\ Sound(queued) /\ queued.phase = task[c].run.phase /\ queued.calls = <<>>
      /\ queued.steps = task[c].run.steps /\ Inside(queued) = Inside(task[c].run) \cup deferred
  BY <1>2, <1>4, QueuedSound
<1>6. task[c].run.steps \in 0 .. MaxSteps /\ MaxSteps \in Nat
  BY <1>2, PhaseTells, HarnessAssumption
<1>7. CASE Failing(c) /\ deferred' \subseteq deferred /\ stepIds' \in {stepIds, stepIds + 1}
  BY <1>2, <1>3, <1>7, FailingKeeps
<1>8. CASE Leaving(c, Ended(task[c].run, "Failed"), FALSE, FALSE) /\ UNCHANGED <<deferred, stepIds>>
  <2>1. PICK run : run = Ended(task[c].run, "Failed")
    OBVIOUS
  <2>2. /\ Sound(run) /\ run \in Runs /\ run.phase = "TurnFinished" /\ run.calls = <<>>
        /\ Inside(run) = Inside(task[c].run)
    BY <1>2, <2>1, EndedSound DEF Sound
  <2>3. Becomes(c, "leaving", run, FALSE, FALSE)
    BY <1>2, <1>8, <2>1, <2>2, LeavingBecomes
  <2>4. Fits(task'[c])
    BY <2>2, <2>3 DEF Becomes, Fits, Carries, Loops, Resting
  <2>5. "leaving" \in Loops /\ "leaving" # "completing" /\ "leaving" # "asking"
    BY DEF Loops
  <2>6. Inside(run) = Inside(task[c].run) \cup (deferred \ deferred') /\ deferred' \subseteq deferred
        /\ stepIds' \in {stepIds, stepIds + 1}
    BY <1>8, <2>2
  <2>. QED
    BY <1>2, <1>3, <2>2, <2>3, <2>4, <2>5, <2>6, GoesKeeps
<1>9. CASE /\ deferred' = {} /\ stepIds' = stepIds + 1 /\ task[c].run.steps < MaxSteps
           /\ CanMove(task[c].run, "ModelPending") /\ To(c, "asking", StepBegun(queued))
  <2>1. CanMove(queued, "ModelPending")
    BY <1>5, <1>9 DEF CanMove
  <2>2. PICK run : run = StepBegun(queued)
    OBVIOUS
  <2>3. /\ Sound(run) /\ run \in Runs /\ run.phase = "ModelPending" /\ run.calls = <<>>
        /\ Inside(run) = Inside(task[c].run) \cup deferred
    BY <1>5, <1>9, <2>1, <2>2, StepBegunSound DEF Sound
  <2>4. Becomes(c, "asking", run, FALSE, FALSE)
    BY <1>2, <1>9, <2>2, <2>3, ToBecomes DEF Tasking
  <2>5. Fits(task'[c])
    BY <2>3, <2>4 DEF Becomes, Fits, Carries, Loops
  <2>6. "asking" \in Loops /\ "asking" # "completing"
    BY DEF Loops
  <2>7. Inside(run) = Inside(task[c].run) \cup (deferred \ deferred') /\ deferred' \subseteq deferred
        /\ stepIds' \in {stepIds, stepIds + 1} /\ stepIds' = stepIds + 1
    BY <1>9, <2>3
  <2>. QED
    BY <1>2, <1>3, <2>3, <2>4, <2>5, <2>6, <2>7, GoesKeeps
<1>10. \/ Failing(c) /\ deferred' \subseteq deferred /\ stepIds' \in {stepIds, stepIds + 1}
       \/ Leaving(c, Ended(task[c].run, "Failed"), FALSE, FALSE) /\ UNCHANGED <<deferred, stepIds>>
       \/ /\ deferred' = {} /\ stepIds' = stepIds + 1 /\ ~(task[c].run.steps >= MaxSteps)
          /\ CanMove(task[c].run, "ModelPending") /\ To(c, "asking", StepBegun(queued))
  <2>1. CASE cancelled \/ task[c].run.steps >= MaxSteps
    BY <2>1 DEF BeginStep
  <2>2. CASE ~(cancelled \/ task[c].run.steps >= MaxSteps)
    <3>1. CASE timing = "late"
      BY <2>2, <3>1 DEF BeginStep
    <3>2. CASE timing # "late"
      BY <1>4, <1>5, <2>2, <3>2 DEF BeginStep, CanMove
    <3>. QED
      BY <3>1, <3>2
  <2>. QED
    BY <2>1, <2>2
<1>11. ~(task[c].run.steps >= MaxSteps) => task[c].run.steps < MaxSteps
  BY <1>6
<1>. QED
  BY <1>7, <1>8, <1>9, <1>10, <1>11

LEMMA CompleteKeeps ==
    ASSUME Whole, NEW c \in Tasks, Complete(c)
    PROVE  Keeps
<1>1. task[c].step = "completing"
  BY DEF Complete, At
<1>2. /\ task[c].step \in Loops /\ ~task[c].failed /\ TasksFit
      /\ Sound(task[c].run) /\ task[c].run.calls = <<>>
  BY <1>1, StepHas
<1>3. UNCHANGED <<beside, told, deferred, stepIds>>
  BY DEF Complete, beside, maps, bounds
<1>4. CASE cancelled
  BY <1>2, <1>3, <1>4, FailingKeeps DEF Complete
<1>5. CASE ~cancelled
  <2>1. PICK run : run = Ended(task[c].run, "Completed")
    OBVIOUS
  <2>2. /\ Sound(run) /\ run \in Runs /\ run.phase = "TurnFinished" /\ run.calls = <<>>
        /\ Inside(run) = Inside(task[c].run)
    BY <1>2, <2>1, EndedSound DEF Sound
  <2>3. Becomes(c, "leaving", run, FALSE, FALSE)
    BY <1>2, <1>5, <2>1, <2>2, LeavingBecomes DEF Complete
  <2>4. Fits(task'[c])
    BY <2>2, <2>3 DEF Becomes, Fits, Carries, Loops, Resting
  <2>5. "leaving" \in Loops /\ "leaving" # "completing" /\ "leaving" # "asking"
    BY DEF Loops
  <2>6. Inside(run) = Inside(task[c].run) \cup (deferred \ deferred') /\ deferred' \subseteq deferred
        /\ stepIds' \in {stepIds, stepIds + 1} /\ UNCHANGED <<beside, told>>
    BY <1>3, <2>2
  <2>. QED
    BY <1>2, <2>2, <2>3, <2>4, <2>5, <2>6, GoesKeeps
<1>. QED
  BY <1>4, <1>5

LEMMA AnswerKeeps ==
    ASSUME Whole, NEW c \in Tasks, NEW answer \in {"text", "empty", "stuck", "error"},
           Answer(c, answer)
    PROVE  Keeps
<1>1. task[c].step = "asking"
  BY DEF Answer, At
<1>2. /\ task[c].step \in Loops /\ ~task[c].failed /\ TasksFit
      /\ Sound(task[c].run) /\ task[c].run.calls = <<>> /\ task[c].run.phase = "ModelPending"
      /\ task[c].run.terminal = "none"
      /\ deferred \subseteq Inputs /\ deferred \cap Inside(task[c].run) = {}
      /\ \A i \in Inputs \ forgotten :
            input[i] = "accepted" => i \in deferred \cup Inside(task[c].run)
  BY <1>1, StepHas
<1>3. UNCHANGED <<beside, told>> /\ stepIds' = stepIds
  BY DEF Answer, beside, bounds
<1>4. PICK run : run = Queued(task[c].run, deferred)
  OBVIOUS
<1>5. /\ Sound(run) /\ run \in Runs /\ run.phase = "ModelPending" /\ run.calls = <<>>
      /\ run.terminal = "none" /\ Inside(run) = Inside(task[c].run) \cup deferred
      /\ run.asking \in BOOLEAN
  BY <1>2, <1>4, QueuedSound, PhaseTells DEF Sound
<1>6. PICK due : due = { i \in Inputs : input[i] = "accepted" /\ Target[i] = "next_step" }
  OBVIOUS
<1>7. \/ Failing(c) /\ UNCHANGED deferred
      \/ deferred' = {} /\ To(c, "stepping", run)
      \/ /\ deferred' = {} /\ run.next_step = {}
         /\ task' = [task EXCEPT ![c] =
                       [Idle EXCEPT !.step = "completing", !.run = run, !.due = due]]
      \/ deferred' = {} /\ Leaving(c, Asking(run), run.asking, ~run.asking)
  BY <1>4, <1>6 DEF Answer
<1>8. CASE Failing(c) /\ UNCHANGED deferred
  BY <1>2, <1>3, <1>8, FailingKeeps
<1>9. deferred' = {} => /\ Inside(run) = Inside(task[c].run) \cup (deferred \ deferred')
                        /\ deferred' \subseteq deferred /\ stepIds' \in {stepIds, stepIds + 1}
  BY <1>3, <1>5
<1>10. CASE deferred' = {} /\ To(c, "stepping", run)
  <2>1. Becomes(c, "stepping", run, FALSE, FALSE)
    BY <1>2, <1>5, <1>10, ToBecomes DEF Tasking
  <2>2. Fits(task'[c])
    BY <1>5, <2>1 DEF Becomes, Fits, Carries, Loops
  <2>3. "stepping" \in Loops /\ "stepping" # "completing" /\ "stepping" # "asking"
    BY DEF Loops
  <2>. QED
    BY <1>2, <1>3, <1>5, <1>9, <1>10, <2>1, <2>2, <2>3, GoesKeeps
<1>11. CASE /\ deferred' = {} /\ run.next_step = {}
            /\ task' = [task EXCEPT ![c] =
                          [Idle EXCEPT !.step = "completing", !.run = run, !.due = due]]
  <2>1. due \in SUBSET Inputs
    BY <1>6
  <2>2. Becomes(c, "completing", run, FALSE, FALSE) /\ task'[c].due = due
    <3>1. TasksFit /\ run \in Runs
      BY <1>2, <1>5
    <3>2. task' = [task EXCEPT ![c] = [Idle EXCEPT !.step = "completing", !.run = run, !.due = due]]
      BY <1>11
    <3>. QED
      BY <2>1, <3>1, <3>2, CompletingBecomes, Zenon
  <2>3. Fits(task'[c])
    BY <1>5, <2>2 DEF Becomes, Fits, Carries, Loops
  <2>4. "completing" \in Loops /\ "completing" # "asking"
    BY DEF Loops
  <2>5. due \ forgotten \subseteq run.seen
    <3>1. ASSUME NEW i \in due \ forgotten PROVE i \in run.seen
      <4>1. i \in Inside(run) /\ Target[i] = "next_step"
        BY <1>2, <1>5, <1>6, <3>1
      <4>2. i \notin run.next_turn
        BY <1>5, <4>1 DEF Sound, Queues
      <4>. QED
        BY <1>11, <4>1, <4>2 DEF Inside
    <3>. QED
      BY <3>1
  <2>6. task'[c].due \ forgotten \subseteq run.seen
    BY <2>2, <2>5
  <2>. QED
    BY <1>2, <1>3, <1>5, <1>9, <1>11, <2>2, <2>3, <2>4, <2>6, GoesKeeps
<1>12. CASE deferred' = {} /\ Leaving(c, Asking(run), run.asking, ~run.asking)
  <2>1. PICK q : q = Asking(run)
    OBVIOUS
  <2>2. /\ Sound(q) /\ q \in Runs /\ q.phase = "AwaitingInput" /\ q.calls = <<>>
        /\ Inside(q) = Inside(run)
    BY <1>5, <2>1, AskingSound DEF Sound
  <2>3. PICK failed \in BOOLEAN, asks \in BOOLEAN : failed = run.asking /\ asks = ~run.asking
    BY <1>5
  <2>4. Becomes(c, "leaving", q, failed, asks)
    BY <1>2, <1>12, <2>1, <2>2, <2>3, LeavingBecomes
  <2>5. failed => ~asks
    BY <1>5, <2>3
  <2>6. Fits(task'[c])
    BY <2>2, <2>4, <2>5 DEF Becomes, Fits, Carries, Loops, Resting
  <2>7. "leaving" \in Loops /\ "leaving" # "completing" /\ "leaving" # "asking"
    BY DEF Loops
  <2>8. Inside(q) = Inside(task[c].run) \cup (deferred \ deferred')
    BY <1>9, <1>12, <2>2
  <2>. QED
    BY <1>2, <1>3, <1>9, <1>12, <2>2, <2>4, <2>6, <2>7, <2>8, GoesKeeps
<1>. QED
  BY <1>7, <1>8, <1>10, <1>11, <1>12

\* The call that is requested has a step of its own.
LEMMA AnswerCallsKeeps ==
    ASSUME Whole, NEW c \in Tasks, NEW count \in 1 .. MaxCalls, AnswerCalls(c, count)
    PROVE  Keeps
<1>1. task[c].step = "asking" /\ At(c, "asking")
  BY DEF AnswerCalls, At
<1>2. /\ task[c].step \in Loops /\ ~task[c].failed /\ TasksFit
      /\ Sound(task[c].run) /\ task[c].run.calls = <<>> /\ task[c].run.phase = "ModelPending"
  BY <1>1, StepHas
<1>3. UNCHANGED <<beside, deferred, stepIds, notExecuted>>
  BY DEF AnswerCalls, beside, bounds, maps
<1>4. CASE cancelled
  BY <1>2, <1>3, <1>4, FailingKeeps DEF AnswerCalls, told
<1>5. CASE ~cancelled
  <2>1. PICK run : run = WithCalls(task[c].run, count)
    OBVIOUS
  <2>2. PICK q : q = [step |-> stepIds, ordinal |-> 1]
    OBVIOUS
  <2>3. stepIds \in Nat /\ requested \in Seq(Requests) /\ notExecuted \subseteq Requests
    BY DEF Whole, Typed, Values
  <2>4. /\ Sound(run) /\ run \in Runs /\ run.phase = "ToolPending"
        /\ Inside(run) = Inside(task[c].run) /\ DOMAIN run.calls = 1 .. count
        /\ \A k \in 1 .. count : RequestOf(run.calls[k]) = [step |-> stepIds, ordinal |-> k]
        /\ Request(run) = q
    BY <1>2, <2>1, <2>2, <2>3, WithCallsSound DEF Sound
  <2>5. Leaving(c, run, FALSE, TRUE) /\ requested' = Append(requested, q)
    BY <1>5, <2>1, <2>4 DEF AnswerCalls
  <2>6. Becomes(c, "leaving", run, FALSE, TRUE)
    BY <1>2, <2>4, <2>5, LeavingBecomes
  <2>7. Fits(task'[c])
    BY <2>4, <2>6 DEF Becomes, Fits, Carries, Loops, Resting
  <2>8. "leaving" \in Loops /\ "leaving" # "completing"
    BY DEF Loops
  <2>9. q \in Requests /\ requested' \in Seq(Requests)
    BY <2>2, <2>3, <2>5 DEF Requests
  <2>10. Inside(run) = Inside(task[c].run) \cup (deferred \ deferred') /\ deferred' \subseteq deferred
         /\ stepIds' \in Nat
    BY <1>3, <2>3, <2>4
  <2>11. Whole' /\ Works(c)
    BY <1>2, <1>3, <2>4, <2>6, <2>7, <2>8, <2>9, <2>10, GoesWhole
  <2>12. ASSUME Distinct PROVE Distinct'
    <3>1. \A p \in Requests : Used(p) => p.step <= stepIds /\ p.step # stepIds
      BY <1>1, <2>12 DEF Distinct
    <3>2. \A p : Used(p)' <=> Used(p) \/ p = q
      BY <1>3, <2>3, <2>5, <2>9, UsedMore
    <3>3. q.step = stepIds
      BY <2>2
    <3>4. ~Used(q)
      BY <2>9, <3>1, <3>3
    <3>5. (RequestsTrue)'
      BY <1>3, <2>3, <2>5, <2>9, <2>12, <3>4, RequestedOnce DEF Distinct
    <3>6. \A p \in Requests : Used(p)' => p.step <= stepIds'
      BY <1>3, <2>3, <3>1, <3>2, <3>3
    <3>7. \A r \in Held' : r = run
      <4>1. /\ \A d \in Tasks : d # c => task'[d].run = NoRun
            /\ stored' = NoRun /\ snapshot' = NoRun
        BY <2>11, WorksAlone DEF Whole
      <4>. QED
        BY <2>6, <4>1 DEF Held, Becomes
    <3>8. ASSUME NEW k \in 1 .. count
          PROVE  run.calls[k].step <= stepIds' /\ (k # 1 => ~Used(RequestOf(run.calls[k]))')
      <4>1. run.calls[k].step = stepIds /\ k \in Nat \ {0}
        <5>1. RequestOf(run.calls[k]) = [step |-> stepIds, ordinal |-> k]
          BY <2>4
        <5>2. RequestOf(run.calls[k]).step = run.calls[k].step
          BY DEF RequestOf
        <5>3. [step |-> stepIds, ordinal |-> k].step = stepIds
          OBVIOUS
        <5>4. k \in Nat \ {0}
          BY HarnessAssumption
        <5>. QED
          BY <5>1, <5>2, <5>3, <5>4
      <4>2. PICK p : p = [step |-> stepIds, ordinal |-> k]
        OBVIOUS
      <4>3. p \in Requests /\ p.step = stepIds /\ p.ordinal = k /\ q.ordinal = 1
        BY <2>2, <2>3, <4>1, <4>2 DEF Requests
      <4>4. ~Used(p)
        BY <3>1, <4>3
      <4>5. k # 1 => ~Used(p)'
        BY <3>2, <4>3, <4>4
      <4>. QED
        BY <1>3, <2>3, <2>4, <4>1, <4>2, <4>5
    <3>9. \A d \in Tasks : task'[d].step \notin {"asking", "signalling", "cancelling"}
                              \/ (d # c /\ task'[d] = task[d])
      BY <2>6 DEF Becomes, Others
    <3>10. \A d \in Tasks : d # c => ~Carrying(d)
      BY <1>2, CarriedAlone DEF Whole, Carrying, Carries
    <3>11. \A d \in Tasks : ~(At(d, "asking"))'
      BY <3>9, <3>10 DEF At, Carrying, Carries, Loops
    <3>12. \A d \in Tasks : task'[d].step \in {"signalling", "cancelling"} => fenced' /\ snapshot' = NoRun
      BY <1>3, <2>12, <3>9 DEF Distinct, beside
    <3>13. \A r \in Held' : \A k \in DOMAIN r.calls :
              r.calls[k].step <= stepIds' /\ (k # 1 => ~Used(RequestOf(r.calls[k]))')
      BY <2>4, <3>7, <3>8
    <3>. QED
      BY <3>5, <3>6, <3>11, <3>12, <3>13 DEF Distinct
  <2>. QED
    BY <2>11, <2>12 DEF Keeps
<1>. QED
  BY <1>4, <1>5

LEMMA LeaveKeeps ==
    ASSUME Whole, NEW c \in Tasks, Leave(c)
    PROVE  Keeps
<1>1. task[c].step = "leaving"
  BY DEF Leave, At
<1>2. task[c].step \in Carries
  BY <1>1 DEF Carries, Loops
<1>3. /\ TasksFit /\ Carrying(c) /\ Sound(task[c].run) /\ task[c].run \in Runs /\ Fits(task[c])
  BY <1>2, LoopHas
<1>4. inFlight' = FALSE
      /\ UNCHANGED <<stored, cancelled, deferred, input, aim, turns, open, waiting, snapshot,
                     told, forgotten, bounds>>
  BY DEF Leave
<1>5. Becomes(c, "storing", task[c].run, task[c].failed, task[c].asks)
  BY <1>3, LeaveBecomes DEF Leave
<1>6. Fits(task'[c])
  BY <1>1, <1>3, <1>5 DEF Becomes, Fits, Carries, Loops
<1>7. (TasksFit)'
  BY <1>3, <1>5, <1>6, BecomesFits
<1>8. Works(c)
  BY <1>3, <1>4, <1>5 DEF Works, Becomes, Carries, Loops
<1>9. (Values)'
  BY <1>4, ValuesStay DEF Whole, Typed, Values, bounds
<1>10. /\ task'[c].run = task[c].run /\ task'[c].failed = task[c].failed
       /\ task'[c].step = "storing"
  BY <1>5 DEF Becomes
<1>11. Inside(task'[c].run) = Inside(task[c].run) \cup (deferred \ deferred')
  BY <1>4, <1>10
<1>12. Whole'
  BY <1>3, <1>4, <1>7, <1>8, <1>9, <1>10, <1>11, WorksKeeps
<1>13. ASSUME Distinct PROVE Distinct'
  BY <1>4, <1>8, <1>10, <1>13, WorksDistinct DEF bounds
<1>. QED
  BY <1>12, <1>13 DEF Keeps

------------------------------------------------------------------------------
(* Storing and taking the run keeps it all                                   *)

\* Runs that wait, and a checkpoint of one, fit.
LEMMA RunsKept ==
    ASSUME stored' # NoRun => Sound(stored') /\ stored'.phase \in Resting,
           snapshot' # NoRun => Sound(snapshot') /\ snapshot'.phase \in {"ToolPending", "AwaitingInput"}
    PROVE  (RunsFit)'
  BY DEF RunsFit, Sound, RunOK, Queues, Apart

\* The run is put down.
LEMMA PutsKeeps ==
    ASSUME Whole, NEW c \in Tasks, Puts(c), task'[c] = Idle, (TasksFit)',
           stored' # NoRun => stored'.phase \in Resting,
           open' \subseteq Requests \cup {Question},
           UNCHANGED <<cancelled, aim, waiting, told, fenced, stepIds>>
    PROVE  Keeps
<1>1. Alone' /\ snapshot' = NoRun
  BY PutsAlone DEF Whole
<1>2. Counted'
  BY PutsCounted
<1>3. (RunsFit)'
  <2>1. stored' # NoRun => Sound(stored')
    BY LoopHas DEF Puts, Carrying
  <2>. QED
    BY <1>1, <2>1 DEF RunsFit, Sound, RunOK, Queues, Apart
<1>4. (Values)'
  BY DEF Whole, Typed, Values, Puts, told
<1>5. ASSUME Distinct PROVE Distinct'
  BY <1>5, PutsDistinct
<1>. QED
  BY <1>1, <1>2, <1>3, <1>4, <1>5 DEF Keeps, Whole, Typed

\* What a run that waits asks for: its first call, or the user.
LEMMA RequestIs ==
    ASSUME NEW run, Sound(run), run.phase \in {"ToolPending", "AwaitingInput"}
    PROVE  /\ Request(run) \in Requests \cup {Question}
           /\ Request(run) = Question <=> run.phase = "AwaitingInput"
<1>1. CASE run.phase = "AwaitingInput"
  BY <1>1, PhaseTells DEF Request
<1>2. CASE run.phase = "ToolPending"
  <2>1. run.calls # <<>> /\ run.calls \in Seq(Calls)
    BY <1>2, PhaseTells
  <2>2. Head(run.calls) \in Calls
    BY <2>1
  <2>3. RequestOf(Head(run.calls)) \in Requests
    BY <2>2 DEF RequestOf, Calls, Requests
  <2>4. Request(run) = RequestOf(Head(run.calls))
    BY <2>1 DEF Request
  <2>5. Question \notin Requests
    <3>1. Question.ordinal = 0
      BY DEF Question
    <3>2. \A q \in Requests : q.ordinal # 0
      BY DEF Requests
    <3>. QED
      BY <3>1, <3>2
  <2>. QED
    BY <1>2, <2>3, <2>4, <2>5
<1>. QED
  BY <1>1, <1>2

LEMMA StoreKeeps ==
    ASSUME Whole, NEW c \in Tasks, Store(c)
    PROVE  Keeps
<1>1. task[c].step = "storing"
  BY DEF Store, At
<1>2. task[c].step \in Carries /\ task[c].step \notin Loops
  BY <1>1 DEF Carries, Loops
<1>3. /\ TasksFit /\ Carrying(c) /\ Sound(task[c].run) /\ Fits(task[c])
      /\ stored = NoRun /\ Question \notin open
  BY <1>2, LoopHas
<1>4. task'[c] = Idle /\ (TasksFit)' /\ Others(c)
  BY <1>3, DoneBecomes DEF Store, Becomes
<1>5. stored' = NoRun \/ (~task[c].failed /\ stored' = task[c].run)
  BY <1>3 DEF Store
<1>6. task[c].asks => Request(task[c].run) \in Requests \cup {Question}
                      /\ (Request(task[c].run) = Question <=> task[c].run.phase = "AwaitingInput")
  BY <1>3, RequestIs DEF Fits
<1>7. open' \subseteq Requests \cup {Question}
  BY <1>6 DEF Store, Whole, Typed, Values
<1>8. Question \in open' => task[c].run.phase = "AwaitingInput"
  BY <1>3, <1>6 DEF Store
<1>9. /\ UNCHANGED <<inFlight, deferred, snapshot, turns, input, forgotten>>
      /\ UNCHANGED <<cancelled, aim, waiting, told, fenced, stepIds>>
  BY DEF Store, bounds
<1>10. Puts(c)
  BY <1>2, <1>3, <1>4, <1>5, <1>8, <1>9 DEF Puts
<1>11. stored' # NoRun => stored'.phase \in Resting
  BY <1>1, <1>3, <1>5 DEF Fits
<1>. QED
  BY <1>4, <1>7, <1>9, <1>10, <1>11, PutsKeeps

LEMMA PutBackKeeps ==
    ASSUME Whole, NEW c \in Tasks, PutBack(c)
    PROVE  Keeps
<1>1. task[c].step = "returning"
  BY DEF PutBack, At
<1>2. task[c].step \in Carries /\ task[c].step \notin Loops
  BY <1>1 DEF Carries, Loops
<1>3. /\ TasksFit /\ Carrying(c) /\ Sound(task[c].run) /\ Fits(task[c])
      /\ Question \notin open
  BY <1>2, LoopHas
<1>4. task'[c] = Idle /\ (TasksFit)' /\ Others(c)
  BY <1>3, DoneBecomes DEF PutBack, Becomes
<1>5. /\ UNCHANGED <<inFlight, deferred, snapshot, turns, input, forgotten>>
      /\ UNCHANGED <<cancelled, aim, waiting, told, fenced, stepIds>> /\ open' = open
  BY DEF PutBack, bounds
<1>6. stored' = task[c].run /\ ~task[c].failed
  BY <1>1, <1>3 DEF PutBack, Fits
<1>7. Puts(c)
  BY <1>2, <1>3, <1>4, <1>5, <1>6 DEF Puts
<1>8. stored'.phase \in Resting
  BY <1>1, <1>3, <1>6 DEF Fits
<1>9. open' \subseteq Requests \cup {Question}
  BY <1>5 DEF Whole, Typed, Values
<1>. QED
  BY <1>4, <1>5, <1>7, <1>8, <1>9, PutsKeeps

\* The run is taken.
LEMMA TakesKeeps ==
    ASSUME Whole, NEW c \in Tasks, Takes(c), (TasksFit)', (Values)',
           Inside(task'[c].run) = Inside(stored)
    PROVE  Whole'
<1>1. Alone'
  BY TakesAlone DEF Whole
<1>2. Counted'
  BY TakesCounted
<1>3. (RunsFit)'
  BY DEF Takes, RunsFit
<1>. QED
  BY <1>1, <1>2, <1>3 DEF Whole, Typed

\* The run is dropped, or stays where it is.
LEMMA RestsKeeps ==
    ASSUME Whole, Rests, (TasksFit)', (Values)', stored' \in {NoRun, stored},
           \A i \in Inputs : input'[i] = "accepted" <=> input[i] = "accepted",
           deferred' = deferred, forgotten' = forgotten
    PROVE  Whole'
<1>1. Alone'
  BY RestsAlone DEF Whole
<1>2. Counted'
  BY RestsCounted
<1>3. (RunsFit)'
  BY DEF Whole, Typed, RunsFit, Rests, Sound, RunOK, Queues, Apart
<1>. QED
  BY <1>1, <1>2, <1>3 DEF Whole, Typed

\* Tasks that do not move fit as they did.
LEMMA TasksStay ==
    ASSUME TasksFit, task' = task
    PROVE  (TasksFit)'
  BY DEF TasksFit, Fits, Sound, RunOK, Queues, Apart

\* A run waits for a call just when it has calls.
LEMMA StoredIs ==
    ASSUME Whole, stored # NoRun
    PROVE  /\ Sound(stored) /\ stored \in Runs /\ stored.phase \in Resting
           /\ stored.calls # <<>> <=> stored.phase = "ToolPending"
  BY StoredAlone, PhaseTells DEF Whole, Sound

LEMMA ContinueKeeps ==
    ASSUME Whole, NEW c \in Tasks, Continue(c)
    PROVE  Keeps
<1>1. /\ turns' = turns + 1 /\ fenced' = FALSE /\ snapshot' = NoRun
      /\ turns \in 1 .. MaxTurns - 1 /\ task[c].step = "idle"
      /\ UNCHANGED <<inFlight, cancelled, deferred, input, aim, open, waiting, told, forgotten,
                     stepIds>>
  BY DEF Continue, Recorded, At
<1>2. turns' \in 0 .. MaxTurns /\ turns' # 0
  <2>1. MaxTurns \in Nat
    BY HarnessAssumption
  <2>. QED
    BY <1>1, <2>1
<1>3. TasksFit
  BY DEF Whole, Typed
<1>4. (Values)'
  BY <1>1, <1>2 DEF Whole, Typed, Values, told
<1>5. Unanswered = {} => \A d \in Tasks : ~Ending(d)
  BY DEF Continue, Ending
<1>6. CASE task' = task /\ stored' \in {NoRun, stored}
  <2>1. (TasksFit)'
    BY <1>3, <1>6, TasksStay
  <2>2. Rests
    BY <1>1, <1>2, <1>6 DEF Rests
  <2>3. Whole'
    BY <1>1, <1>4, <1>6, <2>1, <2>2, RestsKeeps
  <2>4. ASSUME Distinct, Unanswered = {} PROVE Distinct'
    <3>1. \A d \in Tasks : ~(Ending(d))'
      BY <1>5, <1>6, <2>4 DEF Ending
    <3>2. stored' \in {NoRun, stored}
      BY <1>6
    <3>. QED
      BY <1>1, <2>1, <2>2, <2>4, <3>1, <3>2, RestsDistinct
  <2>. QED
    BY <2>3, <2>4 DEF Keeps
<1>7. ASSUME Take, NEW step \in {"returning", "prepared"}, NEW run, To(c, step, run), Sound(run),
             stored.phase # "AwaitingInput", Inside(run) = Inside(stored),
             run.calls = <<>> \/ run.calls = stored.calls,
             step = "prepared" => run.calls = <<>>, step = "returning" => run.phase \in Resting
      PROVE  Keeps
  <2>1. Becomes(c, step, run, FALSE, FALSE)
    BY <1>3, <1>7, ToBecomes DEF Tasking, Sound
  <2>2. Fits(task'[c])
    BY <1>7, <2>1 DEF Becomes, Fits, Carries, Loops
  <2>3. (TasksFit)'
    BY <1>3, <2>1, <2>2, BecomesFits
  <2>4. Takes(c) /\ task'[c].run = run
    BY <1>1, <1>2, <1>7, <2>1 DEF Takes, Becomes, Take
  <2>5. Whole'
    BY <1>4, <1>7, <2>3, <2>4, TakesKeeps
  <2>6. ASSUME Distinct, Unanswered = {} PROVE Distinct'
    BY <1>1, <1>5, <1>7, <2>4, <2>6, TakesDistinct
  <2>. QED
    BY <2>5, <2>6 DEF Keeps
<1>8. CASE stored # NoRun /\ Take
  <2>1. /\ Sound(stored) /\ stored.phase \in Resting
        /\ stored.calls # <<>> <=> stored.phase = "ToolPending"
    BY <1>8, StoredIs
  <2>2. CASE stored.calls # <<>>
    <3>1. To(c, "returning", stored)
      BY <1>8, <2>2 DEF Continue
    <3>. QED
      BY <1>7, <1>8, <2>1, <2>2, <3>1
  <2>3. CASE stored.calls = <<>> /\ CanMove(stored, "Preparing")
    <3>1. To(c, "prepared", TurnBegun(stored))
      BY <1>8, <2>3 DEF Continue
    <3>2. stored.phase # "AwaitingInput"
      BY <2>3 DEF CanMove, Moves
    <3>3. PICK run : run = TurnBegun(stored)
      OBVIOUS
    <3>4. Sound(run) /\ run.calls = <<>> /\ Inside(run) = Inside(stored)
      BY <2>1, <2>3, <3>3, TurnBegunSound
    <3>. QED
      BY <1>7, <1>8, <3>1, <3>2, <3>3, <3>4
  <2>4. CASE stored.calls = <<>> /\ ~CanMove(stored, "Preparing")
    <3>1. task' = task
      BY <1>8, <2>4 DEF Continue
    <3>. QED
      BY <1>6, <1>8, <3>1 DEF Take
  <2>. QED
    BY <2>2, <2>3, <2>4
<1>9. CASE stored = NoRun
  BY <1>6, <1>9 DEF Continue, Take
<1>. QED
  BY <1>8, <1>9 DEF Continue

LEMMA ResumeKeeps ==
    ASSUME Whole, NEW c \in Tasks, Resume(c)
    PROVE  Keeps
<1>1. /\ At(c, "resuming") /\ task[c].step = "resuming"
      /\ UNCHANGED <<inFlight, cancelled, deferred, input, aim, turns, open, waiting, snapshot,
                     told, forgotten, fenced, stepIds>>
  BY DEF Resume, At, bounds
<1>2. TasksFit /\ snapshot = NoRun /\ ~Carrying(c)
  BY <1>1 DEF Whole, Typed, Alone, Resuming, Free
<1>3. turns # 0
  <2>1. task[c] # Idle
    BY <1>1, IdleIs
  <2>. QED
    BY <2>1 DEF Whole, Alone, Unborn
<1>4. (Values)'
  BY <1>1 DEF Whole, Typed, Values, told
<1>5. CASE stored = NoRun
  <2>1. Done(c) /\ stored' = stored
    BY <1>5 DEF Resume, Take
  <2>2. (TasksFit)' /\ task'[c] = Idle /\ Others(c)
    BY <1>2, <2>1, DoneBecomes DEF Becomes
  <2>3. Rests
    BY <1>1, <1>2, <1>3, <1>5, <2>1, <2>2, IdleIs DEF Rests, Others, Calm
  <2>4. Whole'
    BY <1>1, <1>4, <2>1, <2>2, <2>3, RestsKeeps
  <2>5. ASSUME Distinct PROVE Distinct'
    <3>1. \A d \in Tasks : (Ending(d))' => fenced' /\ snapshot' = NoRun
      BY <1>1, <2>2, <2>5, IdleIs DEF Ending, Others, Distinct
    <3>. QED
      BY <1>1, <2>1, <2>2, <2>3, <2>5, <3>1, RestsDistinct
  <2>. QED
    BY <2>4, <2>5 DEF Keeps
<1>6. CASE stored # NoRun
  <2>1. Take /\ To(c, IF stored.calls # <<>> THEN "returning" ELSE "prepared", stored)
    BY <1>6 DEF Resume
  <2>2. /\ Sound(stored) /\ stored \in Runs /\ stored.phase = "AwaitingInput"
        /\ stored.calls = <<>>
    BY <1>1, <1>6, StoredIs DEF Whole, Alone, Resuming
  <2>3. To(c, "prepared", stored)
    BY <2>1, <2>2
  <2>4. Becomes(c, "prepared", stored, FALSE, FALSE)
    BY <1>2, <2>2, <2>3, ToBecomes DEF Tasking
  <2>5. Fits(task'[c])
    BY <2>2, <2>4 DEF Becomes, Fits, Carries, Loops
  <2>6. (TasksFit)'
    BY <1>2, <2>4, <2>5, BecomesFits
  <2>7. Takes(c) /\ task'[c].run = stored
    BY <1>1, <1>2, <1>3, <1>6, <2>1, <2>4 DEF Takes, Becomes, Take
  <2>8. Whole'
    BY <1>4, <2>6, <2>7, TakesKeeps
  <2>9. ASSUME Distinct PROVE Distinct'
    BY <1>1, <2>7, <2>9, TakesDistinct
  <2>. QED
    BY <2>8, <2>9 DEF Keeps
<1>. QED
  BY <1>5, <1>6

\* What taking a result does, case by case.
LEMMA ResultIs ==
    ASSUME NEW c \in Tasks, NEW request \in open, NEW outcome \in {"good", "stuck", "bad"},
           Result(c, request, outcome)
    PROVE  \/ UNCHANGED <<task, requested>> /\ (stored' = stored \/ stored' = NoRun)
           \/ /\ Take /\ stored.calls # <<>> /\ UNCHANGED requested
              /\ To(c, "returning", stored)
           \/ /\ Take /\ stored.calls # <<>> /\ Settled(stored).calls # <<>>
              /\ Storing(c, Settled(stored))
              /\ requested' = Append(requested, Request(Settled(stored)))
           \/ /\ Take /\ stored.calls # <<>> /\ Settled(stored).calls = <<>> /\ UNCHANGED requested
              /\ Storing(c, Asking(Settled(stored))) \/ To(c, "prepared", Settled(stored))
<1>1. CASE stored = NoRun
  BY <1>1 DEF Result, Take
<1>2. CASE stored # NoRun /\ stored.calls = <<>>
  BY <1>2 DEF Result, Take
<1>3. CASE stored # NoRun /\ stored.calls # <<>> /\ Settled(stored).calls # <<>>
  BY <1>3 DEF Result, Take
<1>4. CASE stored # NoRun /\ stored.calls # <<>> /\ Settled(stored).calls = <<>>
  BY <1>4 DEF Result, Take
<1>. QED
  BY <1>1, <1>2, <1>3, <1>4

\* A result settles the first call, and requests the one behind it once.
LEMMA ResultKeeps ==
    ASSUME Whole, NEW c \in Tasks, NEW request \in open, NEW outcome \in {"good", "stuck", "bad"},
           Result(c, request, outcome)
    PROVE  Keeps
<1>1. /\ open' = open \ {request} /\ waiting' = FALSE /\ snapshot' = NoRun
      /\ UNCHANGED <<inFlight, cancelled, deferred, input, aim, turns, notExecuted, forgotten,
                     fenced, stepIds>>
  BY DEF Result, Recorded, bounds
<1>2. turns' # 0
  BY <1>1 DEF Whole, Alone, Unborn
<1>3. TasksFit
  BY DEF Whole, Typed
<1>4. requested' \in Seq(Requests) => (Values)'
  BY <1>1 DEF Whole, Typed, Values
<1>5. CASE UNCHANGED <<task, requested>> /\ (stored' = stored \/ stored' = NoRun)
  <2>1. (TasksFit)'
    BY <1>3, <1>5, TasksStay
  <2>2. Rests
    BY <1>1, <1>2, <1>5 DEF Rests
  <2>3. (Values)'
    BY <1>4, <1>5 DEF Whole, Typed, Values
  <2>4. Whole'
    BY <1>1, <1>5, <2>1, <2>2, <2>3, RestsKeeps
  <2>5. ASSUME Distinct PROVE Distinct'
    <3>1. \A d \in Tasks : (Ending(d))' => fenced' /\ snapshot' = NoRun
      BY <1>1, <1>5, <2>5 DEF Ending, Distinct
    <3>2. stored' \in {NoRun, stored}
      BY <1>5
    <3>. QED
      BY <1>1, <1>5, <2>1, <2>2, <2>5, <3>1, <3>2, RestsDistinct DEF told
  <2>. QED
    BY <2>4, <2>5 DEF Keeps
<1>6. ASSUME Take, stored.calls # <<>>
      PROVE  /\ stored # NoRun /\ stored' = NoRun /\ Sound(stored) /\ stored \in Runs
             /\ stored.phase = "ToolPending" /\ stored.phase # "AwaitingInput"
  BY <1>6, StoredIs DEF Take
<1>7. ASSUME Take, stored.calls # <<>>, NEW run, Sound(run), Inside(run) = Inside(stored),
             NEW step \in {"prepared", "returning", "storing"}, NEW asks \in BOOLEAN,
             Becomes(c, step, run, FALSE, asks), Fits(task'[c]), requested' \in Seq(Requests)
      PROVE  Whole' /\ Takes(c) /\ task'[c].run = run
  <2>1. (TasksFit)'
    BY <1>3, <1>7, BecomesFits
  <2>2. Takes(c) /\ task'[c].run = run
    BY <1>1, <1>2, <1>6, <1>7 DEF Takes, Becomes
  <2>. QED
    BY <1>4, <1>7, <2>1, <2>2, TakesKeeps
<1>8. CASE /\ Take /\ stored.calls # <<>> /\ UNCHANGED requested
           /\ To(c, "returning", stored)
  <2>1. /\ Sound(stored) /\ stored \in Runs /\ stored.phase = "ToolPending"
    BY <1>6, <1>8
  <2>2. Becomes(c, "returning", stored, FALSE, FALSE)
    BY <1>3, <1>8, <2>1, ToBecomes DEF Tasking
  <2>3. Fits(task'[c])
    BY <2>1, <2>2 DEF Becomes, Fits, Carries, Loops, Resting
  <2>4. Whole' /\ Takes(c) /\ task'[c].run = stored
    BY <1>7, <1>8, <2>1, <2>2, <2>3 DEF Whole, Typed, Values
  <2>5. ASSUME Distinct PROVE Distinct'
    BY <1>1, <1>8, <2>4, <2>5, TakesDistinct DEF told
  <2>. QED
    BY <2>4, <2>5 DEF Keeps
<1>9. CASE /\ Take /\ stored.calls # <<>> /\ Settled(stored).calls = <<>> /\ UNCHANGED requested
           /\ Storing(c, Asking(Settled(stored))) \/ To(c, "prepared", Settled(stored))
  <2>1. PICK run : run = Settled(stored)
    OBVIOUS
  <2>2. /\ Sound(run) /\ run \in Runs /\ run.terminal = "none" /\ run.calls = <<>>
        /\ Inside(run) = Inside(stored)
    BY <1>6, <1>9, <2>1, SettledSound DEF Sound
  <2>3. ASSUME NEW r, Sound(r), r.calls = <<>>, Inside(r) = Inside(stored),
               NEW step \in {"prepared", "storing"}, NEW asks \in BOOLEAN,
               Becomes(c, step, r, FALSE, asks), Fits(task'[c])
        PROVE  Keeps
    <3>1. Whole' /\ Takes(c) /\ task'[c].run = r
      BY <1>7, <1>9, <2>3 DEF Whole, Typed, Values
    <3>2. ASSUME Distinct PROVE Distinct'
      BY <1>1, <1>9, <2>3, <3>1, <3>2, TakesDistinct DEF told
    <3>. QED
      BY <3>1, <3>2 DEF Keeps
  <2>4. CASE To(c, "prepared", run)
    <3>1. Becomes(c, "prepared", run, FALSE, FALSE)
      BY <1>3, <2>2, <2>4, ToBecomes DEF Tasking
    <3>2. Fits(task'[c])
      BY <2>2, <3>1 DEF Becomes, Fits, Carries, Loops
    <3>. QED
      BY <2>2, <2>3, <3>1, <3>2
  <2>5. CASE Storing(c, Asking(run))
    <3>1. PICK q : q = Asking(run)
      OBVIOUS
    <3>2. /\ Sound(q) /\ q \in Runs /\ q.phase = "AwaitingInput" /\ q.calls = <<>>
          /\ Inside(q) = Inside(stored)
      BY <2>2, <3>1, AskingSound DEF Sound
    <3>3. Becomes(c, "storing", q, FALSE, TRUE)
      BY <1>3, <2>5, <3>1, <3>2, StoringBecomes
    <3>4. Fits(task'[c])
      BY <3>2, <3>3 DEF Becomes, Fits, Carries, Loops, Resting
    <3>. QED
      BY <2>3, <3>2, <3>3, <3>4
  <2>. QED
    BY <1>9, <2>1, <2>4, <2>5
<1>10. CASE /\ Take /\ stored.calls # <<>> /\ Settled(stored).calls # <<>>
            /\ Storing(c, Settled(stored))
            /\ requested' = Append(requested, Request(Settled(stored)))
  <2>1. PICK run : run = Settled(stored)
    OBVIOUS
  <2>2. PICK q : q = RequestOf(stored.calls[2])
    OBVIOUS
  <2>3. /\ Sound(run) /\ run \in Runs /\ Inside(run) = Inside(stored) /\ run.calls # <<>>
        /\ \A k \in DOMAIN run.calls :
              k + 1 \in DOMAIN stored.calls /\ RequestOf(run.calls[k]) = RequestOf(stored.calls[k + 1])
        /\ 2 \in DOMAIN stored.calls /\ Request(run) = q
    BY <1>6, <1>10, <2>1, <2>2, SettledSound DEF Sound
  <2>4. run.phase = "ToolPending" /\ run.calls \in Seq(Calls)
        /\ stored.calls \in Seq(Calls) /\ Apart(stored.calls)
    BY <1>6, <1>10, <2>3, PhaseTells DEF Sound
  <2>5. q \in Requests /\ q.step = stored.calls[2].step
    <3>1. stored.calls[2] \in Calls
      BY <2>3, <2>4
    <3>. QED
      BY <2>2, <3>1 DEF RequestOf, Calls, Requests
  <2>6. requested' = Append(requested, q) /\ requested \in Seq(Requests)
        /\ requested' \in Seq(Requests)
    BY <1>10, <2>1, <2>3, <2>5 DEF Whole, Typed, Values
  <2>7. Becomes(c, "storing", run, FALSE, TRUE)
    BY <1>3, <1>10, <2>1, <2>3, StoringBecomes
  <2>8. Fits(task'[c])
    BY <2>3, <2>4, <2>7 DEF Becomes, Fits, Carries, Loops, Resting
  <2>9. Whole' /\ Takes(c) /\ task'[c].run = run
    BY <1>7, <1>10, <2>3, <2>6, <2>7, <2>8
  <2>10. ASSUME Distinct PROVE Distinct'
    <3>1. stored \in Held
      BY <1>6, <1>10, HeldIs
    <3>2. \A k \in DOMAIN stored.calls :
             stored.calls[k].step <= stepIds /\ (k # 1 => ~Used(RequestOf(stored.calls[k])))
      BY <2>10, <3>1 DEF Distinct
    <3>3. ~Used(q) /\ q.step <= stepIds
      BY <2>2, <2>3, <2>5, <3>2
    <3>4. \A p : Used(p)' <=> Used(p) \/ p = q
      BY <1>1, <2>5, <2>6, UsedMore
    <3>5. (RequestsTrue)'
      BY <1>1, <2>5, <2>6, <2>10, <3>3, RequestedOnce DEF Distinct
    <3>6. \A p \in Requests : Used(p)' => p.step <= stepIds'
      BY <1>1, <2>10, <3>3, <3>4 DEF Distinct
    <3>7. \A r \in Held' : r = run
      <4>1. \A d \in Tasks : d # c => task'[d].run = NoRun
        BY <2>9, TakesAlone DEF Whole
      <4>. QED
        BY <2>9, <4>1 DEF Held, Takes
    <3>8. ASSUME NEW k \in DOMAIN run.calls
          PROVE  run.calls[k].step <= stepIds' /\ (k # 1 => ~Used(RequestOf(run.calls[k]))')
      <4>1. k + 1 \in DOMAIN stored.calls /\ RequestOf(run.calls[k]) = RequestOf(stored.calls[k + 1])
            /\ k \in Nat
        BY <2>3, <2>4
      <4>2. PICK j : j = k + 1
        OBVIOUS
      <4>3. j \in DOMAIN stored.calls /\ RequestOf(run.calls[k]) = RequestOf(stored.calls[j])
        BY <4>1, <4>2
      <4>4. RequestOf(run.calls[k]).step = run.calls[k].step
            /\ RequestOf(stored.calls[j]).step = stored.calls[j].step
        BY DEF RequestOf
      <4>5. run.calls[k].step <= stepIds
        BY <3>2, <4>3, <4>4
      <4>6. k # 1 => j # 2 /\ j # 1
        BY <2>4, <4>1, <4>2
      <4>7. k # 1 => RequestOf(stored.calls[j]) # q
        BY <2>2, <2>3, <2>4, <4>3, <4>6 DEF Apart
      <4>8. k # 1 => ~Used(RequestOf(stored.calls[j]))
        BY <3>2, <4>3, <4>6
      <4>9. k # 1 => ~Used(RequestOf(run.calls[k]))'
        BY <3>4, <4>3, <4>7, <4>8
      <4>. QED
        BY <1>1, <4>5, <4>9
    <3>9. \A r \in Held' : \A k \in DOMAIN r.calls :
             r.calls[k].step <= stepIds' /\ (k # 1 => ~Used(RequestOf(r.calls[k]))')
      BY <3>7, <3>8
    <3>10. Free
      BY <1>6, <1>10, StoredAlone DEF Whole
    <3>11. \A d \in Tasks : ~(At(d, "asking"))'
      BY <2>7, <3>10 DEF Becomes, Others, At, Free, Carrying, Carries, Loops
    <3>12. \A d \in Tasks : task'[d].step \in {"signalling", "cancelling"} => fenced' /\ snapshot' = NoRun
      BY <1>1, <2>7, <2>10 DEF Becomes, Others, Distinct
    <3>. QED
      BY <3>5, <3>6, <3>9, <3>11, <3>12 DEF Distinct
  <2>. QED
    BY <2>9, <2>10 DEF Keeps
<1>. QED
  BY <1>5, <1>8, <1>9, <1>10, ResultIs

------------------------------------------------------------------------------
(* Cancellations and inputs keep it all                                      *)

LEMMA CancelKeeps ==
    ASSUME Whole, NEW c \in Tasks, Cancel(c)
    PROVE  Keeps
<1>1. /\ task[c].step = "idle" /\ turns # 0 /\ fenced' = TRUE /\ snapshot' = NoRun
      /\ UNCHANGED <<stored, inFlight, cancelled, deferred, input, aim, turns, open, waiting, told,
                     forgotten, stepIds>>
  BY DEF Cancel, Recorded, At, maps, Whole, Typed, Values
<1>2. PICK step \in {"signalling", "cancelling"} : To(c, step, NoRun)
  BY DEF Cancel
<1>3. TasksFit
  BY DEF Whole, Typed
<1>4. Becomes(c, step, NoRun, FALSE, FALSE)
  BY <1>2, <1>3, ToBecomes DEF Tasking
<1>5. Fits(task'[c])
  BY <1>4 DEF Becomes, Fits, Carries, Loops
<1>6. (TasksFit)'
  BY <1>3, <1>4, <1>5, BecomesFits
<1>7. Rests
  BY <1>1, <1>4 DEF Rests, Becomes, Others, Carrying, Carries, Loops, Calm
<1>8. (Values)'
  BY <1>1 DEF Whole, Typed, Values, told
<1>9. Whole'
  BY <1>1, <1>6, <1>7, <1>8, RestsKeeps
<1>10. ASSUME Distinct PROVE Distinct'
  BY <1>1, <1>6, <1>7, <1>10, RestsDistinct
<1>. QED
  BY <1>9, <1>10 DEF Keeps

\* A task that is done cancelling.
LEMMA EndingKeeps ==
    ASSUME Whole, NEW c \in Tasks, Ending(c), Done(c), stored' \in {NoRun, stored},
           UNCHANGED <<inFlight, deferred, snapshot, turns, open, input, forgotten>>
    PROVE  (TasksFit)' /\ Rests /\ turns # 0 /\ task'[c] = Idle /\ Others(c)
<1>1. TasksFit
  BY DEF Whole, Typed
<1>2. (TasksFit)' /\ task'[c] = Idle /\ Others(c)
  BY <1>1, DoneBecomes DEF Becomes
<1>3. turns # 0
  <2>1. task[c] # Idle
    BY IdleIs DEF Ending
  <2>. QED
    BY <2>1 DEF Whole, Alone, Unborn
<1>4. ~Carrying(c)
  BY DEF Ending, Carrying, Carries, Loops
<1>. QED
  BY <1>2, <1>3, <1>4, IdleIs DEF Rests, Others, Calm

LEMMA SignalKeeps ==
    ASSUME Whole, NEW c \in Tasks, Signal(c)
    PROVE  Keeps
<1>1. /\ Ending(c) /\ Done(c) /\ cancelled' = TRUE
      /\ UNCHANGED <<stored, inFlight, deferred, input, aim, turns, open, waiting, snapshot,
                     told, forgotten, fenced, stepIds>>
  BY DEF Signal, At, Ending, bounds
<1>2. (TasksFit)' /\ Rests /\ task'[c] = Idle /\ Others(c)
  BY <1>1, EndingKeeps
<1>3. (Values)'
  BY <1>1 DEF Whole, Typed, Values, told
<1>4. Whole'
  BY <1>1, <1>2, <1>3, RestsKeeps
<1>5. ASSUME Distinct PROVE Distinct'
  <2>1. \A d \in Tasks : (Ending(d))' => fenced' /\ snapshot' = NoRun
    BY <1>1, <1>2, <1>5, IdleIs DEF Ending, Others, Distinct
  <2>. QED
    BY <1>1, <1>2, <1>5, <2>1, RestsDistinct
<1>. QED
  BY <1>4, <1>5 DEF Keeps

\* What is reported as not executed waited behind another call, and nobody has the
\* run any more who could request it.
LEMMA CancelStoredKeeps ==
    ASSUME Whole, NEW c \in Tasks, CancelStored(c)
    PROVE  Keeps
<1>1. /\ Ending(c) /\ Done(c) /\ stored' = NoRun /\ task[c].step = "cancelling"
      /\ UNCHANGED <<inFlight, cancelled, deferred, input, aim, turns, open, waiting, snapshot,
                     requested, forgotten, fenced, stepIds>>
  BY DEF CancelStored, At, Ending, bounds, Take
<1>2. (TasksFit)' /\ Rests /\ task'[c] = Idle /\ Others(c)
  BY <1>1, EndingKeeps
<1>3. notExecuted' \subseteq Requests => (Values)'
  BY <1>1 DEF Whole, Typed, Values
<1>4. CASE notExecuted' = notExecuted
  <2>1. (Values)'
    BY <1>3, <1>4 DEF Whole, Typed, Values
  <2>2. Whole'
    BY <1>1, <1>2, <2>1, RestsKeeps
  <2>3. ASSUME Distinct PROVE Distinct'
    <3>1. \A d \in Tasks : (Ending(d))' => fenced' /\ snapshot' = NoRun
      BY <1>1, <1>2, <2>3, IdleIs DEF Ending, Others, Distinct
    <3>. QED
      BY <1>1, <1>2, <1>4, <2>3, <3>1, RestsDistinct DEF told
  <2>. QED
    BY <2>2, <2>3 DEF Keeps
<1>5. CASE notExecuted' # notExecuted
  <2>1. PICK dropped : dropped = { RequestOf(stored.calls[k]) : k \in 2 .. Len(stored.calls) }
    OBVIOUS
  <2>2. stored # NoRun /\ notExecuted' = notExecuted \cup dropped
    <3>1. stored # NoRun /\ notExecuted' = notExecuted \cup
             IF CanMove(stored, "Cancelling") THEN dropped ELSE {}
      BY <1>5, <2>1 DEF CancelStored, Take
    <3>. QED
      BY <1>5, <3>1
  <2>3. stored.calls \in Seq(Calls) /\ Sound(stored)
    BY <2>2, StoredIs, PhaseTells
  <2>4. \A k \in 2 .. Len(stored.calls) :
           k \in DOMAIN stored.calls /\ k # 1 /\ stored.calls[k] \in Calls
    BY <2>3
  <2>5. dropped \subseteq Requests
    BY <2>1, <2>4 DEF RequestOf, Calls, Requests
  <2>6. Whole'
    BY <1>1, <1>2, <1>3, <2>2, <2>5, RestsKeeps DEF Whole, Typed, Values
  <2>7. ASSUME Distinct PROVE Distinct'
    <3>1. stored \in Held
      BY <2>2, HeldIs
    <3>2. \A k \in DOMAIN stored.calls :
             stored.calls[k].step <= stepIds /\ (k # 1 => ~Used(RequestOf(stored.calls[k])))
      BY <2>7, <3>1 DEF Distinct
    <3>3. \A q \in dropped : ~Used(q) /\ q.step <= stepIds
      BY <2>1, <2>4, <3>2 DEF RequestOf
    <3>4. \A q : Used(q)' <=> Used(q) \/ q \in dropped
      BY <1>1, <2>2 DEF Used
    <3>5. (RequestsTrue)'
      BY <1>1, <2>2, <2>7, <3>3 DEF Distinct, RequestsTrue, Used
    <3>6. \A q \in Requests : Used(q)' => q.step <= stepIds'
      BY <1>1, <2>7, <3>3, <3>4 DEF Distinct
    <3>7. Free
      BY <2>2, StoredAlone DEF Whole
    <3>8. snapshot' = NoRun
      BY <1>1, <2>7 DEF Distinct
    <3>9. \A d \in Tasks : task'[d].run = NoRun /\ ~(At(d, "asking"))'
      BY <1>2, <2>2, <3>7, StoredAlone, IdleIs DEF Whole, Others, Free, Carrying, Carries, Loops, At
    <3>10. Held' = {}
      BY <1>1, <3>8, <3>9 DEF Held
    <3>11. \A d \in Tasks : task'[d].step \in {"signalling", "cancelling"} => fenced'
      BY <1>1, <1>2, <2>7, IdleIs DEF Others, Distinct
    <3>. QED
      BY <3>5, <3>6, <3>8, <3>9, <3>10, <3>11 DEF Distinct
  <2>. QED
    BY <2>6, <2>7 DEF Keeps
<1>. QED
  BY <1>4, <1>5

LEMMA EvictKeeps ==
    ASSUME Whole, Evict
    PROVE  Keeps
<1>1. /\ stored # NoRun /\ stored' = NoRun /\ deferred' = {}
      /\ UNCHANGED <<inFlight, cancelled, task, input, aim, turns, open, waiting, snapshot, told,
                     forgotten, fenced, stepIds>>
  BY DEF Evict, bounds
<1>2. (TasksFit)'
  BY <1>1, TasksStay DEF Whole, Typed
<1>3. Rests /\ \A d \in Tasks : task[d].run = NoRun
  BY <1>1, StoredAlone DEF Rests, Whole
<1>4. (Values)'
  BY <1>1 DEF Whole, Typed, Values, told
<1>5. Alone'
  BY <1>3, RestsAlone DEF Whole
<1>6. (RunsFit)'
  BY <1>1 DEF Whole, Typed, RunsFit, Sound, RunOK, Queues, Apart
<1>7. Held' \subseteq Held /\ Alive' = {}
  BY <1>1, <1>3 DEF Held, Alive, Holding
<1>8. \A run \in Held : Inside(run) \subseteq Inputs
  BY HeldIs, TaskFacts, PhaseTells DEF Whole, Typed, RunsFit
<1>9. \A run \in Held' : /\ Inside(run) \subseteq Inputs
                         /\ \E q \in Held : Inside(run) \subseteq Inside(q) \cup (deferred \ deferred')
  BY <1>7, <1>8
<1>10. (AnsweredInTurn)'
  BY <1>1, AnsweredStays DEF Whole, Counted
<1>11. \A i \in Inputs : input'[i] = "accepted" <=> input[i] = "accepted"
  BY <1>1
<1>12. forgotten' = forgotten /\ deferred' \subseteq deferred
  BY <1>1
<1>13. Counted'
  BY <1>7, <1>9, <1>10, <1>11, <1>12, Counting DEF Whole
<1>14. ASSUME Distinct PROVE Distinct'
  <2>1. \A d \in Tasks : (Ending(d))' => fenced' /\ snapshot' = NoRun
    BY <1>1, <1>14 DEF Ending, Distinct
  <2>. QED
    BY <1>1, <1>2, <1>3, <1>14, <2>1, RestsDistinct
<1>. QED
  BY <1>2, <1>4, <1>5, <1>6, <1>13, <1>14 DEF Keeps, Whole, Typed

\* The way of an input that is not accepted yet changes nothing else.
LEMMA WaitingKeeps ==
    ASSUME Whole, NEW i \in Inputs, input[i] # "accepted", turns # 0,
           NEW state \in InputStates \ {"accepted"}, input' = [input EXCEPT ![i] = state],
           snapshot' \in {NoRun, snapshot}, aim' \in [Inputs -> 0 .. MaxTurns],
           UNCHANGED <<maps, task, turns, open, waiting, told, forgotten, fenced, stepIds>>
    PROVE  Keeps
<1>1. UNCHANGED <<stored, inFlight, cancelled, deferred>>
  BY DEF maps
<1>2. (TasksFit)'
  BY TasksStay DEF Whole, Typed
<1>3. Rests
  BY <1>1 DEF Rests
<1>4. input \in [Inputs -> InputStates]
  BY DEF Whole, Typed, Values
<1>5. input' \in [Inputs -> InputStates]
      /\ \A j \in Inputs : input'[j] = "accepted" <=> input[j] = "accepted"
  BY <1>4
<1>6. (Values)'
  BY <1>1, <1>5 DEF Whole, Typed, Values, told
<1>7. Whole'
  BY <1>1, <1>2, <1>3, <1>5, <1>6, RestsKeeps
<1>8. ASSUME Distinct PROVE Distinct'
  <2>1. \A d \in Tasks : (Ending(d))' => fenced' /\ snapshot' = NoRun
    BY <1>8 DEF Ending, Distinct
  <2>. QED
    BY <1>1, <1>2, <1>3, <1>8, <2>1, RestsDistinct
<1>. QED
  BY <1>7, <1>8 DEF Keeps

\* No input is on its way before the run was started.
LEMMA Started ==
    ASSUME Whole, NEW i \in Inputs, input[i] # "new"
    PROVE  turns # 0
  BY DEF Whole, Alone, Unborn

LEMMA InjectKeeps ==
    ASSUME Whole, NEW i \in Inputs, Inject(i)
    PROVE  Keeps
<1>1. /\ input[i] # "accepted" /\ turns # 0 /\ input' = [input EXCEPT ![i] = "recorded"]
      /\ aim' = [aim EXCEPT ![i] = turns] /\ snapshot' \in {NoRun, snapshot}
      /\ UNCHANGED <<maps, task, turns, open, waiting, told, forgotten, fenced, stepIds>>
  BY DEF Inject, Recorded, bounds, Whole, Typed, Values
<1>2. aim' \in [Inputs -> 0 .. MaxTurns]
  BY <1>1 DEF Whole, Typed, Values
<1>3. "recorded" \in InputStates \ {"accepted"}
  BY DEF InputStates
<1>. QED
  BY <1>1, <1>2, <1>3, WaitingKeeps

LEMMA LookInFlightKeeps ==
    ASSUME Whole, NEW i \in Inputs, LookInFlight(i)
    PROVE  Keeps
<1>1. PICK state \in {"found", "refused"} : input' = [input EXCEPT ![i] = state]
  BY DEF LookInFlight
<1>2. /\ input[i] # "accepted" /\ input[i] # "new" /\ snapshot' \in {NoRun, snapshot} /\ aim' = aim
      /\ UNCHANGED <<maps, task, turns, open, waiting, told, forgotten, fenced, stepIds>>
  BY DEF LookInFlight, bounds
<1>3. aim' \in [Inputs -> 0 .. MaxTurns] /\ turns # 0
  BY <1>2, Started DEF Whole, Typed, Values
<1>4. state \in InputStates \ {"accepted"}
  BY <1>1 DEF InputStates
<1>. QED
  BY <1>1, <1>2, <1>3, <1>4, WaitingKeeps

\* The stored run takes an input in.
LEMMA TakesInKeeps ==
    ASSUME Whole, NEW i \in Inputs, input[i] = "recorded", stored # NoRun,
           input' = [input EXCEPT ![i] = "accepted"],
           stored' = [Queued(stored, {i}) EXCEPT !.accepted = @ + 1],
           UNCHANGED <<inFlight, cancelled, deferred, task, aim, turns, open, waiting, snapshot,
                       told, forgotten, fenced, stepIds>>
    PROVE  Keeps
<1>1. /\ Sound(stored) /\ stored.phase \in Resting
  BY StoredIs
<1>2. stored \in Held /\ Alive = {stored} /\ \A d \in Tasks : task[d].run = NoRun
  BY StoredAlone DEF Whole
<1>3. i \notin Inside(stored) /\ i \notin deferred
  BY <1>2 DEF Whole, Counted
<1>4. PICK r : r = [Queued(stored, {i}) EXCEPT !.accepted = @ + 1]
  OBVIOUS
<1>5. /\ Sound(r) /\ r.phase = stored.phase /\ r.calls = stored.calls /\ r # NoRun
      /\ Inside(r) = Inside(stored) \cup {i}
  BY <1>1, <1>3, <1>4, AcceptedSound, RunsAreRuns
<1>6. stored' = r
  BY <1>4
<1>7. (TasksFit)'
  BY TasksStay DEF Whole, Typed
<1>8. Rests
  BY <1>5, <1>6, Started DEF Rests
<1>9. Alone'
  BY <1>8, RestsAlone DEF Whole
<1>10. (RunsFit)'
  BY <1>1, <1>5, <1>6, RunsKept DEF Whole, Typed, RunsFit
<1>11. input \in [Inputs -> InputStates] /\ "accepted" \in InputStates
  BY DEF Whole, Typed, Values, InputStates
<1>12. (Values)'
  BY <1>11 DEF Whole, Typed, Values, told
<1>13. input'[i] = "accepted" /\ \A j \in Inputs : j # i => input'[j] = input[j]
  BY <1>11
<1>14. Counted'
  <2>1. \A j \in deferred' : input'[j] = "accepted"
    BY <1>3, <1>13 DEF Whole, Counted, Typed, Values
  <2>2. ASSUME NEW run \in Held', NEW j \in Inside(run)
        PROVE  input'[j] = "accepted" /\ j \notin deferred'
    <3>1. run = r \/ run \in Held
      BY <1>2, <1>6 DEF Held
    <3>2. j = i \/ \E q \in Held : j \in Inside(q)
      BY <1>2, <1>5, <2>2, <3>1
    <3>3. CASE j = i
      BY <1>3, <1>13, <3>3
    <3>4. CASE j # i
      <4>1. input[j] = "accepted" /\ j \notin deferred
        BY <3>2, <3>4 DEF Whole, Counted
      <4>2. j \in Inputs
        BY <3>2, <3>4, HeldIs, TaskFacts, PhaseTells DEF Whole, Typed, RunsFit
      <4>. QED
        BY <1>13, <3>4, <4>1, <4>2
    <3>. QED
      BY <3>3, <3>4
  <2>3. Alive' = {r}
    BY <1>2, <1>5, <1>6 DEF Alive, Holding
  <2>4. \A run \in Alive' : \A j \in Inputs \ forgotten' :
           input'[j] = "accepted" => j \in deferred' \cup Inside(run)
    BY <1>2, <1>5, <1>13, <2>3 DEF Whole, Counted
  <2>5. (AnsweredInTurn)'
    BY AnsweredStays DEF Whole, Counted
  <2>. QED
    BY <2>1, <2>2, <2>4, <2>5 DEF Counted
<1>15. ASSUME Distinct PROVE Distinct'
  <2>1. \A run \in Held' : run.calls = <<>> \/ \E q \in Held : run.calls = q.calls
    BY <1>2, <1>5, <1>6 DEF Held
  <2>2. \A d \in Tasks : (Ending(d))' => fenced' /\ snapshot' = NoRun
    BY <1>15 DEF Ending, Distinct
  <2>3. \A d \in Tasks : (At(d, "asking"))' => At(d, "asking")
    BY DEF At
  <2>4. stepIds \in Nat /\ stepIds' \in Nat /\ stepIds <= stepIds'
    BY DEF Whole, Typed, Values
  <2>. QED
    BY <1>15, <2>1, <2>2, <2>3, <2>4, Numbering DEF Whole
<1>. QED
  BY <1>7, <1>9, <1>10, <1>12, <1>14, <1>15 DEF Keeps, Whole, Typed

LEMMA LookUpKeeps ==
    ASSUME Whole, NEW i \in Inputs, LookUp(i)
    PROVE  Keeps
<1>1. /\ input[i] = "recorded"
      /\ UNCHANGED <<inFlight, cancelled, deferred, task, aim, turns, open, waiting, snapshot,
                     told, forgotten, fenced, stepIds>>
  BY DEF LookUp, bounds
<1>2. CASE /\ stored # NoRun /\ input' = [input EXCEPT ![i] = "accepted"]
           /\ stored' = [Queued(stored, {i}) EXCEPT !.accepted = @ + 1]
  BY <1>1, <1>2, TakesInKeeps
<1>3. ASSUME NEW state \in {"missed", "refused"}, input' = [input EXCEPT ![i] = state],
             stored' = stored
      PROVE  Keeps
  <2>1. state \in InputStates \ {"accepted"}
    BY <1>3 DEF InputStates
  <2>2. turns # 0 /\ snapshot' \in {NoRun, snapshot} /\ aim' \in [Inputs -> 0 .. MaxTurns]
        /\ input[i] # "accepted"
    BY <1>1, Started DEF Whole, Typed, Values
  <2>3. UNCHANGED <<maps, task, turns, open, waiting, told, forgotten, fenced, stepIds>>
    BY <1>1, <1>3 DEF maps
  <2>. QED
    BY <1>3, <2>1, <2>2, <2>3, WaitingKeeps
<1>. QED
  BY <1>2, <1>3 DEF LookUp

\* An input that is deferred is in no inbox yet.
LEMMA DeferKeeps ==
    ASSUME Whole, NEW i \in Inputs, Defer(i)
    PROVE  Keeps
<1>1. /\ input[i] = "found" /\ deferred' = deferred \cup {i}
      /\ input' = [input EXCEPT ![i] = "accepted"]
      /\ UNCHANGED <<stored, inFlight, cancelled, task, aim, turns, open, waiting, snapshot,
                     told, forgotten, fenced, stepIds>>
  BY DEF Defer, bounds
<1>2. (TasksFit)'
  BY <1>1, TasksStay DEF Whole, Typed
<1>3. Rests
  BY <1>1, Started DEF Rests
<1>4. Alone'
  BY <1>3, RestsAlone DEF Whole
<1>5. (RunsFit)'
  BY <1>1 DEF Whole, Typed, RunsFit, Sound, RunOK, Queues, Apart
<1>6. input \in [Inputs -> InputStates] /\ "accepted" \in InputStates
  BY DEF Whole, Typed, Values, InputStates
<1>7. (Values)'
  BY <1>1, <1>6 DEF Whole, Typed, Values, told
<1>8. input'[i] = "accepted" /\ \A j \in Inputs : j # i => input'[j] = input[j]
  BY <1>1, <1>6
<1>9. Held' = Held /\ Alive' = Alive
  BY <1>1 DEF Held, Alive, Holding
<1>10. Counted'
  <2>1. \A j \in deferred' : input'[j] = "accepted"
    BY <1>1, <1>8 DEF Whole, Counted, Typed, Values
  <2>2. ASSUME NEW run \in Held, NEW j \in Inside(run)
        PROVE  input'[j] = "accepted" /\ j \notin deferred'
    <3>1. input[j] = "accepted" /\ j \notin deferred
      BY DEF Whole, Counted
    <3>2. j \in Inputs
      BY HeldIs, TaskFacts, PhaseTells DEF Whole, Typed, RunsFit
    <3>. QED
      BY <1>1, <1>8, <3>1, <3>2
  <2>3. \A run \in Alive' : \A j \in Inputs \ forgotten' :
           input'[j] = "accepted" => j \in deferred' \cup Inside(run)
    BY <1>1, <1>8, <1>9 DEF Whole, Counted
  <2>4. (AnsweredInTurn)'
    BY <1>1, AnsweredStays DEF Whole, Counted
  <2>. QED
    BY <1>9, <2>1, <2>2, <2>3, <2>4 DEF Counted
<1>11. ASSUME Distinct PROVE Distinct'
  <2>1. \A d \in Tasks : (Ending(d))' => fenced' /\ snapshot' = NoRun
    BY <1>1, <1>11 DEF Ending, Distinct
  <2>2. stored' \in {NoRun, stored} /\ UNCHANGED <<told, stepIds>>
    BY <1>1
  <2>. QED
    BY <1>2, <1>3, <1>11, <2>1, <2>2, RestsDistinct
<1>. QED
  BY <1>2, <1>4, <1>5, <1>7, <1>10, <1>11 DEF Keeps, Whole, Typed

------------------------------------------------------------------------------
(* Checkpoints, restarts and the start keep it all                           *)

\* Only a run that waits for what it asked for is checkpointed.
LEMMA CheckpointKeeps ==
    ASSUME Whole, Checkpoint
    PROVE  Keeps
<1>1. /\ stored # NoRun /\ Request(stored) \in open
      /\ snapshot' = (IF fenced THEN NoRun ELSE stored)
      /\ waiting' = (stored.calls # <<>>) /\ open' = open \ {Question}
      /\ UNCHANGED <<stored, inFlight, cancelled, deferred, task, input, aim, turns, told,
                     forgotten, fenced, stepIds>>
  BY DEF Checkpoint, maps, bounds
<1>2. /\ Sound(stored) /\ Free /\ turns # 0 /\ stored \in Held
      /\ stored.calls # <<>> <=> stored.phase = "ToolPending"
  BY <1>1, StoredAlone, PhaseTells DEF Whole
<1>3. stored.phase \in {"ToolPending", "AwaitingInput"}
      /\ (stored.phase = "AwaitingInput" => Question \in open)
  <2>1. CASE stored.calls = <<>>
    BY <1>1, <1>2, <2>1 DEF Request, Whole, Alone, Asked
  <2>2. CASE stored.calls # <<>>
    BY <1>2, <2>2
  <2>. QED
    BY <2>1, <2>2
<1>4. \A d \in Tasks : ~At(d, "resuming")
  BY <1>1, <1>2, <1>3 DEF Whole, Alone, Resuming, Request
<1>5. (TasksFit)'
  BY <1>1, TasksStay DEF Whole, Typed
<1>6. (RunsFit)'
  <2>1. stored.phase \in Resting
    BY <1>1, StoredIs
  <2>. QED
    BY <1>1, <1>2, <1>3, <2>1, RunsKept
<1>7. (Values)'
  <2>1. waiting' \in BOOLEAN /\ open' \subseteq open
    BY <1>1
  <2>. QED
    BY <1>1, <2>1 DEF Whole, Typed, Values, told
<1>8. Alone'
  <2>1. (Free)' /\ \A d \in Tasks : (At(d, "resuming"))' <=> At(d, "resuming")
    BY <1>1, <1>2 DEF Free, Carrying, At
  <2>2. (Asked)' /\ (Resuming)' /\ (Unborn)'
    BY <1>1, <1>2, <1>4, <2>1 DEF Asked, Resuming, Unborn
  <2>. QED
    BY <1>1, <2>1, <2>2 DEF Whole, Alone, Carrying
<1>9. Held' \subseteq Held /\ Alive' = Alive
  BY <1>1, <1>2 DEF Held, Alive, Holding
<1>10. Counted'
  <2>1. (AnsweredInTurn)'
    BY <1>1, AnsweredStays DEF Whole, Counted
  <2>. QED
    BY <1>1, <1>9, <2>1 DEF Whole, Counted
<1>11. ASSUME Distinct PROVE Distinct'
  <2>1. \A run \in Held' : run.calls = <<>> \/ \E q \in Held : run.calls = q.calls
    BY <1>9
  <2>2. \A d \in Tasks : (Ending(d))' => fenced' /\ snapshot' = NoRun
    BY <1>1, <1>11 DEF Ending, Distinct
  <2>3. \A d \in Tasks : (At(d, "asking"))' => At(d, "asking")
    BY <1>1 DEF At
  <2>4. stepIds \in Nat /\ stepIds' = stepIds /\ UNCHANGED told
    BY <1>1 DEF Whole, Typed, Values
  <2>. QED
    BY <1>11, <2>1, <2>2, <2>3, <2>4, Numbering DEF Whole
<1>. QED
  BY <1>5, <1>6, <1>7, <1>8, <1>10, <1>11 DEF Keeps, Whole, Typed

\* Of a crash only the journal is left, with the checkpoint in it.
LEMMA CrashKeeps ==
    ASSUME Whole, Crash
    PROVE  Keeps
<1>1. /\ stored' = NoRun /\ inFlight' = FALSE /\ cancelled' = FALSE /\ deferred' = {} /\ open' = {}
      /\ task' = [c \in Tasks |-> Idle]
      /\ input' = [i \in Inputs |-> IF input[i] \in {"new", "accepted"} THEN input[i] ELSE "refused"]
      /\ UNCHANGED <<aim, turns, waiting, snapshot, told, forgotten, fenced, stepIds>>
  BY DEF Crash
<1>2. \A d \in Tasks : task'[d] = Idle
  BY <1>1
<1>3. (TasksFit)'
  <2>1. task' \in [Tasks -> TaskRecords] /\ \A d \in Tasks : Fits(task'[d])
    BY <1>1, <1>2, IdleIs
  <2>. QED
    BY <2>1 DEF TasksFit, Fits, Sound, RunOK, Queues, Apart
<1>4. (RunsFit)'
  BY <1>1, RunsKept DEF Whole, Typed, RunsFit
<1>5. input \in [Inputs -> InputStates]
  BY DEF Whole, Typed, Values
<1>6. input' \in [Inputs -> InputStates]
      /\ \A i \in Inputs : input'[i] = "accepted" <=> input[i] = "accepted"
  BY <1>1, <1>5 DEF InputStates
<1>7. (Values)'
  BY <1>1, <1>6 DEF Whole, Typed, Values, told
<1>8. \A d \in Tasks : task'[d].run = NoRun /\ task'[d].step = "idle"
  BY <1>2, IdleIs
<1>9. Alone'
  <2>1. (Free)' /\ \A d \in Tasks : ~(At(d, "resuming"))' /\ task'[d].step \notin Loops
    BY <1>8 DEF Free, Carrying, Carries, Loops, At
  <2>2. (Unborn)'
    <3>1. ASSUME turns = 0 PROVE snapshot = NoRun /\ input' = [i \in Inputs |-> "new"]
      BY <1>1, <3>1 DEF Whole, Alone, Unborn
    <3>. QED
      BY <1>1, <3>1 DEF Unborn
  <2>3. (Asked)' /\ (Resuming)'
    BY <1>1, <2>1 DEF Asked, Resuming
  <2>. QED
    BY <1>1, <2>1, <2>2, <2>3 DEF Alone, Free
<1>10. Held' \subseteq Held /\ Alive' = {}
  BY <1>1, <1>8 DEF Held, Alive, Holding
<1>11. Counted'
  <2>1. (AnsweredInTurn)'
    BY <1>8 DEF AnsweredInTurn
  <2>2. \A run \in Held : Inside(run) \subseteq Inputs
    BY HeldIs, TaskFacts, PhaseTells DEF Whole, Typed, RunsFit
  <2>3. \A run \in Held' : /\ Inside(run) \subseteq Inputs
                           /\ \E q \in Held : Inside(run) \subseteq Inside(q) \cup (deferred \ deferred')
    BY <1>10, <2>2
  <2>4. forgotten' = forgotten /\ deferred' \subseteq deferred
    BY <1>1
  <2>. QED
    BY <1>6, <1>10, <2>1, <2>3, <2>4, Counting DEF Whole
<1>12. ASSUME Distinct PROVE Distinct'
  <2>1. \A run \in Held' : run.calls = <<>> \/ \E q \in Held : run.calls = q.calls
    BY <1>10
  <2>2. \A d \in Tasks : ~(Ending(d))' /\ ~(At(d, "asking"))'
    BY <1>8 DEF Ending, At
  <2>3. stepIds \in Nat /\ stepIds' = stepIds /\ UNCHANGED told
    BY <1>1 DEF Whole, Typed, Values
  <2>. QED
    BY <1>12, <2>1, <2>2, <2>3, Numbering DEF Whole
<1>. QED
  BY <1>3, <1>4, <1>7, <1>9, <1>11, <1>12 DEF Keeps, Whole, Typed

\* The run a checkpoint restores is nowhere else, and what it forgot is known.
LEMMA RestoredKeeps ==
    ASSUME Whole, NEW c \in Tasks, task[c].step = "idle", snapshot # NoRun, stored = NoRun,
           stored' = snapshot, snapshot' = NoRun, cancelled' = FALSE, ~inFlight,
           forgotten' = { i \in Inputs : input[i] = "accepted" } \ Inside(snapshot),
           \/ snapshot.calls # <<>> /\ open' = {Request(snapshot)} /\ UNCHANGED task
           \/ snapshot.calls = <<>> /\ To(c, "resuming", NoRun) /\ UNCHANGED open,
           UNCHANGED <<inFlight, deferred, input, aim, turns, waiting, told, fenced, stepIds>>
    PROVE  Keeps
<1>1. /\ Sound(snapshot) /\ snapshot.phase \in {"ToolPending", "AwaitingInput"}
      /\ snapshot.calls # <<>> <=> snapshot.phase = "ToolPending"
      /\ Inside(snapshot) \subseteq Inputs
  BY PhaseTells DEF Whole, Typed, RunsFit
<1>2. Free /\ TasksFit /\ turns # 0 /\ \A d \in Tasks : ~At(d, "resuming")
  BY DEF Whole, Typed, Alone, Resuming, Unborn
<1>3. \A d \in Tasks : task[d].run = NoRun /\ task[d].step \notin Carries
  BY <1>2, TaskFacts DEF Free, Carrying
<1>4. /\ (TasksFit)'
      /\ \A d \in Tasks : task'[d].run = NoRun /\ task'[d].step \notin Carries
                          /\ (task'[d] = task[d] \/ (d = c /\ task'[d].step = "resuming"))
  <2>1. CASE task' = task
    BY <1>2, <1>3, <2>1, TasksStay
  <2>2. CASE To(c, "resuming", NoRun)
    <3>1. Becomes(c, "resuming", NoRun, FALSE, FALSE)
      BY <1>2, <2>2, ToBecomes DEF Tasking
    <3>2. Fits(task'[c])
      BY <3>1 DEF Becomes, Fits, Carries, Loops
    <3>3. (TasksFit)'
      BY <1>2, <3>1, <3>2, BecomesFits
    <3>4. "resuming" \notin Carries
      BY DEF Carries, Loops
    <3>. QED
      BY <1>3, <3>1, <3>3, <3>4 DEF Becomes, Others
  <2>. QED
    BY <2>1, <2>2
<1>5. (RunsFit)'
  BY <1>1, RunsKept DEF Resting
<1>6. Question \notin open' /\ open' \subseteq Requests \cup {Question}
      /\ ((\E d \in Tasks : (At(d, "resuming"))') => stored'.phase = "AwaitingInput")
  <2>1. CASE snapshot.calls # <<>> /\ open' = {Request(snapshot)} /\ UNCHANGED task
    BY <1>1, <1>2, <2>1, RequestIs DEF At
  <2>2. CASE snapshot.calls = <<>> /\ open' = open
    BY <1>1, <2>2 DEF Whole, Typed, Values, Alone, Asked
  <2>. QED
    BY <2>1, <2>2
<1>7. (Values)'
  BY <1>6 DEF Whole, Typed, Values, told
<1>8. Alone'
  <2>1. (Free)' /\ \A d \in Tasks : task'[d].step \notin Loops
    BY <1>4 DEF Free, Carrying, Carries
  <2>2. \A d \in Tasks : (At(d, "resuming"))' => d = c
    BY <1>2, <1>4 DEF At
  <2>3. (Asked)' /\ (Resuming)' /\ (Unborn)'
    BY <1>2, <1>6, <2>1, <2>2 DEF Asked, Resuming, Unborn
  <2>. QED
    BY <2>1, <2>3 DEF Alone, Free
<1>9. Held' = {snapshot} /\ Alive' = {snapshot} /\ snapshot \in Held
  BY <1>4 DEF Held, Alive, Holding
<1>10. Counted'
  <2>1. (AnsweredInTurn)'
    BY <1>4 DEF AnsweredInTurn, Carries, Loops
  <2>2. \A run \in Held' : \A i \in Inside(run) : input'[i] = "accepted" /\ i \notin deferred'
    BY <1>9 DEF Whole, Counted
  <2>3. \A i \in Inputs \ forgotten' : input'[i] = "accepted" => i \in Inside(snapshot)
    OBVIOUS
  <2>. QED
    BY <1>9, <2>1, <2>2, <2>3 DEF Whole, Counted
<1>11. ASSUME Distinct PROVE Distinct'
  <2>1. \A run \in Held' : run.calls = <<>> \/ \E q \in Held : run.calls = q.calls
    BY <1>9
  <2>2. \A d \in Tasks : ~Ending(d)
    BY <1>11 DEF Distinct, Ending
  <2>3. \A d \in Tasks : ~(Ending(d))'
    BY <1>4, <2>2 DEF Ending
  <2>4. \A d \in Tasks : ~(At(d, "asking"))'
    BY <1>4 DEF At, Carries, Loops
  <2>5. stepIds \in Nat /\ stepIds' = stepIds /\ UNCHANGED told
    BY DEF Whole, Typed, Values
  <2>. QED
    BY <1>11, <2>1, <2>3, <2>4, <2>5, Numbering DEF Whole
<1>. QED
  BY <1>4, <1>5, <1>7, <1>8, <1>10, <1>11 DEF Keeps, Whole, Typed

LEMMA RestoreKeeps ==
    ASSUME Whole, NEW c \in Tasks, Restore(c)
    PROVE  Keeps
<1>1. /\ task[c].step = "idle" /\ snapshot # NoRun /\ snapshot' = NoRun
      /\ UNCHANGED <<inFlight, deferred, input, aim, turns, waiting, told, fenced, stepIds>>
  BY DEF Restore, At, Claimable, Recorded, bounds
<1>2. CASE stored = NoRun /\ ~inFlight /\ Restorable(snapshot)
  <2>1. /\ stored' = snapshot /\ cancelled' = FALSE
        /\ forgotten' = { i \in Inputs : input[i] = "accepted" } \ Inside(snapshot)
    BY <1>2 DEF Restore, Inside
  <2>2. \/ snapshot.calls # <<>> /\ open' = {Request(snapshot)} /\ UNCHANGED task
        \/ snapshot.calls = <<>> /\ To(c, "resuming", NoRun) /\ UNCHANGED open
    BY <1>2 DEF Restore
  <2>. QED
    BY <1>1, <1>2, <2>1, <2>2, RestoredKeeps
<1>3. CASE ~(stored = NoRun /\ ~inFlight /\ Restorable(snapshot))
  <2>1. UNCHANGED <<stored, cancelled, forgotten, task, open>>
    BY <1>3 DEF Restore
  <2>2. (TasksFit)'
    BY <2>1, TasksStay DEF Whole, Typed
  <2>3. turns # 0
    BY <1>1 DEF Whole, Alone, Unborn
  <2>4. Rests
    BY <1>1, <2>1, <2>3 DEF Rests
  <2>5. (Values)'
    BY <1>1, <2>1 DEF Whole, Typed, Values, told
  <2>6. Whole'
    BY <1>1, <2>1, <2>2, <2>4, <2>5, RestsKeeps
  <2>7. ASSUME Distinct PROVE Distinct'
    <3>1. \A d \in Tasks : (Ending(d))' => fenced' /\ snapshot' = NoRun
      BY <1>1, <2>1, <2>7 DEF Ending, Distinct
    <3>2. stored' \in {NoRun, stored}
      BY <2>1
    <3>. QED
      BY <1>1, <2>2, <2>4, <2>7, <3>1, <3>2, RestsDistinct
  <2>. QED
    BY <2>6, <2>7 DEF Keeps
<1>. QED
  BY <1>2, <1>3

LEMMA StartKeeps ==
    ASSUME Whole, NEW c \in Tasks, Start(c)
    PROVE  Keeps
<1>1. /\ turns = 0 /\ turns' = 1 /\ To(c, "prepared", TurnBegun(NewRun))
      /\ UNCHANGED <<stored, inFlight, cancelled, deferred, input, aim, open, waiting, snapshot,
                     told, forgotten, fenced, stepIds>>
  BY DEF Start, maps, bounds
<1>2. /\ stored = NoRun /\ snapshot = NoRun /\ open = {}
      /\ \A d \in Tasks : task[d] = Idle
      /\ \A i \in Inputs : input[i] = "new"
  BY <1>1 DEF Whole, Alone, Unborn
<1>3. PICK run : run = TurnBegun(NewRun)
  OBVIOUS
<1>4. Sound(run) /\ run \in Runs /\ run.calls = <<>> /\ Inside(run) = {}
  BY <1>3, NewRunSound, TurnBegunSound DEF Sound
<1>5. TasksFit
  BY DEF Whole, Typed
<1>6. Becomes(c, "prepared", run, FALSE, FALSE)
  BY <1>1, <1>3, <1>4, <1>5, ToBecomes DEF Tasking
<1>7. Fits(task'[c])
  BY <1>4, <1>6 DEF Becomes, Fits, Carries, Loops
<1>8. (TasksFit)'
  BY <1>5, <1>6, <1>7, BecomesFits
<1>9. (RunsFit)'
  BY <1>1, <1>2, RunsKept
<1>10. (Values)'
  <2>1. turns' \in 0 .. MaxTurns
    <3>1. MaxTurns \in Nat \ {0}
      BY HarnessAssumption
    <3>. QED
      BY <1>1, <3>1
  <2>. QED
    BY <1>1, <2>1 DEF Whole, Typed, Values, told
<1>11. \A d \in Tasks : d # c => task'[d].step = "idle" /\ task'[d].run = NoRun
  BY <1>2, <1>6, IdleIs DEF Becomes, Others
<1>12. task'[c].step = "prepared" /\ task'[c].run = run
  BY <1>6 DEF Becomes
<1>13. Alone'
  <2>1. \A d \in Tasks : task'[d].step \notin Loops /\ ~(At(d, "resuming"))'
    BY <1>11, <1>12 DEF Loops, At
  <2>2. \A d \in Tasks : (Carrying(d))' => d = c
    BY <1>11 DEF Carrying, Carries, Loops
  <2>3. ~inFlight
    BY <1>2, IdleIs DEF Whole, Alone, Loops
  <2>4. (Asked)' /\ (Resuming)' /\ (Unborn)'
    BY <1>1, <1>2, <2>1 DEF Asked, Resuming, Unborn
  <2>. QED
    BY <1>1, <1>2, <2>1, <2>2, <2>3, <2>4 DEF Alone
<1>14. \A r \in Held' : r = run
  BY <1>1, <1>2, <1>11, <1>12 DEF Held
<1>15. Counted'
  <2>1. (AnsweredInTurn)'
    BY <1>11, <1>12 DEF AnsweredInTurn
  <2>2. \A i \in deferred' : input'[i] = "accepted"
    BY <1>1 DEF Whole, Counted
  <2>3. \A i \in Inputs : input'[i] # "accepted"
    BY <1>1, <1>2
  <2>. QED
    BY <1>4, <1>14, <2>1, <2>2, <2>3 DEF Counted
<1>16. ASSUME Distinct PROVE Distinct'
  <2>1. \A r \in Held' : r.calls = <<>> \/ \E q \in Held : r.calls = q.calls
    BY <1>4, <1>14
  <2>2. \A d \in Tasks : ~(Ending(d))' /\ ~(At(d, "asking"))'
    BY <1>11, <1>12 DEF Ending, At
  <2>3. stepIds \in Nat /\ stepIds' = stepIds /\ UNCHANGED told
    BY <1>1 DEF Whole, Typed, Values
  <2>. QED
    BY <1>16, <2>1, <2>2, <2>3, Numbering DEF Whole
<1>. QED
  BY <1>8, <1>9, <1>10, <1>13, <1>15, <1>16 DEF Keeps, Whole, Typed

------------------------------------------------------------------------------
(* The invariant                                                             *)

LEMMA InitWhole == Init => Whole /\ Distinct
<1>. SUFFICES ASSUME Init PROVE Whole /\ Distinct
  OBVIOUS
<1>1. /\ stored = NoRun /\ inFlight = FALSE /\ cancelled = FALSE /\ deferred = {}
      /\ task = [c \in Tasks |-> Idle] /\ \A c \in Tasks : task[c] = Idle
      /\ input = [i \in Inputs |-> "new"] /\ aim = [i \in Inputs |-> 0]
      /\ turns = 0 /\ open = {} /\ waiting = FALSE
      /\ snapshot = NoRun /\ requested = <<>> /\ notExecuted = {} /\ forgotten = {}
      /\ fenced = FALSE /\ stepIds = 0
  BY DEF Init
<1>2. \A c \in Tasks : task[c].run = NoRun /\ task[c].step = "idle"
  BY <1>1, IdleIs
<1>3. TasksFit
  BY <1>1, IdleIs DEF TasksFit
<1>4. RunsFit
  BY <1>1 DEF RunsFit
<1>5. Values
  <2>1. 0 \in 0 .. MaxTurns
    <3>1. MaxTurns \in Nat \ {0}
      BY HarnessAssumption
    <3>. QED
      BY <3>1
  <2>2. <<>> \in Seq(Requests) /\ "new" \in InputStates
    BY DEF InputStates
  <2>3. aim \in [Inputs -> 0 .. MaxTurns] /\ input \in [Inputs -> InputStates]
    BY <1>1, <2>1, <2>2
  <2>. QED
    BY <1>1, <2>1, <2>2, <2>3 DEF Values
<1>6. Alone
  <2>1. Free /\ \A c \in Tasks : ~At(c, "resuming") /\ task[c].step \notin Loops
    BY <1>2 DEF Free, Carrying, Carries, Loops, At
  <2>. QED
    BY <1>1, <2>1 DEF Alone, Free, Asked, Resuming, Unborn
<1>7. Held = {} /\ Alive = {}
  BY <1>1, <1>2 DEF Held, Alive, Holding
<1>8. Counted
  <2>1. AnsweredInTurn
    BY <1>2 DEF AnsweredInTurn
  <2>. QED
    BY <1>1, <1>7, <2>1 DEF Counted
<1>9. Distinct
  <2>1. DOMAIN requested = {}
    BY <1>1
  <2>2. RequestsTrue
    BY <2>1 DEF RequestsTrue
  <2>3. \A q : ~Used(q)
    BY <1>1, <2>1 DEF Used
  <2>. QED
    BY <1>2, <1>7, <2>2, <2>3 DEF Distinct, At
<1>. QED
  BY <1>3, <1>4, <1>5, <1>6, <1>8, <1>9 DEF Whole, Typed

LEMMA StutterKeeps ==
    ASSUME Whole, UNCHANGED vars
    PROVE  Keeps
<1>1. UNCHANGED <<stored, inFlight, cancelled, deferred, task, input, aim, turns, open, waiting,
                  snapshot, requested, notExecuted, forgotten, fenced, stepIds>>
  BY DEF vars
<1>2. (TasksFit)'
  BY <1>1, TasksStay DEF Whole, Typed
<1>3. (RunsFit)'
  BY <1>1, RunsKept DEF Whole, Typed, RunsFit
<1>4. (Values)'
  BY <1>1 DEF Whole, Typed, Values
<1>5. Alone'
  BY <1>1 DEF Whole, Alone, Free, Carrying, Asked, Resuming, Unborn, At
<1>6. Held' = Held /\ Alive' = Alive
  BY <1>1 DEF Held, Alive, Holding
<1>7. Counted'
  <2>1. (AnsweredInTurn)'
    BY <1>1, AnsweredStays DEF Whole, Counted
  <2>. QED
    BY <1>1, <1>6, <2>1 DEF Whole, Counted
<1>8. ASSUME Distinct PROVE Distinct'
  <2>1. \A run \in Held' : run.calls = <<>> \/ \E q \in Held : run.calls = q.calls
    BY <1>6
  <2>2. \A d \in Tasks : (Ending(d))' => fenced' /\ snapshot' = NoRun
    BY <1>1, <1>8 DEF Ending, Distinct
  <2>3. \A d \in Tasks : (At(d, "asking"))' => At(d, "asking")
    BY <1>1 DEF At
  <2>4. stepIds \in Nat /\ stepIds' = stepIds /\ UNCHANGED told
    BY <1>1 DEF Whole, Typed, Values, told
  <2>. QED
    BY <1>8, <2>1, <2>2, <2>3, <2>4, Numbering DEF Whole
<1>. QED
  BY <1>2, <1>3, <1>4, <1>5, <1>7, <1>8 DEF Keeps, Whole, Typed

LEMMA NextKeeps ==
    ASSUME Whole, [Next]_vars
    PROVE  Keeps
<1>1. ASSUME NEW c \in Tasks, Start(c) \/ Continue(c) \/ Resume(c) \/ PutBack(c) \/ Restore(c)
      PROVE  Keeps
  BY <1>1, StartKeeps, ContinueKeeps, ResumeKeeps, PutBackKeeps, RestoreKeeps
<1>2. ASSUME NEW c \in Tasks, NEW request \in open, NEW outcome \in {"good", "stuck", "bad"},
             Result(c, request, outcome)
      PROVE  Keeps
  BY <1>2, ResultKeeps
<1>3. ASSUME NEW c \in Tasks, Cancel(c) \/ Signal(c) \/ CancelStored(c)
      PROVE  Keeps
  BY <1>3, CancelKeeps, SignalKeeps, CancelStoredKeeps
<1>4. ASSUME NEW c \in Tasks, Loop(c)
      PROVE  Keeps
  <2>1. CASE \E timing \in {"timely", "late"} : BeginStep(c, timing)
    BY <2>1, BeginStepKeeps
  <2>2. CASE \E count \in 1 .. MaxCalls : AnswerCalls(c, count)
    BY <2>2, AnswerCallsKeeps
  <2>3. CASE \E answer \in {"text", "empty", "stuck", "error"} : Answer(c, answer)
    BY <2>3, AnswerKeeps
  <2>4. CASE Register(c) \/ Complete(c) \/ Leave(c) \/ Store(c)
    BY <2>4, RegisterKeeps, CompleteKeeps, LeaveKeeps, StoreKeeps
  <2>. QED
    BY <1>4, <2>1, <2>2, <2>3, <2>4 DEF Loop
<1>5. ASSUME NEW i \in Inputs, Inject(i) \/ LookUp(i) \/ LookInFlight(i) \/ Defer(i)
      PROVE  Keeps
  BY <1>5, InjectKeeps, LookUpKeeps, LookInFlightKeeps, DeferKeeps
<1>6. CASE Evict \/ Checkpoint \/ Crash
  BY <1>6, EvictKeeps, CheckpointKeeps, CrashKeeps
<1>7. CASE UNCHANGED vars
  BY <1>7, StutterKeeps
<1>. QED
  BY <1>1, <1>2, <1>3, <1>4, <1>5, <1>6, <1>7 DEF Next

\* The invariant, whatever clients do and however the commands' accesses to the three
\* maps interleave: every run agrees with itself, the run is in one place, and every
\* accepted input is with it or deferred.
THEOREM AlwaysWhole == Spec => []Whole
<1>1. Init => Whole
  BY InitWhole
<1>2. Whole /\ [Next]_vars => Whole'
  BY NextKeeps DEF Keeps
<1>. QED
  BY <1>1, <1>2, PTL DEF Spec

------------------------------------------------------------------------------
(* What the invariant says                                                   *)

\* The map of stored runs, the checkpoint and the tasks hold nothing but runs that
\* agree with themselves, and a stored run waits for something or is over: no step of
\* the model loop and no restart puts down a run between two phases.
THEOREM TypeCorrect == Spec => []TypeOK
<1>1. Whole => TypeOK
  <2>. SUFFICES ASSUME Whole PROVE TypeOK
    OBVIOUS
  <2>1. \A c \in Tasks : task[c].run = NoRun \/ RunOK(task[c].run)
    BY TaskFacts DEF Whole, Typed, Sound
  <2>2. /\ stored # NoRun => RunOK(stored) /\ stored.phase \in {"ToolPending", "TurnFinished", "AwaitingInput"}
        /\ snapshot # NoRun => RunOK(snapshot)
    BY DEF Whole, Typed, RunsFit, Sound, Resting
  <2>3. \A c \in Tasks : task[c].step \in Tasking
    <3>1. \A c \in Tasks : task[c] \in TaskRecords
      BY DEF Whole, Typed, TasksFit
    <3>. QED
      BY <3>1 DEF TaskRecords
  <2>4. \A run \in {stored, snapshot} \cup { task[c].run : c \in Tasks } : run = NoRun \/ RunOK(run)
    BY <2>1, <2>2
  <2>5. /\ {inFlight, cancelled, waiting, fenced} \subseteq BOOLEAN /\ deferred \cup forgotten \subseteq Inputs
        /\ input \in [Inputs -> {"new", "recorded", "missed", "found", "accepted", "refused"}]
        /\ aim \in [Inputs -> 0 .. MaxTurns]
    BY DEF Whole, Typed, Values, InputStates
  <2>. QED
    BY <2>2, <2>3, <2>4, <2>5 DEF TypeOK
<1>. QED
  BY <1>1, AlwaysWhole, PTL

\* The run is never in two hands: take_run removes it from the map, store_unless_terminal
\* and the put-backs return what one task took, and a resumed checkpoint is the only copy
\* there is.  A cancellation handle is there while a task is in the model loop, only then.
THEOREM AlwaysOneHolder == Spec => []OneHolder
<1>1. Whole => OneHolder
  <2>. SUFFICES ASSUME Whole PROVE OneHolder
    OBVIOUS
  <2>1. \A c \in Tasks : c \in Holding <=> Carrying(c)
    BY TaskFacts DEF Whole, Typed, Holding
  <2>2. \A c, d \in Holding : c = d
    BY <2>1 DEF Whole, Alone, Holding
  <2>3. Cardinality(Holding) <= 1
    <3>1. CASE Holding = {}
      BY <3>1, FS_EmptySet
    <3>2. CASE Holding # {}
      <4>1. PICK c : c \in Holding
        BY <3>2
      <4>2. Holding = {c}
        BY <2>2, <4>1
      <4>3. Cardinality({c}) = 1
        BY FS_Singleton
      <4>. QED
        BY <4>2, <4>3
    <3>. QED
      BY <3>1, <3>2
  <2>4. stored # NoRun => Holding = {}
    BY <2>1 DEF Whole, Alone, Free, Holding
  <2>5. inFlight = (\E c \in Tasks : task[c].step \in {"stepping", "asking", "completing", "leaving"})
    <3>1. inFlight <=> \E c \in Tasks : task[c].step \in {"stepping", "asking", "completing", "leaving"}
      BY DEF Whole, Alone, Loops
    <3>2. inFlight \in BOOLEAN
      BY DEF Whole, Typed, Values
    <3>. QED
      BY <3>1, <3>2
  <2>. QED
    BY <2>3, <2>4, <2>5 DEF OneHolder
<1>. QED
  BY <1>1, AlwaysWhole, PTL

\* An accepted input is deferred, in the inbox or given to the model, in one of them, and
\* no turn completes past one it was to answer; enqueue_injected looks at the stored run
\* and at the handle in two separate steps, with the run on the move between them.
THEOREM InputsAlwaysServed == Spec => []InputsServed
<1>1. Whole => InputsServed
  <2>. SUFFICES ASSUME Whole PROVE InputsServed
    OBVIOUS
  <2>1. ASSUME NEW i \in Inputs \ forgotten, input[i] = "accepted", NEW run \in Alive
        PROVE  \/ i \in deferred /\ i \notin run.next_turn \cup run.next_step \cup run.seen
               \/ i \notin deferred /\ (i \in run.seen) # (i \in run.next_turn \cup run.next_step)
    <3>1. i \in deferred \cup Inside(run)
      BY <2>1 DEF Whole, Counted
    <3>2. run \in Held /\ Sound(run)
      BY AliveIs, HeldIs, TaskFacts DEF Whole, Typed, RunsFit
    <3>3. i \in Inside(run) => i \notin deferred
      BY <3>2 DEF Whole, Counted
    <3>4. ~(i \in run.seen /\ i \in run.next_turn \cup run.next_step)
      BY <3>2 DEF Sound, Queues
    <3>. QED
      BY <3>1, <3>3, <3>4 DEF Inside
  <2>2. InputsAccounted
    BY <2>1 DEF InputsAccounted
  <2>. QED
    BY <2>2 DEF InputsServed, Whole, Counted
<1>. QED
  BY <1>1, AlwaysWhole, PTL

\* No call is requested twice, over restarts too, and none that was reported as not
\* executed was requested, before or after: for clients that wait until a cancellation
\* was answered before they send the next prompt.
THEOREM RequestsAlwaysTrue ==
    ASSUME Unanswered = {}
    PROVE  Spec => []RequestsTrue
<1>1. Init => Whole /\ Distinct
  BY InitWhole
<1>2. Whole /\ Distinct /\ [Next]_vars => Whole' /\ Distinct'
  BY NextKeeps DEF Keeps
<1>3. Distinct => RequestsTrue
  BY DEF Distinct
<1>. QED
  BY <1>1, <1>2, <1>3, PTL DEF Spec

\* What a step may do once the handle was used: no request, and no turn completed.
Mute ==
    /\ requested' = requested
    /\ \A c \in Tasks : task'[c].run.terminal = "Completed" => task[c].run.terminal = "Completed"

LEMMA NoRunTerminal == NoRun.terminal = "none"
  BY DEF NoRun

\* A task that drops its run, keeps it or has one that is not over completes nothing.
LEMMA BecomesMute ==
    ASSUME NEW c \in Tasks, NEW step, NEW run, NEW failed, NEW asks,
           Becomes(c, step, run, failed, asks), run.terminal = "none" \/ run = task[c].run,
           requested' = requested
    PROVE  Mute
  BY DEF Becomes, Others, Mute

LEMMA DoneMute ==
    ASSUME TasksFit, NEW c \in Tasks, Done(c), requested' = requested
    PROVE  Mute
<1>1. Becomes(c, "idle", NoRun, FALSE, FALSE)
  BY DoneBecomes
<1>. QED
  BY <1>1, NoRunTerminal, BecomesMute

LEMMA ToMute ==
    ASSUME TasksFit, NEW c \in Tasks, NEW step \in Tasking, NEW run \in Runs \cup {NoRun},
           To(c, step, run), run.terminal = "none" \/ run = task[c].run, requested' = requested
    PROVE  Mute
<1>1. Becomes(c, step, run, FALSE, FALSE)
  BY ToBecomes
<1>. QED
  BY <1>1, BecomesMute

\* Commands: the run that is taken was not over, or is given up.
LEMMA CommandMute ==
    ASSUME Whole, cancelled, NEW c \in Tasks,
           \/ Start(c) \/ Continue(c) \/ Resume(c) \/ PutBack(c) \/ Restore(c)
           \/ Cancel(c) \/ Signal(c) \/ CancelStored(c)
    PROVE  Mute
<1>1. TasksFit /\ {"prepared", "returning", "resuming", "signalling", "cancelling"} \subseteq Tasking
  BY DEF Whole, Typed, Tasking
<1>2. task' = task /\ requested' = requested => Mute
  BY DEF Mute
<1>3. CASE Start(c)
  <2>1. /\ TurnBegun(NewRun).terminal = "none" /\ TurnBegun(NewRun) \in Runs
    BY NewRunSound, TurnBegunSound DEF Sound
  <2>. QED
    BY <1>1, <1>3, <2>1, ToMute DEF Start, told
<1>4. CASE Continue(c)
  <2>1. CASE task' = task
    BY <1>2, <1>4, <2>1 DEF Continue, told
  <2>2. CASE stored # NoRun /\ stored.calls # <<>> /\ To(c, "returning", stored)
    <3>1. stored.terminal = "none" /\ stored \in Runs
      BY <2>2, StoredIs, PhaseTells
    <3>. QED
      BY <1>1, <1>4, <2>2, <3>1, ToMute DEF Continue, told
  <2>3. CASE stored # NoRun /\ stored.calls = <<>> /\ To(c, "prepared", TurnBegun(stored))
    <3>1. TurnBegun(stored).terminal = "none" /\ TurnBegun(stored) \in Runs
      BY <2>3, StoredIs, TurnBegunSound DEF Sound
    <3>. QED
      BY <1>1, <1>4, <2>3, <3>1, ToMute DEF Continue, told
  <2>. QED
    BY <1>4, <2>1, <2>2, <2>3 DEF Continue, Take
<1>5. CASE Resume(c)
  <2>1. CASE Done(c)
    BY <1>1, <1>5, <2>1, DoneMute DEF Resume, told
  <2>2. CASE stored # NoRun /\ \E step \in {"returning", "prepared"} : To(c, step, stored)
    <3>1. stored.terminal = "none" /\ stored \in Runs
      <4>1. stored.phase = "AwaitingInput"
        BY <1>5, <2>2 DEF Resume, Whole, Alone, Resuming
      <4>. QED
        BY <2>2, <4>1, StoredIs, PhaseTells
    <3>. QED
      BY <1>1, <1>5, <2>2, <3>1, ToMute DEF Resume, told
  <2>. QED
    BY <1>5, <2>1, <2>2 DEF Resume, Take
<1>6. CASE PutBack(c) \/ Signal(c) \/ CancelStored(c)
  BY <1>1, <1>6, DoneMute DEF PutBack, Signal, CancelStored, told
<1>7. CASE Restore(c)
  <2>1. CASE task' = task
    BY <1>2, <1>7, <2>1 DEF Restore, told
  <2>2. CASE To(c, "resuming", NoRun)
    BY <1>1, <1>7, <2>2, NoRunTerminal, ToMute DEF Restore, told
  <2>. QED
    BY <1>7, <2>1, <2>2 DEF Restore
<1>8. CASE Cancel(c)
  <2>1. PICK step \in {"signalling", "cancelling"} : To(c, step, NoRun)
    BY <1>8 DEF Cancel
  <2>. QED
    BY <1>1, <1>8, <2>1, NoRunTerminal, ToMute DEF Cancel, told
<1>. QED
  BY <1>3, <1>4, <1>5, <1>6, <1>7, <1>8

\* A result that is taken requests nothing, and the run goes on unfinished.
LEMMA ResultMute ==
    ASSUME Whole, cancelled, NEW c \in Tasks, NEW request \in open,
           NEW outcome \in {"good", "stuck", "bad"}, Result(c, request, outcome)
    PROVE  Mute
<1>1. TasksFit
  BY DEF Whole, Typed
<1>2. CASE UNCHANGED <<task, requested>>
  BY <1>2 DEF Mute
<1>3. ASSUME Take, stored.calls # <<>>
      PROVE  /\ Sound(stored) /\ stored \in Runs /\ stored.terminal = "none"
             /\ Sound(Settled(stored)) /\ Settled(stored) \in Runs
             /\ Settled(stored).terminal = "none"
  BY <1>3, StoredIs, PhaseTells, SettledSound DEF Take, Sound
<1>4. CASE Take /\ stored.calls # <<>> /\ UNCHANGED requested /\ To(c, "returning", stored)
  BY <1>1, <1>3, <1>4, ToMute DEF Tasking
<1>5. CASE /\ Take /\ stored.calls # <<>> /\ Settled(stored).calls # <<>>
           /\ Storing(c, Settled(stored))
           /\ requested' = Append(requested, Request(Settled(stored)))
  <2>1. UNCHANGED <<task, requested>> \/ (UNCHANGED requested /\ To(c, "returning", stored))
    BY <1>5 DEF Result, Take
  <2>. QED
    BY <1>2, <1>4, <1>5, <2>1
<1>6. CASE /\ Take /\ stored.calls # <<>> /\ Settled(stored).calls = <<>> /\ UNCHANGED requested
           /\ Storing(c, Asking(Settled(stored))) \/ To(c, "prepared", Settled(stored))
  <2>1. CASE To(c, "prepared", Settled(stored))
    BY <1>1, <1>3, <1>6, <2>1, ToMute DEF Tasking
  <2>2. CASE Storing(c, Asking(Settled(stored)))
    <3>1. Asking(Settled(stored)) \in Runs /\ Asking(Settled(stored)).terminal = "none"
      BY <1>3, <1>6, AskingSound DEF Sound
    <3>2. Becomes(c, "storing", Asking(Settled(stored)), FALSE, TRUE)
      BY <1>1, <2>2, <3>1, StoringBecomes
    <3>. QED
      BY <1>6, <3>1, <3>2, BecomesMute
  <2>. QED
    BY <1>6, <2>1, <2>2
<1>. QED
  BY <1>2, <1>4, <1>5, <1>6, ResultIs

\* The model loop fails at its next look at the handle.
LEMMA LoopMute ==
    ASSUME Whole, cancelled, NEW c \in Tasks, Loop(c)
    PROVE  Mute
<1>1. TasksFit
  BY DEF Whole, Typed
<1>2. CASE Failing(c) /\ requested' = requested
  <2>1. task[c].run \in Runs \cup {NoRun}
    BY <1>1 DEF TasksFit, TaskRecords
  <2>2. Becomes(c, "leaving", task[c].run, TRUE, FALSE)
    BY <1>1, <1>2, <2>1, LeavingBecomes DEF Failing
  <2>. QED
    BY <1>2, <2>2, BecomesMute
<1>3. CASE Register(c)
  <2>1. task[c].run \in Runs \cup {NoRun}
    BY <1>1 DEF TasksFit, TaskRecords
  <2>2. Done(c) \/ To(c, "stepping", task[c].run)
    BY <1>3 DEF Register
  <2>3. requested' = requested
    BY <1>3 DEF Register, told
  <2>. QED
    BY <1>1, <2>1, <2>2, <2>3, DoneMute, ToMute DEF Tasking
<1>4. CASE \E timing \in {"timely", "late"} : BeginStep(c, timing)
  BY <1>2, <1>4 DEF BeginStep, told
<1>5. CASE \E count \in 1 .. MaxCalls : AnswerCalls(c, count)
  BY <1>2, <1>5 DEF AnswerCalls
<1>6. CASE \E answer \in {"text", "empty", "stuck", "error"} : Answer(c, answer)
  BY <1>2, <1>6 DEF Answer, told
<1>7. CASE Complete(c)
  BY <1>2, <1>7 DEF Complete, told
<1>8. CASE Leave(c)
  <2>1. Becomes(c, "storing", task[c].run, task[c].failed, task[c].asks)
    BY <1>1, <1>8, LeaveBecomes DEF Leave
  <2>. QED
    BY <1>8, <2>1, BecomesMute DEF Leave, told
<1>9. CASE Store(c)
  BY <1>1, <1>9, DoneMute DEF Store, told
<1>. QED
  BY <1>3, <1>4, <1>5, <1>6, <1>7, <1>8, <1>9 DEF Loop

LEMMA NextMute ==
    ASSUME Whole, cancelled, [Next]_vars
    PROVE  Mute
<1>1. CASE UNCHANGED <<task, requested>>
  BY <1>1 DEF Mute
<1>2. ASSUME NEW c \in Tasks,
             \/ Start(c) \/ Continue(c) \/ Resume(c) \/ PutBack(c) \/ Restore(c)
             \/ Cancel(c) \/ Signal(c) \/ CancelStored(c)
      PROVE  Mute
  BY <1>2, CommandMute
<1>3. ASSUME NEW c \in Tasks, NEW request \in open, NEW outcome \in {"good", "stuck", "bad"},
             Result(c, request, outcome)
      PROVE  Mute
  BY <1>3, ResultMute
<1>4. ASSUME NEW c \in Tasks, Loop(c) PROVE Mute
  BY <1>4, LoopMute
<1>5. ASSUME NEW i \in Inputs, Inject(i) \/ LookUp(i) \/ LookInFlight(i) \/ Defer(i)
      PROVE  Mute
  BY <1>1, <1>5 DEF Inject, LookUp, LookInFlight, Defer, told
<1>6. CASE Evict \/ Checkpoint
  BY <1>1, <1>6 DEF Evict, Checkpoint, told
<1>7. CASE Crash
  <2>1. \A c \in Tasks : task'[c] = Idle
    BY <1>7 DEF Crash
  <2>2. requested' = requested
    BY <1>7 DEF Crash, told
  <2>. QED
    BY <2>1, <2>2, IdleIs, NoRunTerminal DEF Mute
<1>8. CASE UNCHANGED vars
  BY <1>1, <1>8 DEF vars
<1>. QED
  BY <1>2, <1>3, <1>4, <1>5, <1>6, <1>7, <1>8 DEF Next

\* After a cancellation used its handle the run requests no call and completes no turn:
\* the model loop looks at the handle before it requests, and holds its lock while it
\* emits Completed.
THEOREM CancelledAlwaysMute == Spec => CancelledMute
<1>1. Whole /\ [Next]_vars =>
         [cancelled =>
            /\ requested' = requested
            /\ \A c \in Tasks : task'[c].run.terminal = "Completed" => task[c].run.terminal = "Completed"]_vars
  BY NextMute DEF Mute
<1>. QED
  BY <1>1, AlwaysWhole, PTL DEF Spec, CancelledMute
==============================================================================
