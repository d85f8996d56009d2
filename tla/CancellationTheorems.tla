------------------------- MODULE CancellationTheorems -------------------------
(***************************************************************************)
(* The safety of Cancellation for every number of prompts, of cancellations   *)
(* and of executions, in three parts, each under what it needs of the client. *)
(*                                                                          *)
(* The types (Types) need nothing.  That a running handler is in the stop set *)
(* of its run, and that a drive hears the signal, needs that a client waits   *)
(* for the answer to its prompt (Driven): there is one drive at a time.  That *)
(* a turn is cancelled only at rest needs that it waits for its cancellation  *)
(* as well (Rested): a cancellation then keeps its turn, its watch and its    *)
(* set, so what it found settled stays settled until it is recorded.          *)
(***************************************************************************)
EXTENDS Cancellation, SequenceTheorems, TLAPS

------------------------------------------------------------------------------
(* Types                                                                     *)

Done == [step |-> "done"]

Handlers == {"broker", "consume", "running", "handled", "resolve"}
Told == Handlers \cup {"event", "prepared", "settled", "await", "deliver", "drop"}
Steps == Told \cup {"take", "begin", "model", "leave", "store", "drive", "end", "again", "clear"}
Events == TerminalKinds \cup {"none", "tool", "busy", "missing", "overtime"}
Asks == {"idle", "record", "signal", "runner", "stop", "wait", "end", "done"}

Busy == [step : Steps, asked : BOOLEAN, event : Events, channel : Nat,
         execution : Executions \cup {NoExecution}, seen : Nat, set : Nat,
         result : BOOLEAN, known : BOOLEAN]
DriveType == {Idle, Done} \cup Busy
CancelType == [step : Asks, answered : BOOLEAN, set : Nat, stopped : BOOLEAN]
StopSets == [requested : BOOLEAN, entry : UNION {[E -> EntryStates] : E \in SUBSET Executions}]
Runners == [at : {"none", "stored", "held", "stepping"}, tool : BOOLEAN, cancelled : BOOLEAN]
Facts == {"prompt", "cancelling"} \cup TerminalKinds

Serving(d) == drive[d].step \notin {"idle", "done"}

\* What a drive in its turn holds: a watch once it was given one, an event once
\* its turn in the runner is over, an execution while it dispatches.
Holds(d) ==
    /\ drive[d].channel <= Len(signals) /\ drive[d].set <= Len(sets)
    /\ drive[d].step \in Told \/ drive[d].result => drive[d].channel # 0
    /\ drive[d].step = "await" => drive[d].set # 0
    /\ drive[d].step \in {"leave", "store", "drive", "event"} => drive[d].event # "none"
    /\ drive[d].step = "drop" => drive[d].event \in {"failed", "unknown", "cancelled"}
    /\ drive[d].step \in {"end", "again"} => drive[d].event \notin {"none", "tool"}
    /\ drive[d].step \in Handlers \cup {"prepared"} => Execution(d) \in Executions

Streams == run \in Seq(Facts) /\ runner \in Runners /\ lost \subseteq Executions
Objects ==
    /\ signals \in Seq(BOOLEAN) /\ watch \in 0..Len(signals)
    /\ sets \in Seq(StopSets) /\ stops \in 0..Len(sets)
Tasks == drive \in [Drives -> DriveType] /\ cancel \in [Cancels -> CancelType]
Held ==
    /\ \A d \in Drives : Serving(d) => Holds(d)
    /\ \A k \in Cancels : cancel[k].set <= Len(sets)
Types == Streams /\ Objects /\ Tasks /\ Held

------------------------------------------------------------------------------
(* How the tasks move                                                        *)

\* A drive is idle, done, or in one of the steps of its turn.
LEMMA DriveCases ==
    ASSUME Tasks, NEW d \in Drives
    PROVE  /\ drive[d] = Idle \/ drive[d] = Done \/ drive[d] \in Busy
           /\ drive[d] \in Busy <=> Serving(d)
           /\ drive[d] = Idle => drive[d].step = "idle"
           /\ drive[d] = Done => drive[d].step = "done"
<1>1. drive[d] \in DriveType
  BY DEF Tasks
<1>2. Idle.step = "idle" /\ Done.step = "done"
  BY DEF Idle, Done
<1>3. ASSUME drive[d] \in Busy PROVE drive[d].step \notin {"idle", "done"}
  BY <1>3 DEF Busy, Steps, Told, Handlers
<1>. QED
  BY <1>1, <1>2, <1>3 DEF DriveType, Serving

\* The drive goes to a step, and no other drive moves.
Moves(d, step) ==
    /\ drive' \in [Drives -> DriveType]
    /\ drive'[d] \in Busy /\ drive'[d].step = step
    /\ \A e \in Drives : e # d => drive'[e] = drive[e]

\* It keeps its watch, its execution and its set, and has a result only after a
\* dispatch.
Keeps(d) ==
    /\ drive'[d].channel = drive[d].channel /\ drive'[d].execution = drive[d].execution
    /\ drive'[d].set = drive[d].set
    /\ drive'[d].result => drive[d].result \/ drive[d].step \in Told

\* A step that may give the drive another event, and keeps the rest.
Plain(d, step, event) ==
    /\ Moves(d, step) /\ Keeps(d)
    /\ drive'[d].event = event /\ drive'[d].known = drive[d].known

\* One record in the place of another.
LEMMA Replaced ==
    ASSUME Tasks, NEW d \in Drives, NEW r \in Busy, drive' = [drive EXCEPT ![d] = r]
    PROVE  Moves(d, r.step) /\ drive'[d] = r
<1>1. r \in DriveType
  BY DEF DriveType
<1>2. drive' \in [Drives -> DriveType] /\ drive'[d] = r
  BY <1>1 DEF Tasks
<1>3. \A e \in Drives : e # d => drive'[e] = drive[e]
  BY DEF Tasks
<1>. QED
  BY <1>2, <1>3 DEF Moves

\* A step that only goes on keeps everything.
LEMMA GoToMoves ==
    ASSUME Tasks, NEW d \in Drives, Serving(d), NEW step \in Steps, GoTo(d, step)
    PROVE  Plain(d, step, drive[d].event)
<1>1. drive[d] \in Busy
  BY DriveCases
<1>2. PICK r : r = [drive[d] EXCEPT !.step = step]
  OBVIOUS
<1>3. /\ r \in Busy /\ r.step = step /\ r.event = drive[d].event /\ r.channel = drive[d].channel
      /\ r.execution = drive[d].execution /\ r.set = drive[d].set /\ r.result = drive[d].result
      /\ r.known = drive[d].known
  BY <1>1, <1>2 DEF Busy
<1>4. drive' = [drive EXCEPT ![d] = r]
  BY <1>2 DEF GoTo
<1>5. Moves(d, r.step) /\ drive'[d] = r
  BY <1>3, <1>4, Replaced
<1>. QED
  BY <1>3, <1>5 DEF Plain, Keeps

\* A step with an event keeps everything but the event.
LEMMA WithMoves ==
    ASSUME Tasks, NEW d \in Drives, Serving(d), NEW step \in Steps, NEW event \in Events,
           With(d, event, step)
    PROVE  Plain(d, step, event)
<1>1. drive[d] \in Busy
  BY DriveCases
<1>2. PICK r : r = [drive[d] EXCEPT !.event = event, !.step = step]
  OBVIOUS
<1>3. /\ r \in Busy /\ r.step = step /\ r.event = event /\ r.channel = drive[d].channel
      /\ r.execution = drive[d].execution /\ r.set = drive[d].set /\ r.result = drive[d].result
      /\ r.known = drive[d].known
  BY <1>1, <1>2 DEF Busy
<1>4. drive' = [drive EXCEPT ![d] = r]
  BY <1>2 DEF With
<1>5. Moves(d, r.step) /\ drive'[d] = r
  BY <1>3, <1>4, Replaced
<1>. QED
  BY <1>3, <1>5 DEF Plain, Keeps

\* A drive that returns is done, and no other drive moves.
LEMMA ReturnMoves ==
    ASSUME Tasks, NEW d \in Drives, Return(d)
    PROVE  /\ drive' \in [Drives -> DriveType] /\ drive'[d] = Done
           /\ \A e \in Drives : e # d => drive'[e] = drive[e]
  BY DEF Tasks, Return, Done, DriveType

\* Reading the watch before the set is told changes nothing that is kept.
LEMMA HandledMoves ==
    ASSUME Tasks, NEW d \in Drives, Serving(d), NEW step \in Steps,
           NEW asked \in BOOLEAN, drive' = [drive EXCEPT ![d].asked = asked, ![d].step = step]
    PROVE  Plain(d, step, drive[d].event)
<1>1. drive[d] \in Busy
  BY DriveCases
<1>2. PICK r : r = [drive[d] EXCEPT !.asked = asked, !.step = step]
  OBVIOUS
<1>3. /\ r \in Busy /\ r.step = step
      /\ r.event = drive[d].event /\ r.channel = drive[d].channel
      /\ r.execution = drive[d].execution /\ r.set = drive[d].set
      /\ r.result = drive[d].result /\ r.known = drive[d].known
  BY <1>1, <1>2 DEF Busy
<1>4. drive' = [drive EXCEPT ![d] = r]
  BY <1>2
<1>5. Moves(d, r.step) /\ drive'[d] = r
  BY <1>3, <1>4, Replaced
<1>. QED
  BY <1>3, <1>5 DEF Plain, Keeps

\* A handler's answer says whether the result is certain.
LEMMA FinishMoves ==
    ASSUME Tasks, NEW d \in Drives, Serving(d), NEW step \in Steps,
           NEW known \in BOOLEAN, drive' = [drive EXCEPT ![d].known = known, ![d].step = step]
    PROVE  /\ Moves(d, step) /\ Keeps(d)
           /\ drive'[d].event = drive[d].event /\ drive'[d].known = known
<1>1. drive[d] \in Busy
  BY DriveCases
<1>2. PICK r : r = [drive[d] EXCEPT !.known = known, !.step = step]
  OBVIOUS
<1>3. /\ r \in Busy /\ r.step = step
      /\ r.event = drive[d].event /\ r.channel = drive[d].channel
      /\ r.execution = drive[d].execution /\ r.set = drive[d].set
      /\ r.result = drive[d].result /\ r.known = known
  BY <1>1, <1>2 DEF Busy
<1>4. drive' = [drive EXCEPT ![d] = r]
  BY <1>2
<1>5. Moves(d, r.step) /\ drive'[d] = r
  BY <1>3, <1>4, Replaced
<1>. QED
  BY <1>3, <1>5 DEF Keeps

\* A result that is delivered makes the drive take the run with it.
LEMMA DeliverMoves ==
    ASSUME Tasks, NEW d \in Drives, Serving(d), NEW step \in Steps,
           drive[d].step = "deliver", drive' = [drive EXCEPT ![d].step = step, ![d].result = TRUE]
    PROVE  Plain(d, step, drive[d].event)
<1>1. drive[d] \in Busy
  BY DriveCases
<1>2. PICK r : r = [drive[d] EXCEPT !.step = step, !.result = TRUE]
  OBVIOUS
<1>3. /\ r \in Busy /\ r.step = step
      /\ r.event = drive[d].event /\ r.channel = drive[d].channel
      /\ r.execution = drive[d].execution /\ r.set = drive[d].set
      /\ r.result = TRUE /\ r.known = drive[d].known
  BY <1>1, <1>2 DEF Busy
<1>4. drive' = [drive EXCEPT ![d] = r]
  BY <1>2
<1>5. Moves(d, r.step) /\ drive'[d] = r
  BY <1>3, <1>4, Replaced
<1>. QED
  BY <1>3, <1>5 DEF Plain, Keeps, Told

\* A dispatch has an execution, and no result yet.
LEMMA PrepareMoves ==
    ASSUME Tasks, NEW d \in Drives, Serving(d), NEW step \in Steps,
           NEW x \in Executions, NEW seen \in Nat,
           drive' = [drive EXCEPT ![d].execution = x, ![d].seen = seen,
                                  ![d].known = FALSE, ![d].step = step]
    PROVE  /\ Moves(d, step)
           /\ drive'[d].channel = drive[d].channel /\ drive'[d].set = drive[d].set
           /\ drive'[d].result = drive[d].result /\ drive'[d].event = drive[d].event
           /\ drive'[d].execution = x
<1>1. drive[d] \in Busy
  BY DriveCases
<1>2. PICK r : r = [drive[d] EXCEPT !.execution = x, !.seen = seen,
                                 !.known = FALSE, !.step = step]
  OBVIOUS
<1>3. /\ r \in Busy /\ r.step = step
      /\ r.event = drive[d].event /\ r.channel = drive[d].channel
      /\ r.execution = x /\ r.set = drive[d].set
      /\ r.result = drive[d].result /\ r.known = FALSE
  BY <1>1, <1>2 DEF Busy
<1>4. drive' = [drive EXCEPT ![d] = r]
  BY <1>2
<1>5. Moves(d, r.step) /\ drive'[d] = r
  BY <1>3, <1>4, Replaced
<1>. QED
  BY <1>3, <1>5 DEF Keeps

\* A drive that waits for the stop has the set it waits for.
LEMMA AwaitMoves ==
    ASSUME Tasks, NEW d \in Drives, Serving(d), NEW step \in Steps,
           NEW set \in Nat, drive' = [drive EXCEPT ![d].set = set, ![d].step = step]
    PROVE  /\ Moves(d, step)
           /\ drive'[d].channel = drive[d].channel /\ drive'[d].set = set
           /\ drive'[d].result = drive[d].result /\ drive'[d].event = drive[d].event
<1>1. drive[d] \in Busy
  BY DriveCases
<1>2. PICK r : r = [drive[d] EXCEPT !.set = set, !.step = step]
  OBVIOUS
<1>3. /\ r \in Busy /\ r.step = step
      /\ r.event = drive[d].event /\ r.channel = drive[d].channel
      /\ r.execution = drive[d].execution /\ r.set = set
      /\ r.result = drive[d].result /\ r.known = drive[d].known
  BY <1>1, <1>2 DEF Busy
<1>4. drive' = [drive EXCEPT ![d] = r]
  BY <1>2
<1>5. Moves(d, r.step) /\ drive'[d] = r
  BY <1>3, <1>4, Replaced
<1>. QED
  BY <1>3, <1>5 DEF Keeps

\* A drive that has a watch keeps the rest.
LEMMA WatchMoves ==
    ASSUME Tasks, NEW d \in Drives, Serving(d), NEW step \in Steps,
           NEW channel \in Nat,
           drive' = [drive EXCEPT ![d] = [@ EXCEPT !.channel = channel, !.step = step]]
    PROVE  /\ Moves(d, step)
           /\ drive'[d].channel = channel /\ drive'[d].set = drive[d].set
           /\ drive'[d].result = drive[d].result /\ drive'[d].event = drive[d].event
<1>1. drive[d] \in Busy
  BY DriveCases
<1>2. PICK r : r = [drive[d] EXCEPT !.channel = channel, !.step = step]
  OBVIOUS
<1>3. /\ r \in Busy /\ r.step = step
      /\ r.event = drive[d].event /\ r.channel = channel
      /\ r.execution = drive[d].execution /\ r.set = drive[d].set
      /\ r.result = drive[d].result /\ r.known = drive[d].known
  BY <1>1, <1>2 DEF Busy
<1>4. drive' = [drive EXCEPT ![d] = r]
  BY <1>2
<1>5. Moves(d, r.step) /\ drive'[d] = r
  BY <1>3, <1>4, Replaced
<1>. QED
  BY <1>3, <1>5 DEF Keeps

\* A prompt starts its drive with no watch, no event and no result.
LEMMA ContinueMoves ==
    ASSUME Tasks, NEW d \in Drives, drive' = [drive EXCEPT ![d] = Asking]
    PROVE  /\ Moves(d, "take")
           /\ drive'[d].channel = 0 /\ drive'[d].set = 0 /\ ~drive'[d].result
<1>1. PICK r : r = Asking
  OBVIOUS
<1>2. /\ r \in Busy /\ r.step = "take" /\ r.channel = 0 /\ r.set = 0 /\ r.result = FALSE
  BY <1>1 DEF Busy, Asking, Steps, Events
<1>3. Moves(d, r.step) /\ drive'[d] = r
  BY <1>1, <1>2, Replaced
<1>. QED
  BY <1>2, <1>3

\* A cancellation that goes on keeps what it has learned.
LEMMA ProceedMoves ==
    ASSUME Tasks, NEW k \in Cancels, NEW step \in Asks, Proceed(k, step)
    PROVE  /\ cancel' \in [Cancels -> CancelType] /\ cancel'[k].step = step
           /\ cancel'[k].set = cancel[k].set /\ cancel'[k].stopped = cancel[k].stopped
           /\ \A j \in Cancels : j # k => cancel'[j] = cancel[j]
<1>1. cancel[k] \in CancelType
  BY DEF Tasks
<1>2. PICK r : r = [cancel[k] EXCEPT !.step = step]
  OBVIOUS
<1>3. r \in CancelType /\ r.step = step /\ r.set = cancel[k].set /\ r.stopped = cancel[k].stopped
  BY <1>1, <1>2 DEF CancelType
<1>4. cancel' = [cancel EXCEPT ![k] = r]
  BY <1>2 DEF Proceed
<1>. QED
  BY <1>3, <1>4 DEF Tasks

\* The runner's answer is noted.
LEMMA AnsweredMoves ==
    ASSUME Tasks, NEW k \in Cancels, NEW step \in Asks,
           NEW answered \in BOOLEAN,
           cancel' = [cancel EXCEPT ![k].step = step, ![k].answered = answered]
    PROVE  /\ cancel' \in [Cancels -> CancelType] /\ cancel'[k].step = step
           /\ cancel'[k].set = cancel[k].set /\ cancel'[k].stopped = cancel[k].stopped
           /\ \A j \in Cancels : j # k => cancel'[j] = cancel[j]
<1>1. cancel[k] \in CancelType
  BY DEF Tasks
<1>2. PICK r : r = [cancel[k] EXCEPT !.step = step, !.answered = answered]
  OBVIOUS
<1>3. r \in CancelType /\ r.step = step /\ r.set = cancel[k].set /\ r.stopped = cancel[k].stopped
  BY <1>1, <1>2 DEF CancelType
<1>4. cancel' = [cancel EXCEPT ![k] = r]
  BY <1>2
<1>. QED
  BY <1>3, <1>4 DEF Tasks

\* What the wait for the stop came to is noted.
LEMMA StoppedMoves ==
    ASSUME Tasks, NEW k \in Cancels, NEW step \in Asks,
           NEW stopped \in BOOLEAN,
           cancel' = [cancel EXCEPT ![k].step = step, ![k].stopped = stopped]
    PROVE  /\ cancel' \in [Cancels -> CancelType] /\ cancel'[k].step = step
           /\ cancel'[k].set = cancel[k].set /\ cancel'[k].stopped = stopped
           /\ \A j \in Cancels : j # k => cancel'[j] = cancel[j]
<1>1. cancel[k] \in CancelType
  BY DEF Tasks
<1>2. PICK r : r = [cancel[k] EXCEPT !.step = step, !.stopped = stopped]
  OBVIOUS
<1>3. r \in CancelType /\ r.step = step /\ r.set = cancel[k].set /\ r.stopped = stopped
  BY <1>1, <1>2 DEF CancelType
<1>4. cancel' = [cancel EXCEPT ![k] = r]
  BY <1>2
<1>. QED
  BY <1>3, <1>4 DEF Tasks

\* One record in the place of another.
LEMMA CancelReplaced ==
    ASSUME Tasks, NEW k \in Cancels, NEW r \in CancelType, cancel' = [cancel EXCEPT ![k] = r]
    PROVE  /\ cancel' \in [Cancels -> CancelType] /\ cancel'[k] = r
           /\ \A j \in Cancels : j # k => cancel'[j] = cancel[j]
  BY DEF Tasks

------------------------------------------------------------------------------
(* The turn, and the stop sets                                               *)

\* The events of the last turn of a stream, the prompt included.
TurnOf(r) == { r[i] : i \in { j \in DOMAIN r : \A p \in PromptsOf(r) : p <= j } }

\* The turn is the last one of the stream, before a step and after it.
LEMMA TurnIs == ThisTurn = TurnOf(run) /\ (ThisTurn)' = TurnOf(run')
  BY DEF ThisTurn, TurnOf

\* An event that is no prompt joins the turn.
LEMMA TurnGrows ==
    ASSUME run \in Seq(Facts), NEW e \in Facts, e # "prompt", run' = Append(run, e)
    PROVE  (ThisTurn)' = ThisTurn \cup {e}
<1>. PICK r : r = run'
  OBVIOUS
<1>. PICK n \in Nat : n = Len(run)
  OBVIOUS
<1>1. /\ DOMAIN run = 1..n /\ DOMAIN r = 1..(n + 1) /\ r[n + 1] = e
      /\ \A i \in 1..n : r[i] = run[i]
  OBVIOUS
<1>2. PromptsOf(r) = PromptsOf(run)
  BY <1>1 DEF PromptsOf
<1>3. \A p \in PromptsOf(run) : p \in 1..n
  BY <1>1 DEF PromptsOf
<1>4. { j \in DOMAIN r : \A p \in PromptsOf(r) : p <= j }
         = { j \in DOMAIN run : \A p \in PromptsOf(run) : p <= j } \cup {n + 1}
  BY <1>1, <1>2, <1>3
<1>5. TurnOf(r) = TurnOf(run) \cup {e}
  BY <1>1, <1>4 DEF TurnOf
<1>. QED
  BY <1>5, TurnIs

\* A prompt begins a turn.
LEMMA TurnStarts ==
    ASSUME run \in Seq(Facts), run' = Append(run, "prompt")
    PROVE  (ThisTurn)' = {"prompt"}
<1>. PICK r : r = run'
  OBVIOUS
<1>. PICK n \in Nat : n = Len(run)
  OBVIOUS
<1>1. DOMAIN r = 1..(n + 1) /\ r[n + 1] = "prompt"
  OBVIOUS
<1>2. n + 1 \in PromptsOf(r)
  BY <1>1 DEF PromptsOf
<1>3. \A p \in PromptsOf(r) : p \in 1..(n + 1)
  BY <1>1 DEF PromptsOf
<1>4. { j \in DOMAIN r : \A p \in PromptsOf(r) : p <= j } = {n + 1}
  BY <1>1, <1>2, <1>3
<1>5. TurnOf(r) = {"prompt"}
  BY <1>1, <1>4 DEF TurnOf
<1>. QED
  BY <1>5, TurnIs

\* The turn is over after its end was recorded, and keeps what it had.
LEMMA TurnEnds ==
    ASSUME run \in Seq(Facts), NEW kind \in TerminalKinds, EndTurn(kind)
    PROVE  /\ run' \in Seq(Facts)
           /\ (Ended)' /\ ThisTurn \subseteq (ThisTurn)'
           /\ Ended => run' = run /\ (ThisTurn)' = ThisTurn
           /\ ~Ended => (ThisTurn)' = ThisTurn \cup {kind}
           /\ \A i \in DOMAIN run : i \in DOMAIN run' /\ run'[i] = run[i]
<1>1. kind \in Facts /\ kind # "prompt"
  BY DEF TerminalKinds, Facts
<1>2. CASE Ended
  <2>1. run' = run
    BY <1>2 DEF EndTurn
  <2>2. (ThisTurn)' = ThisTurn
    BY <2>1, TurnIs
  <2>. QED
    BY <1>2, <2>1, <2>2 DEF Ended
<1>3. CASE ~Ended
  <2>1. run' = Append(run, kind)
    BY <1>3 DEF EndTurn
  <2>2. (ThisTurn)' = ThisTurn \cup {kind}
    BY <1>1, <2>1, TurnGrows
  <2>3. run' \in Seq(Facts) /\ \A i \in DOMAIN run : i \in DOMAIN run' /\ run'[i] = run[i]
    BY <1>1, <2>1
  <2>. QED
    BY <1>3, <2>2, <2>3 DEF Ended
<1>. QED
  BY <1>2, <1>3

\* What a stop set is, and that its entries are in one of their states.
LEMMA SetFields ==
    ASSUME NEW s \in StopSets
    PROVE  /\ s.requested \in BOOLEAN /\ DOMAIN s.entry \subseteq Executions
           /\ \A x \in DOMAIN s.entry : s.entry[x] \in EntryStates
<1>1. PICK E \in SUBSET Executions : s.entry \in [E -> EntryStates]
  BY DEF StopSets
<1>. QED
  BY <1>1 DEF StopSets

\* A set is made of a request and the states of some executions.
LEMMA SetMade ==
    ASSUME NEW requested \in BOOLEAN, NEW E \in SUBSET Executions,
           NEW entry \in [E -> EntryStates], NEW s, s = [requested |-> requested, entry |-> entry]
    PROVE  s \in StopSets /\ s.requested = requested /\ s.entry = entry /\ DOMAIN s.entry = E
  BY DEF StopSets

\* A set with an execution in flight, or that owes its stop, is not at rest.
LEMMA NotAtRest ==
    ASSUME NEW s \in StopSets, NEW x \in DOMAIN s.entry, s.entry[x] \in {"inflight", "stopping"}
    PROVE  Resolution(s) # "confirmed"
<1>1. ~({ s.entry[y] : y \in DOMAIN s.entry } \subseteq {"stopped", "completed"})
  OBVIOUS
<1>. QED
  BY <1>1 DEF Resolution

\* A set at rest has executions that have stopped or were completed, only.
LEMMA AtRest ==
    ASSUME NEW s \in StopSets, Resolution(s) = "confirmed", NEW x \in DOMAIN s.entry
    PROVE  s.entry[x] \in {"stopped", "completed"}
<1>1. { s.entry[y] : y \in DOMAIN s.entry } \subseteq {"stopped", "completed"}
  BY DEF Resolution
<1>. QED
  BY <1>1

\* A new set has no execution, and no request to stop.
LEMMA NewSetFields ==
    NewSet \in StopSets /\ NewSet.requested = FALSE /\ DOMAIN NewSet.entry = {}
<1>1. PICK entry : entry = [x \in {} |-> "inflight"]
  OBVIOUS
<1>2. entry \in [{} -> EntryStates] /\ DOMAIN entry = {}
  BY <1>1
<1>3. NewSet.requested = FALSE /\ NewSet.entry = entry
  BY <1>1 DEF NewSet
<1>4. NewSet = [requested |-> FALSE, entry |-> entry]
  BY <1>1 DEF NewSet
<1>5. entry \in UNION {[E -> EntryStates] : E \in SUBSET Executions}
  BY <1>2
<1>6. NewSet \in StopSets
  BY <1>4, <1>5 DEF StopSets
<1>. QED
  BY <1>2, <1>3, <1>6

\* An execution that is registered is tracked; the others stay as they are, or
\* were all settled and are dropped together, before any request to stop.
LEMMA RegisteredFacts ==
    ASSUME NEW s \in StopSets, NEW x \in Executions, NEW u, u = Registered(s, x)
    PROVE  /\ u \in StopSets /\ u.requested = s.requested
           /\ x \in DOMAIN u.entry /\ u.entry[x] \in {"inflight", "stopping"}
           /\ \A y \in DOMAIN u.entry \ {x} : y \in DOMAIN s.entry /\ u.entry[y] = s.entry[y]
           /\ s.requested => DOMAIN s.entry \subseteq DOMAIN u.entry
<1>1. PICK t : t = IF ~s.requested /\ Resolution(s) = "confirmed" THEN NewSet ELSE s
  OBVIOUS
<1>2. /\ t \in StopSets /\ t.requested = s.requested /\ (s.requested => t = s)
      /\ \A y \in DOMAIN t.entry : y \in DOMAIN s.entry /\ t.entry[y] = s.entry[y]
  BY <1>1, NewSetFields, SetFields
<1>3. PICK state : state = IF t.requested THEN "stopping" ELSE "inflight"
  OBVIOUS
<1>4. state \in EntryStates /\ state \in {"inflight", "stopping"}
  BY <1>3 DEF EntryStates
<1>5. PICK E : E = DOMAIN t.entry \cup {x}
  OBVIOUS
<1>6. PICK entry : entry = [y \in E |-> IF y = x THEN state ELSE t.entry[y]]
  OBVIOUS
<1>7. E \in SUBSET Executions /\ entry \in [E -> EntryStates]
  BY <1>2, <1>4, <1>5, <1>6, SetFields
<1>8. u = [t EXCEPT !.entry = entry]
  BY <1>1, <1>3, <1>5, <1>6 DEF Registered
<1>9. u = [requested |-> t.requested, entry |-> entry]
  BY <1>2, <1>8 DEF StopSets
<1>10. u \in StopSets /\ u.requested = t.requested /\ u.entry = entry /\ DOMAIN u.entry = E
  BY <1>2, <1>7, <1>9, SetFields, SetMade
<1>. QED
  BY <1>2, <1>4, <1>5, <1>6, <1>10

\* A set that is asked to stop keeps what was settled, and settles nothing.
LEMMA BeginStopFacts ==
    ASSUME NEW s \in StopSets, NEW u, u = BeginStop(s)
    PROVE  /\ u \in StopSets /\ u.requested /\ DOMAIN u.entry = DOMAIN s.entry
           /\ \A x \in DOMAIN s.entry :
                 /\ s.entry[x] \in {"inflight", "stopping"} => u.entry[x] = "stopping"
                 /\ s.entry[x] \notin {"inflight", "stopping"} => u.entry[x] = s.entry[x]
<1>1. PICK E : E = DOMAIN s.entry
  OBVIOUS
<1>2. PICK entry :
         entry = [x \in E |-> IF s.entry[x] = "inflight" THEN "stopping" ELSE s.entry[x]]
  OBVIOUS
<1>3. E \in SUBSET Executions /\ entry \in [E -> EntryStates]
  BY <1>1, <1>2, SetFields DEF EntryStates
<1>4. u = [requested |-> TRUE, entry |-> entry]
  BY <1>1, <1>2 DEF BeginStop
<1>5. u \in StopSets /\ u.requested = TRUE /\ u.entry = entry /\ DOMAIN u.entry = E
  BY <1>3, <1>4, SetMade
<1>. QED
  BY <1>1, <1>2, <1>5

\* An execution that is resolved is stopped only by a certain result; the
\* others, and the request, stay as they are.
LEMMA ResolvedFacts ==
    ASSUME NEW s \in StopSets, NEW x \in Executions, NEW asked \in BOOLEAN, NEW known \in BOOLEAN,
           NEW u, u = Resolved(s, x, asked, known)
    PROVE  /\ u \in StopSets /\ u.requested = s.requested /\ DOMAIN u.entry = DOMAIN s.entry
           /\ \A y \in DOMAIN s.entry : y # x => u.entry[y] = s.entry[y]
           /\ x \in DOMAIN s.entry /\ ~known /\ s.entry[x] # "stopped" => u.entry[x] # "stopped"
<1>1. CASE x \notin DOMAIN s.entry
  BY <1>1 DEF Resolved
<1>2. CASE x \in DOMAIN s.entry
  <2>. PICK was : was = s.entry[x]
    OBVIOUS
  <2>1. was \in EntryStates
    BY <1>2, SetFields
  <2>2. PICK state : state =
            CASE ~asked -> IF was = "inflight" THEN "completed" ELSE was
              [] asked /\ known -> IF was = "completed" THEN was ELSE "stopped"
              [] OTHER -> IF was \in {"stopped", "completed"} THEN was ELSE "unconfirmed"
    OBVIOUS
  <2>3. state \in EntryStates /\ (~known /\ was # "stopped" => state # "stopped")
    BY <2>1, <2>2 DEF EntryStates
  <2>4. PICK entry : entry = [s.entry EXCEPT ![x] = state]
    OBVIOUS
  <2>5. PICK E : E = DOMAIN s.entry
    OBVIOUS
  <2>6. E \in SUBSET Executions /\ entry \in [E -> EntryStates]
    BY <2>3, <2>4, <2>5, SetFields
  <2>7. u = [s EXCEPT !.entry[x] = state]
    BY <1>2, <2>2 DEF Resolved
  <2>8. u = [requested |-> s.requested, entry |-> entry]
    BY <2>4, <2>7 DEF StopSets
  <2>9. u \in StopSets /\ u.requested = s.requested /\ u.entry = entry /\ DOMAIN u.entry = E
    BY <2>6, <2>8, SetFields, SetMade
  <2>. QED
    BY <1>2, <2>3, <2>4, <2>5, <2>9
<1>. QED
  BY <1>1, <1>2

------------------------------------------------------------------------------
(* Steps that move one drive only                                            *)

\* A result that is not certain, until the turn is recorded with an unknown outcome.
Doubtful(d) ==
    \/ drive[d].step \in {"handled", "resolve", "settled"} /\ ~drive[d].known
    \/ drive[d].step \in {"drop", "end"} /\ drive[d].event = "unknown"

\* What most steps of a drive have in common: they change nothing but the runner
\* and where this drive is; none registers an execution, lets a handler run that
\* was not admitted, forgets a doubt, or ends the turn.
Passing(d, step, event) ==
    /\ Serving(d) /\ drive[d].step \notin {"again", "clear"}
    /\ Plain(d, step, event) /\ runner' \in Runners
    /\ UNCHANGED <<run, watches, stopping, cancel, lost>>
    /\ step \notin {"await", "prepared", "again", "clear"}
    /\ step \in Told => drive[d].step \in Told \/ drive[d].result
    /\ step \in {"broker", "consume", "running"} => drive[d].step \in {"broker", "consume"}
    /\ step \in {"handled", "resolve"} => drive[d].step \in {"broker", "consume", "handled"}
    /\ Doubtful(d) => (Doubtful(d))'
    /\ step \in {"leave", "store", "drive", "event"} => event # "none"
    /\ step = "drop" => event \in {"failed", "unknown", "cancelled"}
    /\ step = "end" => event \notin {"none", "tool"}

Passes(d) == \E step \in Steps, event \in Events : Passing(d, step, event)

\* The step is taken with an event: the facts that make it one of those.
LEMMA WithPasses ==
    ASSUME Types, NEW d \in Drives, Serving(d), NEW step \in Steps, NEW event \in Events,
           Plain(d, step, event), runner' \in Runners,
           UNCHANGED <<run, watches, stopping, cancel, lost>>,
           drive[d].step \notin {"again", "clear"},
           step \notin {"await", "prepared", "again", "clear"},
           step \in Told => drive[d].step \in Told \/ drive[d].result,
           step \in {"broker", "consume", "running"} => drive[d].step \in {"broker", "consume"},
           step \in {"handled", "resolve"} => drive[d].step \in {"broker", "consume", "handled"},
           drive[d].step = "handled" => step = "resolve",
           drive[d].step # "resolve",
           drive[d].step = "settled" /\ ~drive[d].known => step = "drop" /\ event = "unknown",
           drive[d].step = "drop" => step = "end" /\ event = drive[d].event,
           drive[d].step # "end",
           step \in {"leave", "store", "drive", "event"} => event # "none",
           step = "drop" => event \in {"failed", "unknown", "cancelled"},
           step = "end" => event \notin {"none", "tool"}
    PROVE  Passes(d)
<1>1. drive'[d].step = step /\ drive'[d].event = event /\ drive'[d].known = drive[d].known
  BY DEF Plain, Moves
<1>2. Doubtful(d) => (Doubtful(d))'
  BY <1>1 DEF Doubtful
<1>. QED
  BY <1>2 DEF Passes, Passing

\* What a drive is known to hold by its types.
LEMMA Holding ==
    ASSUME Types, NEW d \in Drives, Serving(d)
    PROVE  /\ Tasks /\ Holds(d) /\ drive[d] \in Busy /\ runner \in Runners
           /\ drive[d].event \in Events /\ drive[d].known \in BOOLEAN
           /\ drive[d].result \in BOOLEAN
           /\ drive[d].asked \in BOOLEAN /\ drive[d].channel \in Nat /\ drive[d].set \in Nat
<1>1. Tasks /\ Holds(d) /\ runner \in Runners
  BY DEF Types, Held, Streams
<1>2. drive[d] \in Busy
  BY <1>1, DriveCases
<1>. QED
  BY <1>1, <1>2 DEF Busy

\* A run is a record of three fields.
LEMMA RunnerFields ==
    ASSUME NEW r \in Runners
    PROVE  /\ r.at \in {"none", "stored", "held", "stepping"} /\ r.tool \in BOOLEAN
           /\ r.cancelled \in BOOLEAN
  BY DEF Runners

\* Each of its fields may be given another value.
LEMMA RunnerMoves ==
    ASSUME NEW r \in Runners, NEW at \in {"none", "stored", "held", "stepping"},
           NEW tool \in BOOLEAN
    PROVE  /\ [r EXCEPT !.at = at] \in Runners /\ [r EXCEPT !.tool = tool] \in Runners
           /\ [r EXCEPT !.cancelled = TRUE] \in Runners
           /\ [r EXCEPT !.at = at, !.tool = tool] \in Runners /\ NoRun \in Runners
  BY DEF Runners, NoRun

\* The runner's cancel leaves the runner a run, or none.
LEMMA CancelRunnerType ==
    ASSUME runner \in Runners, CancelRunner
    PROVE  runner' \in Runners
<1>1. NoRun \in Runners /\ [runner EXCEPT !.cancelled = TRUE] \in Runners
  BY RunnerMoves
<1>. QED
  BY <1>1 DEF CancelRunner

\* A drive takes the run, finds it busy with a tool, or finds none.
LEMMA TakePasses ==
    ASSUME Types, NEW d \in Drives, Take(d)
    PROVE  Passes(d)
<1>1. drive[d].step = "take" /\ UNCHANGED <<run, watches, stopping, cancel, lost>>
  BY DEF Take, At
<1>2. Serving(d)
  BY <1>1 DEF Serving
<1>. USE <1>1, <1>2
<1>3. Tasks /\ runner \in Runners /\ drive[d].result \in BOOLEAN /\ drive[d].event \in Events
  BY Holding
<1>4. CASE runner.at = "stored"
  <2>1. /\ runner' = [runner EXCEPT !.at = "held", !.tool = @ /\ ~drive[d].result]
        /\ IF runner.tool /\ ~drive[d].result THEN With(d, "busy", "store") ELSE GoTo(d, "begin")
    BY <1>4 DEF Take
  <2>2. PICK tool \in BOOLEAN : tool = (runner.tool /\ ~drive[d].result)
    BY <1>3, RunnerFields
  <2>3. runner' = [runner EXCEPT !.at = "held", !.tool = tool]
    BY <2>1, <2>2
  <2>4. runner' \in Runners
    BY <1>3, <2>3, RunnerMoves
  <2>5. CASE With(d, "busy", "store")
    <3>1. "busy" \in Events /\ "store" \in Steps
      BY DEF Events, Steps
    <3>2. Plain(d, "store", "busy")
      BY <1>3, <2>5, <3>1, WithMoves
    <3>. QED
      BY <2>4, <3>1, <3>2, WithPasses DEF Told, Handlers
  <2>6. CASE GoTo(d, "begin")
    <3>1. "begin" \in Steps
      BY DEF Steps
    <3>2. Plain(d, "begin", drive[d].event)
      BY <1>3, <2>6, <3>1, GoToMoves
    <3>. QED
      BY <1>3, <2>4, <3>1, <3>2, WithPasses DEF Told, Handlers
  <2>. QED
    BY <2>1, <2>5, <2>6
<1>5. CASE runner.at # "stored"
  <2>1. PICK event \in {"unknown", "missing"}, step \in {"event", "drive"} :
           /\ event = IF drive[d].result THEN "unknown" ELSE "missing"
           /\ step = IF drive[d].result THEN "event" ELSE "drive"
    OBVIOUS
  <2>2. runner' = runner /\ With(d, event, step)
    BY <1>5, <2>1 DEF Take
  <2>3. event \in Events /\ step \in Steps
    BY <2>1 DEF Events, TerminalKinds, Steps, Told
  <2>4. Plain(d, step, event)
    BY <1>3, <2>2, <2>3, WithMoves
  <2>. QED
    BY <1>3, <2>1, <2>2, <2>3, <2>4, WithPasses DEF Told, Handlers
<1>. QED
  BY <1>4, <1>5

\* The run goes to the model, to its next tool, or to its end.
LEMMA BeginPasses ==
    ASSUME Types, NEW d \in Drives, Begin(d)
    PROVE  Passes(d)
<1>1. drive[d].step = "begin" /\ UNCHANGED <<run, watches, stopping, cancel, lost>>
  BY DEF Begin, At
<1>2. Serving(d)
  BY <1>1 DEF Serving
<1>. USE <1>1, <1>2
<1>3. Tasks /\ runner \in Runners /\ drive[d].event \in Events
  BY Holding
<1>4. CASE runner' = [runner EXCEPT !.at = "stepping"] /\ GoTo(d, "model")
  <2>1. runner' \in Runners
    BY <1>3, <1>4, RunnerMoves
  <2>2. "model" \in Steps
    BY DEF Steps
  <2>3. Plain(d, "model", drive[d].event)
    BY <1>3, <1>4, <2>2, GoToMoves
  <2>. QED
    BY <1>3, <2>1, <2>2, <2>3, WithPasses DEF Told, Handlers
<1>5. CASE \E event \in {"tool", "cancelled", "failed"} :
              runner' \in Runners /\ With(d, event, "store")
  <2>1. PICK event \in {"tool", "cancelled", "failed"} :
           runner' \in Runners /\ With(d, event, "store")
    BY <1>5
  <2>2. event \in Events /\ "store" \in Steps
    BY DEF Events, TerminalKinds, Steps
  <2>3. Plain(d, "store", event)
    BY <1>3, <2>1, <2>2, WithMoves
  <2>. QED
    BY <2>1, <2>2, <2>3, WithPasses DEF Told, Handlers
<1>6. [runner EXCEPT !.tool = TRUE] \in Runners
  BY <1>3, RunnerMoves
<1>. QED
  BY <1>3, <1>4, <1>5, <1>6 DEF Begin

\* The model's answer is an event of the turn.
LEMMA ModelPasses ==
    ASSUME Types, NEW d \in Drives, Model(d)
    PROVE  Passes(d)
<1>1. drive[d].step = "model" /\ UNCHANGED <<run, watches, stopping, cancel, lost>>
  BY DEF Model, At
<1>2. Serving(d)
  BY <1>1 DEF Serving
<1>. USE <1>1, <1>2
<1>3. Tasks /\ runner \in Runners
  BY Holding
<1>4. [runner EXCEPT !.tool = TRUE] \in Runners
  BY <1>3, RunnerMoves
<1>5. PICK event \in {"completed", "tool", "cancelled", "failed", "overtime"} :
         runner' \in Runners /\ With(d, event, "leave")
  BY <1>3, <1>4 DEF Model
<1>6. event \in Events /\ "leave" \in Steps
  BY DEF Events, TerminalKinds, Steps
<1>7. Plain(d, "leave", event)
  BY <1>3, <1>5, <1>6, WithMoves
<1>. QED
  BY <1>5, <1>6, <1>7, WithPasses DEF Told, Handlers

\* A run that leaves its model step is held again.
LEMMA LeavePasses ==
    ASSUME Types, NEW d \in Drives, Leave(d)
    PROVE  Passes(d)
<1>1. drive[d].step = "leave" /\ UNCHANGED <<run, watches, stopping, cancel, lost>>
  BY DEF Leave, At
<1>2. Serving(d)
  BY <1>1 DEF Serving
<1>. USE <1>1, <1>2
<1>3. Tasks /\ runner \in Runners /\ drive[d].event \in Events /\ drive[d].event # "none"
  BY Holding DEF Holds
<1>4. runner' \in Runners
  BY <1>3, RunnerMoves DEF Leave
<1>5. "store" \in Steps
  BY DEF Steps
<1>6. Plain(d, "store", drive[d].event)
  BY <1>3, <1>5, GoToMoves DEF Leave
<1>. QED
  BY <1>3, <1>4, <1>5, <1>6, WithPasses DEF Told, Handlers

\* A run is stored for the next command, or dropped when it is over.
LEMMA StorePasses ==
    ASSUME Types, NEW d \in Drives, Store(d)
    PROVE  Passes(d)
<1>1. drive[d].step = "store" /\ UNCHANGED <<run, watches, stopping, cancel, lost>>
  BY DEF Store, At
<1>2. Serving(d)
  BY <1>1 DEF Serving
<1>. USE <1>1, <1>2
<1>3. /\ Tasks /\ runner \in Runners /\ drive[d].event \in Events /\ drive[d].event # "none"
      /\ drive[d].result \in BOOLEAN
  BY Holding DEF Holds
<1>4. [runner EXCEPT !.at = "stored"] \in Runners /\ NoRun \in Runners
  BY <1>3, RunnerMoves
<1>5. runner' \in Runners
  BY <1>4 DEF Store
<1>6. PICK step \in {"event", "drive"} : step = IF drive[d].result THEN "event" ELSE "drive"
  OBVIOUS
<1>7. step \in Steps
  BY DEF Steps, Told
<1>8. Plain(d, step, drive[d].event)
  BY <1>3, <1>6, <1>7, GoToMoves DEF Store
<1>. QED
  BY <1>3, <1>5, <1>6, <1>7, <1>8, WithPasses DEF Told, Handlers

\* A step that only goes on from a step of a dispatch.
LEMMA GoOnPasses ==
    ASSUME Types, NEW d \in Drives, NEW step \in Steps, GoTo(d, step),
           UNCHANGED <<run, runner, watches, stopping, cancel, lost>>,
           \/ drive[d].step = "broker" /\ step \in {"consume", "handled"}
           \/ drive[d].step = "consume" /\ step \in {"running", "handled"}
           \/ drive[d].step = "settled" /\ drive[d].known /\ step = "deliver"
           \/ drive[d].step = "event" /\ drive[d].event # "tool" /\ step = "end"
    PROVE  Passes(d)
<1>1. Serving(d)
  BY DEF Serving
<1>2. /\ Tasks /\ runner \in Runners /\ drive[d].event \in Events
      /\ drive[d].step = "event" => drive[d].event # "none"
  BY <1>1, Holding DEF Holds
<1>3. Plain(d, step, drive[d].event)
  BY <1>1, <1>2, GoToMoves
<1>4. runner' \in Runners /\ UNCHANGED <<run, watches, stopping, cancel, lost>>
  BY <1>2
<1>. QED
  BY <1>1, <1>2, <1>3, <1>4, WithPasses DEF Told, Handlers

\* A dispatch that goes wrong, and drops the run from the runner.
LEMMA DropsPasses ==
    ASSUME Types, NEW d \in Drives, NEW event \in {"failed", "unknown", "cancelled"},
           With(d, event, "drop"), UNCHANGED <<run, runner, watches, stopping, cancel, lost>>,
           drive[d].step \in {"event", "prepared", "settled", "await"},
           drive[d].step = "settled" /\ ~drive[d].known => event = "unknown"
    PROVE  Passes(d)
<1>1. Serving(d)
  BY DEF Serving
<1>2. Tasks /\ runner \in Runners
  BY <1>1, Holding
<1>3. event \in Events /\ "drop" \in Steps
  BY DEF Events, TerminalKinds, Steps, Told
<1>4. Plain(d, "drop", event)
  BY <1>1, <1>2, <1>3, WithMoves
<1>5. runner' \in Runners /\ UNCHANGED <<run, watches, stopping, cancel, lost>>
  BY <1>2
<1>. QED
  BY <1>1, <1>3, <1>4, <1>5, WithPasses DEF Told, Handlers

\* The broker admits a request, or refuses it.
LEMMA AdmitPasses ==
    ASSUME Types, NEW d \in Drives, Admit(d)
    PROVE  Passes(d)
<1>1. "consume" \in Steps /\ "handled" \in Steps
  BY DEF Steps, Told, Handlers
<1>. QED
  BY <1>1, GoOnPasses DEF Admit, At

\* The permit is consumed, or found stale.
LEMMA ConsumePasses ==
    ASSUME Types, NEW d \in Drives, Consume(d)
    PROVE  Passes(d)
<1>1. "running" \in Steps /\ "handled" \in Steps
  BY DEF Steps, Told, Handlers
<1>. QED
  BY <1>1, GoOnPasses DEF Consume, At

\* The watch is read after the handler's answer.
LEMMA HandledPasses ==
    ASSUME Types, NEW d \in Drives, Handled(d)
    PROVE  Passes(d)
<1>1. drive[d].step = "handled" /\ UNCHANGED <<run, runner, watches, stopping, cancel, lost>>
  BY DEF Handled, At
<1>2. Serving(d)
  BY <1>1 DEF Serving
<1>3. /\ Tasks /\ runner \in Runners /\ drive[d].event \in Events
      /\ drive[d].channel \in Nat /\ drive[d].channel # 0 /\ drive[d].channel <= Len(signals)
  BY <1>1, <1>2, Holding DEF Holds, Told, Handlers
<1>4. Hears(d) \in BOOLEAN
  BY <1>3 DEF Types, Objects, Hears
<1>5. "resolve" \in Steps
  BY DEF Steps, Told, Handlers
<1>6. PICK asked \in BOOLEAN : asked = Hears(d)
  BY <1>4
<1>7. drive' = [drive EXCEPT ![d].asked = asked, ![d].step = "resolve"]
  BY <1>6 DEF Handled
<1>8. Plain(d, "resolve", drive[d].event)
  BY <1>2, <1>3, <1>5, <1>7, HandledMoves
<1>9. runner' \in Runners /\ UNCHANGED <<run, watches, stopping, cancel, lost>>
  BY <1>1, <1>3
<1>. QED
  BY <1>1, <1>2, <1>3, <1>5, <1>8, <1>9, WithPasses DEF Told, Handlers

\* The wait for the set's proof ends in one outcome or the other.
LEMMA AwaitOwnPasses ==
    ASSUME Types, NEW d \in Drives, AwaitOwn(d)
    PROVE  Passes(d)
  BY DropsPasses DEF AwaitOwn, At

\* The run is dropped from the runner.
LEMMA DropPasses ==
    ASSUME Types, NEW d \in Drives, Drop(d)
    PROVE  Passes(d)
<1>1. drive[d].step = "drop" /\ UNCHANGED <<run, watches, stopping, cancel, lost>>
  BY DEF Drop, At
<1>2. Serving(d)
  BY <1>1 DEF Serving
<1>3. Tasks /\ runner \in Runners /\ drive[d].event \in {"failed", "unknown", "cancelled"}
  BY <1>1, <1>2, Holding DEF Holds
<1>4. runner' \in Runners
  BY <1>3, CancelRunnerType DEF Drop
<1>5. "end" \in Steps /\ drive[d].event \in Events
  BY <1>2, Holding DEF Steps
<1>6. Plain(d, "end", drive[d].event)
  BY <1>2, <1>3, <1>5, GoToMoves DEF Drop
<1>. QED
  BY <1>1, <1>2, <1>3, <1>4, <1>5, <1>6, WithPasses DEF Told, Handlers

\* The result is given to the runner, or held back by a turn that is over.
LEMMA DeliverPasses ==
    ASSUME Types, NEW d \in Drives, Deliver(d)
    PROVE  Passes(d)
<1>1. drive[d].step = "deliver" /\ UNCHANGED <<run, runner, watches, stopping, cancel, lost>>
  BY DEF Deliver, At
<1>2. Serving(d)
  BY <1>1 DEF Serving
<1>3. Tasks /\ runner \in Runners /\ drive[d].event \in Events
  BY <1>2, Holding
<1>4. runner' \in Runners /\ UNCHANGED <<run, watches, stopping, cancel, lost>>
  BY <1>1, <1>3
<1>5. CASE drive' = [drive EXCEPT ![d].step = "take", ![d].result = TRUE]
  <2>1. "take" \in Steps
    BY DEF Steps
  <2>2. Plain(d, "take", drive[d].event)
    BY <1>1, <1>2, <1>3, <1>5, <2>1, DeliverMoves
  <2>. QED
    BY <1>1, <1>2, <1>3, <1>4, <2>1, <2>2, WithPasses DEF Told, Handlers
<1>6. CASE \E event \in {"unknown", "cancelled"} : With(d, event, "event")
  <2>1. PICK event \in {"unknown", "cancelled"} : With(d, event, "event")
    BY <1>6
  <2>2. event \in Events /\ "event" \in Steps
    BY DEF Events, TerminalKinds, Steps, Told
  <2>3. Plain(d, "event", event)
    BY <1>2, <1>3, <2>1, <2>2, WithMoves
  <2>4. drive[d].step \in Told
    BY <1>1 DEF Told
  <2>. QED
    BY <1>1, <1>2, <1>4, <2>2, <2>3, <2>4, WithPasses
<1>. QED
  BY <1>5, <1>6 DEF Deliver

\* A dispatch begins with an execution that no set has had.
Prepares(d) ==
    /\ drive[d].step = "event" /\ ~Hears(d)
    /\ \E x \in Executions :
          /\ \A i \in DOMAIN sets : x \notin DOMAIN sets[i].entry
          /\ Moves(d, "prepared") /\ drive'[d].execution = x
          /\ drive'[d].channel = drive[d].channel /\ drive'[d].set = drive[d].set
          /\ drive'[d].result = drive[d].result /\ drive'[d].event = drive[d].event
    /\ UNCHANGED <<run, runner, watches, stopping, cancel, lost>>

\* The loop of a drive returns, goes on to the end of the turn, or dispatches.
LEMMA EventCases ==
    ASSUME Types, NEW d \in Drives, Event(d)
    PROVE  \/ Passes(d) \/ Prepares(d)
           \/ /\ Return(d) /\ "unknown" \in ThisTurn
              /\ UNCHANGED <<run, runner, watches, stopping, cancel, lost>>
<1>1. drive[d].step = "event" /\ UNCHANGED <<run, runner, watches, stopping, cancel, lost>>
  BY DEF Event, At
<1>2. Serving(d)
  BY <1>1 DEF Serving
<1>3. Tasks /\ drive[d].event \in Events
  BY <1>2, Holding
<1>4. "end" \in Steps /\ "prepared" \in Steps
  BY DEF Steps, Told
<1>5. CASE drive[d].event # "tool" /\ GoTo(d, "end")
  BY <1>1, <1>4, <1>5, GoOnPasses
<1>6. CASE \E event \in {"failed", "unknown", "cancelled"} : With(d, event, "drop")
  BY <1>1, <1>6, DropsPasses
<1>7. CASE ~Hears(d) /\ \E x \in Executions :
                /\ \A i \in DOMAIN sets : x \notin DOMAIN sets[i].entry
                /\ drive' = [drive EXCEPT ![d].execution = x, ![d].seen = Len(run),
                                          ![d].known = FALSE, ![d].step = "prepared"]
  <2>1. PICK x \in Executions :
                /\ \A i \in DOMAIN sets : x \notin DOMAIN sets[i].entry
                /\ drive' = [drive EXCEPT ![d].execution = x, ![d].seen = Len(run),
                                          ![d].known = FALSE, ![d].step = "prepared"]
    BY <1>7
  <2>2. PICK seen \in Nat : seen = Len(run)
    BY DEF Types, Streams
  <2>3. drive' = [drive EXCEPT ![d].execution = x, ![d].seen = seen,
                               ![d].known = FALSE, ![d].step = "prepared"]
    BY <2>1, <2>2
  <2>4. /\ Moves(d, "prepared")
        /\ drive'[d].channel = drive[d].channel /\ drive'[d].set = drive[d].set
        /\ drive'[d].result = drive[d].result /\ drive'[d].event = drive[d].event
        /\ drive'[d].execution = x
    BY <1>2, <1>3, <1>4, <2>3, PrepareMoves
  <2>. QED
    BY <1>1, <1>7, <2>1, <2>4 DEF Prepares
<1>8. CASE Return(d) /\ "unknown" \in ThisTurn
  BY <1>1, <1>8
<1>. QED
  BY <1>5, <1>6, <1>7, <1>8 DEF Event

\* A dispatch registers its execution and goes to the broker, without a signal.
Registers(d) ==
    /\ drive[d].step = "prepared" /\ ~Hears(d)
    /\ Plain(d, "broker", drive[d].event) /\ Register(d)
    /\ UNCHANGED <<run, runner, watches, cancel, lost>>

\* A prepared dispatch hears the signal, or registers.
LEMMA PreparedCases ==
    ASSUME Types, NEW d \in Drives, Prepared(d)
    PROVE  Passes(d) \/ Registers(d)
<1>1. drive[d].step = "prepared" /\ UNCHANGED <<run, runner, watches, cancel, lost>>
  BY DEF Prepared, At
<1>2. Serving(d) /\ "broker" \in Steps
  BY <1>1 DEF Serving, Steps, Told, Handlers
<1>3. Tasks
  BY <1>2, Holding
<1>4. CASE Hears(d)
  <2>1. With(d, "cancelled", "drop") /\ UNCHANGED stopping
    BY <1>4 DEF Prepared
  <2>. QED
    BY <1>1, <2>1, DropsPasses
<1>5. CASE ~Hears(d)
  <2>1. GoTo(d, "broker") /\ Register(d)
    BY <1>5 DEF Prepared
  <2>2. Plain(d, "broker", drive[d].event)
    BY <1>2, <1>3, <2>1, GoToMoves
  <2>. QED
    BY <1>1, <1>5, <2>1, <2>2 DEF Registers
<1>. QED
  BY <1>4, <1>5

\* A result that is held back waits for the set it was not told of.
Awaits(d) ==
    /\ drive[d].step = "settled" /\ drive[d].known /\ stops # 0
    /\ sets' = [sets EXCEPT ![stops] = BeginStop(@)]
    /\ Moves(d, "await") /\ drive'[d].set = stops
    /\ drive'[d].channel = drive[d].channel /\ drive'[d].result = drive[d].result
    /\ UNCHANGED <<run, runner, watches, stops, cancel, lost>>

\* A resolved dispatch goes on, or waits for a set that was not told.
LEMMA SettledCases ==
    ASSUME Types, NEW d \in Drives, Settled(d)
    PROVE  Passes(d) \/ Awaits(d)
<1>1. drive[d].step = "settled" /\ UNCHANGED <<run, runner, watches, stops, cancel, lost>>
  BY DEF Settled, At
<1>2. Serving(d) /\ "await" \in Steps /\ "deliver" \in Steps
  BY <1>1 DEF Serving, Steps, Told
<1>3. Tasks /\ drive[d].known \in BOOLEAN
  BY <1>2, Holding
<1>4. CASE ~drive[d].known /\ With(d, "unknown", "drop") /\ UNCHANGED sets
  BY <1>1, <1>4, DropsPasses DEF stopping
<1>5. CASE drive[d].known /\ GoTo(d, "deliver") /\ UNCHANGED sets
  BY <1>1, <1>2, <1>5, GoOnPasses DEF stopping
<1>6. CASE drive[d].known /\ With(d, "cancelled", "drop") /\ UNCHANGED sets
  BY <1>1, <1>6, DropsPasses DEF stopping
<1>7. CASE /\ drive[d].known /\ stops # 0
           /\ sets' = [sets EXCEPT ![stops] = BeginStop(@)]
           /\ drive' = [drive EXCEPT ![d].set = stops, ![d].step = "await"]
  <2>1. stops \in Nat
    BY DEF Types, Objects
  <2>2. /\ Moves(d, "await")
        /\ drive'[d].channel = drive[d].channel /\ drive'[d].set = stops
        /\ drive'[d].result = drive[d].result
    BY <1>2, <1>3, <1>7, <2>1, AwaitMoves
  <2>. QED
    BY <1>1, <1>7, <2>2 DEF Awaits
<1>. QED
  BY <1>3, <1>4, <1>5, <1>6, <1>7 DEF Settled

------------------------------------------------------------------------------
(* The types are kept                                                        *)

\* The watches and the sets that are there stay there.
Growing ==
    /\ Len(signals) \in Nat /\ Len(signals') \in Nat /\ Len(sets) \in Nat /\ Len(sets') \in Nat
    /\ Len(signals) <= Len(signals') /\ Len(sets) <= Len(sets')

\* What the tasks hold is kept when one drive moves to a step that holds it.
LEMMA HeldMoves ==
    ASSUME Types, NEW d \in Drives, NEW step, Moves(d, step), cancel' = cancel, Growing,
           (Holds(d))'
    PROVE  Tasks' /\ Held'
<1>1. Tasks'
  BY DEF Types, Tasks, Moves
<1>2. ASSUME NEW e \in Drives, (Serving(e))' PROVE (Holds(e))'
  <2>1. CASE e = d
    BY <2>1
  <2>2. CASE e # d
    <3>1. drive'[e] = drive[e]
      BY <2>2 DEF Moves
    <3>2. Serving(e)
      BY <1>2, <3>1 DEF Serving
    <3>3. Holds(e) /\ drive[e].channel \in Nat /\ drive[e].set \in Nat
      BY <3>2, Holding
    <3>4. drive'[e].channel <= Len(signals') /\ drive'[e].set <= Len(sets')
      BY <3>1, <3>3 DEF Growing, Holds
    <3>. QED
      BY <3>1, <3>3, <3>4 DEF Holds, Execution
  <2>. QED
    BY <2>1, <2>2
<1>3. ASSUME NEW k \in Cancels PROVE cancel'[k].set <= Len(sets')
  <2>1. cancel[k] \in CancelType /\ cancel[k].set <= Len(sets)
    BY DEF Types, Tasks, Held
  <2>2. cancel[k].set \in Nat
    BY <2>1 DEF CancelType
  <2>. QED
    BY <2>1, <2>2 DEF Growing
<1>. QED
  BY <1>1, <1>2, <1>3 DEF Held

\* Or when one drive is done.
LEMMA HeldReturns ==
    ASSUME Types, NEW d \in Drives, Return(d), cancel' = cancel, Growing
    PROVE  Tasks' /\ Held'
<1>1. Tasks
  BY DEF Types
<1>2. /\ drive' \in [Drives -> DriveType] /\ drive'[d] = Done
      /\ \A e \in Drives : e # d => drive'[e] = drive[e]
  BY <1>1, ReturnMoves
<1>3. Tasks'
  BY <1>1, <1>2 DEF Tasks
<1>4. ASSUME NEW e \in Drives, (Serving(e))' PROVE (Holds(e))'
  <2>1. e # d
    BY <1>2, <1>4 DEF Serving, Done
  <2>2. drive'[e] = drive[e]
    BY <1>2, <2>1
  <2>3. Serving(e)
    BY <1>4, <2>2 DEF Serving
  <2>4. Holds(e) /\ drive[e].channel \in Nat /\ drive[e].set \in Nat
    BY <2>3, Holding
  <2>5. drive'[e].channel <= Len(signals') /\ drive'[e].set <= Len(sets')
    BY <2>2, <2>4 DEF Growing, Holds
  <2>. QED
    BY <2>2, <2>4, <2>5 DEF Holds, Execution
<1>5. ASSUME NEW k \in Cancels PROVE cancel'[k].set <= Len(sets')
  <2>1. cancel[k] \in CancelType /\ cancel[k].set <= Len(sets)
    BY DEF Types, Tasks, Held
  <2>2. cancel[k].set \in Nat
    BY <2>1 DEF CancelType
  <2>. QED
    BY <2>1, <2>2 DEF Growing
<1>. QED
  BY <1>3, <1>4, <1>5 DEF Held

\* Or when one cancellation moves, with a set that is there.
LEMMA HeldCancels ==
    ASSUME Types, NEW k \in Cancels, drive' = drive, Growing,
           cancel' \in [Cancels -> CancelType], cancel'[k].set <= Len(sets'),
           \A j \in Cancels : j # k => cancel'[j] = cancel[j]
    PROVE  Tasks' /\ Held'
<1>1. Tasks'
  BY DEF Types, Tasks
<1>2. ASSUME NEW e \in Drives, (Serving(e))' PROVE (Holds(e))'
  <2>1. Serving(e)
    BY <1>2 DEF Serving
  <2>2. Holds(e) /\ drive[e].channel \in Nat /\ drive[e].set \in Nat
    BY <2>1, Holding
  <2>3. drive'[e].channel <= Len(signals') /\ drive'[e].set <= Len(sets')
    BY <2>2 DEF Growing, Holds
  <2>. QED
    BY <2>2, <2>3 DEF Holds, Execution
<1>3. ASSUME NEW j \in Cancels PROVE cancel'[j].set <= Len(sets')
  <2>1. CASE j = k
    BY <2>1
  <2>2. CASE j # k
    <3>1. cancel[j] \in CancelType /\ cancel[j].set <= Len(sets)
      BY DEF Types, Tasks, Held
    <3>2. cancel[j].set \in Nat
      BY <3>1 DEF CancelType
    <3>. QED
      BY <2>2, <3>1, <3>2 DEF Growing
  <2>. QED
    BY <2>1, <2>2
<1>. QED
  BY <1>1, <1>2, <1>3 DEF Held

\* Nothing is lost of watches and sets that stay as they are.
LEMMA StillGrows == ASSUME Objects, UNCHANGED <<signals, sets>> PROVE Growing
  BY DEF Objects, Growing

\* A step that only goes on keeps the types.
LEMMA PassesTypes ==
    ASSUME Types, NEW d \in Drives, Passes(d)
    PROVE  Types'
<1>1. PICK step \in Steps, event \in Events : Passing(d, step, event)
  BY DEF Passes
<1>2. /\ Serving(d) /\ Plain(d, step, event) /\ runner' \in Runners
      /\ UNCHANGED <<run, watches, stopping, cancel, lost>>
  BY <1>1 DEF Passing
<1>3. Streams' /\ Objects'
  BY <1>2 DEF Types, Streams, Objects, watches, stopping
<1>4. Growing
  BY <1>2, StillGrows DEF Types, watches, stopping
<1>5. Holds(d) /\ drive[d].result \in BOOLEAN
  BY <1>2, Holding
<1>6. /\ drive'[d].step = step /\ drive'[d].event = event /\ drive'[d].channel = drive[d].channel
      /\ drive'[d].set = drive[d].set /\ drive'[d].execution = drive[d].execution
      /\ drive'[d].result => drive[d].result \/ drive[d].step \in Told
  BY <1>2 DEF Plain, Moves, Keeps
<1>7. drive'[d].channel <= Len(signals') /\ drive'[d].set <= Len(sets')
  BY <1>2, <1>5, <1>6 DEF Holds, watches, stopping
<1>8. drive'[d].step \in Told \/ drive'[d].result => drive'[d].channel # 0
  BY <1>1, <1>5, <1>6 DEF Holds, Passing
<1>9. drive'[d].step \in Handlers \cup {"prepared"} => drive'[d].execution \in Executions
  BY <1>1, <1>5, <1>6 DEF Holds, Passing, Handlers, Execution
<1>10. (Holds(d))'
  BY <1>1, <1>6, <1>7, <1>8, <1>9 DEF Holds, Passing, Execution
<1>11. Tasks' /\ Held'
  BY <1>2, <1>4, <1>10, HeldMoves DEF Plain
<1>. QED
  BY <1>3, <1>11 DEF Types

\* A prompt starts its drive at the beginning.
LEMMA ContinueTypes ==
    ASSUME Types, NEW d \in Drives, Continue(d)
    PROVE  Types' /\ Moves(d, "take") /\ drive'[d].channel = 0
<1>1. /\ run' = Append(run, "prompt") /\ drive' = [drive EXCEPT ![d] = Asking]
      /\ UNCHANGED <<runner, watches, stopping, cancel, lost>>
  BY DEF Continue
<1>2. Tasks /\ Streams /\ Objects
  BY DEF Types
<1>3. "prompt" \in Facts
  BY DEF Facts
<1>4. Streams' /\ Objects' /\ Growing
  BY <1>1, <1>2, <1>3, StillGrows DEF Streams, Objects, watches, stopping
<1>5. Moves(d, "take") /\ drive'[d].channel = 0 /\ drive'[d].set = 0 /\ ~drive'[d].result
  BY <1>1, <1>2, ContinueMoves
<1>6. drive'[d].step = "take"
  BY <1>5 DEF Moves
<1>7. (Holds(d))'
  BY <1>4, <1>5, <1>6 DEF Holds, Told, Handlers, Growing
<1>8. Tasks' /\ Held'
  BY <1>1, <1>4, <1>5, <1>7, HeldMoves
<1>. QED
  BY <1>4, <1>5, <1>8 DEF Types

\* The drive has the watch of the run, a new one if the run has none, or returns.
Watches(d) ==
    /\ drive[d].step = "drive"
    /\ watch' = (IF watch = 0 THEN Len(signals) + 1 ELSE watch)
    /\ signals' = (IF watch = 0 THEN Append(signals, FALSE) ELSE signals)
    /\ \/ Return(d) /\ "unknown" \in ThisTurn
       \/ /\ Moves(d, "event") /\ drive'[d].channel = watch'
          /\ drive'[d].set = drive[d].set /\ drive'[d].result = drive[d].result
          /\ drive'[d].event = drive[d].event
    /\ UNCHANGED <<run, runner, stopping, cancel, lost>>

\* A drive asks for the run's watch, which is made when there is none.
LEMMA DriveTypes ==
    ASSUME Types, NEW d \in Drives, Drive(d)
    PROVE  Types' /\ Watches(d)
<1>1. drive[d].step = "drive" /\ UNCHANGED <<run, runner, stopping, cancel, lost>>
  BY DEF Drive, At
<1>2. Serving(d) /\ "event" \in Steps
  BY <1>1 DEF Serving, Steps, Told
<1>3. Tasks /\ Streams /\ Objects /\ Holds(d) /\ drive[d].channel \in Nat /\ drive[d].set \in Nat
  BY <1>2, Holding DEF Types
<1>4. PICK channel : channel = IF watch = 0 THEN Len(signals) + 1 ELSE watch
  OBVIOUS
<1>5. /\ watch' = channel
      /\ signals' = (IF watch = 0 THEN Append(signals, FALSE) ELSE signals)
      /\ drive' = [drive EXCEPT ![d] = IF "unknown" \in ThisTurn THEN [step |-> "done"]
                                      ELSE [@ EXCEPT !.channel = channel, !.step = "event"]]
  BY <1>4 DEF Drive, Watch
<1>. PICK n \in Nat : n = Len(signals)
  BY <1>3 DEF Objects
<1>6. signals \in Seq(BOOLEAN) /\ watch \in 0..n
  BY <1>3 DEF Objects
<1>7. PICK m \in Nat : /\ channel \in Nat /\ m = Len(signals') /\ n <= m
                      /\ channel \in 1..m /\ signals' \in Seq(BOOLEAN)
  <2>1. CASE watch = 0
    <3>1. signals' = Append(signals, FALSE)
      BY <1>5, <2>1
    <3>2. signals' \in Seq(BOOLEAN) /\ Len(signals') = n + 1
      BY <1>6, <3>1
    <3>. QED
      BY <1>4, <2>1, <3>2
  <2>2. CASE watch # 0
    BY <1>4, <1>5, <1>6, <2>2
  <2>. QED
    BY <2>1, <2>2
<1>8. Objects'
  <2>1. UNCHANGED <<sets, stops>>
    BY <1>1 DEF stopping
  <2>2. watch' = channel
    BY <1>5
  <2>3. channel \in 0..Len(signals')
    BY <1>7
  <2>. QED
    BY <1>3, <1>7, <2>1, <2>2, <2>3 DEF Objects
<1>9. Streams'
  BY <1>1, <1>3 DEF Streams
<1>10. Growing
  BY <1>1, <1>3, <1>7 DEF Objects, Growing, stopping
<1>11. CASE "unknown" \in ThisTurn
  <2>1. Return(d)
    BY <1>5, <1>11 DEF Return
  <2>2. Tasks' /\ Held'
    BY <1>1, <1>10, <2>1, HeldReturns
  <2>. QED
    BY <1>1, <1>4, <1>5, <1>8, <1>9, <1>11, <2>1, <2>2 DEF Types, Watches
<1>12. CASE "unknown" \notin ThisTurn
  <2>1. drive' = [drive EXCEPT ![d] = [@ EXCEPT !.channel = channel, !.step = "event"]]
    BY <1>5, <1>12
  <2>2. /\ Moves(d, "event") /\ drive'[d].channel = channel /\ drive'[d].set = drive[d].set
        /\ drive'[d].result = drive[d].result /\ drive'[d].event = drive[d].event
    BY <1>2, <1>3, <1>7, <2>1, WatchMoves
  <2>3. drive'[d].step = "event"
    BY <2>2 DEF Moves
  <2>4. drive'[d].set <= Len(sets')
    BY <1>3, <1>10, <2>2 DEF Growing, Holds
  <2>5. drive'[d].event # "none"
    BY <1>1, <1>3, <2>2 DEF Holds
  <2>6. (Holds(d))'
    BY <1>7, <2>2, <2>3, <2>4, <2>5 DEF Holds, Handlers
  <2>7. Tasks' /\ Held'
    BY <1>1, <1>10, <2>2, <2>6, HeldMoves
  <2>. QED
    BY <1>1, <1>4, <1>5, <1>8, <1>9, <2>2, <2>7 DEF Types, Watches
<1>. QED
  BY <1>11, <1>12

\* A prepared dispatch holds its execution.
LEMMA PreparesTypes ==
    ASSUME Types, NEW d \in Drives, Prepares(d)
    PROVE  Types'
<1>1. drive[d].step = "event" /\ UNCHANGED <<run, runner, watches, stopping, cancel, lost>>
  BY DEF Prepares
<1>2. Serving(d)
  BY <1>1 DEF Serving
<1>3. /\ Streams /\ Objects /\ Holds(d) /\ drive[d].channel \in Nat /\ drive[d].set \in Nat
  BY <1>2, Holding DEF Types
<1>4. Objects' /\ Streams' /\ Growing
  BY <1>1, <1>3, StillGrows DEF Objects, Streams, watches, stopping
<1>5. /\ Moves(d, "prepared") /\ drive'[d].execution \in Executions
      /\ drive'[d].channel = drive[d].channel /\ drive'[d].set = drive[d].set
  BY DEF Prepares
<1>6. drive'[d].step = "prepared"
  BY <1>5 DEF Moves
<1>7. /\ drive'[d].channel <= Len(signals') /\ drive'[d].set <= Len(sets')
      /\ drive'[d].channel # 0
  BY <1>1, <1>3, <1>4, <1>5 DEF Growing, Holds, Told
<1>8. (Holds(d))'
  BY <1>5, <1>6, <1>7 DEF Holds, Execution
<1>9. Tasks' /\ Held'
  BY <1>1, <1>4, <1>5, <1>8, HeldMoves
<1>. QED
  BY <1>4, <1>9 DEF Types

\* The set an execution is registered in, the run's own from then on.
LEMMA RegisterSets ==
    ASSUME Objects, NEW d \in Drives, Execution(d) \in Executions, Register(d)
    PROVE  /\ Len(sets) <= Len(sets') /\ stops' # 0
           /\ stops # 0 => stops' = stops /\ sets'[stops] = Registered(sets[stops], Execution(d))
           /\ stops = 0 => sets'[stops'] = Registered(NewSet, Execution(d))
           /\ \A j \in DOMAIN sets : j \in DOMAIN sets' /\ (j # stops => sets'[j] = sets[j])
           /\ UNCHANGED watches => Objects' /\ Growing
<1>. PICK n \in Nat : n = Len(sets)
  BY DEF Objects
<1>. PICK i : i = IF stops = 0 THEN n + 1 ELSE stops
  OBVIOUS
<1>. PICK s : s = IF stops = 0 THEN NewSet ELSE sets[stops]
  OBVIOUS
<1>. PICK m : m = IF stops = 0 THEN n + 1 ELSE n
  OBVIOUS
<1>. PICK u : u = Registered(s, Execution(d))
  OBVIOUS
<1>1. stops \in 0..n /\ \A j \in 1..n : sets[j] \in StopSets
  BY DEF Objects
<1>2. DOMAIN sets = 1..n
  BY DEF Objects
<1>3. s \in StopSets
  BY <1>1, NewSetFields
<1>4. u \in StopSets
  BY <1>3, RegisteredFacts
<1>5. stops' = i /\ sets' = [j \in 1..m |-> IF j = i THEN u ELSE sets[j]]
  BY DEF Register
<1>6. i \in 1..m /\ m \in Nat /\ n <= m
  BY <1>1
<1>7. sets' \in Seq(StopSets) /\ Len(sets') = m /\ DOMAIN sets' = 1..m
  <2>1. \A j \in 1..m : (IF j = i THEN u ELSE sets[j]) \in StopSets
    BY <1>1, <1>4
  <2>2. sets' \in [1..m -> StopSets]
    BY <1>5, <2>1
  <2>. QED
    BY <1>6, <2>2
<1>8. sets'[i] = u /\ \A j \in 1..n : j # i => sets'[j] = sets[j]
  BY <1>5, <1>6
<1>9. Objects' <=> signals' \in Seq(BOOLEAN) /\ watch' \in 0..Len(signals')
  BY <1>5, <1>6, <1>7 DEF Objects
<1>10. \A j \in DOMAIN sets : j \in DOMAIN sets' /\ (j # stops => sets'[j] = sets[j])
  BY <1>1, <1>2, <1>5, <1>6, <1>7, <1>8
<1>11. ASSUME UNCHANGED watches PROVE Objects' /\ Growing
  BY <1>6, <1>7, <1>9, <1>11 DEF Objects, Growing, watches
<1>12. Len(sets) <= Len(sets') /\ stops' # 0
  BY <1>5, <1>6, <1>7
<1>13. stops # 0 => stops' = stops /\ sets'[stops] = Registered(sets[stops], Execution(d))
  BY <1>5, <1>8
<1>14. stops = 0 => sets'[stops'] = Registered(NewSet, Execution(d))
  BY <1>5, <1>8
<1>. QED
  BY <1>10, <1>11, <1>12, <1>13, <1>14

\* A dispatch that registers keeps its execution and its watch.
LEMMA RegistersTypes ==
    ASSUME Types, NEW d \in Drives, Registers(d)
    PROVE  Types'
<1>1. /\ drive[d].step = "prepared" /\ Plain(d, "broker", drive[d].event) /\ Register(d)
      /\ UNCHANGED <<run, runner, watches, cancel, lost>>
  BY DEF Registers
<1>2. Serving(d)
  BY <1>1 DEF Serving
<1>3. Streams /\ Objects /\ Holds(d) /\ drive[d].channel \in Nat /\ drive[d].set \in Nat
  BY <1>2, Holding DEF Types
<1>4. Execution(d) \in Executions
  BY <1>1, <1>3 DEF Holds
<1>5. Objects' /\ Growing
  BY <1>1, <1>3, <1>4, RegisterSets
<1>6. Streams'
  BY <1>1, <1>3 DEF Streams
<1>7. /\ Moves(d, "broker") /\ drive'[d].step = "broker" /\ drive'[d].channel = drive[d].channel
      /\ drive'[d].set = drive[d].set /\ drive'[d].execution = drive[d].execution
  BY <1>1 DEF Plain, Keeps, Moves
<1>8. /\ drive'[d].channel <= Len(signals') /\ drive'[d].set <= Len(sets')
      /\ drive'[d].channel # 0
  BY <1>1, <1>3, <1>5, <1>7 DEF Growing, Holds, Told
<1>9. (Holds(d))'
  BY <1>4, <1>7, <1>8 DEF Holds, Execution
<1>10. Tasks' /\ Held'
  BY <1>1, <1>5, <1>7, <1>9, HeldMoves
<1>. QED
  BY <1>5, <1>6, <1>10 DEF Types

\* A handler answers.
Finishes(d) ==
    /\ drive[d].step = "running"
    /\ Moves(d, "handled") /\ Keeps(d)
    /\ drive'[d].known => lost' = lost
    /\ ~drive'[d].known => lost' = lost \cup {Execution(d)}
    /\ UNCHANGED <<run, runner, watches, stopping, cancel>>

\* A handler's answer keeps the types, and has the form named for it.
LEMMA FinishTypes ==
    ASSUME Types, NEW d \in Drives, Finish(d)
    PROVE  Types' /\ Finishes(d)
<1>1. drive[d].step = "running" /\ UNCHANGED <<run, runner, watches, stopping, cancel>>
  BY DEF Finish, At
<1>2. Serving(d) /\ "handled" \in Steps
  BY <1>1 DEF Serving, Steps, Told, Handlers
<1>3. /\ Tasks /\ Streams /\ Objects /\ Holds(d)
      /\ drive[d].channel \in Nat /\ drive[d].set \in Nat
  BY <1>2, Holding DEF Types
<1>4. PICK known \in BOOLEAN :
         /\ drive' = [drive EXCEPT ![d].known = known, ![d].step = "handled"]
         /\ lost' = IF known THEN lost ELSE lost \cup {Execution(d)}
  BY DEF Finish
<1>5. Moves(d, "handled") /\ Keeps(d) /\ drive'[d].known = known
  BY <1>2, <1>3, <1>4, FinishMoves
<1>6. Execution(d) \in Executions
  BY <1>1, <1>3 DEF Holds, Handlers
<1>7. Streams' /\ Objects' /\ Growing
  BY <1>1, <1>3, <1>4, <1>6, StillGrows DEF Streams, Objects, watches, stopping
<1>8. /\ drive'[d].step = "handled" /\ drive'[d].channel = drive[d].channel
      /\ drive'[d].set = drive[d].set /\ drive'[d].execution = drive[d].execution
  BY <1>5 DEF Moves, Keeps
<1>9. /\ drive'[d].channel <= Len(signals') /\ drive'[d].set <= Len(sets')
      /\ drive'[d].channel # 0
  BY <1>1, <1>3, <1>7, <1>8 DEF Growing, Holds, Told, Handlers
<1>10. (Holds(d))'
  BY <1>6, <1>8, <1>9 DEF Holds, Execution
<1>11. Tasks' /\ Held'
  BY <1>1, <1>5, <1>7, <1>10, HeldMoves
<1>. QED
  BY <1>1, <1>4, <1>5, <1>7, <1>11 DEF Types, Finishes

\* One set in the place of another.
LEMMA SetReplaced ==
    ASSUME Objects, stops # 0, NEW u \in StopSets, sets' = [sets EXCEPT ![stops] = u],
           UNCHANGED <<watches, stops>>
    PROVE  /\ Objects' /\ Growing /\ DOMAIN sets' = DOMAIN sets /\ stops \in DOMAIN sets
           /\ sets'[stops] = u /\ \A j \in DOMAIN sets : j # stops => sets'[j] = sets[j]
<1>. PICK n \in Nat : n = Len(sets)
  BY DEF Objects
<1>1. DOMAIN sets = 1..n /\ stops \in 1..n /\ \A j \in 1..n : sets[j] \in StopSets
  BY DEF Objects
<1>2. DOMAIN sets' = 1..n /\ sets'[stops] = u /\ \A j \in 1..n : j # stops => sets'[j] = sets[j]
  BY <1>1
<1>3. \A j \in 1..n : sets'[j] \in StopSets
  BY <1>1, <1>2
<1>4. sets' = [j \in 1..n |-> sets'[j]]
  BY <1>1
<1>5. sets' \in [1..n -> StopSets]
  BY <1>3, <1>4
<1>6. sets' \in Seq(StopSets) /\ Len(sets') = n
  <2>. PICK q : q = sets'
    OBVIOUS
  <2>. SUFFICES q \in Seq(StopSets) /\ Len(q) = n
    OBVIOUS
  <2>1. q \in [1..n -> StopSets]
    BY <1>5
  <2>. HIDE DEF StopSets
  <2>2. \A S : \A r \in [1..n -> S] : r \in Seq(S) /\ Len(r) = n
    OBVIOUS
  <2>. QED
    BY <2>1, <2>2, Zenon
<1>7. Objects'
  BY <1>1, <1>6 DEF Objects, watches
<1>8. Growing
  BY <1>6 DEF Growing, Objects, watches
<1>. QED
  BY <1>1, <1>2, <1>7, <1>8

\* The set of the run is told how a dispatch ended.
Resolves(d) ==
    /\ drive[d].step = "resolve" /\ Plain(d, "settled", drive[d].event)
    /\ stops = 0 => sets' = sets
    /\ stops # 0 => sets' = [sets EXCEPT ![stops] =
                        Resolved(sets[stops], Execution(d), drive[d].asked, drive[d].known)]
    /\ UNCHANGED <<run, runner, watches, stops, cancel, lost>>

\* A resolution keeps the types, and has the form named for it.
LEMMA ResolveTypes ==
    ASSUME Types, NEW d \in Drives, Resolve(d)
    PROVE  Types' /\ Resolves(d)
<1>1. drive[d].step = "resolve" /\ UNCHANGED <<run, runner, watches, stops, cancel, lost>>
  BY DEF Resolve, At
<1>2. Serving(d) /\ "settled" \in Steps
  BY <1>1 DEF Serving, Steps, Told, Handlers
<1>3. /\ Tasks /\ Streams /\ Objects /\ Holds(d) /\ drive[d].channel \in Nat
      /\ drive[d].set \in Nat /\ drive[d].asked \in BOOLEAN /\ drive[d].known \in BOOLEAN
  BY <1>2, Holding DEF Types
<1>4. Execution(d) \in Executions
  BY <1>1, <1>3 DEF Holds, Handlers
<1>5. Plain(d, "settled", drive[d].event)
  BY <1>2, <1>3, GoToMoves DEF Resolve
<1>6. /\ stops = 0 => sets' = sets
      /\ stops # 0 => sets' = [sets EXCEPT ![stops] =
                        Resolved(sets[stops], Execution(d), drive[d].asked, drive[d].known)]
  BY DEF Resolve
<1>7. Objects' /\ Growing
  <2>1. CASE stops = 0
    BY <1>1, <1>3, <1>6, <2>1, StillGrows DEF Objects, watches
  <2>2. CASE stops # 0
    <3>1. PICK u : u = Resolved(sets[stops], Execution(d), drive[d].asked, drive[d].known)
      OBVIOUS
    <3>2. sets[stops] \in StopSets
      BY <1>3, <2>2 DEF Objects
    <3>3. u \in StopSets
      BY <1>3, <1>4, <3>1, <3>2, ResolvedFacts
    <3>. QED
      BY <1>1, <1>3, <1>6, <2>2, <3>1, <3>3, SetReplaced
  <2>. QED
    BY <2>1, <2>2
<1>8. Streams'
  BY <1>1, <1>3 DEF Streams
<1>9. /\ Moves(d, "settled") /\ drive'[d].step = "settled" /\ drive'[d].channel = drive[d].channel
      /\ drive'[d].set = drive[d].set
  BY <1>5 DEF Plain, Keeps, Moves
<1>10. /\ drive'[d].channel <= Len(signals') /\ drive'[d].set <= Len(sets')
       /\ drive'[d].channel # 0
  BY <1>1, <1>3, <1>7, <1>9 DEF Growing, Holds, Told, Handlers
<1>11. (Holds(d))'
  BY <1>9, <1>10 DEF Holds, Handlers
<1>12. Tasks' /\ Held'
  BY <1>1, <1>7, <1>9, <1>11, HeldMoves
<1>. QED
  BY <1>1, <1>5, <1>6, <1>7, <1>8, <1>12 DEF Types, Resolves

\* A drive that waits holds the set of the run.
LEMMA AwaitsTypes ==
    ASSUME Types, NEW d \in Drives, Awaits(d)
    PROVE  Types'
<1>1. /\ drive[d].step = "settled" /\ stops # 0 /\ Moves(d, "await")
      /\ drive'[d].set = stops /\ drive'[d].channel = drive[d].channel
      /\ UNCHANGED <<run, runner, watches, stops, cancel, lost>>
  BY DEF Awaits
<1>2. Serving(d)
  BY <1>1 DEF Serving
<1>3. /\ Streams /\ Objects /\ Holds(d) /\ drive[d].channel \in Nat
  BY <1>2, Holding DEF Types
<1>4. PICK u : u = BeginStop(sets[stops])
  OBVIOUS
<1>5. u \in StopSets
  <2>1. sets[stops] \in StopSets
    BY <1>1, <1>3 DEF Objects
  <2>. QED
    BY <1>4, <2>1, BeginStopFacts
<1>6. sets' = [sets EXCEPT ![stops] = u]
  BY <1>4 DEF Awaits
<1>7. Objects' /\ Growing
  BY <1>1, <1>3, <1>5, <1>6, SetReplaced
<1>8. Streams'
  BY <1>1, <1>3 DEF Streams
<1>9. drive'[d].step = "await"
  BY <1>1 DEF Moves
<1>10. drive'[d].channel <= Len(signals') /\ drive'[d].channel # 0
  BY <1>1, <1>3, <1>7 DEF Growing, Holds, Told, watches
<1>11. drive'[d].set <= Len(sets') /\ drive'[d].set # 0
  BY <1>1, <1>7 DEF Objects
<1>12. (Holds(d))'
  BY <1>9, <1>10, <1>11 DEF Holds, Handlers
<1>13. Tasks' /\ Held'
  BY <1>1, <1>7, <1>12, HeldMoves
<1>. QED
  BY <1>7, <1>8, <1>13 DEF Types

\* Every event that ends a turn has its kind of outcome.
LEMMA KindIs ==
    ASSUME NEW event \in Events, event \notin {"none", "tool"}
    PROVE  KindOf(event) \in TerminalKinds
  BY DEF Events, KindOf, TerminalKinds

\* The end of a turn is recorded, and the drive returns when another outcome was
\* there before, or when its own is unknown.
Ends(d) ==
    /\ drive[d].step \in {"end", "again"}
    /\ KindOf(drive[d].event) \in TerminalKinds
    /\ EndTurn(KindOf(drive[d].event))
    /\ \/ /\ Return(d)
          /\ \/ KindOf(drive[d].event) = "unknown"
             \/ Ended /\ KindOf(drive[d].event) \notin ThisTurn
       \/ /\ \E step \in {"again", "clear"} : Plain(d, step, drive[d].event)
          /\ ~Ended \/ KindOf(drive[d].event) \in ThisTurn
    /\ UNCHANGED <<runner, watches, stopping, cancel, lost>>

\* The end of a turn keeps the types, and has the form named for it.
LEMMA EndTypes ==
    ASSUME Types, NEW d \in Drives, End(d)
    PROVE  Types' /\ Ends(d)
<1>1. /\ drive[d].step \in {"end", "again"} /\ EndTurn(KindOf(drive[d].event))
      /\ UNCHANGED <<runner, watches, stopping, cancel, lost>>
  BY DEF End
<1>2. Serving(d) /\ "again" \in Steps /\ "clear" \in Steps
  BY <1>1 DEF Serving, Steps
<1>3. /\ Tasks /\ Streams /\ Objects /\ Holds(d) /\ drive[d].channel \in Nat
      /\ drive[d].set \in Nat /\ drive[d].event \in Events /\ drive[d].result \in BOOLEAN
  BY <1>2, Holding DEF Types
<1>4. KindOf(drive[d].event) \in TerminalKinds /\ drive[d].event \notin {"none", "tool"}
  BY <1>1, <1>3, KindIs DEF Holds
<1>5. Streams' /\ Objects' /\ Growing
  <2>1. run' \in Seq(Facts)
    BY <1>1, <1>3, <1>4, TurnEnds DEF Streams
  <2>. QED
    BY <1>1, <1>3, <2>1, StillGrows DEF Streams, Objects, watches, stopping
<1>6. \/ Return(d) /\ Ended /\ KindOf(drive[d].event) \notin ThisTurn
      \/ Return(d) /\ KindOf(drive[d].event) = "unknown"
      \/ /\ GoTo(d, "again") \/ GoTo(d, "clear")
         /\ ~Ended \/ KindOf(drive[d].event) \in ThisTurn
  BY DEF End, Afterwards
<1>7. CASE /\ Return(d)
           /\ \/ KindOf(drive[d].event) = "unknown"
              \/ Ended /\ KindOf(drive[d].event) \notin ThisTurn
  <2>1. Tasks' /\ Held'
    BY <1>1, <1>5, <1>7, HeldReturns
  <2>2. Ends(d)
    BY <1>1, <1>4, <1>7 DEF Ends
  <2>. QED
    BY <1>5, <2>1, <2>2 DEF Types
<1>8. CASE /\ GoTo(d, "again") \/ GoTo(d, "clear")
           /\ ~Ended \/ KindOf(drive[d].event) \in ThisTurn
  <2>1. PICK step \in {"again", "clear"} : GoTo(d, step)
    BY <1>8
  <2>2. Plain(d, step, drive[d].event)
    BY <1>2, <1>3, <2>1, GoToMoves
  <2>3. /\ Moves(d, step) /\ drive'[d].step = step /\ drive'[d].channel = drive[d].channel
        /\ drive'[d].set = drive[d].set /\ drive'[d].event = drive[d].event
        /\ drive'[d].result => drive[d].result \/ drive[d].step \in Told
    BY <2>2 DEF Plain, Keeps, Moves
  <2>4. /\ drive'[d].channel <= Len(signals') /\ drive'[d].set <= Len(sets')
        /\ drive'[d].result => drive'[d].channel # 0
    BY <1>1, <1>3, <1>5, <2>3 DEF Growing, Holds, Told, Handlers
  <2>5. (Holds(d))'
    BY <1>4, <2>3, <2>4 DEF Holds, Told, Handlers
  <2>6. Tasks' /\ Held'
    BY <1>1, <1>5, <2>3, <2>5, HeldMoves
  <2>. QED
    BY <1>1, <1>4, <1>5, <1>8, <2>2, <2>6 DEF Types, Ends
<1>. QED
  BY <1>6, <1>7, <1>8

\* A drive that returns without a word keeps the types.
LEMMA ReturnTypes ==
    ASSUME Types, NEW d \in Drives, Return(d),
           UNCHANGED <<run, runner, watches, stopping, cancel, lost>>
    PROVE  Types'
<1>1. Streams' /\ Objects' /\ Growing
  BY StillGrows DEF Types, Streams, Objects, watches, stopping
<1>2. Tasks' /\ Held'
  BY <1>1, HeldReturns
<1>. QED
  BY <1>1, <1>2 DEF Types

\* Dropping the watch and the set keeps the types.
LEMMA ClearTypes ==
    ASSUME Types, NEW d \in Drives, Clear(d)
    PROVE  Types'
<1>1. /\ watch' = 0 /\ stops' = 0 /\ Return(d)
      /\ UNCHANGED <<run, runner, signals, sets, cancel, lost>>
  BY DEF Clear
<1>2. Streams' /\ Objects' /\ Growing
  BY <1>1, StillGrows DEF Types, Streams, Objects
<1>3. Tasks' /\ Held'
  BY <1>1, <1>2, HeldReturns
<1>. QED
  BY <1>2, <1>3 DEF Types

\* What a cancellation is known to hold by its types.
LEMMA CancelHolding ==
    ASSUME Types, NEW k \in Cancels
    PROVE  /\ Tasks /\ cancel[k] \in CancelType
           /\ cancel[k].set \in Nat /\ cancel[k].set <= Len(sets)
<1>1. Tasks /\ cancel[k] \in CancelType /\ cancel[k].set <= Len(sets)
  BY DEF Types, Tasks, Held
<1>. QED
  BY <1>1 DEF CancelType

\* A cancellation goes to a step, and no other one moves.
Advances(k, step) ==
    /\ cancel'[k].step = step
    /\ \A j \in Cancels : j # k => cancel'[j] = cancel[j]

\* It has learned nothing yet of the stop it asked for.
Keeping(k) == cancel'[k].stopped = cancel[k].stopped

\* A cancellation that only goes on keeps the types.
LEMMA ProceedTypes ==
    ASSUME Types, NEW k \in Cancels, NEW step \in Asks, Proceed(k, step), drive' = drive, Growing
    PROVE  /\ Tasks' /\ Held' /\ Advances(k, step)
           /\ cancel'[k].set = cancel[k].set /\ cancel'[k].stopped = cancel[k].stopped
<1>1. Tasks /\ cancel[k].set \in Nat /\ cancel[k].set <= Len(sets)
  BY CancelHolding
<1>2. /\ cancel' \in [Cancels -> CancelType] /\ cancel'[k].step = step
      /\ cancel'[k].set = cancel[k].set /\ cancel'[k].stopped = cancel[k].stopped
      /\ \A j \in Cancels : j # k => cancel'[j] = cancel[j]
  BY <1>1, ProceedMoves
<1>3. cancel'[k].set <= Len(sets')
  BY <1>1, <1>2 DEF Growing
<1>4. Tasks' /\ Held'
  BY <1>2, <1>3, HeldCancels
<1>. QED
  BY <1>2, <1>4 DEF Advances

\* A cancellation that is let in keeps the types.
LEMMA CancelTypes ==
    ASSUME Types, NEW k \in Cancels, Cancel(k)
    PROVE  Types' /\ Advances(k, "record") /\ Keeping(k)
<1>1. Proceed(k, "record") /\ UNCHANGED <<run, runner, watches, stopping, drive, lost>>
  BY DEF Cancel
<1>2. Streams' /\ Objects' /\ Growing
  BY <1>1, StillGrows DEF Types, Streams, Objects, watches, stopping
<1>3. "record" \in Asks
  BY DEF Asks
<1>4. Tasks' /\ Held' /\ Advances(k, "record") /\ Keeping(k)
  BY <1>1, <1>2, <1>3, ProceedTypes DEF Keeping
<1>. QED
  BY <1>2, <1>4 DEF Types

\* The request is there, or is recorded in a turn that is not over, or is refused.
Records(k) ==
    /\ cancel[k].step = "record" /\ Keeping(k)
    /\ \/ Advances(k, "done") /\ run' = run
       \/ Advances(k, "signal") /\ run' = run /\ \E i \in DOMAIN run : run[i] = "cancelling"
       \/ /\ Advances(k, "signal") /\ run' = Append(run, "cancelling")
          /\ ~\E i \in DOMAIN run : run[i] = "cancelling"
    /\ UNCHANGED <<runner, watches, stopping, drive, lost>>

\* The request keeps the types, and has the form named for it.
LEMMA RecordTypes ==
    ASSUME Types, NEW k \in Cancels, RecordCancelling(k)
    PROVE  Types' /\ Records(k)
<1>1. cancel[k].step = "record" /\ UNCHANGED <<runner, watches, stopping, drive, lost>>
  BY DEF RecordCancelling, On
<1>2. PICK step \in {"signal", "done"} :
         /\ Proceed(k, step)
         /\ \/ step = "done" /\ run' = run
            \/ step = "signal" /\ run' = run /\ \E i \in DOMAIN run : run[i] = "cancelling"
            \/ /\ step = "signal" /\ run' = Append(run, "cancelling")
               /\ ~\E i \in DOMAIN run : run[i] = "cancelling"
  BY DEF RecordCancelling
<1>3. Streams /\ Objects /\ "cancelling" \in Facts /\ step \in Asks
  BY DEF Types, Facts, Asks
<1>4. run' \in Seq(Facts)
  BY <1>2, <1>3 DEF Streams
<1>5. Streams' /\ Objects' /\ Growing
  BY <1>1, <1>3, <1>4, StillGrows DEF Streams, Objects, watches, stopping
<1>6. Tasks' /\ Held' /\ Advances(k, step) /\ Keeping(k)
  BY <1>1, <1>2, <1>3, <1>5, ProceedTypes DEF Keeping
<1>7. Records(k)
  BY <1>1, <1>2, <1>6 DEF Records
<1>. QED
  BY <1>5, <1>6, <1>7 DEF Types

\* The signal keeps the types, and is given to the watch of the run.
LEMMA SignalTypes ==
    ASSUME Types, NEW k \in Cancels, Signal(k)
    PROVE  /\ Types' /\ Advances(k, "runner") /\ Keeping(k)
           /\ watch' # 0 /\ signals'[watch'] = TRUE /\ (watch # 0 => watch' = watch)
<1>1. Proceed(k, "runner") /\ SignalCancel /\ UNCHANGED <<run, runner, stopping, drive, lost>>
  BY DEF Signal
<1>. PICK n \in Nat : n = Len(signals)
  BY DEF Types, Objects
<1>2. signals \in Seq(BOOLEAN) /\ watch \in 0..n
  BY DEF Types, Objects
<1>3. PICK m \in Nat : /\ m = Len(signals') /\ n <= m /\ watch' \in 1..m
                       /\ signals' \in Seq(BOOLEAN)
                       /\ signals'[watch'] = TRUE /\ (watch # 0 => watch' = watch)
  <2>1. CASE watch = 0
    <3>1. signals' = Append(signals, TRUE) /\ watch' = n + 1
      BY <1>1, <2>1 DEF SignalCancel
    <3>2. signals' \in Seq(BOOLEAN) /\ Len(signals') = n + 1 /\ signals'[n + 1] = TRUE
      BY <1>2, <3>1
    <3>. QED
      BY <2>1, <3>1, <3>2
  <2>2. CASE watch # 0
    <3>1. signals' = [signals EXCEPT ![watch] = TRUE] /\ watch' = watch
      BY <1>1, <2>2 DEF SignalCancel
    <3>2. watch \in 1..n
      BY <1>2, <2>2
    <3>3. signals' \in Seq(BOOLEAN) /\ Len(signals') = n /\ signals'[watch] = TRUE
      BY <1>2, <3>1, <3>2
    <3>. QED
      BY <2>2, <3>1, <3>2, <3>3
  <2>. QED
    BY <2>1, <2>2
<1>4. UNCHANGED <<sets, stops>>
  BY <1>1 DEF stopping
<1>5. Streams' /\ Objects'
  BY <1>1, <1>3, <1>4 DEF Types, Streams, Objects
<1>6. Growing
  BY <1>3, <1>4 DEF Growing, Types, Objects
<1>7. "runner" \in Asks
  BY DEF Asks
<1>8. Tasks' /\ Held' /\ Advances(k, "runner") /\ Keeping(k)
  BY <1>1, <1>6, <1>7, ProceedTypes DEF Keeping
<1>. QED
  BY <1>3, <1>5, <1>8 DEF Types

\* The question to the runner keeps the types.
LEMMA AskRunnerTypes ==
    ASSUME Types, NEW k \in Cancels, AskRunner(k)
    PROVE  Types' /\ Advances(k, "stop") /\ Keeping(k)
<1>1. /\ CancelRunner /\ UNCHANGED <<run, watches, stopping, drive, lost>>
      /\ cancel' = [cancel EXCEPT ![k].step = "stop",
                                  ![k].answered = runner.at \in {"stepping", "stored"}]
  BY DEF AskRunner
<1>2. Tasks /\ Streams /\ cancel[k].set \in Nat /\ cancel[k].set <= Len(sets)
  BY CancelHolding DEF Types
<1>3. PICK answered \in BOOLEAN : answered = (runner.at \in {"stepping", "stored"})
  <2>. DEFINE found == runner.at \in {"stepping", "stored"}
  <2>1. found \in BOOLEAN
    OBVIOUS
  <2>. HIDE DEF found
  <2>2. \E answered \in BOOLEAN : answered = found
    BY <2>1
  <2>. QED
    BY <2>2, Zenon DEF found
<1>4. cancel' = [cancel EXCEPT ![k].step = "stop", ![k].answered = answered]
  BY <1>1, <1>3
<1>5. "stop" \in Asks
  BY DEF Asks
<1>6. /\ cancel' \in [Cancels -> CancelType] /\ cancel'[k].step = "stop"
      /\ cancel'[k].set = cancel[k].set /\ cancel'[k].stopped = cancel[k].stopped
      /\ \A j \in Cancels : j # k => cancel'[j] = cancel[j]
  BY <1>2, <1>4, <1>5, AnsweredMoves
<1>7. Streams'
  BY <1>1, <1>2, CancelRunnerType DEF Streams
<1>8. Objects' /\ Growing
  BY <1>1, StillGrows DEF Types, Objects, watches, stopping
<1>9. cancel'[k].set <= Len(sets')
  BY <1>2, <1>6, <1>8 DEF Growing
<1>10. Tasks' /\ Held'
  BY <1>1, <1>6, <1>8, <1>9, HeldCancels
<1>. QED
  BY <1>6, <1>7, <1>8, <1>10 DEF Types, Advances, Keeping

\* A cancellation asks the set of the run to stop, or finds that there is none.
AsksStop(k) ==
    /\ cancel[k].step = "stop"
    /\ \/ stops = 0 /\ sets' = sets /\ Advances(k, "end")
       \/ /\ stops # 0 /\ sets' = [sets EXCEPT ![stops] = BeginStop(sets[stops])]
          /\ Advances(k, "wait") /\ cancel'[k].set = stops /\ Keeping(k)
    /\ UNCHANGED <<run, runner, watches, stops, drive, lost>>

\* The question to the set keeps the types, and has the form named for it.
LEMMA AskStopTypes ==
    ASSUME Types, NEW k \in Cancels, AskStop(k)
    PROVE  Types' /\ AsksStop(k)
<1>1. cancel[k].step = "stop" /\ UNCHANGED <<run, runner, watches, stops, drive, lost>>
  BY DEF AskStop, On
<1>2. /\ Tasks /\ Streams /\ Objects /\ cancel[k].set \in Nat /\ cancel[k].set <= Len(sets)
      /\ stops \in Nat
  BY CancelHolding DEF Types, Objects
<1>3. Streams' /\ "end" \in Asks /\ "wait" \in Asks
  BY <1>1, <1>2 DEF Streams, Asks
<1>4. CASE stops = 0
  <2>1. cancel' = [cancel EXCEPT ![k].step = "end", ![k].stopped = TRUE] /\ sets' = sets
    BY <1>4 DEF AskStop
  <2>2. /\ cancel' \in [Cancels -> CancelType] /\ cancel'[k].step = "end"
        /\ cancel'[k].set = cancel[k].set /\ \A j \in Cancels : j # k => cancel'[j] = cancel[j]
    BY <1>2, <1>3, <2>1, StoppedMoves
  <2>3. Objects' /\ Growing
    BY <1>1, <1>2, <2>1, StillGrows DEF Objects, watches
  <2>4. cancel'[k].set <= Len(sets')
    BY <1>2, <2>1, <2>2
  <2>5. Tasks' /\ Held'
    BY <1>1, <2>2, <2>3, <2>4, HeldCancels
  <2>6. AsksStop(k)
    BY <1>1, <1>4, <2>1, <2>2 DEF AsksStop, Advances
  <2>. QED
    BY <1>3, <2>3, <2>5, <2>6 DEF Types
<1>5. CASE stops # 0
  <2>1. PICK u : u = BeginStop(sets[stops])
    OBVIOUS
  <2>2. /\ cancel' = [cancel EXCEPT ![k].step = "wait", ![k].set = stops]
        /\ sets' = [sets EXCEPT ![stops] = u]
    BY <1>5, <2>1 DEF AskStop
  <2>3. u \in StopSets
    <3>1. sets[stops] \in StopSets
      BY <1>2, <1>5 DEF Objects
    <3>. QED
      BY <2>1, <3>1, BeginStopFacts
  <2>4. Objects' /\ Growing
    BY <1>1, <1>2, <1>5, <2>2, <2>3, SetReplaced
  <2>5. /\ cancel' \in [Cancels -> CancelType] /\ cancel'[k].step = "wait"
        /\ cancel'[k].set = stops /\ cancel'[k].stopped = cancel[k].stopped
        /\ \A j \in Cancels : j # k => cancel'[j] = cancel[j]
    <3>1. cancel[k] \in CancelType
      BY <1>2 DEF Tasks
    <3>2. PICK r : r = [cancel[k] EXCEPT !.step = "wait", !.set = stops]
      OBVIOUS
    <3>3. r \in CancelType /\ r.step = "wait" /\ r.set = stops /\ r.stopped = cancel[k].stopped
      BY <1>2, <1>3, <3>1, <3>2 DEF CancelType
    <3>4. cancel' = [cancel EXCEPT ![k] = r]
      BY <2>2, <3>2
    <3>. QED
      BY <1>2, <3>3, <3>4, CancelReplaced
  <2>6. cancel'[k].set <= Len(sets')
    BY <1>1, <2>4, <2>5 DEF Objects
  <2>7. Tasks' /\ Held'
    BY <1>1, <2>4, <2>5, <2>6, HeldCancels
  <2>8. AsksStop(k)
    BY <1>1, <1>5, <2>1, <2>2, <2>5 DEF AsksStop, Advances, Keeping
  <2>. QED
    BY <1>3, <2>4, <2>7, <2>8 DEF Types
<1>. QED
  BY <1>4, <1>5

\* The wait ends with what the set says, or with nothing when its time is over.
AwaitsStop(k) ==
    /\ cancel[k].step = "wait" /\ Advances(k, "end")
    /\ \/ cancel'[k].stopped = (Resolution(sets[cancel[k].set]) = "confirmed")
       \/ cancel'[k].stopped = cancel[k].stopped
    /\ UNCHANGED <<run, runner, watches, stopping, drive, lost>>

\* The wait keeps the types, and has the form named for it.
LEMMA AwaitStopTypes ==
    ASSUME Types, NEW k \in Cancels, AwaitStop(k)
    PROVE  Types' /\ AwaitsStop(k)
<1>1. cancel[k].step = "wait" /\ UNCHANGED <<run, runner, watches, stopping, drive, lost>>
  BY DEF AwaitStop, On
<1>2. Tasks /\ cancel[k].set \in Nat /\ cancel[k].set <= Len(sets)
  BY CancelHolding
<1>3. "end" \in Asks
  BY DEF Asks
<1>4. Streams' /\ Objects' /\ Growing
  BY <1>1, StillGrows DEF Types, Streams, Objects, watches, stopping
<1>5. CASE cancel' = [cancel EXCEPT ![k].step = "end",
                         ![k].stopped = Resolution(sets[cancel[k].set]) = "confirmed"]
  <2>1. PICK stopped \in BOOLEAN : stopped = (Resolution(sets[cancel[k].set]) = "confirmed")
    OBVIOUS
  <2>2. cancel' = [cancel EXCEPT ![k].step = "end", ![k].stopped = stopped]
    BY <1>5, <2>1
  <2>3. /\ cancel' \in [Cancels -> CancelType] /\ cancel'[k].step = "end"
        /\ cancel'[k].set = cancel[k].set /\ cancel'[k].stopped = stopped
        /\ \A j \in Cancels : j # k => cancel'[j] = cancel[j]
    BY <1>2, <1>3, <2>2, StoppedMoves
  <2>4. cancel'[k].set <= Len(sets')
    BY <1>2, <1>4, <2>3 DEF Growing
  <2>5. Tasks' /\ Held'
    BY <1>1, <1>4, <2>3, <2>4, HeldCancels
  <2>. QED
    BY <1>1, <1>4, <2>1, <2>3, <2>5 DEF Types, AwaitsStop, Advances
<1>6. CASE Proceed(k, "end")
  <2>1. Tasks' /\ Held' /\ Advances(k, "end") /\ cancel'[k].stopped = cancel[k].stopped
    BY <1>1, <1>3, <1>4, <1>6, ProceedTypes
  <2>. QED
    BY <1>1, <1>4, <2>1 DEF Types, AwaitsStop
<1>. QED
  BY <1>5, <1>6 DEF AwaitStop

\* The turn ends as cancelled, with the proof of it, or as unknown.
EndsCancel(k) ==
    /\ cancel[k].step = "end" /\ Advances(k, "done")
    /\ \E kind \in {"cancelled", "unknown"} :
          EndTurn(kind) /\ (kind = "cancelled" => cancel[k].stopped)
    /\ UNCHANGED <<runner, watches, stopping, drive, lost>>

\* The end of a cancellation keeps the types, and has the form named for it.
LEMMA EndCancelTypes ==
    ASSUME Types, NEW k \in Cancels, EndCancel(k)
    PROVE  Types' /\ EndsCancel(k)
<1>1. /\ cancel[k].step = "end" /\ Proceed(k, "done")
      /\ UNCHANGED <<runner, watches, stopping, drive, lost>>
  BY DEF EndCancel, On
<1>2. PICK kind \in {"cancelled", "unknown"} :
         EndTurn(kind) /\ (kind = "cancelled" => cancel[k].stopped)
  BY DEF EndCancel, Proven
<1>3. kind \in TerminalKinds /\ "done" \in Asks /\ Streams
  BY DEF TerminalKinds, Asks, Types
<1>4. run' \in Seq(Facts)
  BY <1>2, <1>3, TurnEnds DEF Streams
<1>5. Streams' /\ Objects' /\ Growing
  BY <1>1, <1>3, <1>4, StillGrows DEF Types, Streams, Objects, watches, stopping
<1>6. Tasks' /\ Held' /\ Advances(k, "done")
  BY <1>1, <1>3, <1>5, ProceedTypes
<1>7. EndsCancel(k)
  BY <1>1, <1>2, <1>6 DEF EndsCancel
<1>. QED
  BY <1>5, <1>6, <1>7 DEF Types

------------------------------------------------------------------------------
(* Every step has one of these forms, and keeps the types                     *)

Starts(d) ==
    /\ Moves(d, "take") /\ drive'[d].channel = 0
    /\ drive[d].step = "idle" /\ "unknown" \notin ThisTurn /\ run' = Append(run, "prompt")
    /\ "prompts" \in Unanswered \/ \A e \in Drives : ~Serving(e)
    /\ "cancels" \in Unanswered \/ \A k \in Cancels : cancel[k].step \in {"idle", "done"}
    /\ UNCHANGED <<watches, stopping, cancel, lost>>

Leaves(d) ==
    /\ Serving(d) /\ Return(d) /\ "unknown" \in ThisTurn
    /\ UNCHANGED <<run, runner, watches, stopping, cancel, lost>>

DriveStep(d) ==
    \/ Starts(d) \/ Passes(d) \/ Watches(d) \/ Prepares(d) \/ Registers(d) \/ Finishes(d)
    \/ Resolves(d) \/ Awaits(d) \/ Ends(d) \/ Leaves(d) \/ Clear(d)

Signals(k) ==
    /\ cancel[k].step = "signal" /\ Advances(k, "runner") /\ Keeping(k)
    /\ watch' # 0 /\ signals'[watch'] = TRUE /\ (watch # 0 => watch' = watch)
    /\ UNCHANGED <<run, stopping, drive, lost>>

\* A step of a cancellation that only goes on.
Goes(k) ==
    /\ \/ cancel[k].step = "idle" /\ Advances(k, "record")
       \/ cancel[k].step = "runner" /\ Advances(k, "stop")
    /\ Keeping(k)
    /\ UNCHANGED <<run, watches, stopping, drive, lost>>

CancelStep(k) ==
    Goes(k) \/ Records(k) \/ Signals(k) \/ AsksStop(k) \/ AwaitsStop(k) \/ EndsCancel(k)

\* Every step of a drive has one of the forms.
LEMMA DriveSteps ==
    ASSUME Types, NEW d \in Drives, Continue(d) \/ Driving(d) \/ Finish(d)
    PROVE  Types' /\ DriveStep(d)
<1>1. CASE Continue(d)
  <2>1. Starts(d)
    BY <1>1, ContinueTypes DEF Continue, Starts, At, Serving
  <2>. QED
    BY <1>1, <2>1, ContinueTypes DEF DriveStep
<1>2. CASE Take(d) \/ Begin(d) \/ Model(d) \/ Leave(d) \/ Store(d) \/ Admit(d) \/ Consume(d)
           \/ Handled(d) \/ AwaitOwn(d) \/ Deliver(d) \/ Drop(d)
  <2>1. Passes(d)
    BY <1>2, TakePasses, BeginPasses, ModelPasses, LeavePasses, StorePasses, AdmitPasses,
       ConsumePasses, HandledPasses, AwaitOwnPasses, DeliverPasses, DropPasses
  <2>. QED
    BY <2>1, PassesTypes DEF DriveStep
<1>3. CASE Drive(d)
  BY <1>3, DriveTypes DEF DriveStep
<1>4. CASE Event(d)
  <2>1. Serving(d)
    BY <1>4 DEF Event, At, Serving
  <2>. QED
    BY <1>4, <2>1, EventCases, PassesTypes, PreparesTypes, ReturnTypes DEF DriveStep, Leaves
<1>5. CASE Prepared(d)
  BY <1>5, PreparedCases, PassesTypes, RegistersTypes DEF DriveStep
<1>6. CASE Finish(d)
  BY <1>6, FinishTypes DEF DriveStep
<1>7. CASE Resolve(d)
  BY <1>7, ResolveTypes DEF DriveStep
<1>8. CASE Settled(d)
  BY <1>8, SettledCases, PassesTypes, AwaitsTypes DEF DriveStep
<1>9. CASE End(d)
  BY <1>9, EndTypes DEF DriveStep
<1>10. CASE Clear(d)
  BY <1>10, ClearTypes DEF DriveStep
<1>. QED
  BY <1>1, <1>2, <1>3, <1>4, <1>5, <1>6, <1>7, <1>8, <1>9, <1>10 DEF Driving, Dispatching

\* So has every step of a cancellation.
LEMMA CancelSteps ==
    ASSUME Types, NEW k \in Cancels, Cancel(k) \/ Cancelling(k)
    PROVE  Types' /\ CancelStep(k)
<1>1. CASE Cancel(k)
  <2>1. Goes(k)
    BY <1>1, CancelTypes DEF Cancel, On, Goes
  <2>. QED
    BY <1>1, <2>1, CancelTypes DEF CancelStep
<1>2. CASE RecordCancelling(k)
  BY <1>2, RecordTypes DEF CancelStep
<1>3. CASE Signal(k)
  <2>1. Signals(k)
    BY <1>3, SignalTypes DEF Signal, On, Signals
  <2>. QED
    BY <1>3, <2>1, SignalTypes DEF CancelStep
<1>4. CASE AskRunner(k)
  <2>1. Goes(k)
    BY <1>4, AskRunnerTypes DEF AskRunner, On, Goes
  <2>. QED
    BY <1>4, <2>1, AskRunnerTypes DEF CancelStep
<1>5. CASE AskStop(k)
  BY <1>5, AskStopTypes DEF CancelStep
<1>6. CASE AwaitStop(k)
  BY <1>6, AwaitStopTypes DEF CancelStep
<1>7. CASE EndCancel(k)
  BY <1>7, EndCancelTypes DEF CancelStep
<1>. QED
  BY <1>1, <1>2, <1>3, <1>4, <1>5, <1>6, <1>7 DEF Cancelling

\* A step that changes nothing keeps the types.
LEMMA StillTypes ==
    ASSUME Types, UNCHANGED vars
    PROVE  Types'
<1>1. Streams' /\ Objects' /\ Tasks'
  BY DEF vars, watches, stopping, Types, Streams, Objects, Tasks
<1>2. Held'
  BY DEF vars, watches, stopping, Types, Held, Serving, Holds, Execution
<1>. QED
  BY <1>1, <1>2 DEF Types

\* A run that starts is well typed.
LEMMA InitTypes ==
    ASSUME Init
    PROVE  Types
<1>1. Streams
  BY DEF Init, Streams, Facts, Runners
<1>2. Objects
  BY DEF Init, Objects
<1>3. PICK first \in Drives :
         drive = [d \in Drives |-> IF d = first THEN [Asking EXCEPT !.step = "begin"] ELSE Idle]
  BY DEF Init
<1>4. PICK r : r = [Asking EXCEPT !.step = "begin"]
  OBVIOUS
<1>5. r \in Busy /\ r.step = "begin" /\ r.channel = 0 /\ r.set = 0 /\ r.result = FALSE
  BY <1>4 DEF Busy, Asking, Steps, Events
<1>6. \A d \in Drives : drive[d] = r \/ drive[d] = Idle
  BY <1>3, <1>4
<1>7. drive \in [Drives -> DriveType]
  <2>1. r \in DriveType /\ Idle \in DriveType
    BY <1>5 DEF DriveType
  <2>. QED
    BY <1>3, <1>4, <2>1
<1>8. cancel \in [Cancels -> CancelType] /\ \A k \in Cancels : cancel[k].set = 0
  BY DEF Init, CancelType, Asks
<1>9. Tasks
  BY <1>7, <1>8 DEF Tasks
<1>10. ASSUME NEW d \in Drives, Serving(d) PROVE Holds(d)
  <2>1. drive[d] = r
    BY <1>6, <1>10 DEF Serving, Idle
  <2>. QED
    BY <1>2, <1>5, <2>1 DEF Holds, Objects, Told, Handlers
<1>11. Held
  BY <1>2, <1>8, <1>10 DEF Held, Objects
<1>. QED
  BY <1>1, <1>2, <1>9, <1>11 DEF Types

\* The types give what the runs check of them.
LEMMA TypesGive ==
    ASSUME Types
    PROVE  TypeOK
<1>1. run \in Seq({"prompt", "cancelling"} \cup TerminalKinds) /\ lost \subseteq Executions
  BY DEF Types, Streams, Facts
<1>2. runner \in [at : {"none", "stored", "held", "stepping"}, tool : BOOLEAN, cancelled : BOOLEAN]
  BY DEF Types, Streams, Runners
<1>3. signals \in Seq(BOOLEAN) /\ watch \in 0..Len(signals) /\ stops \in 0..Len(sets)
  BY DEF Types, Objects
<1>4. ASSUME NEW i \in DOMAIN sets
      PROVE  /\ sets[i].requested \in BOOLEAN /\ DOMAIN sets[i].entry \subseteq Executions
             /\ \A x \in DOMAIN sets[i].entry : sets[i].entry[x] \in EntryStates
  <2>1. sets[i] \in StopSets
    BY DEF Types, Objects
  <2>. QED
    BY <2>1, SetFields
<1>5. ASSUME NEW d \in Drives, drive[d].step \notin {"idle", "done"}
      PROVE  drive[d].channel \in 0..Len(signals)
  <2>1. Serving(d)
    BY <1>5 DEF Serving
  <2>2. Holds(d) /\ drive[d].channel \in Nat
    BY <2>1, Holding
  <2>. QED
    BY <1>3, <2>2 DEF Holds
<1>6. ASSUME NEW k \in Cancels PROVE cancel[k].set \in 0..Len(sets)
  BY CancelHolding DEF Types, Objects
<1>. QED
  BY <1>1, <1>2, <1>3, <1>4, <1>5, <1>6 DEF TypeOK

\* Every step keeps the types.
LEMMA NextTypes ==
    ASSUME Types, [Next]_vars
    PROVE  Types'
  BY DriveSteps, CancelSteps, StillTypes DEF Next

\* Every reachable state is well typed, whatever the client leaves unanswered: an
\* event that ends a turn has one of the four kinds of outcome, and a task refers
\* only to watches and stop sets that were made.
THEOREM TypeCorrect == Spec => []TypeOK
<1>1. Init => Types
  BY InitTypes
<1>2. Types /\ [Next]_vars => Types'
  BY NextTypes
<1>3. Types => TypeOK
  BY TypesGive
<1>. QED
  BY <1>1, <1>2, <1>3, PTL DEF Spec

------------------------------------------------------------------------------
(* One drive at a time                                                       *)

\* A client that waits for the answer to its prompt has one drive at a time.
One == \A d, e \in Drives : Serving(d) /\ Serving(e) => d = e

\* An execution that may run, or has run and was not resolved, is in the run's set.
Tracked ==
    \A d \in Drives : drive[d].step \in Handlers =>
        /\ stops # 0 /\ Execution(d) \in DOMAIN sets[stops].entry
        /\ sets[stops].entry[Execution(d)] \in {"inflight", "stopping"}

\* The watch of a drive is the run's own.
Joined == \A d \in Drives : Serving(d) /\ drive[d].channel # 0 => drive[d].channel = watch

\* A drive drops the watch and the set only of a turn that is over.
Closed ==
    \A d \in Drives : drive[d].step \in {"again", "clear"}
                         => KindOf(drive[d].event) \in ThisTurn \cap TerminalKinds

\* Who signals a cancellation has it recorded.
Asked ==
    \A k \in Cancels : cancel[k].step \in {"signal", "runner", "stop", "wait", "end"}
                          => \E i \in DOMAIN run : run[i] = "cancelling"

Signalled == watch # 0 /\ signals[watch]

\* A cancellation of this turn that was signalled is there to be heard.
Heard ==
    \A k \in Cancels : (/\ cancel[k].step \in {"runner", "stop", "wait", "end"}
                        /\ "cancelling" \in ThisTurn /\ ~Ended)
                          => Signalled

Driven == One /\ Tracked /\ Joined /\ Closed /\ Asked /\ Heard

\* The turn is the same while nothing is recorded.
LEMMA TurnStays == ASSUME run' = run PROVE (ThisTurn)' = ThisTurn /\ ((Ended)' <=> Ended)
  BY TurnIs DEF Ended

\* The set of the run is one of the sets.
LEMMA OwnSet ==
    ASSUME Types, stops # 0
    PROVE  stops \in DOMAIN sets /\ sets[stops] \in StopSets
  BY DEF Types, Objects

\* When one drive moves and no other was in its turn, it is the only one.
LEMMA OnlyOne ==
    ASSUME NEW d \in Drives, \A e \in Drives : e # d => drive'[e] = drive[e],
           \A e \in Drives : Serving(e) => e = d
    PROVE  One' /\ \A e \in Drives : (Serving(e))' => e = d
<1>1. \A e \in Drives : (Serving(e))' => e = d
  BY DEF Serving
<1>. QED
  BY <1>1 DEF One

\* And when it returns there is none.
LEMMA NoneLeft ==
    ASSUME Types, One, NEW d \in Drives, Serving(d), Return(d)
    PROVE  One' /\ \A e \in Drives : (~Serving(e))'
<1>1. Tasks
  BY DEF Types
<1>2. drive'[d] = Done /\ \A e \in Drives : e # d => drive'[e] = drive[e]
  BY <1>1, ReturnMoves
<1>3. (~Serving(d))'
  BY <1>2 DEF Serving, Done
<1>4. \A e \in Drives : Serving(e) => e = d
  BY DEF One
<1>5. \A e \in Drives : (Serving(e))' => e = d
  BY <1>2, <1>4, OnlyOne
<1>6. \A e \in Drives : (~Serving(e))'
  BY <1>3, <1>5 DEF Serving
<1>7. One'
  BY <1>6 DEF One, Serving
<1>. QED
  BY <1>6, <1>7

\* With no drive in its turn, what is said of drives holds.
LEMMA NoneDriven ==
    ASSUME \A d \in Drives : ~Serving(d)
    PROVE  One /\ Tracked /\ Joined /\ Closed
  BY DEF Serving, One, Tracked, Joined, Closed, Handlers

\* Where nothing is recorded, signalled or asked, the cancellations stay heard.
LEMMA StillHeard ==
    ASSUME Asked, Heard, UNCHANGED <<run, watches, cancel>>
    PROVE  Asked' /\ Heard'
<1>1. (ThisTurn)' = ThisTurn /\ ((Ended)' <=> Ended)
  BY TurnStays
<1>2. Asked'
  BY DEF Asked
<1>3. Signalled => Signalled'
  BY DEF Signalled, watches
<1>. QED
  BY <1>1, <1>2, <1>3 DEF Heard

\* A step in a turn keeps one drive, its execution tracked and its watch.
LEMMA PassesDriven ==
    ASSUME Types, Driven, NEW d \in Drives, Passes(d)
    PROVE  Driven'
<1>1. PICK step \in Steps, event \in Events : Passing(d, step, event)
  BY DEF Passes
<1>2. /\ Serving(d) /\ UNCHANGED <<run, watches, stopping, cancel, lost>>
      /\ drive'[d].step = step /\ drive'[d].channel = drive[d].channel
      /\ drive'[d].execution = drive[d].execution
      /\ \A e \in Drives : e # d => drive'[e] = drive[e]
  BY <1>1 DEF Passing, Plain, Moves, Keeps
<1>3. \A e \in Drives : Serving(e) => e = d
  BY <1>2 DEF Driven, One
<1>4. One' /\ \A e \in Drives : (Serving(e))' => e = d
  BY <1>2, <1>3, OnlyOne
<1>5. Asked' /\ Heard'
  BY <1>2, StillHeard DEF Driven
<1>6. step \in Handlers => drive[d].step \in Handlers
  BY <1>1 DEF Passing, Handlers
<1>7. Tracked'
  <2>1. ASSUME NEW e \in Drives, drive'[e].step \in Handlers PROVE e = d
    BY <1>4, <2>1 DEF Serving, Handlers
  <2>2. UNCHANGED <<stops, sets>>
    BY <1>2 DEF stopping
  <2>. QED
    BY <1>2, <1>6, <2>1, <2>2 DEF Driven, Tracked, Execution
<1>8. Joined'
  BY <1>2, <1>4 DEF Driven, Joined, watches
<1>9. Closed'
  <2>1. ASSUME NEW e \in Drives, drive'[e].step \in {"again", "clear"} PROVE e = d
    BY <1>4, <2>1 DEF Serving
  <2>. QED
    BY <1>1, <1>2, <2>1 DEF Closed, Passing
<1>. QED
  BY <1>4, <1>5, <1>7, <1>8, <1>9 DEF Driven

\* A prompt that waited for the last one finds no other drive.
LEMMA StartsDriven ==
    ASSUME Types, Driven, "prompts" \notin Unanswered, NEW d \in Drives, Starts(d)
    PROVE  Driven'
<1>1. /\ drive'[d].step = "take" /\ drive'[d].channel = 0
      /\ \A e \in Drives : e # d => drive'[e] = drive[e]
      /\ \A e \in Drives : ~Serving(e)
      /\ run' = Append(run, "prompt") /\ UNCHANGED <<watches, stopping, cancel, lost>>
  BY DEF Starts, Moves
<1>2. One' /\ \A e \in Drives : (Serving(e))' => e = d
  BY <1>1, OnlyOne
<1>3. \A e \in Drives : drive'[e].step \in Handlers \cup {"again", "clear"} => FALSE
  BY <1>1, <1>2 DEF Serving, Handlers
<1>4. Tracked' /\ Closed'
  BY <1>3 DEF Tracked, Closed
<1>5. Joined'
  BY <1>1, <1>2 DEF Joined
<1>6. (ThisTurn)' = {"prompt"}
  BY <1>1, TurnStarts DEF Types, Streams
<1>7. Heard'
  BY <1>6 DEF Heard
<1>8. \A i \in DOMAIN run : i \in DOMAIN run' /\ run'[i] = run[i]
  BY <1>1 DEF Types, Streams
<1>9. Asked'
  BY <1>1, <1>8 DEF Driven, Asked
<1>. QED
  BY <1>2, <1>4, <1>5, <1>7, <1>9 DEF Driven

\* A drive joins the watch of the run, or returns.
LEMMA WatchesDriven ==
    ASSUME Types, Driven, NEW d \in Drives, Watches(d)
    PROVE  Driven'
<1>1. /\ drive[d].step = "drive" /\ UNCHANGED <<run, stopping, cancel>>
      /\ watch' = (IF watch = 0 THEN Len(signals) + 1 ELSE watch)
      /\ watch # 0 => UNCHANGED watches
  BY DEF Watches, watches
<1>2. Serving(d)
  BY <1>1 DEF Serving
<1>3. (ThisTurn)' = ThisTurn /\ ((Ended)' <=> Ended)
  BY <1>1, TurnStays
<1>4. Asked'
  BY <1>1 DEF Driven, Asked
<1>5. Signalled => Signalled'
  BY <1>1 DEF Signalled, watches
<1>6. Heard'
  BY <1>1, <1>3, <1>5 DEF Driven, Heard
<1>7. CASE Return(d)
  <2>1. One' /\ \A e \in Drives : (~Serving(e))'
    BY <1>2, <1>7, NoneLeft DEF Driven
  <2>2. Tracked' /\ Joined' /\ Closed'
    BY <2>1 DEF Serving, Tracked, Joined, Closed, Handlers
  <2>. QED
    BY <1>4, <1>6, <2>1, <2>2 DEF Driven
<1>8. CASE Moves(d, "event") /\ drive'[d].channel = watch'
  <2>1. /\ drive'[d].step = "event" /\ \A e \in Drives : e # d => drive'[e] = drive[e]
    BY <1>8 DEF Moves
  <2>2. \A e \in Drives : Serving(e) => e = d
    BY <1>2 DEF Driven, One
  <2>3. One' /\ \A e \in Drives : (Serving(e))' => e = d
    BY <2>1, <2>2, OnlyOne
  <2>4. \A e \in Drives : drive'[e].step \in Handlers \cup {"again", "clear"} => FALSE
    BY <2>1, <2>3 DEF Serving, Handlers
  <2>5. Tracked' /\ Closed'
    BY <2>4 DEF Tracked, Closed
  <2>6. Joined'
    BY <1>8, <2>3 DEF Joined
  <2>. QED
    BY <1>4, <1>6, <2>3, <2>5, <2>6 DEF Driven
<1>. QED
  BY <1>7, <1>8 DEF Watches

\* A drive that goes on within its turn, with nothing recorded or asked: what is
\* left to show is that its own execution is tracked.
LEMMA GoesOnDriven ==
    ASSUME Types, Driven, NEW d \in Drives, NEW step, Serving(d), Moves(d, step),
           drive'[d].channel = drive[d].channel,
           step \notin {"again", "clear"}, UNCHANGED <<run, watches, cancel>>,
           step \in Handlers => /\ stops' # 0 /\ drive'[d].execution \in DOMAIN sets'[stops'].entry
                                /\ sets'[stops'].entry[drive'[d].execution]
                                      \in {"inflight", "stopping"}
    PROVE  Driven'
<1>1. drive'[d].step = step /\ \A e \in Drives : e # d => drive'[e] = drive[e]
  BY DEF Moves
<1>2. \A e \in Drives : Serving(e) => e = d
  BY DEF Driven, One
<1>3. One' /\ \A e \in Drives : (Serving(e))' => e = d
  BY <1>1, <1>2, OnlyOne
<1>4. Asked' /\ Heard'
  BY StillHeard DEF Driven
<1>5. Tracked'
  <2>1. ASSUME NEW e \in Drives, drive'[e].step \in Handlers PROVE e = d
    BY <1>3, <2>1 DEF Serving, Handlers
  <2>. QED
    BY <1>1, <2>1 DEF Tracked, Execution
<1>6. Joined'
  BY <1>3 DEF Driven, Joined, watches
<1>7. Closed'
  <2>1. ASSUME NEW e \in Drives, drive'[e].step \in {"again", "clear"} PROVE e = d
    BY <1>3, <2>1 DEF Serving
  <2>. QED
    BY <1>1, <2>1 DEF Closed
<1>. QED
  BY <1>3, <1>4, <1>5, <1>6, <1>7 DEF Driven

\* A prepared dispatch has nothing to be tracked yet.
LEMMA PreparesDriven ==
    ASSUME Types, Driven, NEW d \in Drives, Prepares(d)
    PROVE  Driven'
<1>1. /\ Moves(d, "prepared") /\ drive'[d].channel = drive[d].channel
      /\ UNCHANGED <<run, watches, cancel>>
  BY DEF Prepares
<1>2. Serving(d)
  BY DEF Prepares, Serving
<1>. QED
  BY <1>1, <1>2, GoesOnDriven DEF Handlers

\* An execution is tracked before the broker sees it.
LEMMA RegistersDriven ==
    ASSUME Types, Driven, NEW d \in Drives, Registers(d)
    PROVE  Driven'
<1>1. /\ drive[d].step = "prepared" /\ Plain(d, "broker", drive[d].event) /\ Register(d)
      /\ UNCHANGED <<run, watches, cancel>>
  BY DEF Registers
<1>2. Serving(d)
  BY <1>1 DEF Serving
<1>3. Holds(d) /\ Objects
  BY <1>2, Holding DEF Types
<1>4. Execution(d) \in Executions
  BY <1>1, <1>3 DEF Holds
<1>5. PICK s \in StopSets : stops' # 0 /\ sets'[stops'] = Registered(s, Execution(d))
  BY <1>1, <1>3, <1>4, RegisterSets, OwnSet, NewSetFields
<1>6. /\ Execution(d) \in DOMAIN sets'[stops'].entry
      /\ sets'[stops'].entry[Execution(d)] \in {"inflight", "stopping"}
  BY <1>4, <1>5, RegisteredFacts
<1>7. /\ Moves(d, "broker") /\ drive'[d].channel = drive[d].channel
      /\ drive'[d].execution = Execution(d)
  BY <1>1 DEF Plain, Keeps, Execution
<1>. QED
  BY <1>1, <1>2, <1>5, <1>6, <1>7, GoesOnDriven

\* It is tracked still when its handler has answered.
LEMMA FinishesDriven ==
    ASSUME Types, Driven, NEW d \in Drives, Finishes(d)
    PROVE  Driven'
<1>1. /\ drive[d].step = "running" /\ Moves(d, "handled")
      /\ drive'[d].channel = drive[d].channel /\ drive'[d].execution = Execution(d)
      /\ UNCHANGED <<run, watches, cancel, stops, sets>>
  BY DEF Finishes, Keeps, Execution, stopping
<1>2. Serving(d)
  BY <1>1 DEF Serving
<1>3. /\ stops # 0 /\ Execution(d) \in DOMAIN sets[stops].entry
      /\ sets[stops].entry[Execution(d)] \in {"inflight", "stopping"}
  BY <1>1 DEF Driven, Tracked, Handlers
<1>. QED
  BY <1>1, <1>2, <1>3, GoesOnDriven

\* It need not be once it was resolved.
LEMMA ResolvesDriven ==
    ASSUME Types, Driven, NEW d \in Drives, Resolves(d)
    PROVE  Driven'
<1>1. /\ drive[d].step = "resolve" /\ Moves(d, "settled")
      /\ drive'[d].channel = drive[d].channel /\ UNCHANGED <<run, watches, cancel>>
  BY DEF Resolves, Plain, Keeps
<1>2. Serving(d)
  BY <1>1 DEF Serving
<1>. QED
  BY <1>1, <1>2, GoesOnDriven DEF Handlers

\* Nor while its drive waits for the set.
LEMMA AwaitsDriven ==
    ASSUME Types, Driven, NEW d \in Drives, Awaits(d)
    PROVE  Driven'
<1>1. /\ drive[d].step = "settled" /\ Moves(d, "await")
      /\ drive'[d].channel = drive[d].channel /\ UNCHANGED <<run, watches, cancel>>
  BY DEF Awaits
<1>2. Serving(d)
  BY <1>1 DEF Serving
<1>. QED
  BY <1>1, <1>2, GoesOnDriven DEF Handlers

\* A drive that goes on after the end of its turn has its outcome recorded.
LEMMA EndsDriven ==
    ASSUME Types, Driven, NEW d \in Drives, Ends(d)
    PROVE  Driven'
<1>1. /\ drive[d].step \in {"end", "again"} /\ KindOf(drive[d].event) \in TerminalKinds
      /\ EndTurn(KindOf(drive[d].event)) /\ UNCHANGED <<watches, stopping, cancel, lost>>
  BY DEF Ends
<1>2. Serving(d)
  BY <1>1 DEF Serving
<1>3. /\ (Ended)' /\ ThisTurn \subseteq (ThisTurn)'
      /\ ~Ended => (ThisTurn)' = ThisTurn \cup {KindOf(drive[d].event)}
      /\ \A i \in DOMAIN run : i \in DOMAIN run' /\ run'[i] = run[i]
  BY <1>1, TurnEnds DEF Types, Streams
<1>4. Heard' /\ Asked'
  BY <1>1, <1>3 DEF Driven, Heard, Asked
<1>5. CASE Return(d)
  <2>1. One' /\ \A e \in Drives : (~Serving(e))'
    BY <1>2, <1>5, NoneLeft DEF Driven
  <2>2. Tracked' /\ Joined' /\ Closed'
    BY <2>1 DEF Serving, Tracked, Joined, Closed, Handlers
  <2>. QED
    BY <1>4, <2>1, <2>2 DEF Driven
<1>6. CASE /\ \E step \in {"again", "clear"} : Plain(d, step, drive[d].event)
           /\ ~Ended \/ KindOf(drive[d].event) \in ThisTurn
  <2>1. PICK step \in {"again", "clear"} : Plain(d, step, drive[d].event)
    BY <1>6
  <2>2. /\ drive'[d].step = step /\ drive'[d].event = drive[d].event
        /\ drive'[d].channel = drive[d].channel /\ \A e \in Drives : e # d => drive'[e] = drive[e]
    BY <2>1 DEF Plain, Moves, Keeps
  <2>3. \A e \in Drives : Serving(e) => e = d
    BY <1>2 DEF Driven, One
  <2>4. One' /\ \A e \in Drives : (Serving(e))' => e = d
    BY <2>2, <2>3, OnlyOne
  <2>5. Tracked'
    BY <2>2, <2>4 DEF Serving, Tracked, Handlers
  <2>6. Joined'
    BY <1>1, <1>2, <2>2, <2>4 DEF Driven, Joined, watches
  <2>7. KindOf(drive[d].event) \in (ThisTurn)' \cap TerminalKinds
    BY <1>1, <1>3, <1>6
  <2>8. ASSUME NEW e \in Drives, drive'[e].step \in {"again", "clear"} PROVE e = d
    BY <2>4, <2>8 DEF Serving
  <2>9. Closed'
    BY <2>2, <2>7, <2>8 DEF Closed
  <2>. QED
    BY <1>4, <2>4, <2>5, <2>6, <2>9 DEF Driven
<1>. QED
  BY <1>5, <1>6 DEF Ends

\* A drive that returns leaves none in its turn.
LEMMA LeavesDriven ==
    ASSUME Types, Driven, NEW d \in Drives, Leaves(d)
    PROVE  Driven'
<1>1. Serving(d) /\ Return(d) /\ UNCHANGED <<run, watches, cancel>>
  BY DEF Leaves
<1>2. One' /\ \A e \in Drives : (~Serving(e))'
  BY <1>1, NoneLeft DEF Driven
<1>3. Tracked' /\ Joined' /\ Closed'
  BY <1>2 DEF Serving, Tracked, Joined, Closed, Handlers
<1>4. Asked' /\ Heard'
  BY <1>1, StillHeard DEF Driven
<1>. QED
  BY <1>2, <1>3, <1>4 DEF Driven

\* The watch and the set that are dropped are those of a turn that is over.
LEMMA ClearDriven ==
    ASSUME Types, Driven, NEW d \in Drives, Clear(d)
    PROVE  Driven'
<1>1. drive[d].step = "clear" /\ Return(d) /\ UNCHANGED <<run, cancel>>
  BY DEF Clear, At
<1>2. Serving(d)
  BY <1>1 DEF Serving
<1>3. One' /\ \A e \in Drives : (~Serving(e))'
  BY <1>1, <1>2, NoneLeft DEF Driven
<1>4. Tracked' /\ Joined' /\ Closed'
  BY <1>3 DEF Serving, Tracked, Joined, Closed, Handlers
<1>5. Ended
  BY <1>1 DEF Driven, Closed, Ended
<1>6. Asked' /\ Heard'
  BY <1>1, <1>5, TurnStays DEF Driven, Asked, Heard
<1>. QED
  BY <1>3, <1>4, <1>6 DEF Driven

\* A step of a cancellation moves no drive.
LEMMA DrivesStay ==
    ASSUME Types, Driven, drive' = drive, (ThisTurn) \subseteq (ThisTurn)',
           stops' = stops, watch # 0 => watch' = watch,
           stops # 0 => \A x \in DOMAIN sets[stops].entry :
              sets[stops].entry[x] \in {"inflight", "stopping"} =>
                 /\ x \in DOMAIN sets'[stops].entry
                 /\ sets'[stops].entry[x] \in {"inflight", "stopping"}
    PROVE  One' /\ Tracked' /\ Joined' /\ Closed'
<1>1. One'
  BY DEF Driven, One, Serving
<1>2. Tracked'
  BY DEF Driven, Tracked, Execution
<1>3. Joined'
  BY DEF Driven, Joined, Serving
<1>4. Closed'
  BY DEF Driven, Closed
<1>. QED
  BY <1>1, <1>2, <1>3, <1>4

\* A cancellation that goes on leaves the drives where they are.
LEMMA GoesDriven ==
    ASSUME Types, Driven, NEW k \in Cancels, Goes(k)
    PROVE  Driven'
<1>1. /\ UNCHANGED <<run, watch, signals, stops, sets, drive>>
      /\ \A j \in Cancels : j # k => cancel'[j] = cancel[j]
      /\ \/ cancel[k].step = "idle" /\ cancel'[k].step = "record"
         \/ cancel[k].step = "runner" /\ cancel'[k].step = "stop"
  BY DEF Goes, Advances, watches, stopping
<1>2. (ThisTurn)' = ThisTurn /\ ((Ended)' <=> Ended)
  BY <1>1, TurnStays
<1>3. One' /\ Tracked' /\ Joined' /\ Closed'
  BY <1>1, <1>2, DrivesStay
<1>4. Asked'
  BY <1>1 DEF Driven, Asked
<1>5. Heard'
  BY <1>1, <1>2 DEF Driven, Heard, Signalled
<1>. QED
  BY <1>3, <1>4, <1>5 DEF Driven

\* A request that is recorded is the run's first, so nobody has signalled before.
LEMMA RecordsDriven ==
    ASSUME Types, Driven, NEW k \in Cancels, Records(k)
    PROVE  Driven'
<1>1. /\ UNCHANGED <<watch, signals, stops, sets, drive>>
      /\ \A j \in Cancels : j # k => cancel'[j] = cancel[j]
      /\ cancel'[k].step \in {"signal", "done"}
  BY DEF Records, Advances, watches, stopping
<1>2. CASE run' = run
  <2>1. (ThisTurn)' = ThisTurn /\ ((Ended)' <=> Ended)
    BY <1>2, TurnStays
  <2>2. One' /\ Tracked' /\ Joined' /\ Closed'
    BY <1>1, <2>1, DrivesStay
  <2>3. cancel'[k].step = "signal" => \E i \in DOMAIN run : run[i] = "cancelling"
    <3>1. CASE Advances(k, "done")
      BY <3>1 DEF Advances
    <3>2. CASE \E i \in DOMAIN run : run[i] = "cancelling"
      BY <3>2
    <3>3. CASE run' = Append(run, "cancelling")
      BY <1>2, <3>3 DEF Types, Streams
    <3>. QED
      BY <3>1, <3>2, <3>3 DEF Records
  <2>4. Asked'
    BY <1>1, <1>2, <2>3 DEF Driven, Asked
  <2>5. Heard'
    BY <1>1, <2>1 DEF Driven, Heard, Signalled
  <2>. QED
    BY <2>2, <2>4, <2>5 DEF Driven
<1>3. CASE run' = Append(run, "cancelling") /\ ~\E i \in DOMAIN run : run[i] = "cancelling"
  <2>1. "cancelling" \in Facts /\ run \in Seq(Facts)
    BY DEF Types, Streams, Facts
  <2>2. (ThisTurn)' = ThisTurn \cup {"cancelling"}
    BY <1>3, <2>1, TurnGrows
  <2>3. One' /\ Tracked' /\ Joined' /\ Closed'
    BY <1>1, <2>2, DrivesStay
  <2>4. \A j \in Cancels : cancel[j].step \notin {"signal", "runner", "stop", "wait", "end"}
    BY <1>3 DEF Driven, Asked
  <2>5. Heard'
    BY <1>1, <2>4 DEF Heard
  <2>6. \E i \in DOMAIN run' : run'[i] = "cancelling"
    <3>1. Len(run) + 1 \in DOMAIN run' /\ run'[Len(run) + 1] = "cancelling"
      BY <1>3, <2>1
    <3>. QED
      BY <3>1
  <2>7. Asked'
    BY <2>6 DEF Asked
  <2>. QED
    BY <2>3, <2>5, <2>7 DEF Driven
<1>. QED
  BY <1>2, <1>3 DEF Records

\* The signal is there for whoever has the watch of the run.
LEMMA SignalsDriven ==
    ASSUME Types, Driven, NEW k \in Cancels, Signals(k)
    PROVE  Driven'
<1>1. /\ UNCHANGED <<run, stops, sets, drive>> /\ cancel[k].step = "signal"
      /\ \A j \in Cancels : j # k => cancel'[j] = cancel[j]
      /\ watch' # 0 /\ signals'[watch'] = TRUE /\ (watch # 0 => watch' = watch)
      /\ cancel'[k].step = "runner"
  BY DEF Signals, Advances, stopping
<1>2. (ThisTurn)' = ThisTurn
  BY <1>1, TurnStays
<1>3. One' /\ Tracked' /\ Joined' /\ Closed'
  BY <1>1, <1>2, DrivesStay
<1>4. Asked'
  BY <1>1 DEF Driven, Asked
<1>5. Heard'
  BY <1>1 DEF Heard, Signalled
<1>. QED
  BY <1>3, <1>4, <1>5 DEF Driven

\* A set that is asked to stop still tracks what it tracked.
LEMMA AsksStopDriven ==
    ASSUME Types, Driven, NEW k \in Cancels, AsksStop(k)
    PROVE  Driven'
<1>1. /\ UNCHANGED <<run, watch, signals, stops, drive>> /\ cancel[k].step = "stop"
      /\ \A j \in Cancels : j # k => cancel'[j] = cancel[j]
      /\ cancel'[k].step \in {"wait", "end"}
  BY DEF AsksStop, Advances, watches
<1>2. (ThisTurn)' = ThisTurn /\ ((Ended)' <=> Ended)
  BY <1>1, TurnStays
<1>3. ASSUME stops # 0, NEW x \in DOMAIN sets[stops].entry,
             sets[stops].entry[x] \in {"inflight", "stopping"}
      PROVE  /\ x \in DOMAIN sets'[stops].entry
             /\ sets'[stops].entry[x] \in {"inflight", "stopping"}
  <2>1. stops \in DOMAIN sets /\ sets[stops] \in StopSets
    BY <1>3, OwnSet
  <2>2. sets'[stops] = BeginStop(sets[stops])
    BY <1>3, <2>1 DEF AsksStop
  <2>. QED
    BY <1>3, <2>1, <2>2, BeginStopFacts
<1>4. One' /\ Tracked' /\ Joined' /\ Closed'
  BY <1>1, <1>2, <1>3, DrivesStay
<1>5. Asked'
  BY <1>1 DEF Driven, Asked
<1>6. Heard'
  BY <1>1, <1>2 DEF Driven, Heard, Signalled
<1>. QED
  BY <1>4, <1>5, <1>6 DEF Driven

\* The end of the wait changes nothing that is shared.
LEMMA AwaitsStopDriven ==
    ASSUME Types, Driven, NEW k \in Cancels, AwaitsStop(k)
    PROVE  Driven'
<1>1. /\ UNCHANGED <<run, watch, signals, stops, sets, drive>> /\ cancel[k].step = "wait"
      /\ \A j \in Cancels : j # k => cancel'[j] = cancel[j]
      /\ cancel'[k].step = "end"
  BY DEF AwaitsStop, Advances, watches, stopping
<1>2. (ThisTurn)' = ThisTurn /\ ((Ended)' <=> Ended)
  BY <1>1, TurnStays
<1>3. One' /\ Tracked' /\ Joined' /\ Closed'
  BY <1>1, <1>2, DrivesStay
<1>4. Asked'
  BY <1>1 DEF Driven, Asked
<1>5. Heard'
  BY <1>1, <1>2 DEF Driven, Heard, Signalled
<1>. QED
  BY <1>3, <1>4, <1>5 DEF Driven

\* A turn that is over has no cancellation to be heard.
LEMMA EndsCancelDriven ==
    ASSUME Types, Driven, NEW k \in Cancels, EndsCancel(k)
    PROVE  Driven'
<1>1. /\ UNCHANGED <<watch, signals, stops, sets, drive>>
      /\ \A j \in Cancels : j # k => cancel'[j] = cancel[j]
      /\ cancel'[k].step = "done" /\ \E kind \in {"cancelled", "unknown"} : EndTurn(kind)
  BY DEF EndsCancel, Advances, watches, stopping
<1>2. PICK kind \in TerminalKinds : EndTurn(kind)
  BY <1>1 DEF TerminalKinds
<1>3. /\ (Ended)' /\ ThisTurn \subseteq (ThisTurn)'
      /\ \A i \in DOMAIN run : i \in DOMAIN run' /\ run'[i] = run[i]
  BY <1>2, TurnEnds DEF Types, Streams
<1>4. One' /\ Tracked' /\ Joined' /\ Closed'
  BY <1>1, <1>3, DrivesStay
<1>5. Asked'
  BY <1>1, <1>3 DEF Driven, Asked
<1>6. Heard'
  BY <1>3 DEF Heard
<1>. QED
  BY <1>4, <1>5, <1>6 DEF Driven

\* A step that changes nothing.
LEMMA StillDriven ==
    ASSUME Types, Driven, UNCHANGED vars
    PROVE  Driven'
<1>1. UNCHANGED <<run, watch, signals, stops, sets, drive, cancel, watches>>
  BY DEF vars, watches, stopping
<1>2. (ThisTurn)' = ThisTurn
  BY <1>1, TurnStays
<1>3. One' /\ Tracked' /\ Joined' /\ Closed'
  BY <1>1, <1>2, DrivesStay
<1>4. Asked' /\ Heard'
  BY <1>1, StillHeard DEF Driven
<1>. QED
  BY <1>3, <1>4 DEF Driven

\* A run that starts has one drive, in its first turn.
LEMMA InitDriven ==
    ASSUME Init
    PROVE  Driven
<1>1. PICK first \in Drives :
         drive = [d \in Drives |-> IF d = first THEN [Asking EXCEPT !.step = "begin"] ELSE Idle]
  BY DEF Init
<1>2. PICK r : r = [Asking EXCEPT !.step = "begin"]
  OBVIOUS
<1>3. r.step = "begin" /\ r.channel = 0
  BY <1>2 DEF Asking
<1>4. \A d \in Drives : IF d = first THEN drive[d] = r ELSE drive[d].step = "idle"
  BY <1>1, <1>2 DEF Idle
<1>5. One /\ Tracked /\ Joined /\ Closed
  BY <1>3, <1>4 DEF One, Tracked, Joined, Closed, Serving, Handlers
<1>6. \A k \in Cancels : cancel[k].step = "idle"
  BY DEF Init
<1>7. Asked /\ Heard
  BY <1>6 DEF Asked, Heard
<1>. QED
  BY <1>5, <1>7 DEF Driven

\* Every step keeps this, when the client waits for the answer to its prompt.
LEMMA NextDriven ==
    ASSUME Types, "prompts" \notin Unanswered, Driven, [Next]_vars
    PROVE  Driven'
<1>1. ASSUME NEW d \in Drives, DriveStep(d) PROVE Driven'
  BY <1>1, StartsDriven, PassesDriven, WatchesDriven, PreparesDriven, RegistersDriven,
     FinishesDriven, ResolvesDriven, AwaitsDriven, EndsDriven, LeavesDriven, ClearDriven
  DEF DriveStep
<1>2. ASSUME NEW k \in Cancels, CancelStep(k) PROVE Driven'
  BY <1>2, GoesDriven, RecordsDriven, SignalsDriven, AsksStopDriven, AwaitsStopDriven,
     EndsCancelDriven DEF CancelStep
<1>. QED
  BY <1>1, <1>2, StillDriven, DriveSteps, CancelSteps DEF Next

\* What it gives: running handlers are tracked, and signals heard.
LEMMA DrivenGives ==
    ASSUME Types, Driven
    PROVE  RunningTracked /\ SignalHeard
<1>1. ASSUME Running # {} PROVE stops # 0 /\ Resolution(sets[stops]) # "confirmed"
  <2>1. PICK d \in Drives : drive[d].step = "running"
    BY <1>1 DEF Running, At
  <2>2. /\ stops # 0 /\ Execution(d) \in DOMAIN sets[stops].entry
        /\ sets[stops].entry[Execution(d)] \in {"inflight", "stopping"}
    BY <2>1 DEF Driven, Tracked, Handlers
  <2>3. sets[stops] \in StopSets
    BY <2>2, OwnSet
  <2>. QED
    BY <2>2, <2>3, NotAtRest
<1>2. ASSUME NEW d \in Drives, NEW k \in Cancels,
             drive[d].step \in {"event", "prepared", "broker", "consume", "running"},
             ~Ended, "cancelling" \in ThisTurn,
             cancel[k].step \in {"runner", "stop", "wait", "end"}
      PROVE  Hears(d)
  <2>1. Serving(d)
    BY <1>2 DEF Serving
  <2>2. drive[d].channel # 0
    BY <1>2, <2>1, Holding DEF Holds, Told, Handlers
  <2>3. drive[d].channel = watch
    BY <2>1, <2>2 DEF Driven, Joined
  <2>4. Signalled
    BY <1>2 DEF Driven, Heard
  <2>. QED
    BY <2>3, <2>4 DEF Signalled, Hears
<1>. QED
  BY <1>1, <1>2 DEF RunningTracked, SignalHeard

\* While the client waits for the answer to its prompt before it sends the next,
\* the stop set of the run knows of every handler that runs: nobody is given the
\* proof that all has stopped.
THEOREM RunningIsTracked == ASSUME "prompts" \notin Unanswered PROVE Spec => []RunningTracked
<1>1. Init => Types /\ Driven
  BY InitTypes, InitDriven
<1>2. Types /\ Driven /\ [Next]_vars => (Types /\ Driven)'
  BY NextTypes, NextDriven
<1>3. Types /\ Driven => RunningTracked
  BY DrivenGives
<1>. QED
  BY <1>1, <1>2, <1>3, PTL DEF Spec

\* For such a client a drive hears of every cancellation that was recorded and
\* signalled in its turn, whichever of the two came first to the watch.
THEOREM SignalIsHeard == ASSUME "prompts" \notin Unanswered PROVE Spec => []SignalHeard
<1>1. Init => Types /\ Driven
  BY InitTypes, InitDriven
<1>2. Types /\ Driven /\ [Next]_vars => (Types /\ Driven)'
  BY NextTypes, NextDriven
<1>3. Types /\ Driven => SignalHeard
  BY DrivenGives
<1>. QED
  BY <1>1, <1>2, <1>3, PTL DEF Spec

------------------------------------------------------------------------------
(* At rest                                                                   *)

\* Whoever signalled a cancellation has not been forgotten by a drive in its turn.
HeardAll ==
    \A k \in Cancels, d \in Drives :
        cancel[k].step \in {"runner", "stop", "wait", "end"} /\ Serving(d) => Signalled

\* A turn that is over while its drive is not was ended by a cancellation.
Over ==
    \A d \in Drives : (Serving(d) /\ drive[d].step \notin {"again", "clear"} /\ Ended)
        => Signalled /\ ThisTurn \cap TerminalKinds \subseteq {"cancelled", "unknown"}

\* An execution is lost by its own handler only.
Fresh ==
    \A d \in Drives :
        (\/ drive[d].step \in {"prepared", "broker", "consume", "running"}
         \/ drive[d].step \in {"handled", "resolve"} /\ drive[d].known)
            => Execution(d) \notin lost

\* A set that has an execution whose effect is unknown is never dropped, and never
\* takes that execution for stopped.
Kept == \A x \in lost : \E i \in DOMAIN sets : x \in DOMAIN sets[i].entry
Here(x) == stops # 0 /\ x \in DOMAIN sets[stops].entry
NotStopped == \A x \in lost : Here(x) => sets[stops].entry[x] # "stopped"

\* The lost executions in the run's set were resolved before the signal; and if
\* not, the turn is going to be recorded with an unknown outcome.
Settles == \A x \in lost : Here(x) => sets[stops].requested /\ sets[stops].entry[x] = "completed"
Doubt == Settles \/ "unknown" \in ThisTurn \/ \E d \in Drives : Doubtful(d)
Quiet == Settles /\ \A d \in Drives : drive[d].step \notin Handlers

\* A cancellation waits for the set of the run, which owes its stop, and has no
\* proof of it before the wait is over.
Waits ==
    \A k \in Cancels : cancel[k].step = "wait" =>
        /\ cancel[k].set # 0 /\ stops \in {0, cancel[k].set}
        /\ sets[cancel[k].set].requested
Unproven ==
    \A k \in Cancels : cancel[k].step \in {"idle", "record", "signal", "runner", "stop", "wait"}
                          => ~cancel[k].stopped

\* With the proof, and after the turn was recorded as cancelled, all is quiet.
QuietEnd == \A k \in Cancels : cancel[k].step = "end" /\ cancel[k].stopped => Quiet
QuietTurn == "cancelled" \in ThisTurn => Quiet

Rested ==
    /\ HeardAll /\ Over /\ Unproven /\ Waits
    /\ Fresh /\ Kept /\ NotStopped /\ Doubt
    /\ QuietEnd /\ QuietTurn

\* Nothing that is settled is unsettled while no set changes and nothing is lost.
LEMMA RestStays ==
    ASSUME UNCHANGED <<stopping, lost>>
    PROVE  (Kept => Kept') /\ (NotStopped => NotStopped') /\ (Settles => Settles')
<1>1. UNCHANGED <<stops, sets, lost>>
  BY DEF stopping
<1>. QED
  BY <1>1 DEF Kept, NotStopped, Settles, Here

\* It stays quiet while nothing is unsettled and no handler is entered.
LEMMA QuietStays ==
    ASSUME Settles => Settles',
           \A e \in Drives : drive'[e].step \in Handlers => drive[e].step \in Handlers
    PROVE  Quiet => Quiet'
  BY DEF Quiet

\* What is said of cancellations holds while they do not move, and the drives in
\* their turn still hear the signal.
LEMMA AsksStay ==
    ASSUME Rested, UNCHANGED <<cancel, stopping>>, Signalled => Signalled', Quiet => Quiet',
           (\E e \in Drives : (Serving(e))') => \E e \in Drives : Serving(e)
    PROVE  HeardAll' /\ Unproven' /\ Waits' /\ QuietEnd'
<1>1. UNCHANGED <<stops, sets>>
  BY DEF stopping
<1>2. HeardAll'
  BY DEF Rested, HeardAll
<1>3. Unproven'
  BY DEF Rested, Unproven
<1>4. Waits'
  BY <1>1 DEF Rested, Waits
<1>5. QuietEnd'
  BY DEF Rested, QuietEnd
<1>. QED
  BY <1>2, <1>3, <1>4, <1>5

\* A drive that doubts is in its turn.
LEMMA DoubtfulServes == ASSUME NEW d \in Drives, Doubtful(d) PROVE Serving(d)
  BY DEF Doubtful, Serving

\* A step in a drive's turn keeps it signalled, quiet and heard.
LEMMA PassesRested ==
    ASSUME Types, Driven, Rested, NEW d \in Drives, Passes(d)
    PROVE  Rested'
<1>1. PICK step \in Steps, event \in Events : Passing(d, step, event)
  BY DEF Passes
<1>2. /\ Serving(d) /\ UNCHANGED <<run, watches, stopping, cancel, lost>>
      /\ drive'[d].step = step /\ drive'[d].known = drive[d].known
      /\ drive'[d].execution = drive[d].execution
      /\ \A e \in Drives : e # d => drive'[e] = drive[e]
  BY <1>1 DEF Passing, Plain, Moves, Keeps
<1>3. \A e \in Drives : Serving(e) => e = d
  BY <1>2 DEF Driven, One
<1>4. \A e \in Drives : (Serving(e))' => e = d
  BY <1>2, <1>3, OnlyOne
<1>5. (ThisTurn)' = ThisTurn /\ ((Ended)' <=> Ended)
  BY <1>2, TurnStays
<1>6. Signalled' <=> Signalled
  BY <1>2 DEF Signalled, watches
<1>7. Kept' /\ NotStopped' /\ (Settles => Settles')
  BY <1>2, RestStays DEF Rested
<1>8. \A e \in Drives : drive'[e].step \in Handlers => drive[e].step \in Handlers
  <2>1. step \in Handlers => drive[d].step \in Handlers
    BY <1>1 DEF Passing, Handlers
  <2>. QED
    BY <1>2, <2>1
<1>9. Quiet => Quiet'
  BY <1>7, <1>8, QuietStays
<1>10. HeardAll' /\ Unproven' /\ Waits' /\ QuietEnd'
  BY <1>2, <1>6, <1>9, AsksStay
<1>11. Over'
  BY <1>1, <1>2, <1>4, <1>5, <1>6 DEF Rested, Over, Passing
<1>12. Fresh'
  <2>1. ASSUME NEW e \in Drives,
               \/ drive'[e].step \in {"prepared", "broker", "consume", "running"}
               \/ drive'[e].step \in {"handled", "resolve"} /\ drive'[e].known
        PROVE  drive'[e].execution \notin lost'
    <3>1. e = d
      BY <1>4, <2>1 DEF Serving
    <3>2. \/ drive[d].step \in {"prepared", "broker", "consume", "running"}
          \/ drive[d].step \in {"handled", "resolve"} /\ drive[d].known
      BY <1>1, <1>2, <2>1, <3>1 DEF Passing
    <3>. QED
      BY <1>2, <3>1, <3>2 DEF Rested, Fresh, Execution
  <2>. QED
    BY <2>1 DEF Fresh, Execution
<1>13. Doubt'
  <2>1. ASSUME NEW e \in Drives, Doubtful(e) PROVE (Doubtful(d))'
    BY <1>1, <1>3, <2>1, DoubtfulServes DEF Passing
  <2>. QED
    BY <1>5, <1>7, <2>1 DEF Rested, Doubt
<1>14. QuietTurn'
  BY <1>5, <1>9 DEF Rested, QuietTurn
<1>. QED
  BY <1>7, <1>10, <1>11, <1>12, <1>13, <1>14 DEF Rested

\* A prompt finds no drive and no cancellation, and what is unsettled recorded.
LEMMA StartsRested ==
    ASSUME Types, Driven, Rested, Unanswered = {}, NEW d \in Drives, Starts(d)
    PROVE  Rested'
<1>1. /\ drive'[d].step = "take" /\ \A e \in Drives : e # d => drive'[e] = drive[e]
      /\ \A e \in Drives : ~Serving(e)
      /\ \A k \in Cancels : cancel[k].step \in {"idle", "done"}
      /\ "unknown" \notin ThisTurn /\ run' = Append(run, "prompt")
      /\ UNCHANGED <<watches, stopping, cancel, lost>>
  BY DEF Starts, Moves
<1>2. \A e \in Drives : (Serving(e))' => e = d
  BY <1>1, OnlyOne
<1>3. (ThisTurn)' = {"prompt"}
  BY <1>1, TurnStarts DEF Types, Streams
<1>4. Kept' /\ NotStopped' /\ (Settles => Settles')
  BY <1>1, RestStays DEF Rested
<1>5. Doubt'
  BY <1>1, <1>4, DoubtfulServes DEF Rested, Doubt
<1>6. HeardAll' /\ Waits' /\ QuietEnd'
  BY <1>1 DEF HeardAll, Waits, QuietEnd
<1>7. Unproven'
  BY <1>1 DEF Rested, Unproven
<1>8. Over' /\ QuietTurn'
  BY <1>3 DEF Over, QuietTurn, Ended, TerminalKinds
<1>9. Fresh'
  BY <1>1, <1>2 DEF Fresh, Serving
<1>. QED
  BY <1>4, <1>5, <1>6, <1>7, <1>8, <1>9 DEF Rested

\* Steps after which the drive is not dispatching, and before which it was not:
\* no doubt, no execution and no handler comes or goes.
LEMMA AsideRested ==
    ASSUME Rested, NEW d \in Drives, UNCHANGED <<run, cancel, stopping, lost>>,
           Signalled => Signalled', drive'[d].step \notin {"again", "clear"},
           \A e \in Drives : (Serving(e))' => e = d,
           (Serving(d))' => Serving(d) /\ drive[d].step \notin {"again", "clear"},
           drive'[d].step \notin Handlers,
           drive'[d].step = "prepared" => drive'[d].execution \notin lost,
           \A e \in Drives : ~Doubtful(e)
    PROVE  Rested'
<1>1. (ThisTurn)' = ThisTurn /\ ((Ended)' <=> Ended)
  BY TurnStays
<1>2. Kept' /\ NotStopped' /\ (Settles => Settles')
  BY RestStays DEF Rested
<1>3. \A e \in Drives : drive'[e].step \notin Handlers
  BY DEF Serving, Handlers
<1>4. Quiet => Quiet'
  BY <1>2, <1>3, QuietStays
<1>5. HeardAll' /\ Unproven' /\ Waits' /\ QuietEnd'
  BY <1>4, AsksStay
<1>6. Over'
  BY <1>1 DEF Rested, Over
<1>7. Fresh'
  BY <1>3 DEF Fresh, Handlers, Serving, Execution
<1>8. Doubt'
  BY <1>1, <1>2 DEF Rested, Doubt
<1>9. QuietTurn'
  BY <1>1, <1>4 DEF Rested, QuietTurn
<1>. QED
  BY <1>2, <1>5, <1>6, <1>7, <1>8, <1>9 DEF Rested

\* A drive that asks for the watch finds the one that was signalled.
LEMMA WatchesRested ==
    ASSUME Types, Driven, Rested, NEW d \in Drives, Watches(d)
    PROVE  Rested'
<1>1. /\ drive[d].step = "drive" /\ UNCHANGED <<run, stopping, cancel, lost>>
      /\ watch # 0 => UNCHANGED watches
  BY DEF Watches, watches
<1>2. Serving(d)
  BY <1>1 DEF Serving
<1>3. Signalled => Signalled'
  BY <1>1 DEF Signalled, watches
<1>4. \A e \in Drives : Serving(e) => e = d
  BY <1>2 DEF Driven, One
<1>5. \A e \in Drives : ~Doubtful(e)
  <2>1. ~Doubtful(d)
    BY <1>1 DEF Doubtful
  <2>. QED
    BY <1>4, <2>1, DoubtfulServes
<1>6. /\ drive'[d].step \in {"done", "event"}
      /\ \A e \in Drives : (Serving(e))' => e = d
  <2>1. Tasks
    BY DEF Types
  <2>2. /\ drive'[d].step \in {"done", "event"}
        /\ \A e \in Drives : e # d => drive'[e] = drive[e]
    BY <2>1, ReturnMoves DEF Watches, Moves, Done
  <2>. QED
    BY <1>4, <2>2, OnlyOne
<1>7. drive'[d].step \notin Handlers
  BY <1>6 DEF Handlers
<1>. QED
  BY <1>1, <1>2, <1>3, <1>5, <1>6, <1>7, AsideRested

\* A dispatch takes an execution that was in no set, so none that was lost.
LEMMA PreparesRested ==
    ASSUME Types, Driven, Rested, NEW d \in Drives, Prepares(d)
    PROVE  Rested'
<1>1. PICK x \in Executions :
         /\ \A i \in DOMAIN sets : x \notin DOMAIN sets[i].entry
         /\ Moves(d, "prepared") /\ drive'[d].execution = x
  BY DEF Prepares
<1>2. drive[d].step = "event" /\ UNCHANGED <<run, watches, stopping, cancel, lost>>
  BY DEF Prepares
<1>3. Serving(d)
  BY <1>2 DEF Serving
<1>4. x \notin lost
  BY <1>1 DEF Rested, Kept
<1>5. Signalled => Signalled'
  BY <1>2 DEF Signalled, watches
<1>6. \A e \in Drives : Serving(e) => e = d
  BY <1>3 DEF Driven, One
<1>7. \A e \in Drives : ~Doubtful(e)
  <2>1. ~Doubtful(d)
    BY <1>2 DEF Doubtful
  <2>. QED
    BY <1>6, <2>1, DoubtfulServes
<1>8. drive'[d].step = "prepared" /\ \A e \in Drives : (Serving(e))' => e = d
  BY <1>1, <1>6, OnlyOne DEF Moves
<1>9. drive'[d].step \notin Handlers
  BY <1>8 DEF Handlers
<1>. QED
  BY <1>1, <1>2, <1>3, <1>4, <1>5, <1>7, <1>8, <1>9, AsideRested

\* A drive goes on within its dispatch: nothing is signalled, asked or recorded.
LEMMA DispatchStays ==
    ASSUME Driven, Rested, NEW d \in Drives, NEW step, Serving(d), Moves(d, step),
           drive[d].step \notin {"again", "clear"}, UNCHANGED <<run, watches, cancel>>
    PROVE  /\ \A e \in Drives : Serving(e) => e = d
           /\ \A e \in Drives : (Serving(e))' => e = d
           /\ (ThisTurn)' = ThisTurn /\ HeardAll' /\ Over' /\ Unproven'
<1>1. \A e \in Drives : Serving(e) => e = d
  BY DEF Driven, One
<1>2. \A e \in Drives : (Serving(e))' => e = d
  BY <1>1, OnlyOne DEF Moves
<1>3. (ThisTurn)' = ThisTurn /\ ((Ended)' <=> Ended) /\ (Signalled' <=> Signalled)
  BY TurnStays DEF Signalled, watches
<1>4. HeardAll'
  BY <1>2, <1>3 DEF Rested, HeardAll
<1>5. Over'
  BY <1>2, <1>3 DEF Rested, Over
<1>6. Unproven'
  BY DEF Rested, Unproven
<1>. QED
  BY <1>1, <1>2, <1>3, <1>4, <1>5, <1>6

\* A set that is asked to stop keeps what was settled.
LEMMA BeginStopRests ==
    ASSUME Types, Rested, stops # 0, sets' = [sets EXCEPT ![stops] = BeginStop(sets[stops])],
           UNCHANGED <<stops, lost>>
    PROVE  /\ Kept' /\ NotStopped' /\ (Settles => Settles')
           /\ sets'[stops].requested
           /\ \A i \in DOMAIN sets : sets[i].requested => sets'[i].requested
<1>1. stops \in DOMAIN sets /\ sets[stops] \in StopSets
  BY OwnSet
<1>2. PICK u : u = BeginStop(sets[stops])
  OBVIOUS
<1>3. /\ u.requested /\ DOMAIN u.entry = DOMAIN sets[stops].entry
      /\ \A x \in DOMAIN u.entry :
            /\ sets[stops].entry[x] \in {"inflight", "stopping"} => u.entry[x] = "stopping"
            /\ sets[stops].entry[x] \notin {"inflight", "stopping"}
                  => u.entry[x] = sets[stops].entry[x]
  BY <1>1, <1>2, BeginStopFacts
<1>4. /\ DOMAIN sets' = DOMAIN sets /\ sets'[stops] = u
      /\ \A i \in DOMAIN sets : i # stops => sets'[i] = sets[i]
  BY <1>1, <1>2
<1>5. Kept'
  BY <1>3, <1>4 DEF Rested, Kept
<1>6. NotStopped'
  BY <1>3, <1>4 DEF Rested, NotStopped, Here
<1>7. Settles => Settles'
  BY <1>3, <1>4 DEF Settles, Here
<1>. QED
  BY <1>3, <1>4, <1>5, <1>6, <1>7

\* An execution that is registered was not lost, and a set that has a lost one was
\* asked to stop: it is not dropped for a new one.
LEMMA RegisteredRests ==
    ASSUME Types, Settles, Kept, NotStopped, NEW d \in Drives, Execution(d) \in Executions,
           Execution(d) \notin lost, Register(d), lost' = lost
    PROVE  Kept' /\ NotStopped' /\ Settles'
<1>1. /\ stops' # 0
      /\ stops # 0 => stops' = stops /\ sets'[stops] = Registered(sets[stops], Execution(d))
      /\ stops = 0 => sets'[stops'] = Registered(NewSet, Execution(d))
      /\ \A j \in DOMAIN sets : j \in DOMAIN sets' /\ (j # stops => sets'[j] = sets[j])
  BY RegisterSets DEF Types
<1>2. PICK s \in StopSets : s = IF stops = 0 THEN NewSet ELSE sets[stops]
  BY OwnSet, NewSetFields
<1>3. PICK u : u = Registered(s, Execution(d))
  OBVIOUS
<1>4. /\ u.requested = s.requested
      /\ \A y \in DOMAIN u.entry \ {Execution(d)} : y \in DOMAIN s.entry /\ u.entry[y] = s.entry[y]
      /\ s.requested => DOMAIN s.entry \subseteq DOMAIN u.entry
  BY <1>3, RegisteredFacts
<1>5. sets'[stops'] = u
  BY <1>1, <1>2, <1>3
<1>6. ASSUME NEW x \in lost, x \in DOMAIN u.entry
      PROVE  Here(x) /\ s = sets[stops] /\ u.entry[x] = s.entry[x]
  <2>1. x \in DOMAIN s.entry /\ u.entry[x] = s.entry[x]
    BY <1>4, <1>6
  <2>2. stops # 0
    BY <1>2, <2>1, NewSetFields
  <2>. QED
    BY <1>2, <2>1, <2>2 DEF Here
<1>7. NotStopped' /\ Settles'
  <2>1. NotStopped'
    BY <1>5, <1>6 DEF NotStopped, Here
  <2>2. Settles'
    BY <1>4, <1>5, <1>6 DEF Settles, Here
  <2>. QED
    BY <2>1, <2>2
<1>8. ASSUME NEW x \in lost PROVE \E i \in DOMAIN sets' : x \in DOMAIN sets'[i].entry
  <2>1. PICK i \in DOMAIN sets : x \in DOMAIN sets[i].entry
    BY <1>8 DEF Kept
  <2>2. CASE i # stops
    BY <1>1, <2>1, <2>2
  <2>3. CASE i = stops /\ stops # 0
    <3>1. sets[stops].requested /\ s = sets[stops]
      BY <1>2, <1>8, <2>1, <2>3 DEF Settles, Here
    <3>2. x \in DOMAIN sets'[stops].entry
      BY <1>1, <1>4, <1>5, <2>1, <2>3, <3>1
    <3>. QED
      BY <1>1, <2>1, <2>3, <3>2
  <2>4. CASE i = 0
    BY <2>1, <2>4 DEF Types, Objects
  <2>. QED
    BY <2>2, <2>3, <2>4
<1>9. Kept'
  BY <1>8 DEF Kept
<1>. QED
  BY <1>7, <1>9

\* A dispatch that registers has heard no signal, so no cancellation is waiting
\* for this set, and the turn is not over.
LEMMA RegistersRested ==
    ASSUME Types, Driven, Rested, NEW d \in Drives, Registers(d)
    PROVE  Rested'
<1>1. /\ drive[d].step = "prepared" /\ ~Hears(d) /\ Register(d)
      /\ Moves(d, "broker") /\ drive'[d].execution = Execution(d)
      /\ UNCHANGED <<run, watches, cancel, lost>>
  BY DEF Registers, Plain, Keeps, Execution
<1>2. Serving(d)
  BY <1>1 DEF Serving
<1>3. Execution(d) \in Executions /\ drive[d].channel # 0
  BY <1>1, <1>2, Holding DEF Holds, Told
<1>4. ~Signalled
  BY <1>1, <1>2, <1>3 DEF Driven, Joined, Signalled, Hears
<1>5. ~Ended
  BY <1>1, <1>2, <1>4 DEF Rested, Over
<1>6. "cancelled" \notin ThisTurn /\ "unknown" \notin ThisTurn
  BY <1>5 DEF Ended, TerminalKinds
<1>7. \A k \in Cancels : cancel[k].step \notin {"runner", "stop", "wait", "end"}
  BY <1>2, <1>4 DEF Rested, HeardAll
<1>8. /\ \A e \in Drives : Serving(e) => e = d
      /\ \A e \in Drives : (Serving(e))' => e = d
      /\ (ThisTurn)' = ThisTurn /\ HeardAll' /\ Over' /\ Unproven'
  BY <1>1, <1>2, DispatchStays
<1>9. Settles /\ Execution(d) \notin lost
  <2>1. ~Doubtful(d)
    BY <1>1 DEF Doubtful
  <2>2. \A e \in Drives : ~Doubtful(e)
    BY <1>8, <2>1, DoubtfulServes
  <2>. QED
    BY <1>1, <1>6, <2>2 DEF Rested, Doubt, Fresh
<1>10. Kept' /\ NotStopped' /\ Settles'
  BY <1>1, <1>3, <1>9, RegisteredRests DEF Rested
<1>11. Doubt'
  BY <1>10 DEF Doubt
<1>12. Fresh'
  BY <1>1, <1>8, <1>9 DEF Fresh, Serving, Execution
<1>13. Waits' /\ QuietEnd'
  BY <1>1, <1>7 DEF Waits, QuietEnd
<1>14. QuietTurn'
  BY <1>6, <1>8 DEF QuietTurn
<1>. QED
  BY <1>8, <1>10, <1>11, <1>12, <1>13, <1>14 DEF Rested

\* While a drive has a handler, nobody has the proof that all has stopped.
LEMMA HandlerIsSeen ==
    ASSUME Driven, Rested, NEW d \in Drives, drive[d].step \in Handlers
    PROVE  /\ ~Quiet /\ "cancelled" \notin ThisTurn
           /\ \A k \in Cancels : ~(cancel[k].step = "end" /\ cancel[k].stopped)
           /\ stops # 0 /\ Execution(d) \in DOMAIN sets[stops].entry
           /\ sets[stops].entry[Execution(d)] \in {"inflight", "stopping"}
<1>1. ~Quiet
  BY DEF Quiet
<1>. QED
  BY <1>1 DEF Driven, Tracked, Rested, QuietEnd, QuietTurn

\* A handler that fails leaves its execution in the set, unresolved, and a doubt.
LEMMA FinishesRested ==
    ASSUME Types, Driven, Rested, NEW d \in Drives, Finishes(d)
    PROVE  Rested'
<1>1. /\ drive[d].step = "running" /\ Moves(d, "handled") /\ drive'[d].step = "handled"
      /\ drive'[d].execution = Execution(d)
      /\ drive'[d].known => lost' = lost
      /\ ~drive'[d].known => lost' = lost \cup {Execution(d)}
      /\ UNCHANGED <<run, watches, stops, sets, cancel>>
  BY DEF Finishes, Moves, Keeps, Execution, stopping
<1>2. Serving(d) /\ drive[d].step \in Handlers
  BY <1>1 DEF Serving, Handlers
<1>3. /\ "cancelled" \notin ThisTurn
      /\ \A k \in Cancels : ~(cancel[k].step = "end" /\ cancel[k].stopped)
      /\ stops # 0 /\ Execution(d) \in DOMAIN sets[stops].entry
      /\ sets[stops].entry[Execution(d)] \in {"inflight", "stopping"}
  BY <1>2, HandlerIsSeen
<1>4. /\ \A e \in Drives : Serving(e) => e = d
      /\ \A e \in Drives : (Serving(e))' => e = d
      /\ (ThisTurn)' = ThisTurn /\ HeardAll' /\ Over' /\ Unproven'
  BY <1>1, <1>2, DispatchStays
<1>5. Execution(d) \notin lost
  BY <1>1 DEF Rested, Fresh
<1>6. Fresh'
  BY <1>1, <1>4, <1>5 DEF Fresh, Serving, Execution
<1>7. lost' \subseteq lost \cup {Execution(d)}
  BY <1>1
<1>8. Kept'
  <2>1. stops \in DOMAIN sets
    BY <1>3, OwnSet
  <2>. QED
    BY <1>1, <1>3, <1>7, <2>1 DEF Rested, Kept
<1>9. NotStopped'
  BY <1>1, <1>3, <1>7 DEF Rested, NotStopped, Here
<1>10. Doubt'
  <2>1. CASE drive'[d].known
    <3>1. Settles => Settles'
      BY <1>1, <2>1 DEF Settles, Here
    <3>2. ~Doubtful(d)
      BY <1>1 DEF Doubtful
    <3>3. \A e \in Drives : ~Doubtful(e)
      BY <1>4, <3>2, DoubtfulServes
    <3>. QED
      BY <1>4, <3>1, <3>3 DEF Rested, Doubt
  <2>2. CASE ~drive'[d].known
    <3>1. (Doubtful(d))'
      BY <1>1, <2>2 DEF Doubtful
    <3>. QED
      BY <3>1 DEF Doubt
  <2>. QED
    BY <2>1, <2>2
<1>11. Waits'
  BY <1>1 DEF Rested, Waits
<1>12. QuietEnd' /\ QuietTurn'
  BY <1>1, <1>3, <1>4 DEF QuietEnd, QuietTurn
<1>. QED
  BY <1>4, <1>6, <1>8, <1>9, <1>10, <1>11, <1>12 DEF Rested

\* A handler is resolved: one that failed is not taken for stopped, and leaves
\* the drive in doubt.
LEMMA ResolvesRested ==
    ASSUME Types, Driven, Rested, NEW d \in Drives, Resolves(d)
    PROVE  Rested'
<1>1. /\ drive[d].step = "resolve" /\ Moves(d, "settled") /\ drive'[d].step = "settled"
      /\ drive'[d].known = drive[d].known /\ UNCHANGED <<run, watches, stops, cancel, lost>>
  BY DEF Resolves, Plain, Moves
<1>2. Serving(d) /\ drive[d].step \in Handlers
  BY <1>1 DEF Serving, Handlers
<1>3. /\ "cancelled" \notin ThisTurn
      /\ \A k \in Cancels : ~(cancel[k].step = "end" /\ cancel[k].stopped)
      /\ stops # 0 /\ Execution(d) \in DOMAIN sets[stops].entry
      /\ sets[stops].entry[Execution(d)] \in {"inflight", "stopping"}
  BY <1>2, HandlerIsSeen
<1>4. /\ \A e \in Drives : Serving(e) => e = d
      /\ \A e \in Drives : (Serving(e))' => e = d
      /\ (ThisTurn)' = ThisTurn /\ HeardAll' /\ Over' /\ Unproven'
  BY <1>1, <1>2, DispatchStays
<1>5. /\ Execution(d) \in Executions /\ drive[d].asked \in BOOLEAN /\ drive[d].known \in BOOLEAN
      /\ stops \in DOMAIN sets /\ sets[stops] \in StopSets
  BY <1>2, <1>3, Holding, OwnSet DEF Holds
<1>6. PICK u : u = Resolved(sets[stops], Execution(d), drive[d].asked, drive[d].known)
  OBVIOUS
<1>7. /\ u.requested = sets[stops].requested /\ DOMAIN u.entry = DOMAIN sets[stops].entry
      /\ \A y \in DOMAIN u.entry : y # Execution(d) => u.entry[y] = sets[stops].entry[y]
      /\ ~drive[d].known => u.entry[Execution(d)] # "stopped"
  BY <1>3, <1>5, <1>6, ResolvedFacts
<1>8. /\ DOMAIN sets' = DOMAIN sets /\ sets'[stops] = u
      /\ \A i \in DOMAIN sets : i # stops => sets'[i] = sets[i]
  BY <1>3, <1>5, <1>6 DEF Resolves
<1>9. drive[d].known => Execution(d) \notin lost
  BY <1>1 DEF Rested, Fresh
<1>10. Kept'
  BY <1>1, <1>7, <1>8 DEF Rested, Kept
<1>11. NotStopped'
  BY <1>1, <1>7, <1>8, <1>9 DEF Rested, NotStopped, Here
<1>12. Doubt'
  <2>1. CASE drive[d].known
    <3>1. Settles => Settles'
      BY <1>1, <1>7, <1>8, <1>9, <2>1 DEF Settles, Here
    <3>2. ~Doubtful(d)
      BY <1>1, <2>1 DEF Doubtful
    <3>3. \A e \in Drives : ~Doubtful(e)
      BY <1>4, <3>2, DoubtfulServes
    <3>. QED
      BY <1>4, <3>1, <3>3 DEF Rested, Doubt
  <2>2. CASE ~drive[d].known
    <3>1. (Doubtful(d))'
      BY <1>1, <2>2 DEF Doubtful
    <3>. QED
      BY <3>1 DEF Doubt
  <2>. QED
    BY <2>1, <2>2
<1>13. Fresh'
  BY <1>1, <1>4 DEF Fresh, Serving
<1>14. Waits'
  <2>1. ASSUME NEW k \in Cancels, cancel[k].step = "wait"
        PROVE  sets'[cancel[k].set].requested
    <3>1. cancel[k].set # 0 /\ stops \in {0, cancel[k].set} /\ sets[cancel[k].set].requested
      BY <2>1 DEF Rested, Waits
    <3>. QED
      BY <1>3, <1>7, <1>8, <3>1
  <2>. QED
    BY <1>1, <2>1 DEF Rested, Waits
<1>15. QuietEnd' /\ QuietTurn'
  BY <1>1, <1>3, <1>4 DEF QuietEnd, QuietTurn
<1>. QED
  BY <1>4, <1>10, <1>11, <1>12, <1>13, <1>14, <1>15 DEF Rested

\* A certain result that comes too late asks the set to stop.
LEMMA AwaitsRested ==
    ASSUME Types, Driven, Rested, NEW d \in Drives, Awaits(d)
    PROVE  Rested'
<1>1. /\ drive[d].step = "settled" /\ drive[d].known /\ stops # 0
      /\ sets' = [sets EXCEPT ![stops] = BeginStop(sets[stops])]
      /\ Moves(d, "await") /\ drive'[d].step = "await"
      /\ UNCHANGED <<run, watches, stops, cancel, lost>>
  BY DEF Awaits, Moves
<1>2. Serving(d)
  BY <1>1 DEF Serving
<1>3. /\ \A e \in Drives : Serving(e) => e = d
      /\ \A e \in Drives : (Serving(e))' => e = d
      /\ (ThisTurn)' = ThisTurn /\ HeardAll' /\ Over' /\ Unproven'
  BY <1>1, <1>2, DispatchStays
<1>4. /\ Kept' /\ NotStopped' /\ (Settles => Settles')
      /\ sets'[stops].requested
  BY <1>1, BeginStopRests
<1>5. \A e \in Drives : drive'[e].step \notin Handlers
  BY <1>1, <1>3 DEF Serving, Handlers
<1>6. Quiet => Quiet'
  BY <1>4, <1>5, QuietStays
<1>7. Doubt'
  <2>1. ~Doubtful(d)
    BY <1>1 DEF Doubtful
  <2>2. \A e \in Drives : ~Doubtful(e)
    BY <1>3, <2>1, DoubtfulServes
  <2>. QED
    BY <1>3, <1>4, <2>2 DEF Rested, Doubt
<1>8. Fresh'
  BY <1>1, <1>3 DEF Fresh, Serving
<1>9. Waits'
  BY <1>1, <1>4 DEF Rested, Waits
<1>10. QuietEnd' /\ QuietTurn'
  BY <1>1, <1>3, <1>6 DEF Rested, QuietEnd, QuietTurn
<1>. QED
  BY <1>3, <1>4, <1>7, <1>8, <1>9, <1>10 DEF Rested

\* A turn is recorded as cancelled by its drive only without a doubt, and a doubt
\* is recorded as an unknown outcome, or finds a turn cancelled in quiet.
LEMMA EndsRested ==
    ASSUME Types, Driven, Rested, NEW d \in Drives, Ends(d)
    PROVE  Rested'
<1>. PICK kind : kind = KindOf(drive[d].event)
  OBVIOUS
<1>1. /\ drive[d].step \in {"end", "again"} /\ kind \in TerminalKinds /\ EndTurn(kind)
      /\ UNCHANGED <<watches, stopping, cancel, lost>>
  BY DEF Ends
<1>2. Serving(d)
  BY <1>1 DEF Serving
<1>3. /\ (Ended)' /\ ThisTurn \subseteq (ThisTurn)'
      /\ Ended => (ThisTurn)' = ThisTurn
      /\ ~Ended => (ThisTurn)' = ThisTurn \cup {kind}
  BY <1>1, TurnEnds DEF Types, Streams
<1>4. \A e \in Drives : Serving(e) => e = d
  BY <1>2 DEF Driven, One
<1>5. /\ drive'[d].step \in {"done", "again", "clear"}
      /\ \A e \in Drives : e # d => drive'[e] = drive[e]
  <2>1. Tasks
    BY DEF Types
  <2>. QED
    BY <2>1, ReturnMoves DEF Ends, Plain, Moves, Done
<1>6. \A e \in Drives : (Serving(e))' => e = d
  BY <1>4, <1>5, OnlyOne
<1>7. \A e \in Drives : drive[e].step \notin Handlers /\ drive'[e].step \notin Handlers
  BY <1>1, <1>4, <1>5, <1>6 DEF Serving, Handlers
<1>8. Kept' /\ NotStopped' /\ (Settles => Settles')
  BY <1>1, RestStays DEF Rested
<1>9. Quiet => Quiet'
  BY <1>7, <1>8, QuietStays
<1>10. Signalled => Signalled'
  BY <1>1 DEF Signalled, watches
<1>11. HeardAll' /\ Unproven' /\ Waits' /\ QuietEnd'
  BY <1>1, <1>2, <1>9, <1>10, AsksStay
<1>12. Over' /\ Fresh'
  BY <1>5, <1>6 DEF Over, Fresh, Serving
<1>13. Doubtful(d) => drive[d].step = "end" /\ kind = "unknown"
  BY <1>1 DEF Doubtful, KindOf
<1>14. Doubt'
  <2>1. CASE Settles
    BY <1>8, <2>1 DEF Doubt
  <2>2. CASE "unknown" \in ThisTurn
    BY <1>3, <2>2 DEF Doubt
  <2>3. CASE Doubtful(d)
    <3>1. CASE ~Ended
      BY <1>3, <1>13, <2>3, <3>1 DEF Doubt
    <3>2. CASE Ended
      <4>1. ThisTurn \cap TerminalKinds \subseteq {"cancelled", "unknown"}
        BY <1>2, <1>13, <2>3, <3>2 DEF Rested, Over
      <4>2. "cancelled" \in ThisTurn \/ "unknown" \in ThisTurn
        BY <3>2, <4>1 DEF Ended
      <4>. QED
        BY <1>3, <1>8, <4>2 DEF Rested, QuietTurn, Quiet, Doubt
    <3>. QED
      BY <3>1, <3>2
  <2>. QED
    BY <1>4, <2>1, <2>2, <2>3, DoubtfulServes DEF Rested, Doubt
<1>15. QuietTurn'
  <2>1. CASE "cancelled" \in ThisTurn
    BY <1>9, <2>1 DEF Rested, QuietTurn
  <2>2. CASE "cancelled" \notin ThisTurn /\ "cancelled" \in (ThisTurn)'
    <3>1. ~Ended /\ kind = "cancelled"
      BY <1>3, <2>2
    <3>2. "unknown" \notin ThisTurn /\ ~Doubtful(d)
      BY <1>13, <3>1 DEF Ended, TerminalKinds
    <3>3. Settles
      BY <1>4, <3>2, DoubtfulServes DEF Rested, Doubt
    <3>. QED
      BY <1>7, <1>9, <3>3 DEF Quiet, QuietTurn
  <2>. QED
    BY <2>1, <2>2 DEF QuietTurn
<1>. QED
  BY <1>8, <1>11, <1>12, <1>14, <1>15 DEF Rested

\* A drive that leaves a turn alone leaves one with an unknown outcome.
LEMMA LeavesRested ==
    ASSUME Types, Driven, Rested, NEW d \in Drives, Leaves(d)
    PROVE  Rested'
<1>1. /\ Serving(d) /\ Return(d) /\ "unknown" \in ThisTurn
      /\ UNCHANGED <<run, watches, stopping, cancel, lost>>
  BY DEF Leaves
<1>2. \A e \in Drives : (~Serving(e))'
  BY <1>1, NoneLeft DEF Driven
<1>3. HeardAll' /\ Over' /\ Fresh' /\ (\A e \in Drives : drive'[e].step \notin Handlers)
  BY <1>2 DEF Serving, HeardAll, Over, Fresh, Handlers
<1>4. (ThisTurn)' = ThisTurn
  BY <1>1, TurnStays
<1>5. Kept' /\ NotStopped' /\ (Settles => Settles')
  BY <1>1, RestStays DEF Rested
<1>6. Quiet => Quiet'
  BY <1>3, <1>5, QuietStays
<1>7. Signalled => Signalled'
  BY <1>1 DEF Signalled, watches
<1>8. Unproven' /\ Waits' /\ QuietEnd'
  BY <1>1, <1>2, <1>6, <1>7, AsksStay
<1>9. Doubt' /\ QuietTurn'
  BY <1>1, <1>4, <1>6 DEF Rested, Doubt, QuietTurn
<1>. QED
  BY <1>3, <1>5, <1>8, <1>9 DEF Rested

\* A run that has dropped its set has nothing unsettled in it.
LEMMA ClearRested ==
    ASSUME Types, Driven, Rested, NEW d \in Drives, Clear(d)
    PROVE  Rested'
<1>1. /\ drive[d].step = "clear" /\ stops' = 0 /\ Return(d)
      /\ UNCHANGED <<run, sets, cancel, lost>>
  BY DEF Clear, At
<1>2. Serving(d)
  BY <1>1 DEF Serving
<1>3. \A e \in Drives : (~Serving(e))'
  BY <1>1, <1>2, NoneLeft DEF Driven
<1>4. HeardAll' /\ Over' /\ Fresh' /\ (\A e \in Drives : drive'[e].step \notin Handlers)
  BY <1>3 DEF Serving, HeardAll, Over, Fresh, Handlers
<1>5. Kept'
  BY <1>1 DEF Rested, Kept
<1>6. NotStopped' /\ Settles'
  BY <1>1 DEF NotStopped, Settles, Here
<1>7. Quiet' /\ Doubt'
  BY <1>4, <1>6 DEF Quiet, Doubt
<1>8. Unproven' /\ Waits'
  BY <1>1 DEF Rested, Unproven, Waits
<1>9. QuietEnd' /\ QuietTurn'
  BY <1>7 DEF QuietEnd, QuietTurn
<1>. QED
  BY <1>4, <1>5, <1>6, <1>7, <1>8, <1>9 DEF Rested

------------------------------------------------------------------------------
(* Cancellations keep the rest                                               *)

\* A step of a cancellation that tells no set: the work is where it was.
LEMMA WorkStays ==
    ASSUME Rested, UNCHANGED <<stops, sets, drive, lost>>, ThisTurn \subseteq (ThisTurn)'
    PROVE  /\ Fresh' /\ Kept' /\ NotStopped' /\ Doubt'
           /\ (Settles => Settles') /\ (Quiet => Quiet')
<1>1. UNCHANGED <<stopping, lost>>
  BY DEF stopping
<1>2. Kept' /\ NotStopped' /\ (Settles => Settles')
  BY <1>1, RestStays DEF Rested
<1>3. Quiet => Quiet'
  BY <1>2, QuietStays
<1>4. Fresh'
  BY DEF Rested, Fresh, Execution
<1>5. Doubt'
  BY <1>2 DEF Rested, Doubt, Doubtful
<1>. QED
  BY <1>2, <1>3, <1>4, <1>5

\* With no set there is nothing to wait for.
LEMMA NoSetIsQuiet == ASSUME Driven, stops = 0 PROVE Quiet
  BY DEF Driven, Tracked, Quiet, Settles, Here

\* A cancellation that is let in, or has asked the runner.
LEMMA GoesRested ==
    ASSUME Types, Driven, Rested, NEW k \in Cancels, Goes(k)
    PROVE  Rested'
<1>1. /\ UNCHANGED <<run, watch, signals, stops, sets, drive, lost>>
      /\ \A j \in Cancels : j # k => cancel'[j] = cancel[j]
      /\ \/ cancel[k].step = "idle" /\ cancel'[k].step = "record"
         \/ cancel[k].step = "runner" /\ cancel'[k].step = "stop"
      /\ cancel'[k].stopped = cancel[k].stopped
  BY DEF Goes, Advances, Keeping, watches, stopping
<1>2. (ThisTurn)' = ThisTurn /\ ((Ended)' <=> Ended) /\ (Signalled' <=> Signalled)
  BY <1>1, TurnStays DEF Signalled
<1>3. Fresh' /\ Kept' /\ NotStopped' /\ Doubt' /\ (Quiet => Quiet')
  BY <1>1, <1>2, WorkStays
<1>4. HeardAll' /\ Over'
  BY <1>1, <1>2 DEF Rested, HeardAll, Over, Serving
<1>5. Unproven'
  BY <1>1 DEF Rested, Unproven
<1>6. Waits'
  BY <1>1 DEF Rested, Waits
<1>7. QuietEnd' /\ QuietTurn'
  BY <1>1, <1>2, <1>3 DEF Rested, QuietEnd, QuietTurn
<1>. QED
  BY <1>3, <1>4, <1>5, <1>6, <1>7 DEF Rested

\* A request that is recorded ends nothing.
LEMMA RecordsRested ==
    ASSUME Types, Driven, Rested, NEW k \in Cancels, Records(k)
    PROVE  Rested'
<1>1. /\ UNCHANGED <<watch, signals, stops, sets, drive, lost>> /\ cancel[k].step = "record"
      /\ \A j \in Cancels : j # k => cancel'[j] = cancel[j]
      /\ cancel'[k].step \in {"signal", "done"} /\ cancel'[k].stopped = cancel[k].stopped
      /\ run' = run \/ run' = Append(run, "cancelling")
  BY DEF Records, Advances, Keeping, watches, stopping
<1>2. (ThisTurn)' \in {ThisTurn, ThisTurn \cup {"cancelling"}}
  <2>1. CASE run' = run
    BY <2>1, TurnStays
  <2>2. CASE run' = Append(run, "cancelling")
    <3>1. "cancelling" \in Facts /\ run \in Seq(Facts)
      BY DEF Types, Streams, Facts
    <3>. QED
      BY <2>2, <3>1, TurnGrows
  <2>. QED
    BY <1>1, <2>1, <2>2
<1>3. /\ (ThisTurn)' \cap TerminalKinds = ThisTurn \cap TerminalKinds
      /\ ThisTurn \subseteq (ThisTurn)' /\ ("cancelled" \in (ThisTurn)' => "cancelled" \in ThisTurn)
  BY <1>2 DEF TerminalKinds
<1>4. ((Ended)' <=> Ended) /\ (Signalled' <=> Signalled)
  BY <1>1, <1>3 DEF Ended, Signalled
<1>5. Fresh' /\ Kept' /\ NotStopped' /\ Doubt' /\ (Quiet => Quiet')
  BY <1>1, <1>3, WorkStays
<1>6. HeardAll'
  BY <1>1, <1>4 DEF Rested, HeardAll, Serving
<1>7. Over'
  BY <1>1, <1>3, <1>4 DEF Rested, Over, Serving
<1>8. Unproven'
  BY <1>1 DEF Rested, Unproven
<1>9. Waits'
  BY <1>1 DEF Rested, Waits
<1>10. QuietEnd' /\ QuietTurn'
  BY <1>1, <1>3, <1>5 DEF Rested, QuietEnd, QuietTurn
<1>. QED
  BY <1>5, <1>6, <1>7, <1>8, <1>9, <1>10 DEF Rested

\* The signal is there from now on.
LEMMA SignalsRested ==
    ASSUME Types, Driven, Rested, NEW k \in Cancels, Signals(k)
    PROVE  Rested'
<1>1. /\ UNCHANGED <<run, stops, sets, drive, lost>> /\ cancel[k].step = "signal"
      /\ \A j \in Cancels : j # k => cancel'[j] = cancel[j]
      /\ watch' # 0 /\ signals'[watch'] = TRUE
      /\ cancel'[k].step = "runner" /\ cancel'[k].stopped = cancel[k].stopped
  BY DEF Signals, Advances, Keeping, stopping
<1>2. (ThisTurn)' = ThisTurn /\ ((Ended)' <=> Ended) /\ Signalled'
  BY <1>1, TurnStays DEF Signalled
<1>3. Fresh' /\ Kept' /\ NotStopped' /\ Doubt' /\ (Quiet => Quiet')
  BY <1>1, <1>2, WorkStays
<1>4. HeardAll' /\ Over'
  BY <1>1, <1>2 DEF Rested, HeardAll, Over, Serving
<1>5. Unproven'
  BY <1>1 DEF Rested, Unproven
<1>6. Waits'
  BY <1>1 DEF Rested, Waits
<1>7. QuietEnd' /\ QuietTurn'
  BY <1>1, <1>2, <1>3 DEF Rested, QuietEnd, QuietTurn
<1>. QED
  BY <1>3, <1>4, <1>5, <1>6, <1>7 DEF Rested

\* A cancellation finds no set, and it is quiet; or the set owes its stop.
LEMMA AsksStopRested ==
    ASSUME Types, Driven, Rested, NEW k \in Cancels, AsksStop(k)
    PROVE  Rested'
<1>1. /\ UNCHANGED <<run, watch, signals, stops, drive, lost>> /\ cancel[k].step = "stop"
      /\ \A j \in Cancels : j # k => cancel'[j] = cancel[j]
      /\ \/ stops = 0 /\ sets' = sets /\ cancel'[k].step = "end"
         \/ /\ stops # 0 /\ sets' = [sets EXCEPT ![stops] = BeginStop(sets[stops])]
            /\ cancel'[k].step = "wait" /\ cancel'[k].set = stops
            /\ cancel'[k].stopped = cancel[k].stopped
  BY DEF AsksStop, Advances, Keeping, watches
<1>2. (ThisTurn)' = ThisTurn /\ ((Ended)' <=> Ended) /\ (Signalled' <=> Signalled)
  BY <1>1, TurnStays DEF Signalled
<1>3. HeardAll' /\ Over'
  BY <1>1, <1>2 DEF Rested, HeardAll, Over, Serving
<1>4. Unproven'
  BY <1>1 DEF Rested, Unproven
<1>5. CASE stops = 0
  <2>1. Fresh' /\ Kept' /\ NotStopped' /\ Doubt' /\ (Quiet => Quiet')
    BY <1>1, <1>2, <1>5, WorkStays
  <2>2. Quiet'
    BY <1>5, <2>1, NoSetIsQuiet
  <2>3. Waits'
    BY <1>1, <1>5 DEF Rested, Waits
  <2>4. QuietEnd' /\ QuietTurn'
    BY <2>2 DEF QuietEnd, QuietTurn
  <2>. QED
    BY <1>3, <1>4, <2>1, <2>3, <2>4 DEF Rested
<1>6. CASE stops # 0
  <2>1. /\ Kept' /\ NotStopped' /\ (Settles => Settles') /\ sets'[stops].requested
        /\ \A i \in DOMAIN sets : sets[i].requested => sets'[i].requested
    BY <1>1, <1>6, BeginStopRests
  <2>2. Quiet => Quiet'
    BY <1>1, <2>1, QuietStays
  <2>3. Fresh'
    BY <1>1 DEF Rested, Fresh, Execution
  <2>4. Doubt'
    BY <1>1, <1>2, <2>1 DEF Rested, Doubt, Doubtful
  <2>5. Waits'
    BY <1>1, <1>6, <2>1 DEF Rested, Waits
  <2>6. QuietEnd' /\ QuietTurn'
    BY <1>1, <1>2, <1>6, <2>2 DEF Rested, QuietEnd, QuietTurn
  <2>. QED
    BY <1>3, <1>4, <2>1, <2>3, <2>4, <2>5, <2>6 DEF Rested
<1>. QED
  BY <1>5, <1>6

\* A set that was asked to stop and is at rest proves that all is quiet.
LEMMA ConfirmedIsQuiet ==
    ASSUME Types, Driven, Rested, NEW k \in Cancels, cancel[k].step = "wait",
           Resolution(sets[cancel[k].set]) = "confirmed"
    PROVE  Quiet
<1>1. /\ cancel[k].set # 0 /\ stops \in {0, cancel[k].set}
      /\ sets[cancel[k].set].requested
  BY DEF Rested, Waits
<1>2. CASE stops = 0
  BY <1>2, NoSetIsQuiet
<1>3. CASE stops # 0
  <2>1. /\ sets[stops] \in StopSets /\ Resolution(sets[stops]) = "confirmed"
        /\ sets[stops].requested
    BY <1>1, <1>3, OwnSet
  <2>2. ASSUME NEW e \in Drives PROVE drive[e].step \notin Handlers
    BY <2>1, NotAtRest DEF Driven, Tracked
  <2>3. ASSUME NEW x \in lost, Here(x)
        PROVE  sets[stops].requested /\ sets[stops].entry[x] = "completed"
    <3>1. sets[stops].entry[x] \in {"stopped", "completed"}
      BY <2>1, <2>3, AtRest DEF Here
    <3>. QED
      BY <2>1, <2>3, <3>1 DEF Rested, NotStopped
  <2>. QED
    BY <2>2, <2>3 DEF Quiet, Settles
<1>. QED
  BY <1>2, <1>3

\* A cancellation has the proof only when all is quiet.
LEMMA AwaitsStopRested ==
    ASSUME Types, Driven, Rested, NEW k \in Cancels, AwaitsStop(k)
    PROVE  Rested'
<1>1. /\ UNCHANGED <<run, watch, signals, stops, sets, drive, lost>> /\ cancel[k].step = "wait"
      /\ \A j \in Cancels : j # k => cancel'[j] = cancel[j]
      /\ cancel'[k].step = "end"
      /\ \/ cancel'[k].stopped = (Resolution(sets[cancel[k].set]) = "confirmed")
         \/ cancel'[k].stopped = cancel[k].stopped
  BY DEF AwaitsStop, Advances, watches, stopping
<1>2. (ThisTurn)' = ThisTurn /\ ((Ended)' <=> Ended) /\ (Signalled' <=> Signalled)
  BY <1>1, TurnStays DEF Signalled
<1>3. Fresh' /\ Kept' /\ NotStopped' /\ Doubt' /\ (Quiet => Quiet')
  BY <1>1, <1>2, WorkStays
<1>4. HeardAll' /\ Over'
  BY <1>1, <1>2 DEF Rested, HeardAll, Over, Serving
<1>5. Unproven'
  BY <1>1 DEF Rested, Unproven
<1>6. Waits'
  BY <1>1 DEF Rested, Waits
<1>7. cancel'[k].stopped => Quiet
  <2>1. ~cancel[k].stopped
    BY <1>1 DEF Rested, Unproven
  <2>. QED
    BY <1>1, <2>1, ConfirmedIsQuiet
<1>8. QuietEnd' /\ QuietTurn'
  BY <1>1, <1>2, <1>3, <1>7 DEF Rested, QuietEnd, QuietTurn
<1>. QED
  BY <1>3, <1>4, <1>5, <1>6, <1>8 DEF Rested

\* A cancellation ends the turn as cancelled only in quiet, and a drive that is
\* still in the turn hears of it.
LEMMA EndsCancelRested ==
    ASSUME Types, Driven, Rested, NEW k \in Cancels, EndsCancel(k)
    PROVE  Rested'
<1>1. /\ UNCHANGED <<watch, signals, stops, sets, drive, lost>> /\ cancel[k].step = "end"
      /\ \A j \in Cancels : j # k => cancel'[j] = cancel[j]
      /\ cancel'[k].step = "done"
  BY DEF EndsCancel, Advances, watches, stopping
<1>2. PICK kind \in {"cancelled", "unknown"} :
         EndTurn(kind) /\ (kind = "cancelled" => cancel[k].stopped)
  BY DEF EndsCancel
<1>3. /\ ThisTurn \subseteq (ThisTurn)'
      /\ Ended => (ThisTurn)' = ThisTurn
      /\ ~Ended => (ThisTurn)' = ThisTurn \cup {kind}
  <2>1. kind \in TerminalKinds
    BY DEF TerminalKinds
  <2>. QED
    BY <1>2, <2>1, TurnEnds DEF Types, Streams
<1>4. Signalled' <=> Signalled
  BY <1>1 DEF Signalled
<1>5. Fresh' /\ Kept' /\ NotStopped' /\ Doubt' /\ (Quiet => Quiet')
  BY <1>1, <1>3, WorkStays
<1>6. HeardAll'
  BY <1>1, <1>4 DEF Rested, HeardAll, Serving
<1>7. Over'
  <2>1. ASSUME NEW e \in Drives, Serving(e), drive[e].step \notin {"again", "clear"}
        PROVE  Signalled /\ (ThisTurn)' \cap TerminalKinds \subseteq {"cancelled", "unknown"}
    <3>1. Signalled
      BY <1>1, <2>1 DEF Rested, HeardAll
    <3>2. CASE Ended
      BY <1>3, <2>1, <3>1, <3>2 DEF Rested, Over
    <3>3. CASE ~Ended
      BY <1>3, <3>1, <3>3 DEF Ended
    <3>. QED
      BY <3>2, <3>3
  <2>. QED
    BY <1>1, <1>4, <2>1 DEF Over, Serving
<1>8. Unproven'
  BY <1>1 DEF Rested, Unproven
<1>9. Waits'
  BY <1>1 DEF Rested, Waits
<1>10. QuietEnd'
  BY <1>1, <1>5 DEF Rested, QuietEnd
<1>11. QuietTurn'
  <2>1. "cancelled" \in (ThisTurn)' => "cancelled" \in ThisTurn \/ cancel[k].stopped
    BY <1>2, <1>3
  <2>. QED
    BY <1>1, <1>5, <2>1 DEF Rested, QuietEnd, QuietTurn
<1>. QED
  BY <1>5, <1>6, <1>7, <1>8, <1>9, <1>10, <1>11 DEF Rested

\* A step that changes nothing.
LEMMA StillRested ==
    ASSUME Rested, UNCHANGED vars
    PROVE  Rested'
<1>1. UNCHANGED <<run, watch, signals, stops, sets, drive, cancel, lost>>
  BY DEF vars, watches, stopping
<1>2. (ThisTurn)' = ThisTurn /\ ((Ended)' <=> Ended) /\ (Signalled' <=> Signalled)
  BY <1>1, TurnStays DEF Signalled
<1>3. Fresh' /\ Kept' /\ NotStopped' /\ Doubt' /\ (Quiet => Quiet')
  BY <1>1, <1>2, WorkStays
<1>4. HeardAll' /\ Over'
  BY <1>1, <1>2 DEF Rested, HeardAll, Over, Serving
<1>5. Unproven' /\ Waits'
  BY <1>1 DEF Rested, Unproven, Waits
<1>6. QuietEnd' /\ QuietTurn'
  BY <1>1, <1>2, <1>3 DEF Rested, QuietEnd, QuietTurn
<1>. QED
  BY <1>3, <1>4, <1>5, <1>6 DEF Rested

\* A run that starts is in its first turn, with nothing asked and nothing lost.
LEMMA InitRested ==
    ASSUME Init
    PROVE  Rested
<1>1. PICK first \in Drives :
         drive = [d \in Drives |-> IF d = first THEN [Asking EXCEPT !.step = "begin"] ELSE Idle]
  BY DEF Init
<1>2. PICK r : r = [Asking EXCEPT !.step = "begin"]
  OBVIOUS
<1>3. r.step = "begin"
  BY <1>2 DEF Asking
<1>4. \A d \in Drives : drive[d].step \in {"begin", "idle"}
  BY <1>1, <1>2, <1>3 DEF Idle
<1>5. ThisTurn \subseteq {"prompt"}
  BY DEF Init, ThisTurn
<1>6. \A k \in Cancels : cancel[k].step = "idle" /\ ~cancel[k].stopped
  BY DEF Init
<1>7. HeardAll /\ Unproven /\ Waits /\ QuietEnd
  BY <1>6 DEF HeardAll, Unproven, Waits, QuietEnd
<1>8. Over /\ QuietTurn
  BY <1>5 DEF Over, QuietTurn, Ended, TerminalKinds
<1>9. Fresh
  BY <1>4 DEF Fresh
<1>10. lost = {}
  BY DEF Init
<1>11. Kept /\ NotStopped /\ Doubt
  BY <1>10 DEF Kept, NotStopped, Doubt, Settles
<1>. QED
  BY <1>7, <1>8, <1>9, <1>11 DEF Rested

\* Every step keeps the rest, when the client waits for both answers.
LEMMA NextRested ==
    ASSUME Types, Unanswered = {}, Driven, Rested, [Next]_vars
    PROVE  Rested'
<1>1. ASSUME NEW d \in Drives, DriveStep(d) PROVE Rested'
  BY <1>1, StartsRested, PassesRested, WatchesRested, PreparesRested, RegistersRested,
     FinishesRested, ResolvesRested, AwaitsRested, EndsRested, LeavesRested, ClearRested
  DEF DriveStep
<1>2. ASSUME NEW k \in Cancels, CancelStep(k) PROVE Rested'
  BY <1>2, GoesRested, RecordsRested, SignalsRested, AsksStopRested, AwaitsStopRested,
     EndsCancelRested DEF CancelStep
<1>. QED
  BY <1>1, <1>2, StillRested, DriveSteps, CancelSteps DEF Next

\* While the client waits for the answers to its prompt and to its cancellation
\* before it sends the next prompt, a turn is recorded as cancelled only when none
\* of the run's handlers runs, and what passes for settled of the handlers whose
\* effect is unknown had failed before the signal.
THEOREM CancelledIsAtRest == ASSUME Unanswered = {} PROVE Spec => []CancelledAtRest
<1>1. Init => Types /\ Driven /\ Rested
  BY InitTypes, InitDriven, InitRested
<1>2. Types /\ Driven /\ Rested /\ [Next]_vars => (Types /\ Driven /\ Rested)'
  <2>1. "prompts" \notin Unanswered
    OBVIOUS
  <2>. QED
    BY <2>1, NextTypes, NextDriven, NextRested
<1>3. Types /\ Driven /\ Rested => CancelledAtRest
  <2>1. ASSUME Quiet PROVE Running = {}
    BY <2>1 DEF Quiet, Running, At, Handlers
  <2>2. ASSUME Quiet, NEW x \in lost, stops # 0, x \in DOMAIN sets[stops].entry
        PROVE  sets[stops].entry[x] = "completed"
    BY <2>2 DEF Quiet, Settles, Here
  <2>. QED
    BY <2>1, <2>2 DEF Rested, QuietTurn, CancelledAtRest
<1>. QED
  BY <1>1, <1>2, <1>3, PTL DEF Spec
==============================================================================
