------------------------------ MODULE Approvals ------------------------------
(***************************************************************************)
(* Approvals (kiana-daemon/src/journal_approvals.rs), with the two callers   *)
(* that share transactions with it: stage_capability_action, which activates *)
(* an approval together with the pause of its run, and the two that sweep a  *)
(* project's approvals, synchronize_authority after a revision and           *)
(* begin_project_invalidation after cancelling the project's runs.           *)
(*                                                                          *)
(* The journal is the only state: an approval is the fold of its stream.     *)
(* Every call reads some streams, with other calls running in between, and   *)
(* then commits on the versions it read; `call` records how far each caller  *)
(* got and what it saw.                                                     *)
(***************************************************************************)
EXTENDS Integers, Sequences, FiniteSets

CONSTANTS
    Callers, Ids,       \* tasks of the daemon, and approvals (= request ids)
    Volatile,           \* the approvals whose raw payload may not be written
    Configs, Trusted,   \* authority configurations, and those that trust the project
    Operations,         \* the calls that are made; one ignores what it does not need
    TTL,                \* APPROVAL_TTL
    Capacity,           \* MAX_VOLATILE_PAYLOADS
    Tries,              \* attempts of invalidate_project on one approval
    MaxClock, MaxAuthority, \* bounds: time, revisions
    MaxRollbacks,           \* bound: clock steps back
    MaxCrashes, MaxUnknowns \* bounds: restarts, commits with an unknown outcome

Kinds == {"stage", "activate", "approve", "deny", "consume", "invalidate", "list", "sync",
          "purge"}

ASSUME ApprovalsAssumption ==
    /\ Volatile \subseteq Ids
    /\ Trusted \subseteq Configs
    /\ Operations \subseteq [is: Kinds, id: Ids, config: Configs]
    /\ TTL \in Nat \ {0} /\ Tries \in Nat \ {0} /\ Capacity \in Nat
    /\ MaxClock \in Nat /\ MaxAuthority \in Nat
    /\ MaxRollbacks \in Nat /\ MaxCrashes \in Nat /\ MaxUnknowns \in Nat

VARIABLES
    stream,         \* the approval stream of each id, a sequence of facts
    authority,      \* the authority stream of the project, its configurations
    run,            \* the run stream: "prompt", "awaiting", "cancelling"
    clock,
    payloads,       \* raw payloads kept in memory only
    call,           \* what each caller is doing
    told,           \* ghost: the answers that were given
    swept,          \* ghost: the authority versions whose sweep was reported done
    rollbacks, crashes, unknowns

vars == <<stream, authority, run, clock, payloads, call, told, swept,
          rollbacks, crashes, unknowns>>
journal == <<stream, authority, run>>
bounds == <<rollbacks, crashes, unknowns>>

------------------------------------------------------------------------------
(* Histories                                                                 *)

Terminal == {"denied", "expired", "cancelled", "consumed"}
Alive == {"staged", "active", "approved"}

Transitions ==
    {<<"staged", "active">>, <<"active", "approved">>, <<"active", "denied">>,
     <<"approved", "consumed">>} \cup Alive \X {"expired", "cancelled"}

StateOf(s) == s[Len(s)].state
TimeOf(s) == s[Len(s)].at
Live(s) == s # << >> /\ StateOf(s) \in Alive
Bound(s) == s[1].authority
Expiry(s) == s[1].at + TTL
Reached(s, state) == \E i \in 1 .. Len(s) : s[i].state = state
Decision(s) ==
    IF Reached(s, "approved") THEN "approve" ELSE IF Reached(s, "denied") THEN "deny" ELSE "none"

\* What fold accepts: the legal transitions, times that do not go back, and
\* decisions and consumptions before the expiry.
Foldable(s) ==
    /\ s # << >>
    /\ \A i \in 2 .. Len(s) :
        /\ <<s[i - 1].state, s[i].state>> \in Transitions
        /\ s[i - 1].at <= s[i].at
        /\ s[i].state \in {"approved", "denied", "consumed"} => s[i].at < Expiry(s)

Cancelled == \E i \in 1 .. Len(run) : run[i] = "cancelling"
CurrentlyTrusted == authority[Len(authority)] \in Trusted

------------------------------------------------------------------------------
(* Calls                                                                     *)

Idle == [step |-> "idle"]

First == [stage |-> "authority", sync |-> "authority", activate |-> "receipt",
          consume |-> "run", purge |-> "run", approve |-> "load", deny |-> "load",
          invalidate |-> "load", list |-> "load"]

Begun(o) == [op |-> o, step |-> First[o.is], id |-> o.id, seen |-> << >>,
             authority |-> 0, run |-> 0, at |-> 0, todo |-> {}, tries |-> 0]

At(c, step) == call[c].step = step
Is(c, is) == call[c].op.is = is
Id(c) == call[c].id
Seen(c) == call[c].seen
GoTo(c, step) == call' = [call EXCEPT ![c].step = step] /\ UNCHANGED told

Return(c) == call' = [call EXCEPT ![c] = Idle] /\ UNCHANGED told
Reply(c, what) ==
    /\ call' = [call EXCEPT ![c] = Idle]
    /\ told' = told \cup {[id |-> Id(c), what |-> what]}

Start(c) ==
    /\ call[c] = Idle
    /\ \E o \in Operations : call' = [call EXCEPT ![c] = Begun(o)]
    /\ UNCHANGED <<journal, clock, payloads, told, swept, bounds>>

\* A read or a write fails, or nobody waits for the answer any more.
Abandon(c) ==
    /\ call[c] # Idle
    /\ Return(c)
    /\ UNCHANGED <<journal, clock, payloads, swept, bounds>>

\* stage begins with the authority, and so does synchronize_authority, which
\* has nothing to do when the configuration is already the last one.
ReadAuthority(c) ==
    /\ At(c, "authority")
    /\ LET proceed == IF Is(c, "stage") THEN CurrentlyTrusted
                      ELSE /\ authority[Len(authority)] # call[c].op.config
                           /\ Len(authority) < MaxAuthority
       IN  \/ /\ proceed
              /\ call' = [call EXCEPT ![c].authority = Len(authority),
                                      ![c].step = IF Is(c, "stage") THEN "load" ELSE "revise"]
              /\ UNCHANGED told
           \/ ~proceed /\ Return(c)
    /\ UNCHANGED <<journal, clock, payloads, swept, bounds>>

\* stage_capability_action: an activation already committed is not repeated.
ReadReceipt(c) ==
    /\ At(c, "receipt")
    /\ IF Reached(stream[Id(c)], "active") THEN Return(c) ELSE GoTo(c, "load")
    /\ UNCHANGED <<journal, clock, payloads, swept, bounds>>

\* The turn is read before it is paused or cancelled, and before an approval is
\* consumed for it.  (Bound: a turn that is cancelling is not cancelled again.)
AfterRun == [activate |-> "commit", consume |-> "load", purge |-> "cancel"]

ReadRun(c) ==
    /\ At(c, "run")
    /\ \/ Cancelled /\ Return(c)
       \/ /\ ~Cancelled
          /\ call' = [call EXCEPT ![c].run = Len(run),
                                  ![c].step = AfterRun[call[c].op.is]]
          /\ UNCHANGED told
    /\ UNCHANGED <<journal, clock, payloads, swept, bounds>>

Take(c, step) ==
    /\ call' = [call EXCEPT ![c].seen = stream[Id(c)], ![c].step = step]
    /\ UNCHANGED told

\* Mutant: a repeated command is answered whatever was decided.
Load_AnyDecision(c) ==
    /\ At(c, "load")
    /\ LET s == stream[Id(c)]
       IN  CASE s = << >> -> IF Is(c, "stage") THEN Take(c, "mint") ELSE Return(c)
             [] s # << >> /\ StateOf(s) \in {"approved", "denied", "consumed"}
                /\ (Is(c, "approve") \/ Is(c, "deny")) -> Reply(c, call[c].op.is)
             [] OTHER -> Take(c, "check")
    /\ UNCHANGED <<journal, clock, payloads, swept, bounds>>

\* load, and what each operation decides at once on the state it finds.
Load(c) ==
    /\ At(c, "load")
    /\ LET s == stream[Id(c)]
       IN  \/ s = << >> /\ Is(c, "stage") /\ Take(c, "mint")
           \/ ~Foldable(s) /\ ~(s = << >> /\ Is(c, "stage")) /\ Return(c)
           \/ /\ Foldable(s) /\ Is(c, "stage")
              /\ IF Bound(s) = call[c].authority THEN Take(c, "check") ELSE Return(c)
           \/ /\ Foldable(s) /\ (Is(c, "activate") \/ Is(c, "consume"))
              /\ Take(c, "check")
           \/ /\ Foldable(s) /\ (Is(c, "approve") \/ Is(c, "deny"))
              /\ CASE StateOf(s) \notin {"approved", "denied", "consumed"} -> Take(c, "check")
                   [] Is(c, Decision(s)) -> Reply(c, Decision(s))
                   [] OTHER -> Return(c)
           \/ /\ Foldable(s) /\ Is(c, "invalidate")
              /\ CASE StateOf(s) = "cancelled" -> Reply(c, "invalidated")
                   [] Live(s) -> Take(c, "commit")
                   [] OTHER -> Return(c)
           \/ /\ Foldable(s) /\ Is(c, "list")
              /\ IF StateOf(s) = "active" THEN Take(c, "check") ELSE Return(c)
    /\ UNCHANGED <<journal, clock, payloads, swept, bounds>>

\* The states from which each operation goes on once the approval is known to
\* be unexpired, and where it goes.
From == [stage |-> {"staged", "active"}, activate |-> {"staged"}, approve |-> {"active"},
         deny |-> {"active"}, consume |-> {"approved"}, list |-> {}]
Onward == [stage |-> "material", activate |-> "bound", approve |-> "bound",
           deny |-> "commit", consume |-> "bound"]

\* require_unexpired; a decision is dated here.
Check(c) ==
    /\ At(c, "check")
    /\ LET s == Seen(c)
           due == clock < TimeOf(s) \/ clock >= Expiry(s)
           ready == StateOf(s) \in From[call[c].op.is]
       IN  \/ Live(s) /\ due /\ GoTo(c, "expire")
           \/ /\ Live(s) /\ ~due /\ ready
              /\ call' = [call EXCEPT ![c].step = Onward[call[c].op.is], ![c].at = clock]
              /\ UNCHANGED told
           \/ ~(Live(s) /\ (due \/ ready)) /\ Return(c)
    /\ UNCHANGED <<journal, clock, payloads, swept, bounds>>

\* check_authority: still the authority the approval was staged under.
CheckAuthority(c) ==
    /\ At(c, "bound")
    /\ IF CurrentlyTrusted /\ Len(authority) = Bound(Seen(c))
       THEN GoTo(c, "material") ELSE Return(c)
    /\ UNCHANGED <<journal, clock, payloads, swept, bounds>>

\* Payloads are found by the hash of a challenge, which its nonce makes unique.
Payload(id, nonce, expires) == [id |-> id, nonce |-> nonce, expires |-> expires]
PayloadOf(id) == Payload(id, stream[id][1].nonce, Expiry(stream[id]))
Unexpired == { p \in payloads : p.expires > clock }

\* material, which also forgets what has expired.  An activation and a
\* consumption are dated here, and a consumption must still be in time.
TakeMaterial(c) ==
    /\ At(c, "material")
    /\ LET secret == Id(c) \in Volatile
           found == secret => PayloadOf(Id(c)) \in Unexpired
           dated(step) == /\ call' = [call EXCEPT ![c].step = step, ![c].at = clock]
                          /\ UNCHANGED told
       IN  /\ payloads' = IF secret THEN Unexpired ELSE payloads
           /\ \/ ~found /\ Return(c)
              \/ found /\ Is(c, "stage") /\ Reply(c, "challenge")
              \/ found /\ Is(c, "approve") /\ GoTo(c, "commit")
              \/ found /\ Is(c, "activate") /\ dated("run")
              \/ /\ found /\ Is(c, "consume")
                 /\ IF clock < Expiry(Seen(c)) THEN dated("commit") ELSE Return(c)
    /\ UNCHANGED <<journal, clock, swept, bounds>>

\* A new subject: a payload that may not be written is kept in memory first.
Mint(c) ==
    /\ At(c, "mint")
    /\ LET secret == Id(c) \in Volatile
           full == Cardinality(Unexpired) >= Capacity
       IN  /\ payloads' = CASE ~secret -> payloads
                            [] secret /\ full -> Unexpired
                            [] OTHER -> Unexpired \cup {Payload(Id(c), c, clock + TTL)}
           /\ IF secret /\ full THEN Return(c)
              ELSE /\ call' = [call EXCEPT ![c].step = "commit", ![c].at = clock]
                   /\ UNCHANGED told
    /\ UNCHANGED <<journal, clock, swept, bounds>>

------------------------------------------------------------------------------
(* Commits                                                                   *)

Becomes == [activate |-> "active", approve |-> "approved", deny |-> "denied",
            consume |-> "consumed", invalidate |-> "cancelled"]

Max2(a, b) == IF a < b THEN b ELSE a
Entry(state, at) == [state |-> state, at |-> at]

\* The event a call writes.  Only withdrawals keep the stream's time from
\* going back.
Fact(c) ==
    CASE Is(c, "stage") -> [state |-> "staged", at |-> call[c].at, nonce |-> c,
                            authority |-> call[c].authority]
      [] Is(c, "invalidate") -> Entry("cancelled", Max2(clock, TimeOf(Seen(c))))
      [] OTHER -> Entry(Becomes[call[c].op.is], call[c].at)

\* Mutant: the expected version is read again at the commit.
Unmoved_Reread(c) == stream[Id(c)] # << >> \/ Seen(c) = << >>

Unmoved(c) == Len(stream[Id(c)]) = Len(Seen(c))

\* Mutant: a decision does not hold the authority it is made under.
Holds_NoAuthority(c) ==
    /\ Unmoved(c)
    /\ Is(c, "stage") => Len(authority) = call[c].authority
    /\ Is(c, "activate") \/ Is(c, "consume") =>
        Len(authority) = Bound(Seen(c)) /\ Len(run) = call[c].run

\* Mutant: the turn is read, and not held.
Holds_NoRun(c) ==
    /\ Unmoved(c)
    /\ Is(c, "stage") => Len(authority) = call[c].authority
    /\ Is(c, "activate") \/ Is(c, "approve") \/ Is(c, "consume") =>
        Len(authority) = Bound(Seen(c))

\* The versions an operation expects.
Holds(c) ==
    /\ Unmoved(c)
    /\ Is(c, "stage") => Len(authority) = call[c].authority
    /\ Is(c, "activate") \/ Is(c, "approve") \/ Is(c, "consume") =>
        Len(authority) = Bound(Seen(c))
    /\ Is(c, "activate") \/ Is(c, "consume") => Len(run) = call[c].run

Write(c) ==
    /\ stream' = [stream EXCEPT ![Id(c)] = Append(@, Fact(c))]
    /\ run' = IF Is(c, "activate") THEN Append(run, "awaiting") ELSE run
    /\ UNCHANGED authority

Answer == [stage |-> "challenge", approve |-> "approve", deny |-> "deny",
           invalidate |-> "invalidated", activate |-> "active", consume |-> "consumed"]

\* Mutant: payloads are dropped by request, and not by challenge.
Dropped_ByRequest(c, done) ==
    IF \/ Is(c, "stage") /\ ~done
       \/ done /\ (Is(c, "deny") \/ Is(c, "invalidate"))
    THEN { p \in payloads : p.id = Id(c) } ELSE {}

\* What a call drops from memory when its commit is confirmed, and when not.
Dropped(c, done) ==
    IF Is(c, "stage")
    THEN IF done THEN {} ELSE {Payload(Id(c), c, call[c].at + TTL)}
    ELSE IF done /\ (Is(c, "deny") \/ Is(c, "invalidate")) THEN {PayloadOf(Id(c))} ELSE {}

\* The commit happens, loses against another one, or ends unknown, having
\* happened or not; an activation whose outcome is unknown looks for its
\* receipt.
Commit(c) ==
    /\ At(c, "commit")
    /\ \/ /\ Holds(c) /\ Write(c)
          /\ Reply(c, Answer[call[c].op.is])
          /\ payloads' = payloads \ Dropped(c, TRUE)
          /\ UNCHANGED unknowns
       \/ /\ ~Holds(c) /\ UNCHANGED journal
          /\ Return(c)
          /\ payloads' = payloads \ Dropped(c, FALSE)
          /\ UNCHANGED unknowns
       \/ /\ unknowns < MaxUnknowns /\ unknowns' = unknowns + 1
          /\ \/ Holds(c) /\ Write(c) /\ IF Is(c, "activate") THEN Reply(c, "active") ELSE Return(c)
             \/ UNCHANGED journal /\ Return(c)
          /\ payloads' = payloads \ Dropped(c, FALSE)
    /\ UNCHANGED <<clock, swept, rollbacks, crashes>>

\* Events of require_unexpired and of the sweep, which hold only the stream.
Withdraw(c, state, next, otherwise) ==
    /\ \/ /\ Unmoved(c)
          /\ stream' = [stream EXCEPT ![Id(c)] =
                            Append(@, Entry(state, Max2(clock, TimeOf(Seen(c)))))]
          /\ next /\ UNCHANGED unknowns
       \/ ~Unmoved(c) /\ UNCHANGED stream /\ otherwise /\ UNCHANGED unknowns
       \/ /\ unknowns < MaxUnknowns /\ unknowns' = unknowns + 1
          /\ stream' \in {stream} \cup
                (IF Unmoved(c) THEN {[stream EXCEPT ![Id(c)] =
                     Append(@, Entry(state, Max2(clock, TimeOf(Seen(c)))))]} ELSE {})
          /\ Return(c)
    /\ UNCHANGED <<authority, run, clock, swept, rollbacks, crashes>>

Expire(c) ==
    /\ At(c, "expire")
    /\ Withdraw(c, "expired", Return(c), Return(c))
    /\ UNCHANGED payloads

------------------------------------------------------------------------------
(* The authority and its sweep                                               *)

Revise(c) ==
    /\ At(c, "revise")
    /\ \/ /\ Len(authority) = call[c].authority
          /\ authority' = Append(authority, call[c].op.config)
          /\ GoTo(c, "collect") /\ UNCHANGED unknowns
       \/ /\ Len(authority) # call[c].authority
          /\ UNCHANGED <<authority, unknowns>> /\ Return(c)
       \/ /\ unknowns < MaxUnknowns /\ unknowns' = unknowns + 1
          /\ authority' \in {authority} \cup
                (IF Len(authority) = call[c].authority
                 THEN {Append(authority, call[c].op.config)} ELSE {})
          /\ Return(c)
    /\ UNCHANGED <<stream, run, clock, payloads, swept, rollbacks, crashes>>

\* begin_project_invalidation: the run is cancelling before the sweep begins.
CancelFirst(c) ==
    /\ At(c, "cancel")
    /\ \/ /\ Len(run) = call[c].run
          /\ run' = Append(run, "cancelling")
          /\ GoTo(c, "collect") /\ UNCHANGED unknowns
       \/ Len(run) # call[c].run /\ UNCHANGED <<run, unknowns>> /\ Return(c)
       \/ /\ unknowns < MaxUnknowns /\ unknowns' = unknowns + 1
          /\ run' \in {run} \cup
                (IF Len(run) = call[c].run THEN {Append(run, "cancelling")} ELSE {})
          /\ Return(c)
    /\ UNCHANGED <<stream, authority, clock, payloads, swept, rollbacks, crashes>>

\* invalidate_project reads the whole journal for the approvals there are.
Collect(c) ==
    /\ At(c, "collect")
    /\ call' = [call EXCEPT ![c].todo = { id \in Ids : stream[id] # << >> },
                            ![c].step = "sweep"]
    /\ UNCHANGED <<journal, clock, payloads, told, swept, bounds>>

\* The next approval of the sweep; one that is retried comes first.
Candidates(c) == IF call[c].tries = 0 THEN call[c].todo ELSE {Id(c)}

\* An approval that is dealt with.
Forward(c, id) ==
    /\ call' = [call EXCEPT ![c].todo = @ \ {id}, ![c].tries = 0]
    /\ told' = told \cup {[id |-> id, what |-> "void"]}

Try(c, id) ==
    /\ call' = [call EXCEPT ![c].id = id, ![c].seen = stream[id], ![c].step = "withdraw"]
    /\ UNCHANGED told

\* Mutant: there is no last attempt.
Sweep_Unbounded(c) ==
    /\ At(c, "sweep")
    /\ \/ call[c].todo = {} /\ Return(c) /\ swept' = swept
       \/ \E id \in Candidates(c) :
            /\ IF Live(stream[id]) THEN Try(c, id) ELSE Forward(c, id)
            /\ UNCHANGED swept
    /\ UNCHANGED <<journal, clock, payloads, bounds>>

\* Mutant: after the last attempt the sweep goes on to the next approval.
Sweep_GivesUp(c) ==
    /\ At(c, "sweep")
    /\ \/ call[c].todo = {} /\ Return(c) /\ swept' = swept
       \/ \E id \in Candidates(c) :
            /\ IF Live(stream[id]) /\ call[c].tries < Tries THEN Try(c, id) ELSE Forward(c, id)
            /\ UNCHANGED swept
    /\ UNCHANGED <<journal, clock, payloads, bounds>>

\* One attempt on one of them; after the last attempt nothing may be left.
Sweep(c) ==
    /\ At(c, "sweep")
    /\ \/ /\ call[c].todo = {} /\ Return(c)
          /\ swept' = IF Is(c, "sync") THEN swept \cup {call[c].authority} ELSE swept
       \/ \E id \in Candidates(c) :
            /\ CASE ~Foldable(stream[id]) -> Return(c)
                 [] Foldable(stream[id]) /\ ~Live(stream[id]) -> Forward(c, id)
                 [] Foldable(stream[id]) /\ Live(stream[id]) ->
                       IF call[c].tries < Tries THEN Try(c, id) ELSE Return(c)
            /\ UNCHANGED swept
    /\ UNCHANGED <<journal, clock, payloads, bounds>>

WithdrawOne(c) ==
    /\ At(c, "withdraw")
    /\ Withdraw(c, "cancelled",
         /\ call' = [call EXCEPT ![c].todo = @ \ {Id(c)}, ![c].tries = 0, ![c].step = "sweep"]
         /\ told' = told \cup {[id |-> Id(c), what |-> "void"]},
         /\ call' = [call EXCEPT ![c].tries = @ + 1, ![c].step = "sweep"]
         /\ UNCHANGED told)
    /\ payloads' = IF Unmoved(c) /\ call'[c] # Idle THEN payloads \ {PayloadOf(Id(c))}
                   ELSE payloads

------------------------------------------------------------------------------
(* Around the calls                                                          *)

\* cancel_run commits run.cancelling on the run's stream.
CancelRun ==
    /\ ~Cancelled
    /\ run' = Append(run, "cancelling")
    /\ UNCHANGED <<stream, authority, clock, payloads, call, told, swept, bounds>>

\* The wall clock moves: forward a step, or back when it is set.
Tick ==
    \E now \in 0 .. MaxClock :
        /\ now # clock /\ now <= clock + 1
        /\ rollbacks' = rollbacks + (IF now < clock THEN 1 ELSE 0)
        /\ rollbacks' <= MaxRollbacks
        /\ clock' = now
        /\ UNCHANGED <<journal, payloads, call, told, swept, crashes, unknowns>>

\* The daemon restarts: calls and payloads are gone, the journal is not.
Crash ==
    /\ crashes < MaxCrashes /\ crashes' = crashes + 1
    /\ call' = [c \in Callers |-> Idle]
    /\ payloads' = {}
    /\ told' = { t \in told : t.what # "challenge" }
    /\ UNCHANGED <<journal, clock, swept, rollbacks, unknowns>>

Init ==
    /\ stream = [id \in Ids |-> << >>]
    /\ authority \in { <<config>> : config \in Trusted }
    /\ run = <<"prompt">>
    /\ clock = 0
    /\ payloads = {}
    /\ call = [c \in Callers |-> Idle]
    /\ told = {} /\ swept = {}
    /\ rollbacks = 0 /\ crashes = 0 /\ unknowns = 0

Work(c) ==
    \/ ReadAuthority(c) \/ ReadReceipt(c) \/ ReadRun(c) \/ Load(c)
    \/ Check(c) \/ CheckAuthority(c) \/ TakeMaterial(c) \/ Mint(c)
    \/ Commit(c) \/ Expire(c)
    \/ Revise(c) \/ CancelFirst(c) \/ Collect(c) \/ Sweep(c) \/ WithdrawOne(c)

Next ==
    \/ \E c \in Callers : Start(c) \/ Abandon(c) \/ Work(c)
    \/ CancelRun \/ Tick \/ Crash

Spec == Init /\ [][Next]_vars

------------------------------------------------------------------------------
AnyFact ==
    [state: {"staged"}, at: Nat, authority: Nat, nonce: Callers]
    \cup [state: (Alive \cup Terminal) \ {"staged"}, at: Nat]

\* Every variable holds a value of its kind.
TypeOK ==
    /\ stream \in [Ids -> Seq(AnyFact)]
    /\ authority \in Seq(Configs) /\ authority # << >>
    /\ run \in Seq({"prompt", "awaiting", "cancelling"})
    /\ clock \in Nat
    /\ payloads \subseteq [id: Ids, nonce: Callers, expires: Nat]
    /\ Cardinality(payloads) <= Capacity
    /\ \A c \in Callers : call[c] # Idle =>
        /\ call[c].op \in Operations /\ Id(c) \in Ids
        /\ Seen(c) \in Seq(AnyFact)
        /\ call[c].authority \in Nat /\ call[c].run \in Nat /\ call[c].at \in Nat
        /\ call[c].todo \subseteq Ids /\ call[c].tries \in 0 .. Tries
    /\ told \subseteq [id: Ids, what: {"challenge", "active", "approve", "deny",
                                       "consumed", "invalidated", "void"}]
    /\ swept \subseteq Nat

\* Every stream the store has written can be folded again: it says so of its
\* own times, states and deadlines, and every later call on it depends on that.
HistoriesFold == \A id \in Ids : stream[id] = << >> \/ Foldable(stream[id])

\* Whoever was told of a decision was told the only one there is, and it still
\* stands after restarts, repeated commands and lost answers.
DecisionsStand ==
    \A t \in told : t.what \in {"approve", "deny"} => Decision(stream[t.id]) = t.what

\* What a sweep has dealt with stays dead, and what was invalidated to a caller stays
\* so; and when synchronize_authority returns, nothing staged or approved under the
\* authority it replaced is alive, approvals that were being staged while it swept
\* included.
SweepComplete ==
    /\ \A t \in told : t.what = "invalidated" => StateOf(stream[t.id]) = "cancelled"
    /\ \A t \in told : t.what = "void" => ~Live(stream[t.id])
    /\ \A v \in swept : \A id \in Ids : Live(stream[id]) => Bound(stream[id]) > v

\* An approval whose challenge was given out in this life of the daemon still
\* has the payload it was given for.
MaterialKept ==
    \A t \in told :
        t.what = "challenge" /\ t.id \in Volatile /\ Live(stream[t.id])
        /\ clock < Expiry(stream[t.id]) => PayloadOf(t.id) \in payloads

\* Once its run is cancelling, no approval is activated or used for it.
NothingAfterCancel ==
    [][Cancelled => \A id \in Ids : \A state \in {"active", "consumed"} :
          Reached(stream'[id], state) => Reached(stream[id], state)]_vars

GrantOf(s) ==
    CASE s = << >> -> "none"
      [] s # << >> /\ StateOf(s) \in Alive \cup {"consumed"} -> StateOf(s)
      [] OTHER -> "void"

Promise == INSTANCE Grants WITH
    epoch <- Len(authority),
    grant <- [id \in Ids |-> GrantOf(stream[id])],
    under <- [id \in Ids |-> IF stream[id] = << >> THEN 0 ELSE Bound(stream[id])]

\* Whatever the calls interleave, a grant moves one step at a time towards one
\* use, and only under the authority it was requested under.
KeepsPromise == Promise!Spec
==============================================================================
