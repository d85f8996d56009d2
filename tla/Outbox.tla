-------------------------------- MODULE Outbox --------------------------------
(***************************************************************************)
(* The notification outbox: the records and their claims                      *)
(* (kiana-domain/src/notification_outbox.rs), the store and its journal file  *)
(* (kiana-eventlog/src/notification_outbox.rs) and the delivery worker that   *)
(* plans over them (kiana-core/src/notification_delivery.rs).                 *)
(*                                                                          *)
(* Every call of the store holds its mutex, so it is one step.  A worker      *)
(* reads a record, plans, and calls the store later: the clock, the other     *)
(* workers and the subscription move in between.  Of the journal file the     *)
(* model keeps what a replay would make of it, frame by frame.                *)
(***************************************************************************)
EXTENDS Integers, FiniteSets

CONSTANTS
    Ids,            \* outbox ids: natural numbers, the order of the store's map
    Protected,      \* ids of critical and actionable records
    Deadline,       \* when the window of each notification closes, or its
                    \* subscription is revoked, paused or expires
    Workers,        \* running worker tasks
    WorkerId,       \* the worker id each task goes by; two tasks may share one
    NoLease,
    TTL,            \* lease_ttl_ms
    Capacity,       \* max_best_effort
    MaxClock, MaxSheds, MaxDrains,  \* bounds: the clock, refusals, drained claims
    MaxFaults, MaxCrashes           \* bounds: failed appends, restarts

ASSUME OutboxAssumption ==
    /\ Ids \subseteq Nat /\ Protected \subseteq Ids
    /\ Deadline \in [Ids -> Nat]
    /\ TTL \in Nat \ {0}
    /\ \A w \in Workers : WorkerId[w] # NoLease
    /\ {Capacity, MaxClock, MaxSheds, MaxDrains, MaxFaults, MaxCrashes} \subseteq Nat

VARIABLES
    clock,
    up,             \* whether a process has the store open
    stale,          \* ids of records made under an earlier authority epoch
    records,        \* the store's map from ids to records
    pressure,       \* how many notifications were admitted, and how many shed
    file,           \* what a replay of the journal file yields, and whether its last
                    \* line has its newline
    task,           \* what each worker is doing
    issued,         \* every lease ever handed out
    promised,       \* the last revision of each record that a caller was told of
    sends,          \* how often each notification was given to its channel
    drains, faults, crashes

vars == <<clock, up, stale, records, pressure, file, task, issued,
          promised, sends, drains, faults, crashes>>
store == <<records, pressure, file, promised, faults>>
environment == <<clock, up, stale, crashes>>

------------------------------------------------------------------------------
(* Records and leases                                                        *)

Terminal == {"Acknowledged", "Failed", "Unknown"}
States == {"Pending", "Claimed", "Submitted"} \cup Terminal

Edges == { <<"Pending", "Claimed">>, <<"Pending", "Failed">>, <<"Claimed", "Submitted">>,
           <<"Claimed", "Failed">>, <<"Claimed", "Unknown">>, <<"Claimed", "Pending">>,
           <<"Submitted", "Acknowledged">>, <<"Submitted", "Failed">>,
           <<"Submitted", "Unknown">> }

NewRecord == [state |-> "Pending", revision |-> 1, owner |-> NoLease, token |-> 0,
              generation |-> 0, expires |-> 0, attempt |-> 1]

Live(record) == record.state = "Claimed" /\ record.expires > clock

\* A claim: past an expired one it is a new attempt, and its token has never
\* been used for the record.
Claimed(record, owner) ==
    [record EXCEPT !.state = "Claimed",
                   !.revision = @ + 1,
                   !.owner = owner,
                   !.generation = @ + 1,
                   !.token = record.generation + 1,
                   !.expires = clock + TTL,
                   !.attempt = IF record.state = "Claimed" THEN @ + 1 ELSE @]

Submitted(record) == [record EXCEPT !.state = "Submitted", !.revision = @ + 1]

\* Mutant: the lease stays on a settled record.
Cleared_Held(record, state) ==
    [record EXCEPT !.state = state, !.revision = @ + 1]

\* Every other change gives the lease back; the generation stays.
Cleared(record, state) ==
    [record EXCEPT !.state = state, !.revision = @ + 1,
                   !.owner = NoLease, !.token = 0, !.expires = 0]

CurrentLease(id, record) ==
    [id |-> id, owner |-> record.owner, token |-> record.token,
     attempt |-> record.attempt, expires |-> record.expires]

\* Whether a lease still speaks for a record in one of the states (assert_lease).
Speaks(record, lease, states) ==
    /\ clock <= lease.expires
    /\ lease.owner = record.owner
    /\ lease.token = record.token
    /\ record.state \in states

\* A record nobody holds: pending, or claimed by a lease that ran out.
Unheld(record) == record.state = "Pending" \/ (record.state = "Claimed" /\ ~Live(record))

------------------------------------------------------------------------------
(* The journal file                                                          *)

EmptyMap == [id \in {} |-> NewRecord]
NoPressure == [admitted |-> 0, shed |-> 0]
EmptyFile == [readable |-> TRUE, records |-> EmptyMap, pressure |-> NoPressure, ended |-> TRUE]

\* One line that does not parse, or one record that does not follow, and no
\* replay of the file gets anywhere.
Corrupt == [EmptyFile EXCEPT !.readable = FALSE]

\* What a replay accepts as the next record of an id: derive_transition and the
\* rebuild.  The token of the last claim is the generation of the record before,
\* because no valid record has a lease with another token.
Follows(known, id, record) ==
    IF id \notin DOMAIN known
    THEN record.state = "Pending" /\ record.revision = 1
    ELSE LET previous == known[id]
         IN  /\ record.revision = previous.revision + 1
             /\ \/ <<previous.state, record.state>> \in Edges
                \/ previous.state = record.state /\ record.token # 0
             /\ record.state = "Claimed" => record.token > previous.generation

\* HashMap::insert
With(map, id, record) ==
    [x \in DOMAIN map \cup {id} |-> IF x = id THEN record ELSE map[x]]

WithRecord(f, id, record) ==
    IF f.readable /\ Follows(f.records, id, record)
    THEN [f EXCEPT !.records = With(@, id, record)]
    ELSE Corrupt

Counted(count, admitted) ==
    IF admitted THEN [count EXCEPT !.admitted = @ + 1] ELSE [count EXCEPT !.shed = @ + 1]

WithAdmission(f, admitted) ==
    IF f.readable THEN [f EXCEPT !.pressure = Counted(@, admitted)] ELSE Corrupt

\* A frame that is appended; behind a line without its newline it is garbage.
Appended(f, with) == IF f.ended THEN with ELSE Corrupt

\* A frame whose append fails: nothing, a part of the line, or all of it but the
\* newline got into the file.  Nothing ever cuts a torn line off again.
AppendFailed(f, with) ==
    { f, [Corrupt EXCEPT !.ended = FALSE], [Appended(f, with) EXCEPT !.ended = FALSE] }

Fault ==
    /\ faults < MaxFaults
    /\ faults' = faults + 1

\* Mutant: the change is made in memory only.
Commit_Unwritten(id, record) ==
    /\ records' = With(records, id, record)
    /\ promised' = [promised EXCEPT ![id] = record.revision]
    /\ UNCHANGED <<file, pressure, faults>>

\* commit: the record goes to the file first, then into the map.
Commit(id, record) ==
    /\ file' = Appended(file, WithRecord(file, id, record))
    /\ records' = With(records, id, record)
    /\ promised' = [promised EXCEPT ![id] = record.revision]
    /\ UNCHANGED <<pressure, faults>>

\* Mutant: the map is changed before the append can fail.
CommitFails_Ahead(id, record) ==
    /\ Fault
    /\ file' \in AppendFailed(file, WithRecord(file, id, record))
    /\ records' = With(records, id, record)
    /\ UNCHANGED <<pressure, promised>>

CommitFails(id, record) ==
    /\ Fault
    /\ file' \in AppendFailed(file, WithRecord(file, id, record))
    /\ UNCHANGED <<records, pressure, promised>>

------------------------------------------------------------------------------
(* Admission                                                                 *)

HasRoom(id) ==
    id \in Protected \/ Cardinality(DOMAIN records \ Protected) < Capacity

\* enqueue, and admit when it sheds nothing: the record and its admission are two
\* frames, counted in memory after the second.
Enqueue(id) ==
    /\ up /\ id \notin DOMAIN records /\ HasRoom(id)
    /\ LET stored == Appended(file, WithRecord(file, id, NewRecord))
           admitted == WithAdmission(stored, TRUE)
       IN  \/ /\ file' = Appended(stored, admitted)
              /\ records' = With(records, id, NewRecord)
              /\ pressure' = Counted(pressure, TRUE)
              /\ promised' = [promised EXCEPT ![id] = 1]
              /\ UNCHANGED faults
           \/ CommitFails(id, NewRecord)
           \/ /\ Fault
              /\ file' \in AppendFailed(stored, admitted)
              /\ records' = With(records, id, NewRecord)
              /\ UNCHANGED <<pressure, promised>>
    /\ UNCHANGED <<environment, task, issued, sends, drains>>

\* admit, when it sheds: only best-effort notifications, past their window or at
\* capacity.
Shed(id) ==
    /\ up /\ id \notin DOMAIN records \cup Protected /\ pressure.shed < MaxSheds
    /\ Deadline[id] <= clock \/ ~HasRoom(id)
    /\ LET shed == WithAdmission(file, FALSE)
       IN  \/ /\ file' = Appended(file, shed)
              /\ pressure' = Counted(pressure, FALSE)
              /\ UNCHANGED faults
           \/ /\ Fault
              /\ file' \in AppendFailed(file, shed)
              /\ UNCHANGED pressure
    /\ UNCHANGED <<environment, records, task, issued, promised, sends, drains>>

------------------------------------------------------------------------------
(* The delivery worker                                                       *)
(*                                                                          *)
(* A plan and the call it leads to are one step where the call checks again    *)
(* whatever the plan relied on; to submit or to release a worker carries the   *)
(* lease it planned with.                                                     *)

Idle == [step |-> "idle", id |-> 0, lease |-> NoLease]
Doing(step, id) == [step |-> step, id |-> id, lease |-> CurrentLease(id, records[id])]
At(w, step) == up /\ task[w].step = step
To(w, t) == task' = [task EXCEPT ![w] = t]

Foreign(w, record) == Live(record) /\ record.owner # WorkerId[w]

\* What plan_with_subscription says to do about a record.  "none" stands for
\* AwaitReceipt, ForeignClaim, Terminal, and for plans whose call is refused in
\* any case.
PlanOf(w, id) ==
    LET record == records[id]
    IN  CASE Deadline[id] <= clock /\ record.state \in {"Pending", "Claimed"}
                /\ ~Foreign(w, record)                    -> "abandon"
          [] OTHER ->
             CASE id \in stale                            -> "reconcile"
               [] Unheld(record)                          -> "claim"
               [] Live(record) /\ ~Foreign(w, record)     -> "submit"
               [] record.state = "Submitted" /\ record.expires <= clock -> "reconcile"
               [] OTHER                                   -> "none"

Plans(w, id, plan) == At(w, "idle") /\ id \in DOMAIN records /\ PlanOf(w, id) = plan

Dispatch(w, id) ==
    /\ Plans(w, id, "submit")
    /\ To(w, Doing("submit", id))
    /\ UNCHANGED <<environment, store, issued, sends, drains>>

\* The drain of a shutdown: it gives one live claim of the worker back, unless a
\* record of another epoch or a live claim of another worker makes it refuse.
Drain(w, id) ==
    /\ At(w, "idle") /\ id \in DOMAIN records /\ drains < MaxDrains
    /\ stale = {}
    /\ Live(records[id]) /\ \A other \in DOMAIN records : ~Foreign(w, records[other])
    /\ To(w, Doing("release", id))
    /\ drains' = drains + 1
    /\ UNCHANGED <<environment, store, issued, sends>>

\* A change of a record: done, or not written.
Change(id, record) ==
    /\ Commit(id, record) \/ CommitFails(id, record)
    /\ UNCHANGED <<environment, issued, sends, drains>>

\* The change a worker with a lease asks for: refused, done, or not written.
LeasedChange(w, allowed, record, next) ==
    /\ \/ ~allowed /\ To(w, Idle) /\ UNCHANGED store
       \/ allowed /\ Commit(task[w].id, record) /\ To(w, next)
       \/ allowed /\ CommitFails(task[w].id, record) /\ To(w, Idle)
    /\ UNCHANGED <<environment, issued, sends, drains>>

\* claim_next takes the first claimable record, which need not be the planned
\* one; when that one is of another epoch the call fails and looks no further.
Claim(w) ==
    /\ \E id \in Ids : Plans(w, id, "claim")
    /\ LET claimable == { id \in DOMAIN records : Unheld(records[id]) }
           first == CHOOSE id \in claimable : \A other \in claimable : id <= other
           claimed == Claimed(records[first], WorkerId[w])
       IN  /\ claimable # {} /\ first \notin stale
           /\ \/ /\ Commit(first, claimed)
                 /\ issued' = issued \cup {CurrentLease(first, claimed)}
              \/ /\ CommitFails(first, claimed)
                 /\ UNCHANGED issued
    /\ UNCHANGED <<environment, task, sends, drains>>

\* A record whose lease ends this instant may not become submitted: the lease it
\* keeps would not be valid.
Submit(w) ==
    /\ At(w, "submit")
    /\ LET record == records[task[w].id]
       IN  LeasedChange(w, Speaks(record, task[w].lease, {"Claimed"}) /\ clock < record.expires,
                        Submitted(record), [task[w] EXCEPT !.step = "send"])

\* The notification is given to its channel (not part of the store).
Send(w) ==
    /\ At(w, "send")
    /\ sends' = [sends EXCEPT ![task[w].id] = @ + 1]
    /\ To(w, [task[w] EXCEPT !.step = "sent"])
    /\ UNCHANGED <<environment, store, issued, drains>>

\* The channel's answer: a receipt for the attempt, a failure, or neither.
Settle(w, outcome) ==
    /\ At(w, "sent")
    /\ LET record == records[task[w].id]
           from == IF outcome = "Acknowledged" THEN {"Submitted"} ELSE {"Claimed", "Submitted"}
       IN  LeasedChange(w, /\ Speaks(record, task[w].lease, from)
                           /\ outcome = "Acknowledged" => task[w].lease.attempt = record.attempt,
                        Cleared(record, outcome), Idle)

\* Mutant: the drain gives a submitted notification back too.
Release_InFlight(w) ==
    /\ At(w, "release")
    /\ LET record == records[task[w].id]
       IN  LeasedChange(w, Speaks(record, task[w].lease, {"Claimed", "Submitted"}),
                        Cleared(record, "Pending"), Idle)

Release(w) ==
    /\ At(w, "release")
    /\ LET record == records[task[w].id]
       IN  LeasedChange(w, Speaks(record, task[w].lease, {"Claimed"}),
                        Cleared(record, "Pending"), Idle)

\* abandon with the worker's own live claim, abandon_unclaimed without one.
Abandon(w, id) ==
    /\ Plans(w, id, "abandon")
    /\ Change(id, Cleared(records[id], "Failed"))
    /\ UNCHANGED task

\* A submission in doubt, or the record of another epoch, by its current lease.
Reconcile(w, id) ==
    /\ Plans(w, id, "reconcile")
    /\ LET record == records[id]
       IN  /\ Speaks(record, CurrentLease(id, record), {"Claimed", "Submitted"})
           /\ Change(id, Cleared(record, "Unknown"))
    /\ UNCHANGED task

------------------------------------------------------------------------------
(* The world around them                                                     *)

Tick ==
    /\ clock < MaxClock
    /\ clock' = clock + 1
    /\ UNCHANGED <<up, stale, store, task, issued, sends, drains, crashes>>

\* The process dies; its file stays as it is.
Crash ==
    /\ up /\ crashes < MaxCrashes
    /\ up' = FALSE /\ crashes' = crashes + 1
    /\ records' = EmptyMap /\ pressure' = NoPressure
    /\ task' = [w \in Workers |-> Idle]
    /\ UNCHANGED <<clock, stale, file, promised, faults, issued, sends, drains>>

\* open_jsonl replays the file, or refuses it; the authority epoch may have
\* advanced meanwhile.
Open ==
    /\ ~up /\ file.readable
    /\ up' = TRUE
    /\ records' = file.records /\ pressure' = file.pressure
    /\ \/ UNCHANGED stale
       \/ stale' = DOMAIN file.records
    /\ UNCHANGED <<clock, file, promised, faults, task, issued, sends, drains, crashes>>

Init ==
    /\ clock = 0 /\ up = TRUE /\ stale = {}
    /\ records = EmptyMap /\ pressure = NoPressure /\ file = EmptyFile
    /\ task = [w \in Workers |-> Idle]
    /\ issued = {}
    /\ promised = [id \in Ids |-> 0]
    /\ sends = [id \in Ids |-> 0]
    /\ drains = 0 /\ faults = 0 /\ crashes = 0

Outcomes == {"Acknowledged", "Failed", "Unknown"}

Work(w) == Submit(w) \/ Send(w) \/ Release(w) \/ \E outcome \in Outcomes : Settle(w, outcome)
Serve(w, id) == Dispatch(w, id) \/ Abandon(w, id) \/ Reconcile(w, id)

Next ==
    \/ \E id \in Ids : Enqueue(id) \/ Shed(id)
    \/ \E w \in Workers : Claim(w) \/ Work(w) \/ \E id \in Ids : Serve(w, id) \/ Drain(w, id)
    \/ Tick \/ Crash \/ Open

Spec == Init /\ [][Next]_vars

------------------------------------------------------------------------------
(* Properties                                                                *)

Records == [state : States, revision : Nat \ {0},
            owner : { WorkerId[w] : w \in Workers } \cup {NoLease}, token : Nat,
            generation : Nat, expires : Nat, attempt : Nat \ {0}]

\* The types, and what validate asks of every record: a lease exactly while it
\* is claimed or submitted, with the token of the latest claim.
TypeOK ==
    /\ clock \in 0 .. MaxClock /\ stale \subseteq Ids
    /\ DOMAIN records \subseteq Ids /\ DOMAIN file.records \subseteq Ids
    /\ \A id \in DOMAIN records :
        /\ records[id] \in Records
        /\ IF records[id].state \in {"Claimed", "Submitted"}
           THEN records[id].token = records[id].generation /\ records[id].owner # NoLease
           ELSE records[id].token = 0 /\ records[id].owner = NoLease
    /\ \A w \in Workers : task[w].step # "idle" => task[w].id \in DOMAIN records

\* Replay = rebuild (notification_outbox.rs:23): with every append successful, a
\* replay of the file gives the records and the counters in memory, and the file
\* stays readable; a failed one puts the file at most one revision of one record
\* or one admission ahead of memory, or makes it unreadable.
ReplayAgrees ==
    /\ faults = 0 => file.readable /\ file.ended
    /\ up /\ file.readable =>
        /\ DOMAIN records \subseteq DOMAIN file.records
        /\ Cardinality({ id \in DOMAIN file.records : id \notin DOMAIN records
                                \/ file.records[id] # records[id] }) <= faults
        /\ \A id \in DOMAIN records : file.records[id] # records[id] =>
                file.records[id].revision = records[id].revision + 1
        /\ file.pressure # pressure => faults > 0

\* What a caller was told was done is still done, in the process and after every
\* restart whose replay goes through.
PromisesKept ==
    \A id \in Ids : promised[id] > 0 =>
        /\ up => id \in DOMAIN records /\ records[id].revision >= promised[id]
        /\ file.readable =>
            id \in DOMAIN file.records /\ file.records[id].revision >= promised[id]

\* A notification goes to its channel at most once over all workers, releases,
\* expired claims, restarts and failed appends, and one that went there can
\* never be claimed again.
SentOnce ==
    \A id \in Ids :
        /\ sends[id] <= 1
        /\ sends[id] = 1 /\ up => records[id].state \notin {"Pending", "Claimed"}

\* No two claims of a record ever got the same token, released, expired and lost
\* ones included: a lease that matches the record is the latest one.
LeasesApart ==
    \A a, b \in issued : a.id = b.id /\ a.token = b.token => a = b

\* Whoever reaches the channel of a notification is the only one that ever does, and
\* holds the only lease that ever had its token.
OneSender == SentOnce /\ LeasesApart
==============================================================================
