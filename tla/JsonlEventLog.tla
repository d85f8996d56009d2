---------------------------- MODULE JsonlEventLog ----------------------------
(***************************************************************************)
(* JsonlEventLog (kiana-eventlog/src/jsonl.rs): EventStorePort over one      *)
(* JSONL file that several handles, in one process or in several, read and   *)
(* append to.  A handle keeps a cache of what it has replayed; every         *)
(* operation takes the file lock, catches the cache up (load_delta) and then *)
(* runs.  Processes die, power fails, writes tear and barriers fail.         *)
(*                                                                          *)
(* The file is a sequence of chunks.  A line is a record chunk and the       *)
(* newline chunk that ends it; a record cut short by a failed write is the   *)
(* chunk Torn.  Offsets count chunks.  `file` is what the processes see,     *)
(* `disk` what the last successful barrier (sync_all of the file, then of    *)
(* its directory) made durable.                                             *)
(*                                                                          *)
(* The lock is held from load_delta to the end of an operation, so no other  *)
(* handle observes the file between those steps: each of them is one action  *)
(* whose failure outcomes leave the file as an error or a death half way     *)
(* through it would.                                                        *)
(***************************************************************************)
EXTENDS Journal, SequencesExt

CONSTANTS
    NoCommand,
    Handles,        \* JsonlEventLog values open on the file
    Clients,        \* callers, each with one operation at a time
    HandleOf,       \* [Clients -> Handles]
    NoClient,
    Batches, Events, \* what callers commit and append
    Limits,         \* page sizes callers ask for
    Kinds,          \* the operations callers use: "commit", "command", "append",
                    \* "idempotent", "page", "flush", "close"
    InitialFiles,   \* what may be on the disk at the start; << >> is no file
    MaxWorkers,     \* MAX_STORAGE_WORKERS
    MaxLog,         \* MAX_JOURNAL_LOG_BYTES, in chunks
    MaxCrashes,     \* bound: process deaths and power failures
    MaxTears,       \* bound: appends that fail or are cut short
    MaxFaults,      \* bound: repairs and barriers that fail elsewhere
    FaultKinds      \* which of those do: "mend" a tail, write its "newline",
                    \* a "barrier"

ASSUME JsonlAssumption ==
    /\ NoCommand \notin Commands
    /\ NoClient \notin Clients
    /\ HandleOf \in [Clients -> Handles]
    /\ MaxWorkers \in Nat /\ MaxLog \in Nat
    /\ MaxCrashes \in Nat /\ MaxTears \in Nat /\ MaxFaults \in Nat
    /\ FaultKinds \subseteq {"mend", "newline", "barrier"}

VARIABLES
    file, present,  \* the file the processes see, and whether it exists
    disk,           \* what a power failure cannot take back
    cache,          \* the DiskCache of each handle
    life,           \* its lifecycle: "down", "open", "closing", "closed"
    lock,           \* the client whose operation holds the file lock
    pc, op,         \* where each client's operation is, and what it asks
    reply,          \* what a finished operation is about to answer
    acked, stored,  \* ghost: receipts given out, and events said to be stored
    cursor, seen,   \* each client's cursor; ghost: the events it was given
    sealed,         \* ghost: the handles whose close has returned a snapshot
    crashes, tears, faults

vars == <<file, present, disk, cache, life, lock, pc, op, reply, acked, stored,
          cursor, seen, sealed, crashes, tears, faults>>

bounds == <<crashes, tears, faults>>
told == <<acked, stored, cursor, seen, sealed>>

------------------------------------------------------------------------------
(* Records and lines                                                         *)

Newline == [is |-> "newline"]
Torn == [is |-> "torn"]
Header == [is |-> "header"]
Frame(b, receipt) == [is |-> "frame", batch |-> b, receipt |-> receipt]
EventFrame(e) == [is |-> "event", event |-> e]
LegacyLine(e) == [is |-> "legacy", event |-> e]

Chunk ==
    [is: {"newline", "torn", "header"}]
    \cup [is: {"frame"}, batch: Batches, receipt: Receipt]
    \cup [is: {"event", "legacy"}, event: Events]

\* A file the store starts from fits, with the newline its last line may lack.
ASSUME JsonlInputs ==
    /\ Batches \subseteq Batch /\ Events \subseteq Event
    /\ InitialFiles \subseteq Seq(Chunk)
    /\ \A f \in InitialFiles :
        /\ Len(f) <= MaxLog
        /\ f # << >> /\ f[Len(f)] # Newline => Len(f) < MaxLog

EmptyCache == [journal |-> EmptyJournal, offset |-> 0, upgraded |-> FALSE,
               warm |-> FALSE, current |-> FALSE, uncertain |-> FALSE]

\* Replay of one complete record.  A frame must plan to the receipt it carries.
Accepts(k, x) ==
    \/ x.is = "header" /\ ~k.upgraded
    \/ x.is = "frame" /\ k.upgraded /\ Appends(k.journal, x.batch)
                      /\ NewReceipt(k.journal, x.batch) = x.receipt
    \/ x.is = "event" /\ k.upgraded /\ AppendsLegacy(k.journal, x.event, AnyVersion)
    \/ x.is = "legacy" /\ ~k.upgraded /\ AppendsLegacy(k.journal, x.event, AnyVersion)

Accept(k, x) ==
    CASE x.is = "header" -> [k EXCEPT !.upgraded = TRUE]
      [] x.is = "frame" -> [k EXCEPT !.journal = ApplyTransition(@, x.batch, x.receipt)]
      [] OTHER -> [k EXCEPT !.journal = ApplyLegacy(@, x.event)]

\* The loop of load_delta, chunk by chunk: `line` is the line read so far, and
\* the cache moves on only at the end of a good one.
Step(s, x) ==
    IF s.bad THEN s
    ELSE IF x # Newline THEN [s EXCEPT !.line = Append(@, x)]
    ELSE IF s.line = << >> THEN [s EXCEPT !.k.offset = @ + 1]
    ELSE IF Len(s.line) = 1 /\ Accepts(s.k, s.line[1])
         THEN [s EXCEPT !.k = [Accept(s.k, s.line[1]) EXCEPT !.offset = @ + 2],
                        !.line = << >>]
    ELSE [s EXCEPT !.bad = TRUE]

Scan(k, f) ==
    LET upto[n \in k.offset .. Len(f)] ==
            IF n = k.offset THEN [k |-> k, line |-> << >>, bad |-> FALSE]
            ELSE Step(upto[n - 1], f[n])
    IN  upto[Len(f)]

\* Mutant: a torn tail is only forgiven once the log has events.
Ending_NeedsEvents(s) ==
    IF s.bad THEN "corrupt"
    ELSE IF s.line = << >> THEN "clean"
    ELSE IF s.line = <<Torn>> THEN IF s.k.journal.events # << >> THEN "torn" ELSE "corrupt"
    ELSE IF Len(s.line) = 1 /\ Accepts(s.k, s.line[1]) THEN "unterminated" ELSE "corrupt"

\* How the scan ends, by what is left of the last line.
Ending(s) ==
    CASE s.bad -> "corrupt"
      [] ~s.bad /\ s.line = << >> -> "clean"
      [] ~s.bad /\ s.line = <<Torn>> ->
            IF s.k.upgraded \/ s.k.journal.events # << >> THEN "torn" ELSE "corrupt"
      [] ~s.bad /\ s.line # << >> /\ s.line # <<Torn>> ->
            IF Len(s.line) = 1 /\ Accepts(s.k, s.line[1]) THEN "unterminated" ELSE "corrupt"

------------------------------------------------------------------------------
(* load_delta                                                                *)

\* The cache once the scan is over, a complete last record without its newline
\* included, and the file once its tail is mended.
Moved(s) ==
    IF Ending(s) = "unterminated"
    THEN [Accept(s.k, s.line[1]) EXCEPT !.offset = @ + 1]
    ELSE s.k

Mended(s) ==
    CASE Ending(s) = "torn" -> SubSeq(file, 1, s.k.offset)
      [] Ending(s) = "unterminated" -> Append(file, Newline)
      [] OTHER -> file

Loaded(k) == [ok |-> TRUE, cache |-> k, file |-> file, disk |-> disk, fault |-> "none"]
LoadFailed(k) == [Loaded(k) EXCEPT !.ok = FALSE]

\* Mutant: what another handle wrote is believed without a barrier.
Completes_NoBarrier(k, s) ==
    [Loaded([Moved(s) EXCEPT !.offset = Len(Mended(s)), !.warm = TRUE,
                             !.current = TRUE, !.uncertain = FALSE])
        EXCEPT !.file = Mended(s), !.disk = IF Mended(s) = file THEN disk ELSE Mended(s)]

\* remember_file, after the barrier that a moved offset, a mended tail or an
\* uncertain write calls for.
Completes(k, s) ==
    LET f == Mended(s)
    IN  [Loaded([Moved(s) EXCEPT !.offset = Len(f), !.warm = TRUE,
                                 !.current = TRUE, !.uncertain = FALSE])
            EXCEPT !.file = f,
                   !.disk = IF s.k.offset = k.offset /\ f = file /\ ~k.uncertain
                            THEN disk ELSE f]

\* The truncation or the newline fails, or the sync after it; the cache has
\* moved past the records before it all the same.
RepairFails(k, s) ==
    { [ok |-> FALSE, file |-> x[2], disk |-> x[3], fault |-> x[1],
       cache |-> [Moved(s) EXCEPT !.current = @ /\ x[2] = file]] :
        x \in { <<IF Ending(s) = "torn" THEN "mend" ELSE "newline", file, disk>>,
                <<"mend", Mended(s), disk>>, <<"mend", Mended(s), Mended(s)>> } }

\* The last barrier fails: the cache keeps what it read, marked uncertain.
BarrierFails(k, s) ==
    LET f == Mended(s)
    IN  { [ok |-> FALSE, file |-> f, disk |-> d, fault |-> "barrier",
           cache |-> [Moved(s) EXCEPT !.offset = Len(f), !.uncertain = TRUE,
                                      !.current = @ /\ f = file]] :
            d \in {IF f = file THEN disk ELSE f, f} }

Replay(k) ==
    LET s == Scan(k, file)
    IN  CASE Ending(s) = "corrupt" -> {LoadFailed(s.k)}
          [] Ending(s) = "clean" /\ s.k.offset = k.offset /\ ~k.uncertain ->
                {Completes(k, s)}
          [] Ending(s) = "clean" /\ (s.k.offset # k.offset \/ k.uncertain) ->
                {Completes(k, s)} \cup BarrierFails(k, s)
          [] OTHER -> {Completes(k, s)} \cup RepairFails(k, s) \cup
                      (IF Moved(s).offset = k.offset /\ ~k.uncertain
                       THEN {} ELSE BarrierFails(k, s))

\* The file has the length the cache knows but another modification time:
\* nothing in it is believed until it has been replayed from the start.
Suspect(k) ==
    /\ Len(file) = k.offset /\ k.offset > 0
    /\ k.warm /\ ~k.current /\ ~k.uncertain

Verified(k, r) ==
    IF /\ r.ok
       /\ r.cache.offset = k.offset /\ r.cache.upgraded = k.upgraded
       /\ r.cache.journal.events = k.journal.events
       /\ r.cache.journal.commands = k.journal.commands
    THEN r ELSE [r EXCEPT !.ok = FALSE, !.cache = k]

\* What with_store_state does once it holds the lock, up to the operation: the
\* outcomes of opening the file and of load_delta on it.
Loads(k) ==
    IF ~present THEN { IF k.warm THEN LoadFailed(k) ELSE Loaded(k) }
    ELSE IF Len(file) > MaxLog \/ Len(file) < k.offset THEN {LoadFailed(k)}
    ELSE IF Suspect(k) THEN { Verified(k, r) : r \in Replay(EmptyCache) }
    ELSE Replay(k)

\* Handle h leaves the file as f and its cache as k; the others will see a
\* modification time they do not know.
SetFile(h, k, f) ==
    /\ file' = f
    /\ cache' = [g \in Handles |->
                    IF g = h THEN k
                    ELSE IF f # file THEN [cache[g] EXCEPT !.current = FALSE]
                    ELSE cache[g]]

TakeLoad(h, r) ==
    /\ IF r.fault = "none" THEN UNCHANGED faults
       ELSE r.fault \in FaultKinds /\ faults < MaxFaults /\ faults' = faults + 1
    /\ SetFile(h, r.cache, r.file)
    /\ disk' = r.disk

------------------------------------------------------------------------------
(* Handles                                                                   *)

Init ==
    /\ file \in InitialFiles
    /\ disk = file
    /\ present = (file # << >>)
    /\ cache = [h \in Handles |-> EmptyCache]
    /\ life = [h \in Handles |-> "down"]
    /\ lock = NoClient
    /\ pc = [c \in Clients |-> "idle"]
    /\ op = [c \in Clients |-> [is |-> "none"]]
    /\ reply = [c \in Clients |-> [is |-> "none"]]
    /\ acked = {} /\ stored = {}
    /\ cursor = [c \in Clients |-> 0]
    /\ seen = [c \in Clients |-> << >>]
    /\ sealed = [h \in Handles |-> FALSE]
    /\ crashes = 0 /\ tears = 0 /\ faults = 0

\* open_with_recovery; a failure leaves no adapter, but what it did to the file.
Open(h) ==
    /\ life[h] = "down"
    /\ lock = NoClient
    /\ \E r \in Loads(EmptyCache) :
        /\ TakeLoad(h, IF r.ok THEN r ELSE [r EXCEPT !.cache = EmptyCache])
        /\ life' = [life EXCEPT ![h] = IF r.ok THEN "open" ELSE "down"]
    /\ sealed' = [sealed EXCEPT ![h] = FALSE]
    /\ UNCHANGED <<present, lock, pc, op, reply, acked, stored, cursor, seen,
                   crashes, tears>>

Forget(hs) ==
    LET gone == { c \in Clients : HandleOf[c] \in hs }
    IN  /\ life' = [h \in Handles |-> IF h \in hs THEN "down" ELSE life[h]]
        /\ pc' = [c \in Clients |-> IF c \in gone THEN "idle" ELSE pc[c]]
        /\ op' = [c \in Clients |-> IF c \in gone THEN [is |-> "none"] ELSE op[c]]
        /\ reply' = [c \in Clients |-> IF c \in gone THEN [is |-> "none"] ELSE reply[c]]
        /\ lock' = IF lock \in gone THEN NoClient ELSE lock
        /\ crashes < MaxCrashes /\ crashes' = crashes + 1

\* The process of one handle dies.
Crash(h) ==
    /\ life[h] # "down"
    /\ Forget({h})
    /\ cache' = [cache EXCEPT ![h] = EmptyCache]
    /\ UNCHANGED <<file, present, disk, told, tears, faults>>

\* What a power failure may leave: at least what was durable, then any part of
\* what was written since; or, where the file was cut since, either content.
Survivors ==
    IF IsPrefix(disk, file)
    THEN UNION { {SubSeq(file, 1, n)} \cup
                 (IF n < Len(file) /\ file[n + 1] # Newline
                  THEN {Append(SubSeq(file, 1, n), Torn)} ELSE {}) :
                 n \in Len(disk) .. Len(file) }
    ELSE {disk, file}

PowerFailure ==
    /\ \E h \in Handles : life[h] # "down"
    /\ Forget(Handles)
    /\ \E f \in Survivors :
        /\ file' = f /\ disk' = f
        /\ present' \in IF f = << >> THEN {FALSE, present} ELSE {TRUE}
    /\ cache' = [h \in Handles |-> EmptyCache]
    /\ UNCHANGED <<told, tears, faults>>

------------------------------------------------------------------------------
(* Operations                                                                *)

Operations == { o \in
    [is: {"commit"}, batch: Batches] \cup [is: {"command"}, command: Commands]
    \cup [is: {"append", "idempotent"}, event: Events] \cup [is: {"page"}, limit: Limits]
    \cup [is: {"flush", "close"}] : o.is \in Kinds }

Busy(h) == { c \in Clients : HandleOf[c] = h /\ pc[c] \notin {"idle", "answer"} }

\* The first lifecycle check and the worker permit; close has moved the
\* lifecycle on before it asks for one.
Submit(c, o) ==
    LET h == HandleOf[c] IN
    /\ pc[c] = "idle"
    /\ life[h] = "open"
    /\ o.is = "close" \/ Cardinality(Busy(h)) < MaxWorkers
    /\ life' = [life EXCEPT ![h] = IF o.is = "close" THEN "closing" ELSE @]
    /\ op' = [op EXCEPT ![c] = o]
    /\ pc' = [pc EXCEPT ![c] =
                  IF Cardinality(Busy(h)) < MaxWorkers THEN "queued" ELSE "answer"]
    /\ reply' = [reply EXCEPT ![c] = [is |-> "refused"]]
    /\ UNCHANGED <<file, present, disk, cache, lock, told, bounds>>

Idle(c) ==
    /\ pc' = [pc EXCEPT ![c] = "idle"]
    /\ op' = [op EXCEPT ![c] = [is |-> "none"]]
    /\ reply' = [reply EXCEPT ![c] = [is |-> "none"]]

\* Mutant: an unknown outcome keeps the lock.
Finish_KeepsLock(c, answer) ==
    /\ lock' = IF answer.is = "unknown" THEN lock ELSE NoClient
    /\ IF answer.is \in {"refused", "unknown"} /\ op[c].is # "close"
       THEN Idle(c)
       ELSE /\ pc' = [pc EXCEPT ![c] = "answer"]
            /\ reply' = [reply EXCEPT ![c] = answer]
            /\ UNCHANGED op

\* The operation is over and the lock is released.  Close has one more step to
\* take; a refusal and an unknown outcome leave the caller as it was.
Finish(c, answer) ==
    /\ lock' = NoClient
    /\ IF answer.is \in {"refused", "unknown"} /\ op[c].is # "close"
       THEN Idle(c)
       ELSE /\ pc' = [pc EXCEPT ![c] = "answer"]
            /\ reply' = [reply EXCEPT ![c] = answer]
            /\ UNCHANGED op

\* The worker starts and checks the lifecycle again.
Start(c) ==
    /\ pc[c] = "queued"
    /\ IF life[HandleOf[c]] = "open" \/ (op[c].is = "close" /\ life[HandleOf[c]] = "closing")
       THEN pc' = [pc EXCEPT ![c] = "started"] /\ UNCHANGED <<op, reply>>
       ELSE Idle(c)
    /\ UNCHANGED <<file, present, disk, cache, life, lock, told, bounds>>

Lock(c) ==
    /\ pc[c] = "started"
    /\ lock = NoClient
    /\ lock' = c
    /\ pc' = [pc EXCEPT ![c] = "load"]
    /\ UNCHANGED <<file, present, disk, cache, life, op, reply, told, bounds>>

Load(c) ==
    /\ pc[c] = "load"
    /\ \E r \in Loads(cache[HandleOf[c]]) :
        /\ TakeLoad(HandleOf[c], r)
        /\ IF r.ok
           THEN pc' = [pc EXCEPT ![c] = "run"] /\ UNCHANGED <<lock, op, reply>>
           ELSE Finish(c, [is |-> "refused"])
    /\ UNCHANGED <<present, life, told, crashes, tears>>

Running(c, o) == pc[c] = "run" /\ op[c].is = o
Mine(c) == cache[HandleOf[c]]

\* confirm_sync, then the answer; if the barrier fails, the other one.
Confirm(c, answer, otherwise) ==
    \/ /\ Len(file) = Mine(c).offset
       /\ disk' = file
       /\ Finish(c, answer)
       /\ UNCHANGED faults
    \/ /\ "barrier" \in FaultKinds /\ faults < MaxFaults /\ faults' = faults + 1
       /\ disk' \in {disk, file}
       /\ Finish(c, otherwise)

Refused == [is |-> "refused"]
Unknown == [is |-> "unknown"]
Found(receipt) == [is |-> "receipt", receipt |-> receipt]
Stored(e) == [is |-> "stored", event |-> e]
Health == [is |-> "health"]

\* Mutant: no room is kept for the header.
Room_NoHeader(k) == k.offset + 2 <= MaxLog

\* check_disk_capacity keeps room for a header the file does not have yet.
Room(k) == k.offset + 2 + (IF k.upgraded THEN 0 ELSE 2) <= MaxLog

\* The plan of commit_transition: replay, write, or refuse.
PlanCommit(c) ==
    /\ Running(c, "commit")
    /\ LET j == Mine(c).journal
           b == op[c].batch
       IN  \/ Replays(j, b) /\ Confirm(c, Found(j.commands[b.command]), Unknown)
           \/ /\ Appends(j, b) /\ Room(Mine(c))
              /\ pc' = [pc EXCEPT ![c] = "write"]
              /\ UNCHANGED <<disk, lock, op, reply, faults>>
           \/ /\ ~Replays(j, b) /\ ~(Appends(j, b) /\ Room(Mine(c)))
              /\ Finish(c, Refused)
              /\ UNCHANGED <<disk, faults>>
    /\ UNCHANGED <<file, present, cache, life, told, crashes, tears>>

\* append_expected without an expected version, and its idempotent form.
PlanAppend(c) ==
    /\ Running(c, "append") \/ Running(c, "idempotent")
    /\ LET j == Mine(c).journal
           e == op[c].event
           replay == op[c].is = "idempotent" /\ ReplaysLegacy(j, e)
           append == AppendsLegacy(j, e, AnyVersion) /\ Room(Mine(c))
                     /\ (op[c].is = "idempotent" => e.key # NoKey)
       IN  \/ replay /\ Confirm(c, Stored(e), Refused)
           \/ /\ append
              /\ pc' = [pc EXCEPT ![c] = "write"]
              /\ UNCHANGED <<disk, lock, op, reply, faults>>
           \/ ~replay /\ ~append /\ Finish(c, Refused) /\ UNCHANGED <<disk, faults>>
    /\ UNCHANGED <<file, present, cache, life, told, crashes, tears>>

\* Mutant: read_command answers what the lookup gives, found or not.
ReadCommand_Absent(c) ==
    /\ Running(c, "command")
    /\ Confirm(c, Found(Mine(c).journal.commands[op[c].command]), Refused)
    /\ UNCHANGED <<file, present, cache, life, told, crashes, tears>>

ReadCommand(c) ==
    /\ Running(c, "command")
    /\ LET receipt == Mine(c).journal.commands[op[c].command]
       IN  IF receipt = NoReceipt THEN Finish(c, Refused) /\ UNCHANGED <<disk, faults>>
           ELSE Confirm(c, Found(receipt), Refused)
    /\ UNCHANGED <<file, present, cache, life, told, crashes, tears>>

ReadFrom(c) ==
    /\ Running(c, "page")
    /\ LET j == Mine(c).journal
       IN  Finish(c, IF PageAllowed(j, cursor[c], op[c].limit)
                     THEN [is |-> "page", cursor |-> PageEnd(j, cursor[c], op[c].limit),
                           events |-> PageEvents(j, cursor[c], op[c].limit)]
                     ELSE Refused)
    /\ UNCHANGED <<file, present, disk, cache, life, told, bounds>>

\* flush, and the flush inside close: a handle that never saw the file only
\* syncs the directory.
Flush(c) ==
    /\ Running(c, "flush") \/ Running(c, "close")
    /\ IF Mine(c).warm THEN Confirm(c, Health, Refused)
       ELSE Finish(c, Health) /\ UNCHANGED <<disk, faults>>
    /\ UNCHANGED <<file, present, cache, life, told, crashes, tears>>

\* write_frame: a commit first gives an old file its header, on its own line
\* and behind its own barrier; a single event does not.
Upgrades(c) == op[c].is = "commit" /\ ~Mine(c).upgraded

RecordOf(c) ==
    IF op[c].is = "commit" THEN Frame(op[c].batch, NewReceipt(Mine(c).journal, op[c].batch))
    ELSE IF Mine(c).upgraded THEN EventFrame(op[c].event) ELSE LegacyLine(op[c].event)

\* verify_cached_file: the file ends where the cache does.
Unmoved(c) == Len(file) = Mine(c).offset

WriteHeader(c) ==
    /\ pc[c] = "write" /\ Upgrades(c) /\ Unmoved(c)
    /\ LET f == file \o <<Header, Newline>>
       IN  /\ SetFile(HandleOf[c], [Mine(c) EXCEPT !.offset = Len(f), !.upgraded = TRUE,
                                                   !.current = FALSE], f)
           /\ disk' = f
    /\ present' = TRUE
    /\ UNCHANGED <<life, lock, pc, op, reply, told, bounds>>

WriteRecord(c) ==
    /\ pc[c] = "write" /\ ~Upgrades(c) /\ Unmoved(c)
    /\ LET f == file \o <<RecordOf(c), Newline>>
           k == [Mine(c) EXCEPT !.offset = Len(f), !.warm = TRUE, !.current = TRUE,
                                !.uncertain = FALSE]
       IN  /\ SetFile(HandleOf[c], Accept(k, RecordOf(c)), f)
           /\ disk' = f
    /\ present' = TRUE
    /\ Finish(c, IF op[c].is = "commit" THEN Found(RecordOf(c).receipt)
                 ELSE Stored(op[c].event))
    /\ UNCHANGED <<life, told, bounds>>

\* Mutant: the cache's offset moves on before the write is known to be good.
WriteFails_OffsetFirst(c) ==
    /\ pc[c] = "write"
    /\ tears < MaxTears /\ tears' = tears + 1
    /\ \E w \in { << >>, <<RecordOf(c), Newline>> } :
        /\ SetFile(HandleOf[c], [Mine(c) EXCEPT !.uncertain = TRUE, !.current = FALSE,
                                                !.offset = Len(file \o w)], file \o w)
        /\ UNCHANGED disk
    /\ present' = TRUE
    /\ Finish(c, Unknown)
    /\ UNCHANGED <<life, told, crashes, faults>>

\* Any step of either write fails: nothing, part or all of the line is in the
\* file, and all of it may even be durable.
WriteFails(c) ==
    /\ pc[c] = "write"
    /\ tears < MaxTears /\ tears' = tears + 1
    /\ LET x == IF Upgrades(c) THEN Header ELSE RecordOf(c) IN
       \E w \in { << >>, <<Torn>>, <<x>>, <<x, Newline>> } :
        /\ SetFile(HandleOf[c], [Mine(c) EXCEPT !.uncertain = TRUE,
                                                !.current = @ /\ w = << >>], file \o w)
        /\ disk' \in {disk} \cup (IF Len(w) = 2 THEN {file \o w} ELSE {})
    /\ present' = TRUE
    /\ Finish(c, Unknown)
    /\ UNCHANGED <<life, told, crashes, faults>>

\* The caller gets its answer; close moves the lifecycle on whatever it was.
Answer(c) ==
    LET h == HandleOf[c]
        a == reply[c]
    IN  /\ pc[c] = "answer"
        /\ Idle(c)
        /\ acked' = IF a.is = "receipt" THEN acked \cup {a.receipt} ELSE acked
        /\ stored' = IF a.is = "stored" THEN stored \cup {a.event} ELSE stored
        /\ cursor' = IF a.is = "page" THEN [cursor EXCEPT ![c] = a.cursor] ELSE cursor
        /\ seen' = IF a.is = "page" THEN [seen EXCEPT ![c] = @ \o a.events] ELSE seen
        /\ life' = IF op[c].is = "close" THEN [life EXCEPT ![h] = "closed"] ELSE life
        /\ sealed' = [sealed EXCEPT ![h] = @ \/ (op[c].is = "close" /\ a.is = "health")]
        /\ UNCHANGED <<file, present, disk, cache, lock, bounds>>

Work(c) ==
    \/ Start(c) \/ Load(c)
    \/ PlanCommit(c) \/ PlanAppend(c) \/ ReadCommand(c) \/ ReadFrom(c) \/ Flush(c)
    \/ WriteHeader(c) \/ WriteRecord(c) \/ WriteFails(c) \/ Answer(c)

Next ==
    \/ \E h \in Handles : Open(h) \/ Crash(h)
    \/ PowerFailure
    \/ \E c \in Clients : Lock(c) \/ Work(c) \/ \E o \in Operations : Submit(c, o)

Spec == Init /\ [][Next]_vars

\* The steps at which a worker that has its thread can always take its next one.
Runnable == {"queued", "load", "run", "write", "answer"}

\* Such a worker runs on: WF_vars(Work(c)), with its enabledness spelled out,
\* which TLC evaluates far faster. flock(2) wakes a waiter again and again;
\* nobody has to call, to open a handle or to fail.
FairSpec ==
    /\ Spec
    /\ \A c \in Clients :
        /\ <>[](pc[c] \in Runnable) => []<><<Work(c)>>_vars
        /\ SF_vars(Lock(c))

------------------------------------------------------------------------------
\* Every variable holds a value of its kind.
TypeOK ==
    /\ file \in Seq(Chunk) /\ disk \in Seq(Chunk) /\ present \in BOOLEAN
    /\ \A h \in Handles :
        /\ cache[h].journal \in JournalState
        /\ cache[h].offset \in Nat
        /\ <<cache[h].upgraded, cache[h].warm, cache[h].current, cache[h].uncertain>>
               \in BOOLEAN \X BOOLEAN \X BOOLEAN \X BOOLEAN
    /\ life \in [Handles -> {"down", "open", "closing", "closed"}]
    /\ lock \in Clients \cup {NoClient}
    /\ pc \in [Clients -> {"idle", "queued", "started", "load", "run", "write", "answer"}]
    /\ acked \subseteq Receipt /\ stored \subseteq Events
    /\ cursor \in [Clients -> Nat] /\ seen \in [Clients -> Seq(Event)]
    /\ sealed \in [Handles -> BOOLEAN]

Recovered(f) == Scan(EmptyCache, f)

\* The journal a fresh process would hold if the power failed now.
Durable == Moved(Recovered(disk)).journal

\* Whatever a handle has cached is what a replay of the file up to its offset
\* gives: no operation runs on an index the file does not justify, and an
\* offset never points into a line.
CacheIsReplay ==
    \A h \in Handles :
        LET k == cache[h]
        IN  life[h] # "down" =>
            /\ k.offset <= Len(file)
            /\ LET s == Recovered(SubSeq(file, 1, k.offset))
               IN  /\ Ending(s) \in {"clean", "unterminated"}
                   /\ Moved(s).journal = k.journal
                   /\ Moved(s).upgraded = k.upgraded

\* A caller told that its command committed, or that its event is stored, can
\* rely on it through every death and power failure: the answer only leaves
\* after the barrier.
AckedSurvives ==
    LET d == Durable
    IN  /\ \A r \in acked : d.commands[r.command] = r
        /\ \A e \in stored : \E f \in EventSet(d.events) : SameFact(e, f)

\* What a reader was given is durable too, even when the writer of it never
\* learned that it was written; so a reader's cursor stays a commit boundary.
SeenSurvives ==
    LET d == Durable
    IN  \A c \in Clients :
            /\ cursor[c] <= Len(d.events)
            /\ seen[c] = SubSeq(d.events, 1, cursor[c])
            /\ IsBoundary(d, cursor[c])

\* Nothing anyone was told or shown is lost by a death or a power failure.
Survives == AckedSurvives /\ SeenSurvives

\* After any failure the store opens again: no torn or lost tail reads as
\* corruption.
Recoverable == \A f \in Survivors : Ending(Recovered(f)) # "corrupt"

\* Mended or not, the file never outgrows what load_delta accepts.
WithinCapacity == Len(file) <= MaxLog

\* Once close has returned its snapshot, nothing is written through the handle.
CloseIsFinal == \A c \in Clients : sealed[HandleOf[c]] => pc[c] # "write"

\* Every accepted operation comes to an end and gives the lock back.
Finishes == \A c \in Clients : pc[c] = "queued" ~> pc[c] = "idle"

\* The records of a file, in order, as commits of the abstract log.
Single(e) == [command |-> NoCommand, digest |-> NoCommand,
              expected |-> << >>, events |-> <<e>>]

LogOf(f) ==
    LET records == SelectSeq(f, LAMBDA x : x.is \in {"frame", "event", "legacy"})
    IN  [i \in DOMAIN records |->
            IF records[i].is = "frame" THEN records[i].batch ELSE Single(records[i].event)]

Contract == INSTANCE EventStore WITH
    log <- LogOf(disk),
    InitialLogs <- { LogOf(f) : f \in InitialFiles },
    acked <- { [command |-> r.command, cursor |-> r.cursor] : r \in acked },
    Readers <- Clients,
    Entries <- Batches \cup { Single(e) : e \in Events }

\* The durable part of the file implements the atomic log EventStorePort
\* promises, through crashes, torn writes and lost answers: nothing is told
\* before it is durable, and every commit was admitted on the versions it read.
ImplementsEventStore == Contract!Spec
==============================================================================
