------------------------------ MODULE EventStore ------------------------------
(***************************************************************************)
(* What EventStorePort promises its callers (kiana-ports, kept by            *)
(* kiana-eventlog), with no index, no file and no process: a log of commits  *)
(* that only grows, each commit admitted against the versions it read, what  *)
(* callers have been told of it and what readers have been shown.            *)
(* MemoryEventLog and JsonlEventLog both implement this specification.       *)
(***************************************************************************)
EXTENDS Integers, Sequences, FiniteSets

CONSTANTS Aggregates, Requests, Commands, NoCommand, Readers, Entries,
          InitialLogs   \* what the store may hold at the start

VARIABLES
    log,    \* the commits, in order: batches, and single events as batches of one
    acked,  \* [command, cursor] of every commit a caller was told of
    seen    \* for each reader, the events it has been shown

vars == <<log, acked, seen>>

Init == log \in InitialLogs /\ acked = {} /\ seen = [r \in Readers |-> << >>]

\* The events of the first n commits, and the cursor after them.
EventsTo(l, n) ==
    LET upto[k \in 0 .. n] == IF k = 0 THEN << >> ELSE upto[k - 1] \o l[k].events
    IN  upto[n]

CursorAt(l, n) == Len(EventsTo(l, n))

CommitsOf(l) == { l[n] : n \in DOMAIN l }

\* Every event of a stream that the log holds.
EventsOf(l, s) ==
    { x \in UNION { { e.events[i] : i \in DOMAIN e.events } : e \in CommitsOf(l) } :
        x.stream = s }

VersionOf(l, s) ==
    LET vs == { x.version : x \in EventsOf(l, s) } \cup {0}
    IN  CHOOSE v \in vs : \A w \in vs : w <= v

\* A command commits once, on the versions it read, and its events are new
\* and move their streams forward: by exactly one each in a transition.
Admits(l, e) ==
    /\ e.command # NoCommand => \A x \in CommitsOf(l) : x.command # e.command
    /\ \A a \in DOMAIN e.expected : VersionOf(l, a) = e.expected[a]
    /\ \A i \in DOMAIN e.events :
        LET x == e.events[i]
            before == { k \in 1 .. i - 1 : e.events[k].stream = x.stream }
        IN  /\ x.version > VersionOf(l, x.stream) + Cardinality(before)
            /\ e.command # NoCommand =>
                   /\ x.stream \in DOMAIN e.expected
                   /\ x.version = e.expected[x.stream] + Cardinality(before) + 1
            /\ \A c \in CommitsOf(l) : \A k \in DOMAIN c.events : c.events[k].id # x.id

Commit(e) ==
    /\ Admits(log, e)
    /\ log' = Append(log, e)
    /\ UNCHANGED seen

\* Callers are told the truth: only commits of the log, at their place.
Told(l) == { [command |-> l[n].command, cursor |-> CursorAt(l, n)] : n \in DOMAIN l }

Acknowledge == acked' \subseteq Told(log') /\ acked \subseteq acked'

\* A page takes a reader on by whole commits.
Show(r) ==
    \E n \in 0 .. Len(log) :
        /\ CursorAt(log, n) >= Len(seen[r])
        /\ seen' = [seen EXCEPT ![r] = EventsTo(log, n)]

Next ==
    \/ \E e \in Entries : Commit(e) /\ Acknowledge
    \/ Acknowledge /\ UNCHANGED <<log, seen>>
    \/ \E r \in Readers : Show(r) /\ UNCHANGED <<log, acked>>

Spec == Init /\ [][Next]_vars
==============================================================================
