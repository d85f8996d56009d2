--------------------------- MODULE MCMemoryEventLog ---------------------------
(***************************************************************************)
(* MemoryEventLog on a small instance: two aggregates and one request, three *)
(* commands, one of which two callers submit with different read sets and    *)
(* one with two digests, a batch of two events on one aggregate, a batch over *)
(* two aggregates, single events that skip a version or share a key.         *)
(***************************************************************************)
EXTENDS MemoryEventLog

CONSTANTS a1, a2, q, c1, c2, c3, d1, d2, k1, p1, p2

MCAggregates == {a1, a2}
MCRequests == {q}
MCCommands == {c1, c2, c3}
MCDigests == {d1, d2}
MCKeys == {k1}
MCPayloads == {p1, p2}

Ev(id, s, v, key, p) == [id |-> id, key |-> key, stream |-> s, version |-> v, payload |-> p]

On(a, v) == [x \in {a} |-> v]
OnBoth(v, w) == [x \in {a1, a2} |-> IF x = a1 THEN v ELSE w]

MCBatches == {
    [command |-> c1, digest |-> d1, expected |-> On(a1, 0),
     events |-> <<Ev(1, a1, 1, NoKey, p1), Ev(2, a1, 2, NoKey, p1)>>],
    [command |-> c1, digest |-> d2, expected |-> On(a1, 0),
     events |-> <<Ev(3, a1, 1, NoKey, p1)>>],
    [command |-> c2, digest |-> d1, expected |-> OnBoth(2, 0),
     events |-> <<Ev(4, a1, 3, k1, p1), Ev(5, a2, 1, NoKey, p1)>>],
    [command |-> c2, digest |-> d1, expected |-> OnBoth(0, 0),
     events |-> <<Ev(4, a2, 1, k1, p1)>>],
    [command |-> c3, digest |-> d1, expected |-> OnBoth(1, 1),
     events |-> <<Ev(6, a2, 2, NoKey, p1)>>],
    \* the same command, rebuilt on what is there after a lost answer
    [command |-> c3, digest |-> d1, expected |-> On(a2, 2),
     events |-> <<Ev(7, a2, 3, NoKey, p1)>>],
    \* its event is not in its read set
    [command |-> c3, digest |-> d1, expected |-> On(a1, 0),
     events |-> <<Ev(6, a2, 1, NoKey, p1)>>],
    \* its versions are not contiguous
    [command |-> c3, digest |-> d1, expected |-> On(a1, 0),
     events |-> <<Ev(6, a1, 1, NoKey, p1), Ev(7, a1, 3, NoKey, p1)>>] }

MCEvents == { Ev(3, a1, 1, NoKey, p1), Ev(8, q, 2, k1, p1), Ev(9, q, 1, NoKey, p1),
              Ev(9, a2, 3, k1, p2) }
==============================================================================
