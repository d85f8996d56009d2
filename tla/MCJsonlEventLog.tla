--------------------------- MODULE MCJsonlEventLog ---------------------------
(***************************************************************************)
(* JsonlEventLog on a small instance: two handles, commands that race for    *)
(* one aggregate, one of them with a transaction of two events.              *)
(***************************************************************************)
EXTENDS JsonlEventLog

CONSTANTS a1, a2, q, c1, c2, d1, h1, h2, u1, u2, k1, p1

MCAggregates == {a1, a2}
MCCommands == {c1, c2}
MCTwoHandles == (u1 :> h1) @@ (u2 :> h2)
MCOneHandle == (u1 :> h1) @@ (u2 :> h1)

Ev(id, s, v, key) == [id |-> id, key |-> key, stream |-> s, version |-> v, payload |-> p1]

Wide == [command |-> c1, digest |-> d1, expected |-> [x \in {a1, a2} |-> 0],
         events |-> <<Ev(1, a1, 1, NoKey), Ev(2, a2, 1, NoKey)>>]
First == [command |-> c2, digest |-> d1, expected |-> [x \in {a1} |-> 0],
          events |-> <<Ev(3, a1, 1, NoKey)>>]
Second == [command |-> c2, digest |-> d1, expected |-> [x \in {a1} |-> 1],
           events |-> <<Ev(4, a1, 2, NoKey)>>]
MCBatches == {Wide, First, Second}
MCChained == {Wide, Second}
MCWide == {Wide}
MCEvents == {Ev(5, q, 1, k1), Ev(6, q, 2, NoKey)}


\* No file, a file in the current format, one that an older release left.
MCNoFile == {<< >>}
MCUpgraded == {<<Header, Newline>>}
MCOld == {<<LegacyLine(Ev(5, q, 1, k1)), Newline>>}
MCEither == MCUpgraded \cup MCOld

\* Swapping the two handles with their clients changes nothing.
MCSwap == { (h1 :> h1) @@ (h2 :> h2) @@ (u1 :> u1) @@ (u2 :> u2),
            (h1 :> h2) @@ (h2 :> h1) @@ (u1 :> u2) @@ (u2 :> u1) }
==============================================================================
