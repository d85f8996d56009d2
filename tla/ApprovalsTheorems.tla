-------------------------- MODULE ApprovalsTheorems --------------------------
(***************************************************************************)
(* What the approval store keeps, whatever its callers interleave: the       *)
(* inductive invariant of Approvals and the theorems that follow from it.    *)
(*                                                                          *)
(* A call decides on a prefix of the stream it read and commits only while   *)
(* that prefix is still the whole stream.  The invariant says, of each step  *)
(* a call can be at, what it has made sure of so far (Kept), of each answer  *)
(* what it still stands for (Answered), and of each history that it is made  *)
(* of legal transitions (Lawful).  A step of one call then reaches another   *)
(* call only through World, which says how the shared state may move.        *)
(***************************************************************************)
EXTENDS Approvals, FiniteSetTheorems, SequenceTheorems, TLAPS

------------------------------------------------------------------------------
(* The inductive invariant                                                   *)

Steps == {"authority", "receipt", "run", "load", "check", "bound", "material", "mint",
          "commit", "expire", "revise", "cancel", "collect", "sweep", "withdraw"}

\* What a caller that is not idle keeps.
Records == [op: Operations, step: Steps, id: Ids, seen: Seq(AnyFact), authority: Nat,
            run: Nat, at: Nat, todo: SUBSET Ids, tries: 0 .. Tries]

Words == {"challenge", "active", "approve", "deny", "consumed", "invalidated", "void"}

Calls == call \in [Callers -> Records \cup {Idle}]

\* The streams, the clock and the payloads, which the calls share.
Shared ==
    /\ stream \in [Ids -> Seq(AnyFact)]
    /\ authority \in Seq(Configs) /\ authority # << >>
    /\ run \in Seq({"prompt", "awaiting", "cancelling"})
    /\ clock \in Nat /\ rollbacks \in Nat
    /\ payloads \subseteq [id: Ids, nonce: Callers, expires: Nat]
    /\ IsFiniteSet(payloads) /\ Cardinality(payloads) <= Capacity

Ghosts == told \subseteq [id: Ids, what: Words] /\ swept \subseteq Nat

\* The transitions of a history, times apart.
Lawful(s) ==
    s # << >> =>
        /\ s[1] \in [state: {"staged"}, at: Nat, authority: Nat, nonce: Callers]
        /\ \A i \in 2 .. Len(s) : <<s[i - 1].state, s[i].state>> \in Transitions
        /\ StateOf(s) \in {"staged", "active"} =>
              \A i \in 1 .. Len(s) : s[i].state \in {"staged", "active"}

\* While the clock was never set back, times are in order too.
History(s) == Lawful(s) /\ (s # << >> /\ rollbacks = 0 => Foldable(s))

\* s is how t began.
Begins(s, t) == Len(s) <= Len(t) /\ \A i \in 1 .. Len(s) : t[i] = s[i]

\* The operations that move an approval on, at a step that comes after the check.
Checked(k) ==
    \/ k.step \in {"bound", "material"}
    \/ k.op.is = "activate" /\ k.step = "run"
    \/ k.op.is \notin {"stage", "invalidate"} /\ k.step = "commit"

\* What a call knows of the stream it has seen.
Looked(k) ==
    /\ k.op.is = "stage" /\ k.step \in {"mint", "commit"} => k.seen = << >>
    /\ k.step = "check" => k.seen # << >>
    /\ Checked(k) => k.seen # << >> /\ StateOf(k.seen) \in From[k.op.is]
    /\ \/ k.step \in {"expire", "withdraw"}
       \/ k.op.is = "invalidate" /\ k.step = "commit"
       => Live(k.seen)

\* A call goes through the steps of its operation only.
Placed(k) ==
    /\ k.step = "bound" => k.op.is \in {"activate", "approve", "consume"}
    /\ k.step = "material" => k.op.is \in {"stage", "activate", "approve", "consume"}
    /\ k.step = "mint" => k.op.is = "stage"
    /\ k.step = "commit" => k.op.is \in
          {"stage", "activate", "approve", "deny", "consume", "invalidate"}
    /\ k.step = "check" => k.op.is \in
          {"stage", "activate", "approve", "deny", "consume", "list"}
    /\ k.step = "run" => k.op.is \in {"activate", "consume", "purge"}
    /\ k.step = "revise" => k.op.is = "sync"
    /\ k.step = "authority" => k.op.is \in {"stage", "sync"}
    /\ k.step \in {"collect", "sweep", "withdraw"} => k.op.is \in {"sync", "purge"}
    /\ k.step = "cancel" => k.op.is = "purge"
    /\ k.step = "withdraw" => k.tries < Tries

\* When a call is dated, relative to what it saw.
Dated(k) ==
    /\ k.step \in {"bound", "material"} =>
          /\ TimeOf(k.seen) <= k.at /\ k.at < Expiry(k.seen)
          /\ rollbacks = 0 => k.at <= clock
    /\ Checked(k) => (rollbacks = 0 => TimeOf(k.seen) <= k.at)
    /\ Checked(k) /\ k.op.is # "activate" => k.at < Expiry(k.seen)

\* A turn that is not cancelling up to the version a call read.
Paused(k) ==
    \/ k.op.is = "activate" /\ k.step = "commit"
    \/ k.op.is = "consume" /\ k.step # "run"
    => k.run <= Len(run) /\ \A i \in 1 .. k.run : run[i] # "cancelling"

\* The payload of an approval that is being staged.
Minted(c, k) ==
    k.op.is = "stage" /\ k.step \in {"mint", "commit"} =>
        /\ stream[k.id] # << >> => stream[k.id][1].nonce # c
        /\ k.step = "commit" /\ k.id \in Volatile /\ rollbacks = 0 /\ clock < k.at + TTL =>
              Payload(k.id, c, k.at + TTL) \in payloads

\* A sweep, and what it has already dealt with.
Sweeping(k) ==
    k.op.is = "sync" =>
        /\ k.step = "revise" => k.authority <= Len(authority)
        /\ k.step \in {"collect", "sweep", "withdraw"} => k.authority < Len(authority)
        /\ k.step \in {"sweep", "withdraw"} =>
              \A id \in Ids \ k.todo : Live(stream[id]) => Bound(stream[id]) > k.authority

Kept(c, k) ==
    /\ k \in Records /\ Begins(k.seen, stream[k.id])
    /\ Looked(k) /\ Placed(k) /\ Dated(k) /\ Paused(k) /\ Minted(c, k) /\ Sweeping(k)

\* What an answer that was given stands for.
Answered(t) ==
    /\ t.what \in {"approve", "deny"} => Decision(stream[t.id]) = t.what
    /\ t.what \in {"challenge", "invalidated", "void"} => stream[t.id] # << >>
    /\ t.what = "invalidated" => StateOf(stream[t.id]) = "cancelled"
    /\ t.what = "void" => ~Live(stream[t.id])
    /\ t.what = "challenge" /\ t.id \in Volatile /\ rollbacks = 0
       /\ Live(stream[t.id]) /\ clock < Expiry(stream[t.id])
       => PayloadOf(t.id) \in payloads

\* What a sweep that was reported done stands for.
Swept(v) ==
    v < Len(authority) /\ \A id \in Ids : Live(stream[id]) => Bound(stream[id]) > v

Inv ==
    /\ Shared /\ Calls /\ Ghosts
    /\ \A id \in Ids : History(stream[id])
    /\ \A c \in Callers : call[c] # Idle => Kept(c, call[c])
    /\ \A t \in told : Answered(t)
    /\ \A v \in swept : Swept(v)
------------------------------------------------------------------------------
(* Histories                                                                 *)

Stagings == [state: {"staged"}, at: Nat, authority: Nat, nonce: Callers]

\* A fact that may come next in a history, times apart.
Follows(s, e) ==
    /\ e \in AnyFact
    /\ s = << >> => e \in Stagings
    /\ s # << >> => <<StateOf(s), e.state>> \in Transitions

\* And one whose time is in order.
Timely(s, e) ==
    s # << >> => /\ TimeOf(s) <= e.at
                 /\ e.state \in {"approved", "denied", "consumed"} => e.at < Expiry(s)

\* The fields of a fact.
LEMMA FactFields ==
    ASSUME NEW e \in AnyFact
    PROVE  e.at \in Nat /\ e.state \in Alive \cup Terminal
  BY DEF AnyFact, Alive, Terminal

\* Reading a history.
LEMMA HistoryReads ==
    ASSUME NEW s \in Seq(AnyFact)
    PROVE  /\ Len(s) \in Nat
           /\ s = << >> <=> Len(s) = 0
           /\ \A i \in 1 .. Len(s) : s[i] \in AnyFact /\ s[i].at \in Nat
           /\ s # << >> => /\ Len(s) \in 1 .. Len(s) /\ 1 \in 1 .. Len(s)
                           /\ TimeOf(s) \in Nat /\ s[1].at \in Nat
<1>. DEFINE F == AnyFact
<1>1. \A e \in F : e.at \in Nat
  BY FactFields
<1>2. s \in Seq(F)
  OBVIOUS
<1>. HIDE DEF F
<1>3. /\ Len(s) \in Nat
      /\ s = << >> <=> Len(s) = 0
      /\ \A i \in 1 .. Len(s) : s[i] \in F
  BY <1>2
<1>4. s # << >> => Len(s) \in 1 .. Len(s) /\ 1 \in 1 .. Len(s)
  BY <1>3
<1>. QED
  BY <1>1, <1>3, <1>4 DEF TimeOf, F

\* What appending a fact leaves.
LEMMA Appended ==
    ASSUME NEW s \in Seq(AnyFact), NEW e \in AnyFact, NEW t, t = Append(s, e)
    PROVE  /\ t \in Seq(AnyFact) /\ Len(s) \in Nat /\ Len(t) = Len(s) + 1 /\ t # << >>
           /\ t[Len(t)] = e /\ \A i \in 1 .. Len(s) : t[i] = s[i]
           /\ s # << >> => t[1] = s[1]
           /\ s = << >> => Len(t) = 1 /\ t[1] = e
<1>. DEFINE F == AnyFact
<1>1. s \in Seq(F) /\ e \in F
  OBVIOUS
<1>. HIDE DEF F
<1>2. /\ t \in Seq(F) /\ Len(s) \in Nat /\ Len(t) = Len(s) + 1 /\ t # << >>
      /\ t[Len(t)] = e /\ \A i \in 1 .. Len(s) : t[i] = s[i]
  BY <1>1
<1>3. s # << >> => 1 \in 1 .. Len(s)
  BY <1>1
<1>4. s = << >> => Len(t) = 1
  BY <1>1, <1>2
<1>. QED
  BY <1>2, <1>3, <1>4 DEF F

\* A history goes on to be lawful, and only a live one goes on.
LEMMA LawfulGrows ==
    ASSUME NEW s \in Seq(AnyFact), Lawful(s), NEW e, Follows(s, e), NEW t, t = Append(s, e)
    PROVE  /\ Lawful(t)
           /\ s = << >> \/ Live(s)
<1>1. e \in AnyFact
  BY DEF Follows
<1>2. /\ t \in Seq(AnyFact) /\ Len(s) \in Nat /\ Len(t) = Len(s) + 1 /\ t # << >>
      /\ t[Len(t)] = e /\ \A i \in 1 .. Len(s) : t[i] = s[i]
      /\ s # << >> => t[1] = s[1]
      /\ s = << >> => Len(t) = 1 /\ t[1] = e
  BY <1>1, Appended
<1>3. StateOf(t) = e.state
  BY <1>2 DEF StateOf
<1>4. CASE s = << >>
  <2>1. e \in Stagings /\ e.state = "staged" /\ Len(t) = 1 /\ t[1] = e
    BY <1>2, <1>4 DEF Follows, Stagings
  <2>2. \A i \in 1 .. 1 : i = 1
    OBVIOUS
  <2>3. ~ \E i \in 2 .. 1 : TRUE
    OBVIOUS
  <2>. QED
    BY <1>4, <2>1, <2>2, <2>3 DEF Lawful, Stagings
<1>5. CASE s # << >>
  <2>1. PICK n \in Nat : n = Len(s) /\ n # 0
    BY <1>5, HistoryReads
  <2>2. /\ s[1] \in Stagings
        /\ \A i \in 2 .. n : <<s[i - 1].state, s[i].state>> \in Transitions
        /\ s[n].state \in {"staged", "active"} =>
              \A i \in 1 .. n : s[i].state \in {"staged", "active"}
        /\ <<s[n].state, e.state>> \in Transitions
    BY <1>5, <2>1 DEF Lawful, Follows, StateOf, Stagings
  <2>3. s[n].state \in Alive
    BY <2>2 DEF Transitions, Alive
  <2>4. \A i \in 1 .. n + 1 : i \in 1 .. n \/ i = n + 1
    BY <2>1
  <2>5. Len(t) = n + 1 /\ t[n + 1] = e /\ \A i \in 1 .. n : t[i] = s[i]
    BY <1>2, <2>1
  <2>6. ASSUME NEW i \in 2 .. n + 1
        PROVE  <<t[i - 1].state, t[i].state>> \in Transitions
    <3>1. CASE i = n + 1
      <4>1. i - 1 = n /\ n \in 1 .. n
        BY <2>1, <3>1
      <4>. QED
        BY <2>2, <2>5, <3>1, <4>1
    <3>2. CASE i # n + 1
      <4>1. i \in 2 .. n /\ i \in 1 .. n /\ i - 1 \in 1 .. n
        BY <2>1, <3>2
      <4>. QED
        BY <2>2, <2>5, <4>1
    <3>. QED
      BY <3>1, <3>2
  <2>7. ASSUME e.state \in {"staged", "active"}, NEW i \in 1 .. n + 1
        PROVE  t[i].state \in {"staged", "active"}
    <3>1. s[n].state \in {"staged", "active"}
      BY <2>2, <2>7 DEF Transitions, Alive
    <3>. QED
      BY <2>2, <2>4, <2>5, <2>7, <3>1
  <2>. QED
    BY <1>2, <1>3, <1>5, <2>1, <2>2, <2>3, <2>5, <2>6, <2>7 DEF Lawful, Live, StateOf, Stagings
<1>. QED
  BY <1>4, <1>5

\* Times in order stay in order.
LEMMA FoldableGrows ==
    ASSUME NEW s \in Seq(AnyFact), NEW e, Follows(s, e), Timely(s, e),
           s # << >> => Foldable(s), NEW t, t = Append(s, e)
    PROVE  Foldable(t)
<1>1. e \in AnyFact
  BY DEF Follows
<1>2. /\ t \in Seq(AnyFact) /\ Len(s) \in Nat /\ Len(t) = Len(s) + 1 /\ t # << >>
      /\ t[Len(t)] = e /\ \A i \in 1 .. Len(s) : t[i] = s[i]
      /\ s # << >> => t[1] = s[1]
      /\ s = << >> => Len(t) = 1 /\ t[1] = e
  BY <1>1, Appended
<1>3. CASE s = << >>
  <2>1. ~ \E i \in 2 .. 1 : TRUE
    OBVIOUS
  <2>. QED
    BY <1>2, <1>3, <2>1 DEF Foldable
<1>4. CASE s # << >>
  <2>1. PICK n \in Nat : n = Len(s) /\ n # 0
    BY <1>4, HistoryReads
  <2>2. Len(t) = n + 1 /\ t[n + 1] = e /\ Expiry(t) = Expiry(s)
    BY <1>2, <1>4, <2>1 DEF Expiry
  <2>3. ASSUME NEW i \in 2 .. n + 1
        PROVE  /\ <<t[i - 1].state, t[i].state>> \in Transitions
               /\ t[i - 1].at <= t[i].at
               /\ t[i].state \in {"approved", "denied", "consumed"} => t[i].at < Expiry(s)
    <3>1. CASE i = n + 1
      <4>1. i - 1 = n /\ n \in 1 .. n
        BY <2>1, <3>1
      <4>2. t[i] = e /\ t[i - 1] = s[n]
        BY <1>2, <2>1, <2>2, <3>1, <4>1
      <4>. QED
        BY <1>4, <2>1, <4>2 DEF Follows, Timely, StateOf, TimeOf
    <3>2. CASE i # n + 1
      <4>1. i \in 2 .. n /\ i \in 1 .. n /\ i - 1 \in 1 .. n
        BY <2>1, <3>2
      <4>2. t[i] = s[i] /\ t[i - 1] = s[i - 1]
        BY <1>2, <2>1, <4>1
      <4>. QED
        BY <1>4, <2>1, <4>1, <4>2 DEF Foldable
    <3>. QED
      BY <3>1, <3>2
  <2>. QED
    BY <1>2, <2>2, <2>3 DEF Foldable
<1>. QED
  BY <1>3, <1>4

\* A decision is taken once.
LEMMA DecisionStays ==
    ASSUME NEW s \in Seq(AnyFact), Lawful(s), NEW e, Follows(s, e), NEW t, t = Append(s, e),
           Decision(s) # "none"
    PROVE  Decision(t) = Decision(s)
<1>1. e \in AnyFact
  BY DEF Follows
<1>2. /\ Len(s) \in Nat /\ Len(t) = Len(s) + 1 /\ \A i \in 1 .. Len(s) : t[i] = s[i]
  BY <1>1, Appended
<1>3. PICK n \in Nat : n = Len(s) /\ Len(t) = n + 1 /\ \A i \in 1 .. n : i \in 1 .. n + 1
  BY <1>2
<1>4. \A state : Reached(s, state) => Reached(t, state)
  BY <1>2, <1>3 DEF Reached
<1>5. ASSUME Reached(s, "denied")
      PROVE  FALSE
  <2>1. PICK i \in 1 .. n : s[i].state = "denied"
    BY <1>3, <1>5 DEF Reached
  <2>2. s # << >>
    BY <1>3, <2>1, HistoryReads
  <2>3. CASE i = n
    BY <1>3, <2>1, <2>2, <2>3 DEF Follows, StateOf, Transitions, Alive
  <2>4. CASE i # n
    <3>1. PICK j \in 2 .. n : j - 1 = i
      <4>1. i + 1 \in 2 .. n /\ (i + 1) - 1 = i
        BY <2>4
      <4>. QED
        BY <4>1
    <3>2. <<s[i].state, s[j].state>> \in Transitions
      BY <1>3, <2>2, <3>1 DEF Lawful
    <3>. QED
      BY <2>1, <3>2 DEF Transitions, Alive
  <2>. QED
    BY <2>3, <2>4
<1>. QED
  BY <1>4, <1>5 DEF Decision

\* The first decision of a history.
LEMMA DecisionTaken ==
    ASSUME NEW s \in Seq(AnyFact), Lawful(s), NEW e, Follows(s, e), NEW t, t = Append(s, e)
    PROVE  /\ e.state = "approved" => Decision(t) = "approve"
           /\ e.state = "denied" => Decision(t) = "deny"
<1>1. e \in AnyFact
  BY DEF Follows
<1>2. /\ t \in Seq(AnyFact) /\ Len(s) \in Nat /\ Len(t) = Len(s) + 1 /\ t[Len(t)] = e
      /\ \A i \in 1 .. Len(s) : t[i] = s[i]
  BY <1>1, Appended
<1>3. PICK n \in Nat : n = Len(s) /\ Len(t) = n + 1 /\ n + 1 \in 1 .. n + 1
                       /\ \A i \in 1 .. n + 1 : i = n + 1 \/ i \in 1 .. n
  BY <1>2
<1>4. Reached(t, e.state)
  BY <1>2, <1>3 DEF Reached
<1>5. ASSUME e.state = "denied"
      PROVE  ~Reached(t, "approved")
  <2>1. s # << >> /\ StateOf(s) = "active"
    BY <1>5 DEF Follows, Stagings, Transitions, Alive
  <2>2. \A i \in 1 .. n : t[i].state # "approved"
    BY <1>2, <1>3, <2>1 DEF Lawful
  <2>. QED
    BY <1>2, <1>3, <1>5, <2>2 DEF Reached
<1>. QED
  BY <1>4, <1>5 DEF Decision

------------------------------------------------------------------------------
(* How a call moves                                                          *)

\* The caller is left with k, and no other caller moves.
Leaves(c, k) == call' = [call EXCEPT ![c] = k]

Made(k, op, step, id, seen, version, turn, at, todo, tries) ==
    /\ k \in Records /\ k.op = op /\ k.step = step /\ k.id = id /\ k.seen = seen
    /\ k.authority = version /\ k.run = turn /\ k.at = at /\ k.todo = todo /\ k.tries = tries

\* A caller is idle, or in one of the steps.
LEMMA CallCases ==
    ASSUME Calls, NEW c \in Callers
    PROVE  /\ call[c] # Idle => call[c] \in Records
           /\ \A step \in Steps : At(c, step) => call[c] # Idle /\ call[c] \in Records
<1>1. call[c] \in Records \cup {Idle}
  BY DEF Calls
<1>2. Idle.step = "idle"
  BY DEF Idle
<1>3. "idle" \notin Steps
  BY DEF Steps
<1>. HIDE DEF Steps, Records, Idle
<1>. QED
  BY <1>1, <1>2, <1>3 DEF At

\* The fields of a call.
LEMMA RecordFields ==
    ASSUME NEW r \in Records
    PROVE  /\ r.op \in Operations /\ r.step \in Steps /\ r.id \in Ids /\ r.seen \in Seq(AnyFact)
           /\ r.authority \in Nat /\ r.run \in Nat /\ r.at \in Nat
           /\ r.todo \in SUBSET Ids /\ r.tries \in 0 .. Tries
<1>. HIDE DEF Steps, AnyFact
<1>. QED
  BY DEF Records

\* A call that is given other fields is still a call.
LEMMA RecordMade ==
    ASSUME NEW op \in Operations, NEW step \in Steps, NEW id \in Ids, NEW seen \in Seq(AnyFact),
           NEW version \in Nat, NEW turn \in Nat, NEW at \in Nat, NEW todo \in SUBSET Ids,
           NEW tries \in 0 .. Tries, NEW k,
           k = [op |-> op, step |-> step, id |-> id, seen |-> seen, authority |-> version,
                run |-> turn, at |-> at, todo |-> todo, tries |-> tries]
    PROVE  Made(k, op, step, id, seen, version, turn, at, todo, tries)
<1>. HIDE DEF Steps, AnyFact
<1>. QED
  BY DEF Made, Records

\* A call is the record of its fields.
LEMMA RecordIs ==
    ASSUME NEW r \in Records
    PROVE  /\ DOMAIN r = {"op", "step", "id", "seen", "authority", "run", "at", "todo", "tries"}
           /\ r = [op |-> r.op, step |-> r.step, id |-> r.id, seen |-> r.seen,
                   authority |-> r.authority, run |-> r.run, at |-> r.at, todo |-> r.todo,
                   tries |-> r.tries]
<1>. HIDE DEF Steps, AnyFact
<1>. QED
  BY DEF Records

\* A step that only goes on.
LEMMA GoToMoves ==
    ASSUME Calls, NEW c \in Callers, NEW r \in Records, r = call[c], NEW step \in Steps,
           GoTo(c, step)
    PROVE  \E k : /\ Leaves(c, k)
                  /\ Made(k, r.op, step, r.id, r.seen, r.authority, r.run, r.at, r.todo, r.tries)
<1>1. PICK k : k = [r EXCEPT !.step = step]
  OBVIOUS
<1>2. Leaves(c, k)
  BY <1>1 DEF GoTo, Leaves
<1>3. k = [op |-> r.op, step |-> step, id |-> r.id, seen |-> r.seen, authority |-> r.authority,
           run |-> r.run, at |-> r.at, todo |-> r.todo, tries |-> r.tries]
  BY <1>1, RecordIs
<1>. HIDE DEF Records, Steps
<1>. QED
  BY <1>2, <1>3, RecordFields, RecordMade

\* A step that looks at a stream.
LEMMA TakeMoves ==
    ASSUME Calls, NEW c \in Callers, NEW r \in Records, r = call[c], NEW step \in Steps,
           NEW s \in Seq(AnyFact),
           call' = [call EXCEPT ![c].seen = s, ![c].step = step]
    PROVE  \E k : /\ Leaves(c, k)
                  /\ Made(k, r.op, step, r.id, s, r.authority,
                          r.run, r.at, r.todo, r.tries)
<1>0. DOMAIN r = {"op", "step", "id", "seen", "authority", "run", "at", "todo", "tries"}
  BY RecordIs
<1>1. PICK k : k = [r EXCEPT !.seen = s, !.step = step]
  OBVIOUS
<1>2. Leaves(c, k)
  BY <1>1 DEF Leaves
<1>. HIDE DEF Records
<1>3. k = [op |-> r.op, step |-> step, id |-> r.id, seen |-> s, authority |-> r.authority,
           run |-> r.run, at |-> r.at, todo |-> r.todo, tries |-> r.tries]
  BY <1>0, <1>1
<1>. HIDE DEF Records, Steps
<1>. QED
  BY <1>2, <1>3, RecordFields, RecordMade

\* A step that dates what is going to be written.
LEMMA DateMoves ==
    ASSUME Calls, NEW c \in Callers, NEW r \in Records, r = call[c], NEW step \in Steps,
           NEW at \in Nat,
           call' = [call EXCEPT ![c].step = step, ![c].at = at]
    PROVE  \E k : /\ Leaves(c, k)
                  /\ Made(k, r.op, step, r.id, r.seen, r.authority,
                          r.run, at, r.todo, r.tries)
<1>0. DOMAIN r = {"op", "step", "id", "seen", "authority", "run", "at", "todo", "tries"}
  BY RecordIs
<1>1. PICK k : k = [r EXCEPT !.step = step, !.at = at]
  OBVIOUS
<1>2. Leaves(c, k)
  BY <1>1 DEF Leaves
<1>. HIDE DEF Records
<1>3. k = [op |-> r.op, step |-> step, id |-> r.id, seen |-> r.seen, authority |-> r.authority,
           run |-> r.run, at |-> at, todo |-> r.todo, tries |-> r.tries]
  BY <1>0, <1>1
<1>. HIDE DEF Records, Steps
<1>. QED
  BY <1>2, <1>3, RecordFields, RecordMade

\* A step that reads the version of the authority.
LEMMA VersionMoves ==
    ASSUME Calls, NEW c \in Callers, NEW r \in Records, r = call[c], NEW step \in Steps,
           NEW version \in Nat,
           call' = [call EXCEPT ![c].authority = version, ![c].step = step]
    PROVE  \E k : /\ Leaves(c, k)
                  /\ Made(k, r.op, step, r.id, r.seen, version,
                          r.run, r.at, r.todo, r.tries)
<1>0. DOMAIN r = {"op", "step", "id", "seen", "authority", "run", "at", "todo", "tries"}
  BY RecordIs
<1>1. PICK k : k = [r EXCEPT !.authority = version, !.step = step]
  OBVIOUS
<1>2. Leaves(c, k)
  BY <1>1 DEF Leaves
<1>. HIDE DEF Records
<1>3. k = [op |-> r.op, step |-> step, id |-> r.id, seen |-> r.seen, authority |-> version,
           run |-> r.run, at |-> r.at, todo |-> r.todo, tries |-> r.tries]
  BY <1>0, <1>1
<1>. HIDE DEF Records, Steps
<1>. QED
  BY <1>2, <1>3, RecordFields, RecordMade

\* A step that reads the version of the turn.
LEMMA TurnMoves ==
    ASSUME Calls, NEW c \in Callers, NEW r \in Records, r = call[c], NEW step \in Steps,
           NEW turn \in Nat,
           call' = [call EXCEPT ![c].run = turn, ![c].step = step]
    PROVE  \E k : /\ Leaves(c, k)
                  /\ Made(k, r.op, step, r.id, r.seen, r.authority,
                          turn, r.at, r.todo, r.tries)
<1>0. DOMAIN r = {"op", "step", "id", "seen", "authority", "run", "at", "todo", "tries"}
  BY RecordIs
<1>1. PICK k : k = [r EXCEPT !.run = turn, !.step = step]
  OBVIOUS
<1>2. Leaves(c, k)
  BY <1>1 DEF Leaves
<1>. HIDE DEF Records
<1>3. k = [op |-> r.op, step |-> step, id |-> r.id, seen |-> r.seen, authority |-> r.authority,
           run |-> turn, at |-> r.at, todo |-> r.todo, tries |-> r.tries]
  BY <1>0, <1>1
<1>. HIDE DEF Records, Steps
<1>. QED
  BY <1>2, <1>3, RecordFields, RecordMade

\* A sweep that has found out what there is to sweep.
LEMMA CollectMoves ==
    ASSUME Calls, NEW c \in Callers, NEW r \in Records, r = call[c], NEW step \in Steps,
           NEW todo \in SUBSET Ids,
           call' = [call EXCEPT ![c].todo = todo, ![c].step = step]
    PROVE  \E k : /\ Leaves(c, k)
                  /\ Made(k, r.op, step, r.id, r.seen, r.authority,
                          r.run, r.at, todo, r.tries)
<1>0. DOMAIN r = {"op", "step", "id", "seen", "authority", "run", "at", "todo", "tries"}
  BY RecordIs
<1>1. PICK k : k = [r EXCEPT !.todo = todo, !.step = step]
  OBVIOUS
<1>2. Leaves(c, k)
  BY <1>1 DEF Leaves
<1>. HIDE DEF Records
<1>3. k = [op |-> r.op, step |-> step, id |-> r.id, seen |-> r.seen, authority |-> r.authority,
           run |-> r.run, at |-> r.at, todo |-> todo, tries |-> r.tries]
  BY <1>0, <1>1
<1>. HIDE DEF Records, Steps
<1>. QED
  BY <1>2, <1>3, RecordFields, RecordMade

\* A sweep that is done with an approval it need not withdraw.
LEMMA ForwardMoves ==
    ASSUME Calls, NEW c \in Callers, NEW r \in Records, r = call[c], NEW todo \in SUBSET Ids,
           NEW tries \in 0 .. Tries,
           call' = [call EXCEPT ![c].todo = todo, ![c].tries = tries]
    PROVE  \E k : /\ Leaves(c, k)
                  /\ Made(k, r.op, r.step, r.id, r.seen, r.authority,
                          r.run, r.at, todo, tries)
<1>0. DOMAIN r = {"op", "step", "id", "seen", "authority", "run", "at", "todo", "tries"}
  BY RecordIs
<1>1. PICK k : k = [r EXCEPT !.todo = todo, !.tries = tries]
  OBVIOUS
<1>2. Leaves(c, k)
  BY <1>1 DEF Leaves
<1>. HIDE DEF Records
<1>3. k = [op |-> r.op, step |-> r.step, id |-> r.id, seen |-> r.seen, authority |-> r.authority,
           run |-> r.run, at |-> r.at, todo |-> todo, tries |-> tries]
  BY <1>0, <1>1
<1>. HIDE DEF Records, Steps
<1>. QED
  BY <1>2, <1>3, RecordFields, RecordMade

\* A sweep that takes up an approval.
LEMMA TryMoves ==
    ASSUME Calls, NEW c \in Callers, NEW r \in Records, r = call[c], NEW step \in Steps,
           NEW id \in Ids, NEW s \in Seq(AnyFact),
           call' = [call EXCEPT ![c].id = id, ![c].seen = s, ![c].step = step]
    PROVE  \E k : /\ Leaves(c, k)
                  /\ Made(k, r.op, step, id, s, r.authority,
                          r.run, r.at, r.todo, r.tries)
<1>0. DOMAIN r = {"op", "step", "id", "seen", "authority", "run", "at", "todo", "tries"}
  BY RecordIs
<1>1. PICK k : k = [r EXCEPT !.id = id, !.seen = s, !.step = step]
  OBVIOUS
<1>2. Leaves(c, k)
  BY <1>1 DEF Leaves
<1>. HIDE DEF Records
<1>3. k = [op |-> r.op, step |-> step, id |-> id, seen |-> s, authority |-> r.authority,
           run |-> r.run, at |-> r.at, todo |-> r.todo, tries |-> r.tries]
  BY <1>0, <1>1
<1>. HIDE DEF Records, Steps
<1>. QED
  BY <1>2, <1>3, RecordFields, RecordMade

\* A sweep that has withdrawn an approval.
LEMMA DoneMoves ==
    ASSUME Calls, NEW c \in Callers, NEW r \in Records, r = call[c], NEW step \in Steps,
           NEW todo \in SUBSET Ids, NEW tries \in 0 .. Tries,
           call' = [call EXCEPT ![c].todo = todo, ![c].tries = tries, ![c].step = step]
    PROVE  \E k : /\ Leaves(c, k)
                  /\ Made(k, r.op, step, r.id, r.seen, r.authority,
                          r.run, r.at, todo, tries)
<1>0. DOMAIN r = {"op", "step", "id", "seen", "authority", "run", "at", "todo", "tries"}
  BY RecordIs
<1>1. PICK k : k = [r EXCEPT !.todo = todo, !.tries = tries, !.step = step]
  OBVIOUS
<1>2. Leaves(c, k)
  BY <1>1 DEF Leaves
<1>. HIDE DEF Records
<1>3. k = [op |-> r.op, step |-> step, id |-> r.id, seen |-> r.seen, authority |-> r.authority,
           run |-> r.run, at |-> r.at, todo |-> todo, tries |-> tries]
  BY <1>0, <1>1
<1>. HIDE DEF Records, Steps
<1>. QED
  BY <1>2, <1>3, RecordFields, RecordMade

\* A sweep that lost against another call.
LEMMA RetryMoves ==
    ASSUME Calls, NEW c \in Callers, NEW r \in Records, r = call[c], NEW step \in Steps,
           NEW tries \in 0 .. Tries,
           call' = [call EXCEPT ![c].tries = tries, ![c].step = step]
    PROVE  \E k : /\ Leaves(c, k)
                  /\ Made(k, r.op, step, r.id, r.seen, r.authority,
                          r.run, r.at, r.todo, tries)
<1>0. DOMAIN r = {"op", "step", "id", "seen", "authority", "run", "at", "todo", "tries"}
  BY RecordIs
<1>1. PICK k : k = [r EXCEPT !.tries = tries, !.step = step]
  OBVIOUS
<1>2. Leaves(c, k)
  BY <1>1 DEF Leaves
<1>. HIDE DEF Records
<1>3. k = [op |-> r.op, step |-> step, id |-> r.id, seen |-> r.seen, authority |-> r.authority,
           run |-> r.run, at |-> r.at, todo |-> r.todo, tries |-> tries]
  BY <1>0, <1>1
<1>. HIDE DEF Records, Steps
<1>. QED
  BY <1>2, <1>3, RecordFields, RecordMade

\* After a move the caller has k, the others what they had.
LEMMA MovesOthers ==
    ASSUME Calls, NEW c \in Callers, NEW k \in Records \cup {Idle}, Leaves(c, k)
    PROVE  /\ Calls'
           /\ call'[c] = k
           /\ \A d \in Callers : d # c => call'[d] = call[d]
<1>. HIDE DEF Records, Idle
<1>. QED
  BY DEF Calls, Leaves

\* What a call begins with.
LEMMA BegunMade ==
    ASSUME ApprovalsAssumption, NEW o \in Operations
    PROVE  /\ o.id \in Ids /\ o.is \in Kinds /\ o.config \in Configs
           /\ \E step \in Steps : /\ First[o.is] = step
                                  /\ Made(Begun(o), o, step, o.id, << >>, 0, 0, 0, {}, 0)
<1>1. o \in [is: Kinds, id: Ids, config: Configs]
  BY DEF ApprovalsAssumption
<1>2. o.id \in Ids /\ o.is \in Kinds /\ o.config \in Configs
  BY <1>1
<1>3. PICK step \in Steps : First[o.is] = step
  BY <1>2 DEF First, Kinds, Steps
<1>4. << >> \in Seq(AnyFact) /\ 0 \in 0 .. Tries /\ {} \in SUBSET Ids /\ 0 \in Nat
  BY DEF ApprovalsAssumption
<1>5. Begun(o) = [op |-> o, step |-> step, id |-> o.id, seen |-> << >>, authority |-> 0,
                  run |-> 0, at |-> 0, todo |-> {}, tries |-> 0]
  BY <1>3 DEF Begun
<1>. HIDE DEF Steps, Kinds
<1>. QED
  BY <1>2, <1>3, <1>4, <1>5, RecordMade

------------------------------------------------------------------------------
(* How the shared state moves                                                *)

\* A stream stays, or gets a fact; its first one is dated and bound by caller c.
Grows(c, s, t) ==
    \/ t = s
    \/ \E e : /\ Follows(s, e) /\ t = Append(s, e)
              /\ rollbacks = 0 => Timely(s, e)
              /\ s = << >> => e.authority = Len(authority) /\ e.nonce = c

\* A payload is given up when it has expired, by the call that kept it and did
\* not commit, or with the approval it belongs to.
GivenUp(c, p) ==
    \/ p.expires <= clock
    \/ p.nonce = c /\ (stream[p.id] # << >> => p # PayloadOf(p.id))
    \/ stream[p.id] # << >> /\ p = PayloadOf(p.id) /\ ~Live(stream'[p.id])

\* What a step of caller c may do to what another call relies on.
World(c) ==
    /\ Shared'
    /\ \A id \in Ids : Grows(c, stream[id], stream'[id])
    /\ Len(authority) <= Len(authority')
    /\ Begins(run, run')
    /\ rollbacks' = 0 => rollbacks = 0 /\ clock <= clock'
    /\ \A p \in payloads : p \in payloads' \/ GivenUp(c, p)

\* What a stream that grows keeps.
LEMMA Growing ==
    ASSUME NEW s \in Seq(AnyFact), History(s), NEW c, NEW t, Grows(c, s, t)
    PROVE  /\ t \in Seq(AnyFact) /\ Lawful(t) /\ Begins(s, t)
           /\ rollbacks = 0 /\ t # << >> => Foldable(t)
           /\ s # << >> => t # << >> /\ t[1] = s[1]
           /\ s # << >> /\ ~Live(s) => t = s
           /\ s = << >> /\ t # << >> => t[1].authority = Len(authority) /\ t[1].nonce = c
           /\ Decision(s) # "none" => Decision(t) = Decision(s)
<1>1. CASE t = s
  <2>1. Begins(s, s)
    BY HistoryReads DEF Begins
  <2>. QED
    BY <1>1, <2>1 DEF History
<1>2. ASSUME NEW e, Follows(s, e), t = Append(s, e),
             rollbacks = 0 => Timely(s, e),
             s = << >> => e.authority = Len(authority) /\ e.nonce = c
      PROVE  /\ t \in Seq(AnyFact) /\ Lawful(t) /\ Begins(s, t)
             /\ rollbacks = 0 /\ t # << >> => Foldable(t)
             /\ s # << >> => t # << >> /\ t[1] = s[1]
             /\ s # << >> /\ ~Live(s) => t = s
             /\ s = << >> /\ t # << >> => t[1].authority = Len(authority) /\ t[1].nonce = c
             /\ Decision(s) # "none" => Decision(t) = Decision(s)
  <2>1. e \in AnyFact
    BY <1>2 DEF Follows
  <2>2. /\ t \in Seq(AnyFact) /\ Len(s) \in Nat /\ Len(t) = Len(s) + 1 /\ t # << >>
        /\ \A i \in 1 .. Len(s) : t[i] = s[i]
        /\ s # << >> => t[1] = s[1]
        /\ s = << >> => t[1] = e
    BY <1>2, <2>1, Appended
  <2>3. Begins(s, t)
    BY <2>2 DEF Begins
  <2>4. Lawful(t) /\ (s = << >> \/ Live(s))
    BY <1>2, LawfulGrows DEF History
  <2>5. rollbacks = 0 => Foldable(t)
    BY <1>2, FoldableGrows DEF History
  <2>6. Decision(s) # "none" => Decision(t) = Decision(s)
    BY <1>2, DecisionStays DEF History
  <2>. QED
    BY <1>2, <2>2, <2>3, <2>4, <2>5, <2>6
<1>. QED
  BY <1>1, <1>2 DEF Grows

\* A beginning of a beginning.
LEMMA BeginsFurther ==
    ASSUME NEW S, NEW s \in Seq(S), NEW t \in Seq(S), NEW u \in Seq(S), Begins(s, t), Begins(t, u)
    PROVE  Begins(s, u)
<1>1. PICK i, j, n \in Nat : i = Len(s) /\ j = Len(t) /\ n = Len(u)
  OBVIOUS
<1>2. i <= j /\ j <= n /\ (\A l \in 1 .. i : t[l] = s[l]) /\ (\A l \in 1 .. j : u[l] = t[l])
  BY <1>1 DEF Begins
<1>3. i <= n /\ \A l \in 1 .. i : l \in 1 .. j
  BY <1>2
<1>4. \A l \in 1 .. i : u[l] = s[l]
  BY <1>2, <1>3
<1>. QED
  BY <1>1, <1>3, <1>4 DEF Begins

\* What an append begins with.
LEMMA AppendBegins ==
    ASSUME NEW S, NEW s \in Seq(S), NEW e \in S, NEW t, t = Append(s, e)
    PROVE  t \in Seq(S) /\ Begins(s, t) /\ Len(t) = Len(s) + 1 /\ t[Len(t)] = e
  BY DEF Begins

\* A beginning that is as long is the whole.
LEMMA BeginsWhole ==
    ASSUME NEW S, NEW s \in Seq(S), NEW t \in Seq(S), Begins(s, t), Len(t) = Len(s)
    PROVE  s = t
  BY SeqEqual DEF Begins

\* A live stream that grew was live before, or is new and bound to the present.
LEMMA LiveBefore ==
    ASSUME NEW s \in Seq(AnyFact), History(s), NEW c, NEW t, Grows(c, s, t), Live(t)
    PROVE  \/ Live(s) /\ Bound(t) = Bound(s) /\ Expiry(t) = Expiry(s) /\ t[1] = s[1]
           \/ s = << >> /\ Bound(t) = Len(authority)
<1>1. t # << >>
  BY DEF Live
<1>. QED
  BY <1>1, Growing DEF Bound, Expiry

\* A call that is about to stage an approval.
Staging(k) == k.op.is = "stage" /\ k.step \in {"mint", "commit"}

\* What a call has made sure of is still so after a step of another one, and
\* after one of its own, but for what it stages.
LEMMA CarryKept ==
    ASSUME Inv, ApprovalsAssumption, NEW c, World(c),
           NEW d \in Callers, NEW k, Kept(d, k), d # c \/ ~Staging(k)
    PROVE  Kept(d, k)'
<1>1. /\ k \in Records /\ k.id \in Ids /\ k.seen \in Seq(AnyFact) /\ k.at \in Nat
      /\ k.authority \in Nat /\ k.run \in Nat /\ TTL \in Nat
  BY RecordFields DEF Kept, ApprovalsAssumption
<1>2. /\ clock \in Nat /\ clock' \in Nat /\ Len(authority) \in Nat /\ Len(authority') \in Nat
      /\ Len(authority) <= Len(authority') /\ (rollbacks' = 0 => rollbacks = 0 /\ clock <= clock')
  BY DEF Inv, Shared, World
<1>3. /\ \A id \in Ids : /\ stream[id] \in Seq(AnyFact) /\ History(stream[id])
                         /\ Grows(c, stream[id], stream'[id])
  BY DEF Inv, Shared, World
<1>4. \A id \in Ids :
         /\ stream'[id] \in Seq(AnyFact) /\ Begins(stream[id], stream'[id])
         /\ stream[id] # << >> => stream'[id] # << >> /\ stream'[id][1] = stream[id][1]
         /\ stream[id] = << >> /\ stream'[id] # << >> =>
               stream'[id][1].authority = Len(authority) /\ stream'[id][1].nonce = c
  BY <1>3, Growing
<1>5. Begins(k.seen, stream'[k.id])
  <2>1. Begins(k.seen, stream[k.id])
    BY DEF Kept
  <2>. HIDE DEF AnyFact
  <2>. QED
    BY <1>1, <1>3, <1>4, <2>1, BeginsFurther
<1>6. Dated(k)'
  <2>1. \A i, j, n \in Nat : i <= j /\ j <= n => i <= n
    OBVIOUS
  <2>. QED
    BY <1>1, <1>2, <2>1, Zenon DEF Kept, Dated
<1>7. Paused(k)'
  <2>1. ASSUME k.run <= Len(run) /\ \A i \in 1 .. k.run : run[i] # "cancelling"
        PROVE  k.run <= Len(run') /\ \A i \in 1 .. k.run : run'[i] # "cancelling"
    <3>1. PICK m, n, l \in Nat : m = Len(run) /\ n = Len(run') /\ l = k.run
      BY <1>1 DEF Inv, Shared, World
    <3>2. m <= n /\ (\A i \in 1 .. m : run'[i] = run[i]) /\ l <= m
      BY <2>1, <3>1 DEF World, Begins
    <3>3. l <= n /\ \A i \in 1 .. l : i \in 1 .. m
      BY <3>2
    <3>. QED
      BY <2>1, <3>1, <3>2, <3>3
  <2>. QED
    BY <2>1 DEF Kept, Paused
<1>8. Minted(d, k)'
  <2>. SUFFICES ASSUME k.op.is = "stage", k.step \in {"mint", "commit"}
                PROVE  /\ stream'[k.id] # << >> => stream'[k.id][1].nonce # d
                       /\ k.step = "commit" /\ k.id \in Volatile /\ rollbacks' = 0
                          /\ clock' < k.at + TTL => Payload(k.id, d, k.at + TTL) \in payloads'
    BY DEF Minted
  <2>0. d # c
    BY DEF Staging
  <2>1. stream[k.id] # << >> => stream[k.id][1].nonce # d
    BY DEF Kept, Minted
  <2>2. stream'[k.id] # << >> => stream'[k.id][1].nonce # d
    BY <1>1, <1>4, <2>0, <2>1
  <2>3. ASSUME k.step = "commit", k.id \in Volatile, rollbacks' = 0, clock' < k.at + TTL
        PROVE  Payload(k.id, d, k.at + TTL) \in payloads'
    <3>1. PICK due \in Nat : due = k.at + TTL
      BY <1>1
    <3>2. rollbacks = 0 /\ clock < due /\ ~(due <= clock)
      BY <1>2, <2>3, <3>1
    <3>3. PICK p : p = Payload(k.id, d, due)
      OBVIOUS
    <3>4. p \in payloads /\ p.id = k.id /\ p.nonce = d /\ p.expires = due
      BY <2>3, <3>1, <3>2, <3>3 DEF Kept, Minted, Payload
    <3>5. stream[k.id] # << >> => p # PayloadOf(k.id)
      BY <2>1, <3>4 DEF PayloadOf, Payload
    <3>6. ~GivenUp(c, p)
      BY <2>0, <3>2, <3>4, <3>5 DEF GivenUp
    <3>. QED
      BY <3>1, <3>3, <3>4, <3>6 DEF World
  <2>. QED
    BY <2>2, <2>3
<1>9. Sweeping(k)'
  <2>. SUFFICES ASSUME k.op.is = "sync"
                PROVE  Sweeping(k)'
    BY DEF Sweeping
  <2>1. /\ k.step = "revise" => k.authority <= Len(authority')
        /\ k.step \in {"collect", "sweep", "withdraw"} =>
              k.authority < Len(authority) /\ k.authority < Len(authority')
    BY <1>1, <1>2 DEF Kept, Sweeping
  <2>2. ASSUME k.step \in {"sweep", "withdraw"}, NEW id \in Ids \ k.todo, Live(stream'[id])
        PROVE  Bound(stream'[id]) > k.authority
    <3>1. \/ Live(stream[id]) /\ Bound(stream'[id]) = Bound(stream[id])
          \/ stream[id] = << >> /\ Bound(stream'[id]) = Len(authority)
      BY <1>3, <2>2, LiveBefore
    <3>2. Live(stream[id]) => Bound(stream[id]) > k.authority
      BY <2>2 DEF Kept, Sweeping
    <3>3. Len(authority) > k.authority
      BY <1>1, <1>2, <2>1, <2>2
    <3>. QED
      BY <3>1, <3>2, <3>3
  <2>. QED
    BY <2>1, <2>2 DEF Sweeping
<1>. QED
  BY <1>1, <1>5, <1>6, <1>7, <1>8, <1>9 DEF Kept, Looked, Placed

\* The histories stay lawful, and in order while the clock is not set back.
LEMMA CarryHistory ==
    ASSUME Inv, NEW c, World(c)
    PROVE  \A id \in Ids : History(stream[id])'
<1>1. ASSUME NEW id \in Ids
      PROVE  History(stream[id])'
  <2>1. stream[id] \in Seq(AnyFact) /\ History(stream[id]) /\ Grows(c, stream[id], stream'[id])
    BY DEF Inv, Shared, World
  <2>2. PICK s, t : s = stream[id] /\ t = stream'[id]
    OBVIOUS
  <2>3. Lawful(t) /\ (rollbacks = 0 /\ t # << >> => Foldable(t))
    BY <2>1, <2>2, Growing
  <2>4. rollbacks' = 0 => rollbacks = 0
    BY DEF World
  <2>. QED
    BY <2>2, <2>3, <2>4 DEF History, Lawful, Foldable, StateOf, Expiry
<1>. QED
  BY <1>1

\* An answer stands after a step of any caller.
LEMMA CarryAnswered ==
    ASSUME Inv, ApprovalsAssumption, NEW c, World(c), NEW t \in told
    PROVE  Answered(t)'
<1>1. Answered(t) /\ t.id \in Ids
  BY DEF Inv, Ghosts
<1>2. /\ stream[t.id] \in Seq(AnyFact) /\ History(stream[t.id])
      /\ Grows(c, stream[t.id], stream'[t.id])
      /\ stream'[t.id] \in Seq(AnyFact)
  BY <1>1 DEF Inv, Shared, World
<1>3. PICK s, u : s = stream[t.id] /\ u = stream'[t.id]
  OBVIOUS
<1>4. /\ s # << >> => u # << >> /\ u[1] = s[1]
      /\ s # << >> /\ ~Live(s) => u = s
      /\ Decision(s) # "none" => Decision(u) = Decision(s)
  BY <1>2, <1>3, Growing
<1>5. t.what \in {"approve", "deny"} => Decision(u) = t.what
  BY <1>1, <1>3, <1>4 DEF Answered
<1>6. t.what \in {"challenge", "invalidated", "void"} => u # << >>
  BY <1>1, <1>3, <1>4 DEF Answered
<1>7. t.what = "invalidated" => StateOf(u) = "cancelled"
  <2>1. StateOf(s) = "cancelled" => ~Live(s)
    BY DEF Live, Alive
  <2>. QED
    BY <1>1, <1>3, <1>4, <2>1 DEF Answered
<1>8. t.what = "void" => ~Live(u)
  BY <1>1, <1>3, <1>4 DEF Answered
<1>9. ASSUME t.what = "challenge", t.id \in Volatile, rollbacks' = 0, Live(u), clock' < Expiry(u)
      PROVE  PayloadOf(t.id)' \in payloads'
  <2>1. s # << >> /\ u # << >> /\ u[1] = s[1] /\ Live(s)
    BY <1>1, <1>3, <1>4, <1>9 DEF Answered
  <2>2. Expiry(u) = Expiry(s)
    BY <2>1 DEF Expiry
  <2>3. PICK p : p = PayloadOf(t.id)
    OBVIOUS
  <2>4. p.id = t.id /\ p.expires = Expiry(u) /\ PayloadOf(t.id)' = p
    BY <1>3, <2>1, <2>2, <2>3 DEF PayloadOf, Payload, Expiry
  <2>5. rollbacks = 0 /\ clock <= clock' /\ clock \in Nat /\ clock' \in Nat
    BY <1>9 DEF World, Inv, Shared
  <2>6. clock < Expiry(u) /\ ~(Expiry(u) <= clock)
    <3>1. PICK now, then, due : now = clock /\ then = clock' /\ due = Expiry(u)
      OBVIOUS
    <3>2. due \in Int
      <4>1. u \in Seq(AnyFact)
        BY <1>2, <1>3
      <4>2. u[1].at \in Nat /\ TTL \in Nat
        BY <2>1, <4>1, HistoryReads DEF ApprovalsAssumption
      <4>. QED
        BY <3>1, <4>2 DEF Expiry
    <3>3. now \in Nat /\ then \in Nat /\ now <= then /\ then < due
      BY <1>9, <2>5, <3>1
    <3>4. now < due /\ ~(due <= now)
      BY <3>2, <3>3
    <3>. QED
      BY <3>1, <3>4
  <2>7. p \in payloads
    BY <1>1, <1>3, <1>9, <2>1, <2>2, <2>3, <2>5, <2>6 DEF Answered
  <2>8. ~GivenUp(c, p)
    BY <1>3, <1>9, <2>1, <2>3, <2>4, <2>6 DEF GivenUp
  <2>. QED
    BY <2>4, <2>7, <2>8 DEF World
<1>. QED
  BY <1>3, <1>5, <1>6, <1>7, <1>8, <1>9 DEF Answered

\* So does a sweep that was reported done.
LEMMA CarrySwept ==
    ASSUME Inv, NEW c, World(c), NEW v \in swept
    PROVE  Swept(v)'
<1>1. Swept(v) /\ v \in Nat
  BY DEF Inv, Ghosts
<1>2. Len(authority) \in Nat /\ Len(authority') \in Nat /\ Len(authority) <= Len(authority')
  BY DEF Inv, Shared, World
<1>3. v < Len(authority) /\ v < Len(authority')
  BY <1>1, <1>2 DEF Swept
<1>4. ASSUME NEW id \in Ids, Live(stream'[id])
      PROVE  Bound(stream'[id]) > v
  <2>1. stream[id] \in Seq(AnyFact) /\ History(stream[id]) /\ Grows(c, stream[id], stream'[id])
    BY DEF Inv, Shared, World
  <2>2. \/ Live(stream[id]) /\ Bound(stream'[id]) = Bound(stream[id])
        \/ Bound(stream'[id]) = Len(authority)
    BY <1>4, <2>1, LiveBefore
  <2>3. Live(stream[id]) => Bound(stream[id]) > v
    BY <1>1 DEF Swept
  <2>4. Len(authority) > v
    BY <1>1, <1>2, <1>3
  <2>. QED
    BY <2>2, <2>3, <2>4
<1>. QED
  BY <1>3, <1>4 DEF Swept

\* The step of one caller, once it is known what it leaves that caller with and
\* what it reports.
LEMMA OneMoves ==
    ASSUME Inv, ApprovalsAssumption, NEW c \in Callers, World(c),
           NEW k, Leaves(c, k), k = Idle \/ Kept(c, k)',
           NEW answers, told' = told \cup answers,
           \A t \in answers : t \in [id: Ids, what: Words] /\ Answered(t)',
           NEW sweeps, swept' = swept \cup sweeps,
           \A v \in sweeps : v \in Nat /\ Swept(v)'
    PROVE  Inv'
<1>1. k \in Records \cup {Idle}
  BY DEF Kept
<1>2. Calls' /\ call'[c] = k /\ \A d \in Callers : d # c => call'[d] = call[d]
  BY <1>1, MovesOthers DEF Inv
<1>3. ASSUME NEW d \in Callers, call'[d] # Idle
      PROVE  Kept(d, call[d])'
  <2>1. CASE d = c
    <3>. PICK r : r = call'[d] /\ r = k
      BY <1>2, <2>1
    <3>. QED
      BY <1>3, <2>1
  <2>2. CASE d # c
    <3>1. PICK r : r = call[d] /\ call'[d] = r
      BY <1>2, <2>2
    <3>2. Kept(d, r)
      BY <1>3, <3>1 DEF Inv
    <3>3. Kept(d, r)'
      BY <2>2, <3>2, CarryKept
    <3>. QED
      BY <3>1, <3>3
  <2>. QED
    BY <2>1, <2>2
<1>4. ASSUME NEW t \in told'
      PROVE  Answered(t)'
  BY <1>4, CarryAnswered DEF Inv, Ghosts
<1>5. ASSUME NEW v \in swept'
      PROVE  Swept(v)'
  BY <1>5, CarrySwept
<1>6. Ghosts'
  BY DEF Inv, Ghosts
<1>7. Shared'
  BY DEF World
<1>8. \A id \in Ids : History(stream[id])'
  BY CarryHistory
<1>. QED
  BY <1>2, <1>3, <1>4, <1>5, <1>6, <1>7, <1>8 DEF Inv

\* A step that leaves the shared state alone.
LEMMA Unchanging ==
    ASSUME Inv, NEW c, UNCHANGED <<stream, authority, run, clock, payloads, rollbacks>>
    PROVE  World(c)
<1>1. Begins(run, run)
  BY DEF Begins, Inv, Shared
<1>2. Len(authority) \in Nat /\ clock \in Nat
  BY DEF Inv, Shared
<1>3. Shared'
  BY DEF Inv, Shared
<1>. QED
  BY <1>1, <1>2, <1>3 DEF World, Grows

\* A step that changes nothing of what is shared.
LEMMA Still ==
    ASSUME Inv, NEW c, UNCHANGED <<journal, clock, payloads, bounds>>
    PROVE  World(c)
  BY Unchanging DEF journal, bounds

\* A step that only reads.
LEMMA Reads ==
    ASSUME Inv, ApprovalsAssumption, NEW c \in Callers,
           UNCHANGED <<journal, clock, payloads, told, swept, bounds>>,
           NEW k, Leaves(c, k), k = Idle \/ Kept(c, k)
    PROVE  Inv'
<1>1. World(c)
  BY Still
<1>2. Kept(c, k) => Kept(c, k)'
  BY DEF Kept, Looked, Placed, Dated, Paused, Minted, Sweeping, journal, bounds
<1>3. PICK none : none = {}
  OBVIOUS
<1>4. told' = told \cup none /\ swept' = swept \cup none /\ ~ \E t \in none : TRUE
  BY <1>3
<1>. QED
  BY <1>1, <1>2, <1>4, OneMoves

------------------------------------------------------------------------------
(* The steps that only read                                                  *)

\* A caller at a step keeps what that step needs.
LEMMA Acting ==
    ASSUME Inv, NEW c \in Callers, NEW step \in Steps, At(c, step)
    PROVE  \E r \in Records : r = call[c] /\ r.step = step /\ Kept(c, r)
<1>1. call[c] # Idle /\ call[c] \in Records
  BY CallCases DEF Inv
<1>2. Kept(c, call[c])
  BY <1>1 DEF Inv
<1>. QED
  BY <1>1, <1>2 DEF At

\* A stream begins itself.
LEMMA BeginsSelf ==
    ASSUME NEW s, Len(s) \in Nat
    PROVE  Begins(s, s)
  BY DEF Begins

\* A call that ends without an answer.
LEMMA Returns ==
    ASSUME Inv, ApprovalsAssumption, NEW c \in Callers, Return(c),
           UNCHANGED <<journal, clock, payloads, swept, bounds>>
    PROVE  Inv'
<1>1. PICK k : k = Idle /\ Leaves(c, k)
  BY DEF Return, Leaves
<1>. QED
  BY <1>1, Reads DEF Return

\* A call that ends with an answer that is true.
LEMMA Replies ==
    ASSUME Inv, ApprovalsAssumption, NEW c \in Callers, call[c] \in Records,
           NEW what \in Words, Reply(c, what),
           NEW t, t = [id |-> Id(c), what |-> what], Answered(t),
           UNCHANGED <<journal, clock, payloads, swept, bounds>>
    PROVE  Inv'
<1>1. PICK k : k = Idle /\ Leaves(c, k)
  BY DEF Reply, Leaves
<1>2. World(c)
  BY Still
<1>3. PICK answers, sweeps : answers = {t} /\ sweeps = {}
  OBVIOUS
<1>4. told' = told \cup answers /\ swept' = swept \cup sweeps /\ ~ \E v \in sweeps : TRUE
  BY <1>3 DEF Reply
<1>5. t \in [id: Ids, what: Words]
  BY RecordFields DEF Id
<1>6. Answered(t)'
  BY DEF Answered, PayloadOf, Payload, Expiry, journal, bounds
<1>7. (\A x \in answers : x \in [id: Ids, what: Words] /\ Answered(x)')
      /\ (\A v \in sweeps : v \in Nat /\ Swept(v)')
  BY <1>3, <1>4, <1>5, <1>6
<1>. QED
  BY <1>1, <1>2, <1>4, <1>7, OneMoves

\* A call begins at the first step of its operation, having seen nothing.
LEMMA StartKeeps ==
    ASSUME Inv, ApprovalsAssumption, NEW c \in Callers, Start(c)
    PROVE  Inv'
<1>1. PICK o \in Operations : call' = [call EXCEPT ![c] = Begun(o)]
  BY DEF Start
<1>2. PICK step \in Steps : /\ o.id \in Ids /\ o.is \in Kinds /\ First[o.is] = step
                            /\ Made(Begun(o), o, step, o.id, << >>, 0, 0, 0, {}, 0)
  BY BegunMade
<1>3. PICK k : k = Begun(o)
  OBVIOUS
<1>4. Leaves(c, k) /\ Made(k, o, step, o.id, << >>, 0, 0, 0, {}, 0)
  BY <1>1, <1>2, <1>3 DEF Leaves
<1>5. Placed(k) /\ k.step \in {"authority", "receipt", "run", "load"}
      /\ (k.op.is = "consume" => k.step = "run") /\ (k.op.is = "activate" => k.step # "run")
  BY <1>2, <1>4 DEF First, Kinds, Made, Placed
<1>6. Begins(k.seen, stream[k.id])
  <2>1. stream[k.id] \in Seq(AnyFact)
    BY <1>2, <1>4 DEF Made, Inv, Shared
  <2>2. Len(stream[k.id]) \in Nat
    BY <2>1, HistoryReads
  <2>3. k.seen = << >> /\ Len(<< >>) = 0 /\ ~ \E i \in 1 .. 0 : TRUE
    BY <1>4 DEF Made
  <2>. QED
    BY <2>2, <2>3 DEF Begins
<1>7. Kept(c, k)
  <2>1. Looked(k) /\ Dated(k)
    BY <1>5 DEF Looked, Checked, Dated
  <2>2. Paused(k) /\ Minted(c, k) /\ Sweeping(k)
    BY <1>5 DEF Paused, Minted, Sweeping
  <2>. QED
    BY <1>4, <1>5, <1>6, <2>1, <2>2 DEF Kept, Made
<1>. QED
  BY <1>4, <1>7, Reads DEF Start

\* A call may end anywhere.
LEMMA AbandonKeeps ==
    ASSUME Inv, ApprovalsAssumption, NEW c \in Callers, Abandon(c)
    PROVE  Inv'
  BY Returns DEF Abandon

\* The version of the authority is remembered, and never ahead of the stream.
LEMMA ReadAuthorityKeeps ==
    ASSUME Inv, ApprovalsAssumption, NEW c \in Callers, ReadAuthority(c)
    PROVE  Inv'
<1>1. UNCHANGED <<journal, clock, payloads, swept, bounds>>
  BY DEF ReadAuthority
<1>2. CASE Return(c)
  BY <1>1, <1>2, Returns
<1>3. ASSUME NEW step, step = (IF Is(c, "stage") THEN "load" ELSE "revise"), UNCHANGED told,
             call' = [call EXCEPT ![c].authority = Len(authority), ![c].step = step]
      PROVE  Inv'
  <2>1. PICK r \in Records : r = call[c] /\ r.step = "authority" /\ Kept(c, r)
    BY Acting DEF ReadAuthority, Steps
  <2>2. step \in Steps
    BY <1>3 DEF Steps
  <2>3. PICK version \in Nat : version = Len(authority)
    BY DEF Inv, Shared
  <2>4. PICK k : /\ Leaves(c, k)
                 /\ Made(k, r.op, step, r.id, r.seen, version, r.run, r.at, r.todo, r.tries)
    BY <1>3, <2>1, <2>2, <2>3, VersionMoves DEF Inv
  <2>5. Kept(c, k)
    BY <1>3, <2>1, <2>3, <2>4
       DEF Kept, Made, Looked, Checked, Placed, Dated, Paused, Minted, Sweeping, Is
  <2>. QED
    BY <1>1, <1>3, <2>4, <2>5, Reads
<1>. QED
  BY <1>2, <1>3 DEF ReadAuthority

\* An activation that is not committed yet goes on to load the approval.
LEMMA ReadReceiptKeeps ==
    ASSUME Inv, ApprovalsAssumption, NEW c \in Callers, ReadReceipt(c)
    PROVE  Inv'
<1>1. UNCHANGED <<journal, clock, payloads, swept, bounds>>
  BY DEF ReadReceipt
<1>2. CASE Return(c)
  BY <1>1, <1>2, Returns
<1>3. CASE GoTo(c, "load")
  <2>1. PICK r \in Records : r = call[c] /\ r.step = "receipt" /\ Kept(c, r)
    BY Acting DEF ReadReceipt, Steps
  <2>2. PICK step \in Steps : step = "load"
    BY DEF Steps
  <2>3. PICK k : /\ Leaves(c, k)
                 /\ Made(k, r.op, step, r.id, r.seen, r.authority, r.run, r.at, r.todo, r.tries)
    BY <1>3, <2>1, <2>2, GoToMoves DEF Inv
  <2>4. Kept(c, k)
    BY <2>1, <2>2, <2>3
       DEF Kept, Made, Looked, Checked, Placed, Dated, Paused, Minted, Sweeping
  <2>. QED
    BY <1>1, <1>3, <2>3, <2>4, Reads DEF GoTo
<1>. QED
  BY <1>2, <1>3 DEF ReadReceipt

\* The turn was not cancelling up to the version that is remembered.
LEMMA ReadRunKeeps ==
    ASSUME Inv, ApprovalsAssumption, NEW c \in Callers, ReadRun(c)
    PROVE  Inv'
<1>1. UNCHANGED <<journal, clock, payloads, swept, bounds>>
  BY DEF ReadRun
<1>2. CASE Return(c)
  BY <1>1, <1>2, Returns
<1>3. ASSUME ~Cancelled, UNCHANGED told,
             call' = [call EXCEPT ![c].run = Len(run), ![c].step = AfterRun[call[c].op.is]]
      PROVE  Inv'
  <2>1. PICK r \in Records : r = call[c] /\ r.step = "run" /\ Kept(c, r)
    BY Acting DEF ReadRun, Steps
  <2>2. PICK step \in Steps :
           /\ step = AfterRun[r.op.is]
           /\ r.op.is = "activate" => step = "commit"
           /\ r.op.is = "consume" => step = "load"
           /\ r.op.is = "purge" => step = "cancel"
    <3>1. r.op.is \in {"activate", "consume", "purge"}
      BY <2>1 DEF Kept, Placed
    <3>2. /\ r.op.is = "activate" => AfterRun[r.op.is] = "commit"
          /\ r.op.is = "consume" => AfterRun[r.op.is] = "load"
          /\ r.op.is = "purge" => AfterRun[r.op.is] = "cancel"
      BY DEF AfterRun
    <3>3. AfterRun[r.op.is] \in Steps
      BY <3>1, <3>2 DEF Steps
    <3>. QED
      BY <3>2, <3>3
  <2>3. PICK turn \in Nat : turn = Len(run)
    BY DEF Inv, Shared
  <2>4. PICK k : /\ Leaves(c, k)
                 /\ Made(k, r.op, step, r.id, r.seen, r.authority, turn, r.at, r.todo, r.tries)
    BY <1>3, <2>1, <2>2, <2>3, TurnMoves DEF Inv
  <2>5. Paused(k)
    BY <1>3, <2>3, <2>4 DEF Paused, Cancelled, Made
  <2>6. Kept(c, k)
    BY <2>1, <2>2, <2>4, <2>5
       DEF Kept, Made, Looked, Checked, Placed, Dated, Minted, Sweeping
  <2>. QED
    BY <1>1, <1>3, <2>4, <2>6, Reads
<1>. QED
  BY <1>2, <1>3 DEF ReadRun

\* What the load leaves a call with when it goes on.
LEMMA Taking ==
    ASSUME Inv, ApprovalsAssumption, NEW c \in Callers, NEW r \in Records, r = call[c],
           r.step = "load", Kept(c, r), NEW step \in {"mint", "check", "commit"}, Take(c, step),
           step = "mint" => r.op.is = "stage" /\ stream[r.id] = << >>,
           step = "check" => /\ stream[r.id] # << >>
                             /\ r.op.is \in {"stage", "activate", "approve", "deny", "consume",
                                             "list"},
           step = "commit" => r.op.is = "invalidate" /\ Live(stream[r.id]),
           UNCHANGED <<journal, clock, payloads, swept, bounds>>
    PROVE  Inv'
<1>1. PICK s \in Seq(AnyFact) : s = stream[r.id]
  BY RecordFields DEF Inv, Shared
<1>2. step \in Steps
  BY DEF Steps
<1>3. PICK k : /\ Leaves(c, k)
               /\ Made(k, r.op, step, r.id, s, r.authority, r.run, r.at, r.todo, r.tries)
  BY <1>1, <1>2, TakeMoves DEF Inv, Take, Id
<1>4. Begins(k.seen, stream[k.id])
  BY <1>1, <1>3, HistoryReads, BeginsSelf DEF Made
<1>5. Looked(k) /\ Placed(k) /\ Dated(k)
  BY <1>1, <1>3 DEF Made, Looked, Checked, Placed, Dated
<1>6. Paused(k) /\ Minted(c, k) /\ Sweeping(k)
  BY <1>1, <1>3 DEF Kept, Made, Paused, Minted, Sweeping
<1>. QED
  BY <1>3, <1>4, <1>5, <1>6, Reads DEF Kept, Made, Take

\* What is loaded is a beginning of the stream, and what is answered at once is so.
LEMMA LoadKeeps ==
    ASSUME Inv, ApprovalsAssumption, NEW c \in Callers, Load(c)
    PROVE  Inv'
<1>1. UNCHANGED <<journal, clock, payloads, swept, bounds>>
  BY DEF Load
<1>2. PICK r \in Records : r = call[c] /\ r.step = "load" /\ Kept(c, r)
  BY Acting DEF Load, Steps
<1>3. PICK s : s = stream[r.id] /\ Id(c) = r.id /\ s = stream[Id(c)]
  BY <1>2 DEF Id
<1>. DEFINE taken(step) ==
               /\ step = "mint" => r.op.is = "stage" /\ stream[r.id] = << >>
               /\ step = "check" => /\ stream[r.id] # << >>
                                    /\ r.op.is \in {"stage", "activate", "approve", "deny",
                                                    "consume", "list"}
               /\ step = "commit" => r.op.is = "invalidate" /\ Live(stream[r.id])
<1>4. ASSUME NEW step \in {"mint", "check", "commit"}, Take(c, step), taken(step)
      PROVE  Inv'
  BY <1>1, <1>2, <1>4, Taking
<1>5. CASE Return(c)
  BY <1>1, <1>5, Returns
<1>6. ASSUME NEW what \in Words, Reply(c, what),
             \A t : t = [id |-> Id(c), what |-> what] => Answered(t)
      PROVE  Inv'
  BY <1>1, <1>2, <1>6, Replies
<1>7. Foldable(s) => s # << >>
  BY DEF Foldable
<1>8. \/ Take(c, "mint") /\ taken("mint")
      \/ Take(c, "check") /\ taken("check")
      \/ Take(c, "commit") /\ taken("commit")
      \/ Return(c)
      \/ Reply(c, "invalidated") /\ s # << >> /\ StateOf(s) = "cancelled"
      \/ \E what : Reply(c, what) /\ what \in {"approve", "deny"} /\ Decision(s) = what
  BY <1>2, <1>3, <1>7 DEF Load, Is
<1>9. CASE Reply(c, "invalidated") /\ s # << >> /\ StateOf(s) = "cancelled"
  <2>1. PICK what : what = "invalidated"
    OBVIOUS
  <2>2. \A t : t = [id |-> Id(c), what |-> what] => Answered(t)
    BY <1>3, <1>9, <2>1 DEF Answered
  <2>. QED
    BY <1>6, <1>9, <2>1, <2>2 DEF Words
<1>10. ASSUME NEW what, Reply(c, what), what \in {"approve", "deny"}, Decision(s) = what
       PROVE  Inv'
  <2>2. \A t : t = [id |-> Id(c), what |-> what] => Answered(t)
    BY <1>3, <1>10 DEF Answered
  <2>. QED
    BY <1>6, <1>10, <2>2 DEF Words
<1>. HIDE DEF taken
<1>. QED
  BY <1>4, <1>5, <1>8, <1>9, <1>10

\* A call that passes the check is dated within the life of the approval.
LEMMA CheckKeeps ==
    ASSUME Inv, ApprovalsAssumption, NEW c \in Callers, Check(c)
    PROVE  Inv'
<1>1. UNCHANGED <<journal, clock, payloads, swept, bounds>>
  BY DEF Check
<1>2. PICK r \in Records : r = call[c] /\ r.step = "check" /\ Kept(c, r)
  BY Acting DEF Check, Steps
<1>3. PICK s : s = r.seen /\ s = Seen(c)
  BY <1>2 DEF Seen
<1>4. CASE Return(c)
  BY <1>1, <1>4, Returns
<1>5. CASE Live(s) /\ GoTo(c, "expire")
  <2>1. PICK step \in Steps : step = "expire"
    BY DEF Steps
  <2>2. PICK k : /\ Leaves(c, k)
                 /\ Made(k, r.op, step, r.id, r.seen, r.authority, r.run, r.at, r.todo, r.tries)
    BY <1>2, <1>5, <2>1, GoToMoves DEF Inv
  <2>3. Looked(k) /\ Placed(k) /\ Dated(k)
    BY <1>2, <1>3, <1>5, <2>1, <2>2 DEF Made, Looked, Checked, Placed, Dated
  <2>4. Begins(k.seen, stream[k.id]) /\ Paused(k) /\ Minted(c, k) /\ Sweeping(k)
    BY <1>2, <2>1, <2>2 DEF Kept, Made, Paused, Minted, Sweeping
  <2>. QED
    BY <1>1, <1>5, <2>2, <2>3, <2>4, Reads DEF Kept, Made, GoTo
<1>6. ASSUME Live(s), ~(clock < TimeOf(s) \/ clock >= Expiry(s)),
             StateOf(s) \in From[call[c].op.is], UNCHANGED told,
             call' = [call EXCEPT ![c].step = Onward[call[c].op.is], ![c].at = clock]
      PROVE  Inv'
  <2>1. r.op.is \in {"stage", "activate", "approve", "deny", "consume"}
    BY <1>2, <1>6 DEF Kept, Placed, From
  <2>2. PICK step \in Steps :
           /\ step = Onward[r.op.is]
           /\ r.op.is = "stage" => step = "material"
           /\ r.op.is \in {"activate", "approve", "consume"} => step = "bound"
           /\ r.op.is = "deny" => step = "commit"
    BY <2>1 DEF Onward, Steps
  <2>3. PICK at \in Nat : at = clock
    BY DEF Inv, Shared
  <2>4. PICK k : /\ Leaves(c, k)
                 /\ Made(k, r.op, step, r.id, r.seen, r.authority, r.run, at, r.todo, r.tries)
    BY <1>2, <1>6, <2>2, <2>3, DateMoves DEF Inv
  <2>5. TimeOf(s) \in Nat /\ Expiry(s) \in Nat
    <3>1. s \in Seq(AnyFact) /\ s # << >>
      BY <1>2, <1>3, <1>6, RecordFields DEF Live
    <3>2. TimeOf(s) \in Nat /\ s[1].at \in Nat
      BY <3>1, HistoryReads
    <3>. QED
      BY <3>2 DEF Expiry, ApprovalsAssumption
  <2>6. TimeOf(k.seen) <= k.at /\ k.at < Expiry(k.seen) /\ k.at <= clock
    <3>1. PICK now, last, due \in Nat : now = clock /\ last = TimeOf(s) /\ due = Expiry(s)
      BY <2>3, <2>5
    <3>2. ~(now < last) /\ ~(now >= due)
      BY <1>6, <3>1
    <3>3. last <= now /\ now < due /\ now <= now
      BY <3>2
    <3>4. k.seen = s /\ k.at = now
      BY <1>3, <2>3, <2>4, <3>1 DEF Made
    <3>. QED
      BY <3>1, <3>3, <3>4
  <2>7. Dated(k)
    BY <2>6 DEF Dated
  <2>8. Looked(k) /\ Placed(k)
    BY <1>2, <1>3, <1>6, <2>1, <2>2, <2>4 DEF Made, Looked, Checked, Placed, Live
  <2>9. Begins(k.seen, stream[k.id]) /\ Paused(k) /\ Minted(c, k) /\ Sweeping(k)
    BY <1>2, <2>1, <2>2, <2>4 DEF Kept, Made, Paused, Minted, Sweeping
  <2>. QED
    BY <1>1, <1>6, <2>4, <2>7, <2>8, <2>9, Reads DEF Kept, Made
<1>. QED
  BY <1>3, <1>4, <1>5, <1>6 DEF Check

\* The authority is only compared here; the commit compares it again.
LEMMA CheckAuthorityKeeps ==
    ASSUME Inv, ApprovalsAssumption, NEW c \in Callers, CheckAuthority(c)
    PROVE  Inv'
<1>1. UNCHANGED <<journal, clock, payloads, swept, bounds>>
  BY DEF CheckAuthority
<1>2. CASE Return(c)
  BY <1>1, <1>2, Returns
<1>3. CASE GoTo(c, "material")
  <2>1. PICK r \in Records : r = call[c] /\ r.step = "bound" /\ Kept(c, r)
    BY Acting DEF CheckAuthority, Steps
  <2>2. PICK step \in Steps : step = "material"
    BY DEF Steps
  <2>3. PICK k : /\ Leaves(c, k)
                 /\ Made(k, r.op, step, r.id, r.seen, r.authority, r.run, r.at, r.todo, r.tries)
    BY <1>3, <2>1, <2>2, GoToMoves DEF Inv
  <2>4. Looked(k) /\ Placed(k) /\ Dated(k)
    BY <2>1, <2>2, <2>3 DEF Kept, Made, Looked, Checked, Placed, Dated
  <2>5. Begins(k.seen, stream[k.id]) /\ Paused(k) /\ Minted(c, k) /\ Sweeping(k)
    BY <2>1, <2>2, <2>3 DEF Kept, Made, Placed, Paused, Minted, Sweeping
  <2>. QED
    BY <1>1, <1>3, <2>3, <2>4, <2>5, Reads DEF Kept, Made, GoTo
<1>. QED
  BY <1>2, <1>3 DEF CheckAuthority

\* No stream that is left out of a sweep is live.
LEMMA CollectKeeps ==
    ASSUME Inv, ApprovalsAssumption, NEW c \in Callers, Collect(c)
    PROVE  Inv'
<1>1. PICK r \in Records : r = call[c] /\ r.step = "collect" /\ Kept(c, r)
  BY Acting DEF Collect, Steps
<1>2. PICK todo \in SUBSET Ids : todo = { id \in Ids : stream[id] # << >> }
  OBVIOUS
<1>3. PICK step \in Steps : step = "sweep"
  BY DEF Steps
<1>4. PICK k : /\ Leaves(c, k)
               /\ Made(k, r.op, step, r.id, r.seen, r.authority, r.run, r.at, todo, r.tries)
  BY <1>1, <1>2, <1>3, CollectMoves DEF Inv, Collect
<1>5. Looked(k) /\ Placed(k) /\ Dated(k)
  BY <1>1, <1>3, <1>4 DEF Kept, Made, Looked, Checked, Placed, Dated
<1>6. Begins(k.seen, stream[k.id]) /\ Paused(k) /\ Minted(c, k)
  BY <1>1, <1>3, <1>4 DEF Kept, Made, Placed, Paused, Minted
<1>7. Sweeping(k)
  BY <1>1, <1>2, <1>3, <1>4 DEF Kept, Made, Sweeping, Live
<1>. QED
  BY <1>4, <1>5, <1>6, <1>7, Reads DEF Kept, Made, Collect

------------------------------------------------------------------------------
(* The payloads                                                              *)

\* A step that tells nobody anything.
LEMMA Silent ==
    ASSUME Inv, ApprovalsAssumption, NEW c \in Callers, World(c), UNCHANGED <<told, swept>>,
           NEW k, Leaves(c, k), k = Idle \/ Kept(c, k)' \/ (Kept(c, k) /\ ~Staging(k))
    PROVE  Inv'
<1>1. k = Idle \/ Kept(c, k)'
  BY CarryKept
<1>2. PICK none : none = {}
  OBVIOUS
<1>3. told' = told \cup none /\ swept' = swept \cup none /\ ~ \E t \in none : TRUE
  BY <1>2
<1>. QED
  BY <1>1, <1>3, OneMoves

\* Payloads are dropped within the capacity.
LEMMA FewerPayloads ==
    ASSUME Inv, ApprovalsAssumption, payloads' \in SUBSET payloads
    PROVE  IsFiniteSet(payloads') /\ Cardinality(payloads') <= Capacity
<1>1. IsFiniteSet(payloads) /\ Cardinality(payloads) <= Capacity /\ Capacity \in Nat
  BY DEF Inv, Shared, ApprovalsAssumption
<1>2. /\ IsFiniteSet(payloads') /\ Cardinality(payloads') <= Cardinality(payloads)
      /\ Cardinality(payloads) \in Nat /\ Cardinality(payloads') \in Nat
  BY <1>1, FS_Subset, FS_CardinalityType
<1>. QED
  BY <1>1, <1>2

\* Payloads may be forgotten once they have expired.
LEMMA Forgets ==
    ASSUME Inv, ApprovalsAssumption, NEW c, UNCHANGED <<journal, clock, bounds>>,
           payloads' = payloads \/ payloads' = Unexpired
    PROVE  World(c)
<1>1. Begins(run, run)
  BY BeginsSelf DEF Inv, Shared
<1>2. Len(authority) \in Nat /\ clock \in Nat
  BY DEF Inv, Shared
<1>3. payloads' \in SUBSET payloads
  BY DEF Unexpired
<1>4. IsFiniteSet(payloads') /\ Cardinality(payloads') <= Capacity
  BY <1>3, FewerPayloads
<1>5. Shared'
  BY <1>3, <1>4 DEF Inv, Shared, journal, bounds
<1>6. ASSUME NEW p \in payloads, p \notin payloads'
      PROVE  p.expires <= clock
  <2>1. p.expires \in Nat
    BY DEF Inv, Shared
  <2>2. ~(p.expires > clock)
    BY <1>6 DEF Unexpired
  <2>. QED
    BY <1>2, <2>1, <2>2
<1>. QED
  BY <1>1, <1>2, <1>5, <1>6 DEF World, Grows, GivenUp, journal, bounds

\* Only what has expired is forgotten, and a challenge that is answered is kept.
LEMMA TakeMaterialKeeps ==
    ASSUME Inv, ApprovalsAssumption, NEW c \in Callers, TakeMaterial(c)
    PROVE  Inv'
<1>1. UNCHANGED <<journal, clock, swept, bounds>>
  BY DEF TakeMaterial
<1>2. payloads' = (IF Id(c) \in Volatile THEN Unexpired ELSE payloads)
  BY DEF TakeMaterial
<1>3. World(c)
  BY <1>1, <1>2, Forgets
<1>4. PICK r \in Records : r = call[c] /\ r.step = "material" /\ Kept(c, r)
  BY Acting DEF TakeMaterial, Steps
<1>5. r.op.is \in {"stage", "activate", "approve", "consume"} /\ r.seen \in Seq(AnyFact)
      /\ r.seen # << >> /\ Id(c) = r.id /\ r.id \in Ids /\ r.at \in Nat
  BY <1>4, RecordFields DEF Kept, Placed, Looked, Checked, Id
<1>6. TimeOf(r.seen) \in Nat /\ TimeOf(r.seen) <= r.at /\ r.at < Expiry(r.seen)
      /\ (rollbacks = 0 => r.at <= clock)
  BY <1>4, <1>5, HistoryReads DEF Kept, Dated
<1>7. CASE Return(c)
  <2>1. PICK k : k = Idle /\ Leaves(c, k)
    BY <1>7 DEF Return, Leaves
  <2>. QED
    BY <1>1, <1>3, <1>7, <2>1, Silent DEF Return
<1>8. CASE Reply(c, "challenge") /\ (Id(c) \in Volatile => PayloadOf(Id(c)) \in Unexpired)
  <2>1. PICK k : k = Idle /\ Leaves(c, k)
    BY <1>8 DEF Reply, Leaves
  <2>2. PICK t : t = [id |-> Id(c), what |-> "challenge"]
    OBVIOUS
  <2>3. stream[r.id] # << >>
    <3>1. stream[r.id] \in Seq(AnyFact)
      BY <1>5 DEF Inv, Shared
    <3>2. PICK m, n \in Nat : m = Len(r.seen) /\ n = Len(stream[r.id]) /\ m # 0
      BY <1>5, <3>1, HistoryReads
    <3>3. m <= n /\ m # 0
      BY <1>4, <3>2 DEF Kept, Begins
    <3>4. n # 0
      BY <3>3
    <3>. QED
      BY <3>1, <3>2, <3>4, HistoryReads
  <2>4. t.id = r.id /\ t.what = "challenge" /\ t \in [id: Ids, what: Words]
    BY <1>5, <2>2 DEF Words
  <2>5. (r.id \in Volatile => PayloadOf(r.id)' \in payloads') /\ stream' = stream
    BY <1>1, <1>2, <1>5, <1>8 DEF PayloadOf, Payload, Expiry, journal
  <2>6. Answered(t)'
    BY <2>3, <2>4, <2>5 DEF Answered
  <2>7. PICK answers, sweeps : answers = {t} /\ sweeps = {}
    OBVIOUS
  <2>8. told' = told \cup answers /\ swept' = swept \cup sweeps /\ ~ \E v \in sweeps : TRUE
    BY <1>1, <1>8, <2>2, <2>7 DEF Reply
  <2>. QED
    BY <1>3, <2>1, <2>4, <2>6, <2>7, <2>8, OneMoves
<1>9. CASE Is(c, "approve") /\ GoTo(c, "commit")
  <2>1. PICK step \in Steps : step = "commit"
    BY DEF Steps
  <2>2. PICK k : /\ Leaves(c, k)
                 /\ Made(k, r.op, step, r.id, r.seen, r.authority, r.run, r.at, r.todo, r.tries)
    BY <1>4, <1>9, <2>1, GoToMoves DEF Inv
  <2>3. k.op.is = "approve" /\ k.step = "commit" /\ k.seen = r.seen /\ k.at = r.at /\ k.op = r.op
    BY <1>4, <1>9, <2>1, <2>2 DEF Made, Is
  <2>4. Looked(k) /\ Placed(k) /\ Dated(k)
    BY <1>4, <1>5, <1>6, <2>3 DEF Kept, Looked, Checked, Placed, Dated
  <2>5. Begins(k.seen, stream[k.id]) /\ Paused(k) /\ Minted(c, k) /\ Sweeping(k) /\ ~Staging(k)
    BY <1>4, <2>2, <2>3 DEF Kept, Made, Paused, Minted, Sweeping, Staging
  <2>. QED
    BY <1>1, <1>3, <1>9, <2>2, <2>4, <2>5, Silent DEF Kept, Made, GoTo
<1>10. ASSUME NEW step \in Steps, UNCHANGED told,
              call' = [call EXCEPT ![c].step = step, ![c].at = clock],
              \/ r.op.is = "activate" /\ step = "run"
              \/ r.op.is = "consume" /\ step = "commit" /\ clock < Expiry(r.seen)
       PROVE  Inv'
  <2>1. PICK at \in Nat : at = clock
    BY DEF Inv, Shared
  <2>2. PICK k : /\ Leaves(c, k)
                 /\ Made(k, r.op, step, r.id, r.seen, r.authority, r.run, at, r.todo, r.tries)
    BY <1>4, <1>10, <2>1, DateMoves DEF Inv
  <2>3. rollbacks = 0 => TimeOf(r.seen) <= at
    <3>1. PICK i, j \in Nat : i = TimeOf(r.seen) /\ j = r.at
      BY <1>5, <1>6
    <3>2. i <= j /\ (rollbacks = 0 => j <= at)
      BY <1>6, <2>1, <3>1
    <3>. QED
      BY <3>1, <3>2
  <2>4. Looked(k) /\ Placed(k)
    BY <1>4, <1>10, <2>2 DEF Kept, Made, Looked, Checked, Placed
  <2>5. Dated(k)
    BY <1>10, <2>1, <2>2, <2>3 DEF Made, Checked, Dated
  <2>6. Begins(k.seen, stream[k.id]) /\ Paused(k) /\ Minted(c, k) /\ Sweeping(k) /\ ~Staging(k)
    BY <1>4, <1>10, <2>2 DEF Kept, Made, Paused, Minted, Sweeping, Staging
  <2>. QED
    BY <1>1, <1>3, <1>10, <2>2, <2>4, <2>5, <2>6, Silent DEF Kept, Made
<1>. QED
  <2>1. Is(c, "activate") <=> r.op.is = "activate"
    BY <1>4 DEF Is
  <2>2. Is(c, "consume") <=> r.op.is = "consume"
    BY <1>4 DEF Is
  <2>3. Seen(c) = r.seen
    BY <1>4 DEF Seen
  <2>4. "run" \in Steps /\ "commit" \in Steps
    BY DEF Steps
  <2>. QED
    BY <1>7, <1>8, <1>9, <1>10, <2>1, <2>2, <2>3, <2>4 DEF TakeMaterial

\* A payload is kept before its approval is staged, and only while there is room.
LEMMA MintKeeps ==
    ASSUME Inv, ApprovalsAssumption, NEW c \in Callers, Mint(c)
    PROVE  Inv'
<1>1. UNCHANGED <<journal, clock, swept, bounds>>
  BY DEF Mint
<1>2. PICK r \in Records : r = call[c] /\ r.step = "mint" /\ Kept(c, r)
  BY Acting DEF Mint, Steps
<1>3. Id(c) = r.id /\ r.id \in Ids /\ r.op.is = "stage" /\ clock \in Nat /\ TTL \in Nat
  BY <1>2, RecordFields DEF Kept, Placed, Id, Inv, Shared, ApprovalsAssumption
<1>4. CASE Return(c) /\ payloads' \in {payloads, Unexpired}
  <2>1. PICK k : k = Idle /\ Leaves(c, k)
    BY <1>4 DEF Return, Leaves
  <2>2. World(c)
    BY <1>1, <1>4, Forgets
  <2>. QED
    BY <1>1, <1>4, <2>1, <2>2, Silent DEF Return
<1>5. ASSUME UNCHANGED told, call' = [call EXCEPT ![c].step = "commit", ![c].at = clock],
             NEW p, p = Payload(r.id, c, clock + TTL),
             \/ r.id \notin Volatile /\ payloads' = payloads
             \/ Cardinality(Unexpired) < Capacity /\ payloads' = Unexpired \cup {p}
      PROVE  Inv'
  <2>1. PICK step \in Steps, at \in Nat : step = "commit" /\ at = clock
    BY <1>3 DEF Steps
  <2>2. PICK k : /\ Leaves(c, k)
                 /\ Made(k, r.op, step, r.id, r.seen, r.authority, r.run, at, r.todo, r.tries)
    BY <1>2, <1>5, <2>1, DateMoves DEF Inv
  <2>3. Begins(run, run) /\ Len(authority) \in Nat
    BY BeginsSelf DEF Inv, Shared
  <2>4. /\ Shared'
        /\ \A q \in payloads : q \in payloads' \/ q.expires <= clock
    <3>1. IsFiniteSet(payloads) /\ Cardinality(payloads) <= Capacity /\ Capacity \in Nat
          /\ payloads \subseteq [id: Ids, nonce: Callers, expires: Nat]
      BY DEF Inv, Shared, ApprovalsAssumption
    <3>2. IsFiniteSet(Unexpired) /\ Cardinality(Unexpired) \in Nat
      <4>1. Unexpired \in SUBSET payloads
        BY DEF Unexpired
      <4>. QED
        BY <3>1, <4>1, FS_Subset, FS_CardinalityType
    <3>3. IsFiniteSet(payloads') /\ Cardinality(payloads') <= Capacity
      <4>1. CASE payloads' = payloads
        BY <3>1, <4>1
      <4>2. CASE Cardinality(Unexpired) < Capacity /\ payloads' = Unexpired \cup {p}
        <5>1. /\ IsFiniteSet(payloads')
              /\ Cardinality(payloads') \in {Cardinality(Unexpired), Cardinality(Unexpired) + 1}
          BY <3>2, <4>2, FS_AddElement
        <5>. QED
          BY <3>1, <3>2, <4>2, <5>1
      <4>. QED
        BY <1>5, <4>1, <4>2
    <3>4. p \in [id: Ids, nonce: Callers, expires: Nat]
      BY <1>3, <1>5 DEF Payload
    <3>5. payloads' \subseteq [id: Ids, nonce: Callers, expires: Nat]
      BY <1>5, <3>1, <3>4 DEF Unexpired
    <3>6. \A q \in payloads : q \in payloads' \/ q.expires <= clock
      <4>1. \A q \in payloads : q.expires \in Nat
        BY <3>1
      <4>. QED
        BY <1>3, <1>5, <4>1 DEF Unexpired
    <3>. QED
      BY <1>1, <3>3, <3>5, <3>6 DEF Inv, Shared, journal, bounds
  <2>5. World(c)
    BY <1>1, <1>3, <2>3, <2>4 DEF World, Grows, GivenUp, journal, bounds
  <2>6. Looked(k) /\ Placed(k)
    BY <1>2, <1>3, <2>1, <2>2 DEF Kept, Made, Looked, Checked, Placed
  <2>7. Dated(k)' /\ Paused(k)' /\ Sweeping(k)'
    BY <1>2, <1>3, <2>1, <2>2 DEF Made, Checked, Dated, Paused, Sweeping
  <2>8. Minted(c, k)'
    BY <1>1, <1>2, <1>3, <1>5, <2>1, <2>2 DEF Kept, Made, Minted, journal
  <2>9. Begins(k.seen, stream[k.id])'
    BY <1>1, <1>2, <2>2 DEF Kept, Made, journal, Begins
  <2>10. Kept(c, k)'
    BY <2>2, <2>6, <2>7, <2>8, <2>9 DEF Kept, Made, Looked, Placed
  <2>. QED
    BY <1>1, <1>5, <2>2, <2>5, <2>10, Silent
<1>6. \/ Return(c) /\ payloads' \in {payloads, Unexpired}
      \/ /\ UNCHANGED told /\ call' = [call EXCEPT ![c].step = "commit", ![c].at = clock]
         /\ \/ r.id \notin Volatile /\ payloads' = payloads
            \/ /\ ~(Cardinality(Unexpired) >= Capacity)
               /\ payloads' = Unexpired \cup {Payload(r.id, c, clock + TTL)}
  BY <1>3 DEF Mint
<1>7. ~(Cardinality(Unexpired) >= Capacity) => Cardinality(Unexpired) < Capacity
  <2>1. Unexpired \in SUBSET payloads /\ IsFiniteSet(payloads)
    BY DEF Unexpired, Inv, Shared
  <2>2. Cardinality(Unexpired) \in Nat /\ Capacity \in Nat
    BY <2>1, FS_Subset, FS_CardinalityType DEF ApprovalsAssumption
  <2>. QED
    BY <2>2
<1>. QED
  BY <1>4, <1>5, <1>6, <1>7

------------------------------------------------------------------------------
(* The sweep                                                                 *)

\* A sweep passes over nothing live, and is done when nothing is left.
LEMMA SweepKeeps ==
    ASSUME Inv, ApprovalsAssumption, NEW c \in Callers, Sweep(c)
    PROVE  Inv'
<1>1. UNCHANGED <<journal, clock, payloads, bounds>>
  BY DEF Sweep
<1>2. PICK r \in Records : r = call[c] /\ r.step = "sweep" /\ Kept(c, r)
  BY Acting DEF Sweep, Steps
<1>3. Id(c) = r.id /\ r.id \in Ids /\ r.todo \in SUBSET Ids /\ r.authority \in Nat
  BY <1>2, RecordFields DEF Id
<1>4. World(c)
  BY <1>1, Still
<1>5. CASE Return(c) /\ UNCHANGED swept
  BY <1>1, <1>5, Returns
<1>6. CASE r.todo = {} /\ Return(c) /\ Is(c, "sync") /\ swept' = swept \cup {r.authority}
  <2>1. PICK k : k = Idle /\ Leaves(c, k)
    BY <1>6 DEF Return, Leaves
  <2>2. Swept(r.authority)
    BY <1>2, <1>3, <1>6 DEF Kept, Sweeping, Swept, Is
  <2>3. Swept(r.authority)'
    BY <1>1, <2>2 DEF Swept, journal
  <2>4. PICK answers, sweeps : answers = {} /\ sweeps = {r.authority}
    OBVIOUS
  <2>5. PICK v : v = r.authority
    OBVIOUS
  <2>6. /\ told' = told \cup answers /\ ~ \E t \in answers : TRUE
        /\ swept' = swept \cup sweeps /\ \A w \in sweeps : w = v
    BY <1>6, <2>4, <2>5 DEF Return
  <2>7. v \in Nat /\ Swept(v)'
    BY <1>3, <2>3, <2>5
  <2>8. \A w \in sweeps : w \in Nat /\ Swept(w)'
    BY <2>6, <2>7
  <2>. QED
    BY <1>4, <2>1, <2>6, <2>8, OneMoves
<1>7. ASSUME NEW id \in Ids, Foldable(stream[id]), ~Live(stream[id]), Forward(c, id),
             UNCHANGED swept
      PROVE  Inv'
  <2>1. PICK todo \in SUBSET Ids : todo = r.todo \ {id}
    <3>1. r.todo \ {id} \in SUBSET Ids
      BY <1>3
    <3>. QED
      BY <3>1
  <2>0. PICK tries \in 0 .. Tries : tries = 0
    BY DEF ApprovalsAssumption
  <2>2. call' = [call EXCEPT ![c].todo = todo, ![c].tries = tries]
    BY <1>2, <1>7, <2>0, <2>1 DEF Forward
  <2>3. PICK k : /\ Leaves(c, k)
                 /\ Made(k, r.op, r.step, r.id, r.seen, r.authority, r.run, r.at, todo, tries)
    BY <1>2, <2>2, ForwardMoves DEF Inv
  <2>4. Looked(k) /\ Placed(k) /\ Dated(k)
    BY <1>2, <2>3 DEF Kept, Made, Looked, Checked, Placed, Dated
  <2>5. Begins(k.seen, stream[k.id]) /\ Paused(k) /\ Minted(c, k)
    BY <1>2, <2>3 DEF Kept, Made, Paused, Minted
  <2>6. Sweeping(k)
    BY <1>2, <1>7, <2>1, <2>3 DEF Kept, Made, Sweeping
  <2>7. Kept(c, k) /\ ~Staging(k)
    BY <1>2, <2>3, <2>4, <2>5, <2>6 DEF Kept, Made, Staging
  <2>8. Kept(c, k)'
    BY <1>4, <2>7, CarryKept
  <2>9. PICK t : t = [id |-> id, what |-> "void"]
    OBVIOUS
  <2>10. t \in [id: Ids, what: Words]
    BY <2>9 DEF Words
  <2>11. Answered(t)'
    BY <1>1, <1>7, <2>9 DEF Answered, Foldable, journal
  <2>12. PICK answers, sweeps : answers = {t} /\ sweeps = {}
    OBVIOUS
  <2>13. told' = told \cup answers /\ swept' = swept \cup sweeps /\ ~ \E v \in sweeps : TRUE
    BY <1>7, <2>9, <2>12 DEF Forward
  <2>. QED
    BY <1>4, <2>3, <2>8, <2>10, <2>11, <2>12, <2>13, OneMoves
<1>8. ASSUME NEW id \in Ids, Live(stream[id]), r.tries < Tries, Try(c, id), UNCHANGED swept
      PROVE  Inv'
  <2>1. PICK s \in Seq(AnyFact) : s = stream[id]
    BY DEF Inv, Shared
  <2>2. PICK step \in Steps : step = "withdraw"
    BY DEF Steps
  <2>3. PICK k : /\ Leaves(c, k)
                 /\ Made(k, r.op, step, id, s, r.authority, r.run, r.at, r.todo, r.tries)
    BY <1>2, <1>8, <2>1, <2>2, TryMoves DEF Inv, Try
  <2>4. Looked(k) /\ Placed(k) /\ Dated(k)
    BY <1>2, <1>8, <2>1, <2>2, <2>3 DEF Kept, Made, Looked, Checked, Placed, Dated
  <2>5. Paused(k) /\ Minted(c, k) /\ Sweeping(k)
    BY <1>2, <2>2, <2>3 DEF Kept, Made, Placed, Paused, Minted, Sweeping
  <2>6. Begins(k.seen, stream[k.id])
    BY <2>1, <2>3, HistoryReads, BeginsSelf DEF Made
  <2>. QED
    BY <1>1, <1>8, <2>3, <2>4, <2>5, <2>6, Reads DEF Kept, Made, Try
<1>9. \/ Return(c) /\ UNCHANGED swept
      \/ r.todo = {} /\ Return(c) /\ Is(c, "sync") /\ swept' = swept \cup {r.authority}
      \/ \E id \in Candidates(c) :
            /\ UNCHANGED swept
            /\ \/ Return(c)
               \/ Foldable(stream[id]) /\ ~Live(stream[id]) /\ Forward(c, id)
               \/ Live(stream[id]) /\ r.tries < Tries /\ Try(c, id)
  BY <1>2 DEF Sweep
<1>10. Candidates(c) \subseteq Ids
  BY <1>2, <1>3 DEF Candidates
<1>. QED
  BY <1>5, <1>6, <1>7, <1>8, <1>9, <1>10

------------------------------------------------------------------------------
(* What is written                                                           *)

\* Writing a fact that follows.
LEMMA WritesWorld ==
    ASSUME Inv, ApprovalsAssumption, NEW c, NEW id \in Ids, NEW e, Follows(stream[id], e),
           rollbacks = 0 => Timely(stream[id], e),
           stream[id] = << >> => e.authority = Len(authority) /\ e.nonce = c,
           stream' = [stream EXCEPT ![id] = Append(@, e)],
           run' \in {run, Append(run, "awaiting")},
           UNCHANGED <<authority, clock, rollbacks>>,
           payloads' \in SUBSET payloads,
           \A p \in payloads : p \in payloads' \/ GivenUp(c, p)
    PROVE  World(c)
<1>1. e \in AnyFact /\ stream[id] \in Seq(AnyFact)
  BY DEF Follows, Inv, Shared
<1>2. PICK t \in Seq(AnyFact) : t = Append(stream[id], e)
  BY <1>1, Appended
<1>3. stream' = [stream EXCEPT ![id] = t]
  BY <1>2
<1>4. stream' \in [Ids -> Seq(AnyFact)]
  <2>. HIDE DEF AnyFact
  <2>. QED
    BY <1>3 DEF Inv, Shared
<1>5. stream \in [Ids -> Seq(AnyFact)]
  BY DEF Inv, Shared
<1>6. \A i \in Ids : Grows(c, stream[i], stream'[i])
  <2>. HIDE DEF AnyFact
  <2>. QED
    BY <1>2, <1>3, <1>5 DEF Grows
<1>7. run' \in Seq({"prompt", "awaiting", "cancelling"}) /\ Begins(run, run')
  <2>. DEFINE K == {"prompt", "awaiting", "cancelling"}
  <2>1. run \in Seq(K) /\ "awaiting" \in K
    BY DEF Inv, Shared
  <2>. HIDE DEF K
  <2>2. run' \in Seq(K) /\ Begins(run, run')
    <3>1. CASE run' = run
      BY <2>1, <3>1, BeginsSelf
    <3>2. CASE run' = Append(run, "awaiting")
      BY <2>1, <3>2, AppendBegins
    <3>. QED
      BY <3>1, <3>2
  <2>. QED
    BY <2>2 DEF K
<1>8. IsFiniteSet(payloads') /\ Cardinality(payloads') <= Capacity
  BY FewerPayloads
<1>9. Shared'
  BY <1>4, <1>7, <1>8 DEF Inv, Shared
<1>. QED
  BY <1>6, <1>7, <1>9 DEF World, Inv, Shared

\* The stream a call commits on is the one it has seen.
LEMMA Unmoving ==
    ASSUME Inv, NEW c \in Callers, NEW r \in Records, r = call[c], Kept(c, r), Unmoved(c)
    PROVE  stream[r.id] = r.seen
<1>1. r.seen \in Seq(AnyFact) /\ stream[r.id] \in Seq(AnyFact)
  BY RecordFields DEF Inv, Shared
<1>2. Begins(r.seen, stream[r.id]) /\ Len(stream[r.id]) = Len(r.seen)
  BY DEF Kept, Unmoved, Id, Seen
<1>. HIDE DEF AnyFact
<1>. QED
  BY <1>1, <1>2, BeginsWhole

\* The later of two times.
LEMMA LaterTime ==
    ASSUME NEW a \in Nat, NEW b \in Nat
    PROVE  Max2(a, b) \in Nat /\ b <= Max2(a, b)
  BY DEF Max2

\* A withdrawal may follow whatever is live.
LEMMA Withdrawal ==
    ASSUME NEW s \in Seq(AnyFact), Live(s), clock \in Nat, NEW state \in {"expired", "cancelled"},
           NEW e, e = Entry(state, Max2(clock, TimeOf(s)))
    PROVE  s # << >> /\ Follows(s, e) /\ Timely(s, e) /\ e.state = state
<1>1. s # << >> /\ TimeOf(s) \in Nat /\ StateOf(s) \in Alive
  BY HistoryReads DEF Live
<1>2. PICK last, at \in Nat : last = TimeOf(s) /\ at = Max2(clock, TimeOf(s)) /\ last <= at
  BY <1>1, LaterTime
<1>3. e.state = state /\ e.at = at
  BY <1>2 DEF Entry
<1>4. e \in AnyFact
  BY <1>2 DEF Entry, AnyFact, Alive, Terminal
<1>5. <<StateOf(s), state>> \in Transitions
  BY <1>1 DEF Transitions
<1>. QED
  BY <1>1, <1>2, <1>3, <1>4, <1>5 DEF Follows, Timely

\* What a call writes can follow what it has seen.
LEMMA Committing ==
    ASSUME Inv, ApprovalsAssumption, NEW c \in Callers, NEW r \in Records, r = call[c],
           r.step = "commit", Kept(c, r), Holds(c), NEW s, s = stream[r.id], NEW e, e = Fact(c)
    PROVE  /\ s = r.seen /\ s \in Seq(AnyFact) /\ Lawful(s) /\ Follows(s, e)
           /\ rollbacks = 0 => Timely(s, e)
           /\ s = << >> => e.authority = Len(authority) /\ e.nonce = c
           /\ r.op.is = "stage" => s = << >> /\ e.state = "staged" /\ e.at = r.at
           /\ r.op.is # "stage" => s # << >>
           /\ r.op.is = "invalidate" => e.state = "cancelled"
           /\ r.op.is = "activate" => e.state = "active"
           /\ r.op.is = "approve" => e.state = "approved"
           /\ r.op.is = "deny" => e.state = "denied"
           /\ r.op.is = "consume" => e.state = "consumed"
<1>1. /\ s = r.seen /\ s \in Seq(AnyFact) /\ r.at \in Nat /\ clock \in Nat /\ r.authority \in Nat
      /\ Lawful(s)
  BY Unmoving, RecordFields DEF Holds, Inv, Shared, History
<1>2. r.op.is \in {"stage", "activate", "approve", "deny", "consume", "invalidate"}
  BY DEF Kept, Placed
<1>3. Id(c) = r.id /\ Seen(c) = r.seen
  BY DEF Id, Seen
<1>4. CASE r.op.is = "stage"
  <2>1. s = << >>
    BY <1>1, <1>4 DEF Kept, Looked
  <2>2. e = [state |-> "staged", at |-> r.at, nonce |-> c, authority |-> r.authority]
    BY <1>4 DEF Fact, Is
  <2>3. r.authority = Len(authority)
    BY <1>4 DEF Holds, Is
  <2>4. e \in Stagings
    BY <1>1, <2>2 DEF Stagings
  <2>5. e \in AnyFact
    BY <2>4 DEF AnyFact, Stagings
  <2>. QED
    BY <1>1, <1>4, <2>1, <2>2, <2>3, <2>4, <2>5 DEF Follows, Timely
<1>5. CASE r.op.is = "invalidate"
  <2>1. Live(s)
    BY <1>1, <1>5 DEF Kept, Looked
  <2>2. e = Entry("cancelled", Max2(clock, TimeOf(s)))
    BY <1>1, <1>3, <1>5 DEF Fact, Is
  <2>. QED
    BY <1>1, <1>5, <2>1, <2>2, Withdrawal
<1>6. CASE r.op.is \in {"activate", "approve", "deny", "consume"}
  <2>1. s # << >> /\ StateOf(s) \in From[r.op.is] /\ Checked(r)
    BY <1>1, <1>6 DEF Kept, Looked, Checked
  <2>2. PICK state : /\ state = Becomes[r.op.is]
                     /\ e = Entry(state, r.at)
    BY <1>6 DEF Fact, Is
  <2>3. e.state = state /\ e.at = r.at
    BY <2>2 DEF Entry
  <2>4. /\ r.op.is = "activate" => state = "active" /\ StateOf(s) = "staged"
        /\ r.op.is = "approve" => state = "approved" /\ StateOf(s) = "active"
        /\ r.op.is = "deny" => state = "denied" /\ StateOf(s) = "active"
        /\ r.op.is = "consume" => state = "consumed" /\ StateOf(s) = "approved"
    <3>1. /\ r.op.is = "activate" => Becomes[r.op.is] = "active"
          /\ r.op.is = "approve" => Becomes[r.op.is] = "approved"
          /\ r.op.is = "deny" => Becomes[r.op.is] = "denied"
          /\ r.op.is = "consume" => Becomes[r.op.is] = "consumed"
      BY DEF Becomes
    <3>2. /\ r.op.is = "activate" => StateOf(s) = "staged"
          /\ r.op.is \in {"approve", "deny"} => StateOf(s) = "active"
          /\ r.op.is = "consume" => StateOf(s) = "approved"
      BY <2>1 DEF From
    <3>. QED
      BY <1>6, <2>2, <3>1, <3>2
  <2>5. e \in AnyFact /\ <<StateOf(s), state>> \in Transitions
    BY <1>1, <1>6, <2>2, <2>4 DEF Entry, AnyFact, Alive, Terminal, Transitions
  <2>6. Follows(s, e)
    BY <2>1, <2>3, <2>5 DEF Follows
  <2>7. /\ rollbacks = 0 => TimeOf(s) <= e.at
        /\ e.state \in {"approved", "denied", "consumed"} => e.at < Expiry(s)
    BY <1>1, <1>6, <2>1, <2>3, <2>4 DEF Kept, Dated
  <2>. QED
    BY <1>1, <1>6, <2>1, <2>3, <2>4, <2>6, <2>7 DEF Timely
<1>. QED
  BY <1>2, <1>4, <1>5, <1>6

\* What a call drops from memory may be given up.
LEMMA Dropping ==
    ASSUME Inv, NEW c \in Callers, NEW r \in Records, r = call[c], r.step = "commit", Kept(c, r),
           NEW done \in BOOLEAN,
           done /\ r.op.is \in {"deny", "invalidate"} =>
              stream[r.id] # << >> /\ ~Live(stream'[r.id]),
           NEW p \in Dropped(c, done)
    PROVE  GivenUp(c, p)
<1>1. Id(c) = r.id
  BY DEF Id
<1>2. CASE r.op.is = "stage"
  <2>1. p = Payload(r.id, c, r.at + TTL)
    BY <1>1, <1>2 DEF Dropped, Is
  <2>2. p.id = r.id /\ p.nonce = c
    BY <2>1 DEF Payload
  <2>3. stream[r.id] # << >> => stream[r.id][1].nonce # c
    BY <1>2 DEF Kept, Minted
  <2>4. stream[r.id] # << >> => p # PayloadOf(r.id)
    BY <2>2, <2>3 DEF PayloadOf, Payload
  <2>. QED
    BY <2>2, <2>4 DEF GivenUp
<1>3. CASE r.op.is # "stage"
  <2>1. done /\ r.op.is \in {"deny", "invalidate"} /\ p = PayloadOf(r.id)
    BY <1>1, <1>3 DEF Dropped, Is
  <2>2. p.id = r.id
    BY <2>1 DEF PayloadOf, Payload
  <2>. QED
    BY <2>1, <2>2 DEF GivenUp
<1>. QED
  BY <1>2, <1>3

\* What a stream is after the fact a call writes.
LEMMA Written ==
    ASSUME Inv, NEW id \in Ids, NEW e, Follows(stream[id], e),
           stream' = [stream EXCEPT ![id] = Append(@, e)]
    PROVE  /\ stream'[id] = Append(stream[id], e) /\ stream'[id] # << >>
           /\ StateOf(stream'[id]) = e.state
           /\ e.state \notin Alive => ~Live(stream'[id])
           /\ stream[id] = << >> => stream'[id][1] = e
<1>1. stream[id] \in Seq(AnyFact) /\ e \in AnyFact
  BY DEF Follows, Inv, Shared
<1>2. PICK t : t = Append(stream[id], e)
  OBVIOUS
<1>3. stream'[id] = t
  BY <1>2 DEF Inv, Shared
<1>4. t # << >> /\ t[Len(t)] = e /\ (stream[id] = << >> => t[1] = e)
  BY <1>1, <1>2, Appended
<1>. QED
  BY <1>2, <1>3, <1>4 DEF StateOf, Live

\* The commit of a call, as the others see it.
LEMMA CommitWorld ==
    ASSUME Inv, ApprovalsAssumption, NEW c \in Callers, NEW r \in Records, r = call[c],
           r.step = "commit", Kept(c, r), Holds(c), Write(c), UNCHANGED <<clock, rollbacks>>,
           NEW done \in BOOLEAN, payloads' = payloads \ Dropped(c, done)
    PROVE  World(c)
<1>1. PICK s, e : s = stream[r.id] /\ e = Fact(c)
  OBVIOUS
<1>2. Id(c) = r.id /\ r.id \in Ids
  BY RecordFields DEF Id
<1>3. /\ Follows(s, e) /\ (rollbacks = 0 => Timely(s, e))
      /\ s = << >> => e.authority = Len(authority) /\ e.nonce = c
      /\ r.op.is \in {"deny", "invalidate"} => s # << >> /\ e.state \notin Alive
  BY <1>1, Committing DEF Alive
<1>4. /\ stream' = [stream EXCEPT ![r.id] = Append(@, e)]
      /\ run' \in {run, Append(run, "awaiting")} /\ UNCHANGED authority
  BY <1>1, <1>2 DEF Write
<1>5. r.op.is \in {"deny", "invalidate"} => stream[r.id] # << >> /\ ~Live(stream'[r.id])
  BY <1>1, <1>2, <1>3, <1>4, Written
<1>6. \A p \in payloads : p \in payloads' \/ GivenUp(c, p)
  BY <1>5, Dropping
<1>. QED
  BY <1>1, <1>2, <1>3, <1>4, <1>6, WritesWorld

\* A commit that does not happen.
LEMMA CommitLost ==
    ASSUME Inv, ApprovalsAssumption, NEW c \in Callers, NEW r \in Records, r = call[c],
           r.step = "commit", Kept(c, r), UNCHANGED <<journal, clock, rollbacks>>,
           payloads' = payloads \ Dropped(c, FALSE)
    PROVE  World(c)
<1>1. \A p \in payloads : p \in payloads' \/ GivenUp(c, p)
  BY Dropping
<1>2. IsFiniteSet(payloads') /\ Cardinality(payloads') <= Capacity
  BY FewerPayloads
<1>3. Shared'
  BY <1>2 DEF Inv, Shared, journal
<1>4. Begins(run, run) /\ Len(authority) \in Nat /\ clock \in Nat
  BY BeginsSelf DEF Inv, Shared
<1>5. UNCHANGED <<stream, authority, run, clock, rollbacks>>
  BY DEF journal
<1>6. \A id \in Ids : Grows(c, stream[id], stream'[id])
  BY <1>5 DEF Grows
<1>7. Len(authority) <= Len(authority') /\ clock <= clock' /\ Begins(run, run')
  BY <1>4, <1>5
<1>8. rollbacks' = 0 => rollbacks = 0
  BY <1>5
<1>. QED
  BY <1>1, <1>3, <1>6, <1>7, <1>8, Zenon DEF World

\* The answer to a commit that is known to have happened.
LEMMA CommitAnswered ==
    ASSUME Inv, ApprovalsAssumption, NEW c \in Callers, NEW r \in Records, r = call[c],
           r.step = "commit", Kept(c, r), Holds(c), Write(c), UNCHANGED <<clock, rollbacks>>,
           r.op.is = "stage" => payloads' = payloads,
           NEW t, t = [id |-> r.id, what |-> Answer[r.op.is]]
    PROVE  t \in [id: Ids, what: Words] /\ Answered(t)'
<1>1. PICK s, e : s = stream[r.id] /\ e = Fact(c)
  OBVIOUS
<1>2. Id(c) = r.id /\ r.id \in Ids
  BY RecordFields DEF Id
<1>3. /\ s \in Seq(AnyFact) /\ Lawful(s) /\ Follows(s, e)
      /\ s = << >> => e.authority = Len(authority) /\ e.nonce = c
      /\ r.op.is = "stage" => s = << >> /\ e.state = "staged" /\ e.at = r.at
      /\ r.op.is = "invalidate" => e.state = "cancelled"
      /\ r.op.is = "activate" => e.state = "active"
      /\ r.op.is = "approve" => e.state = "approved"
      /\ r.op.is = "deny" => e.state = "denied"
      /\ r.op.is = "consume" => e.state = "consumed"
  BY <1>1, Committing
<1>4. PICK u : u = Append(s, e)
  OBVIOUS
<1>5. stream'[r.id] = u /\ u # << >> /\ StateOf(u) = e.state /\ (s = << >> => u[1] = e)
  <2>1. stream' = [stream EXCEPT ![r.id] = Append(@, e)]
    BY <1>1, <1>2 DEF Write
  <2>2. Follows(stream[r.id], e)
    BY <1>1, <1>3
  <2>3. /\ stream'[r.id] = Append(stream[r.id], e) /\ stream'[r.id] # << >>
        /\ StateOf(stream'[r.id]) = e.state
        /\ stream[r.id] = << >> => stream'[r.id][1] = e
    BY <1>2, <2>1, <2>2, Written
  <2>. QED
    BY <1>1, <1>4, <2>3
<1>6. /\ r.op.is = "approve" => Decision(u) = "approve"
      /\ r.op.is = "deny" => Decision(u) = "deny"
  BY <1>3, <1>4, DecisionTaken
<1>7. r.op.is \in {"stage", "activate", "approve", "deny", "consume", "invalidate"}
  BY DEF Kept, Placed
<1>8. /\ t.id = r.id /\ t.what = Answer[r.op.is]
      /\ r.op.is = "stage" => t.what = "challenge"
      /\ r.op.is = "activate" => t.what = "active"
      /\ r.op.is = "approve" => t.what = "approve"
      /\ r.op.is = "deny" => t.what = "deny"
      /\ r.op.is = "consume" => t.what = "consumed"
      /\ r.op.is = "invalidate" => t.what = "invalidated"
  BY <1>7 DEF Answer
<1>9. t \in [id: Ids, what: Words]
  BY <1>2, <1>7, <1>8 DEF Words
<1>10. ASSUME r.op.is = "stage", r.id \in Volatile, rollbacks = 0, clock < Expiry(u)
       PROVE  PayloadOf(r.id)' \in payloads'
  <2>1. u[1].at = r.at /\ u[1].nonce = c
    BY <1>3, <1>5, <1>10
  <2>2. Expiry(u) = r.at + TTL /\ PayloadOf(r.id)' = Payload(r.id, c, r.at + TTL)
    BY <1>5, <2>1 DEF PayloadOf, Expiry, Payload
  <2>. QED
    BY <1>10, <2>2 DEF Kept, Minted
<1>. QED
  BY <1>5, <1>3, <1>6, <1>7, <1>8, <1>9, <1>10 DEF Answered

\* Whether it happens, loses or ends unknown, a commit keeps the invariant.
LEMMA CommitKeeps ==
    ASSUME Inv, ApprovalsAssumption, NEW c \in Callers, Commit(c)
    PROVE  Inv'
<1>1. UNCHANGED <<clock, swept, rollbacks>>
  BY DEF Commit
<1>2. PICK r \in Records : r = call[c] /\ r.step = "commit" /\ Kept(c, r)
  BY Acting DEF Commit, Steps
<1>3. Id(c) = r.id
  BY <1>2 DEF Id
<1>4. ASSUME Return(c), World(c)
      PROVE  Inv'
  <2>1. PICK k : k = Idle /\ Leaves(c, k)
    BY <1>4 DEF Return, Leaves
  <2>. QED
    BY <1>1, <1>4, <2>1, Silent DEF Return
<1>5. ASSUME Reply(c, Answer[r.op.is]), World(c), Holds(c), Write(c),
             r.op.is = "stage" => payloads' = payloads
      PROVE  Inv'
  <2>1. PICK k : k = Idle /\ Leaves(c, k)
    BY <1>5 DEF Reply, Leaves
  <2>2. PICK t : t = [id |-> r.id, what |-> Answer[r.op.is]]
    OBVIOUS
  <2>3. t \in [id: Ids, what: Words] /\ Answered(t)'
    BY <1>1, <1>2, <1>5, <2>2, CommitAnswered
  <2>4. PICK answers, sweeps : answers = {t} /\ sweeps = {}
    OBVIOUS
  <2>5. told' = told \cup answers /\ swept' = swept \cup sweeps /\ ~ \E v \in sweeps : TRUE
    BY <1>1, <1>3, <1>5, <2>2, <2>4 DEF Reply
  <2>. QED
    BY <1>5, <2>1, <2>3, <2>4, <2>5, OneMoves
<1>6. ASSUME Holds(c), Write(c), NEW done \in BOOLEAN, payloads' = payloads \ Dropped(c, done)
      PROVE  World(c)
  BY <1>1, <1>2, <1>6, CommitWorld
<1>7. CASE UNCHANGED journal /\ Return(c) /\ payloads' = payloads \ Dropped(c, FALSE)
  BY <1>1, <1>2, <1>4, <1>7, CommitLost
<1>8. CASE Holds(c) /\ Write(c) /\ Return(c) /\ payloads' = payloads \ Dropped(c, FALSE)
  BY <1>4, <1>6, <1>8
<1>9. CASE /\ Holds(c) /\ Write(c) /\ Reply(c, Answer[r.op.is])
           /\ payloads' = payloads \ Dropped(c, TRUE)
  <2>1. r.op.is = "stage" => payloads' = payloads
    BY <1>2, <1>9 DEF Dropped, Is
  <2>. QED
    BY <1>5, <1>6, <1>9, <2>1
<1>10. CASE /\ Holds(c) /\ Write(c) /\ Is(c, "activate") /\ Reply(c, "active")
            /\ payloads' = payloads \ Dropped(c, FALSE)
  <2>1. r.op.is = "activate" /\ Answer[r.op.is] = "active"
    BY <1>2, <1>10 DEF Is, Answer
  <2>. QED
    BY <1>5, <1>6, <1>10, <2>1
<1>. QED
  BY <1>2, <1>7, <1>8, <1>9, <1>10 DEF Commit

------------------------------------------------------------------------------
(* Withdrawals                                                               *)

\* A withdrawal that is written, as the others see it.
LEMMA WithdrawWorld ==
    ASSUME Inv, ApprovalsAssumption, NEW c \in Callers, NEW r \in Records, r = call[c],
           r.step \in {"expire", "withdraw"}, Kept(c, r), Unmoved(c),
           NEW state \in {"expired", "cancelled"},
           stream' = [stream EXCEPT ![Id(c)] =
                         Append(@, Entry(state, Max2(clock, TimeOf(Seen(c)))))],
           UNCHANGED <<authority, run, clock, rollbacks>>,
           payloads' \in {payloads, payloads \ {PayloadOf(r.id)}}
    PROVE  /\ World(c)
           /\ stream'[r.id] # << >> /\ ~Live(stream'[r.id])
<1>1. Id(c) = r.id /\ Seen(c) = r.seen /\ r.id \in Ids /\ stream[r.id] = r.seen
      /\ r.seen \in Seq(AnyFact) /\ clock \in Nat
  BY Unmoving, RecordFields DEF Id, Seen, Inv, Shared
<1>2. PICK s, e : s = stream[r.id] /\ e = Entry(state, Max2(clock, TimeOf(s)))
  OBVIOUS
<1>3. Live(s) /\ s \in Seq(AnyFact)
  BY <1>1, <1>2 DEF Kept, Looked
<1>4. s # << >> /\ Follows(s, e) /\ Timely(s, e) /\ e.state = state
  BY <1>1, <1>2, <1>3, Withdrawal
<1>5. /\ stream' = [stream EXCEPT ![r.id] = Append(@, e)]
      /\ Follows(stream[r.id], e) /\ Timely(stream[r.id], e) /\ stream[r.id] # << >>
  BY <1>1, <1>2, <1>4
<1>6. stream'[r.id] # << >> /\ ~Live(stream'[r.id])
  BY <1>1, <1>4, <1>5, Written DEF Alive
<1>7. \A p \in payloads : p \in payloads' \/ GivenUp(c, p)
  <2>1. ASSUME NEW p \in payloads, p = PayloadOf(r.id)
        PROVE  GivenUp(c, p)
    <3>1. p.id = r.id
      BY <2>1 DEF PayloadOf, Payload
    <3>. QED
      BY <1>5, <1>6, <2>1, <3>1 DEF GivenUp
  <2>. QED
    BY <2>1
<1>8. World(c)
  BY <1>1, <1>5, <1>7, WritesWorld
<1>. QED
  BY <1>6, <1>8

\* An expiry follows what was live when it was read.
LEMMA ExpireKeeps ==
    ASSUME Inv, ApprovalsAssumption, NEW c \in Callers, Expire(c)
    PROVE  Inv'
<1>1. PICK r \in Records : r = call[c] /\ r.step = "expire" /\ Kept(c, r)
  BY Acting DEF Expire, Steps
<1>2. Return(c) /\ UNCHANGED <<authority, run, clock, swept, rollbacks, payloads>>
  BY DEF Expire, Withdraw
<1>3. PICK k : k = Idle /\ Leaves(c, k)
  BY <1>2 DEF Return, Leaves
<1>4. PICK state \in {"expired", "cancelled"} : state = "expired"
  OBVIOUS
<1>5. \/ UNCHANGED stream
      \/ /\ Unmoved(c)
         /\ stream' = [stream EXCEPT ![Id(c)] =
                          Append(@, Entry(state, Max2(clock, TimeOf(Seen(c)))))]
  BY <1>4 DEF Expire, Withdraw
<1>6. World(c)
  <2>1. CASE UNCHANGED stream
    BY <1>2, <2>1, Unchanging
  <2>2. CASE /\ Unmoved(c)
             /\ stream' = [stream EXCEPT ![Id(c)] =
                              Append(@, Entry(state, Max2(clock, TimeOf(Seen(c)))))]
    BY <1>1, <1>2, <2>2, WithdrawWorld
  <2>. QED
    BY <1>5, <2>1, <2>2
<1>. QED
  BY <1>2, <1>3, <1>6, Silent DEF Return

\* What a sweep withdraws is dead, and what it could not withdraw stays on its list.
LEMMA WithdrawOneKeeps ==
    ASSUME Inv, ApprovalsAssumption, NEW c \in Callers, WithdrawOne(c)
    PROVE  Inv'
<1>1. PICK r \in Records : r = call[c] /\ r.step = "withdraw" /\ Kept(c, r)
  BY Acting DEF WithdrawOne, Steps
<1>2. UNCHANGED <<authority, run, clock, swept, rollbacks>>
  BY DEF WithdrawOne, Withdraw
<1>3. Id(c) = r.id /\ r.id \in Ids /\ r.todo \in SUBSET Ids /\ r.tries \in 0 .. Tries
      /\ r.tries < Tries /\ r.op.is \in {"sync", "purge"}
  BY <1>1, RecordFields DEF Id, Kept, Placed
<1>4. PICK state \in {"expired", "cancelled"} : state = "cancelled"
  OBVIOUS
<1>5. PICK step \in Steps : step = "sweep"
  BY DEF Steps
<1>. DEFINE written == /\ Unmoved(c)
                       /\ stream' = [stream EXCEPT ![Id(c)] =
                             Append(@, Entry(state, Max2(clock, TimeOf(Seen(c)))))]
            done == call' = [call EXCEPT ![c].todo = @ \ {Id(c)}, ![c].tries = 0,
                                         ![c].step = step]
            retry == call' = [call EXCEPT ![c].tries = @ + 1, ![c].step = step]
<1>6. payloads' \in {payloads, payloads \ {PayloadOf(r.id)}}
  BY <1>3 DEF WithdrawOne
<1>7. \/ written /\ done /\ told' = told \cup {[id |-> Id(c), what |-> "void"]}
      \/ ~Unmoved(c) /\ UNCHANGED stream /\ retry /\ UNCHANGED told
      \/ (UNCHANGED stream \/ written) /\ Return(c)
  BY <1>4, <1>5 DEF WithdrawOne, Withdraw
<1>8. ASSUME written
      PROVE  World(c) /\ stream'[r.id] # << >> /\ ~Live(stream'[r.id])
  BY <1>1, <1>2, <1>6, <1>8, WithdrawWorld
<1>9. CASE (UNCHANGED stream \/ written) /\ Return(c)
  <2>1. PICK k : k = Idle /\ Leaves(c, k)
    BY <1>9 DEF Return, Leaves
  <2>2. World(c)
    <3>1. CASE UNCHANGED stream
      <4>1. call'[c] = Idle
        BY <1>9 DEF Return, Inv, Calls
      <4>2. payloads' = payloads
        BY <4>1 DEF WithdrawOne
      <4>. QED
        BY <1>2, <3>1, <4>2, Unchanging
    <3>. QED
      BY <1>8, <1>9, <3>1
  <2>. QED
    BY <1>2, <1>9, <2>1, <2>2, Silent DEF Return
<1>10. CASE ~Unmoved(c) /\ UNCHANGED stream /\ retry /\ UNCHANGED told
  <2>1. PICK tries \in 0 .. Tries : tries = r.tries + 1
    <3>1. r.tries + 1 \in 0 .. Tries
      BY <1>3 DEF ApprovalsAssumption
    <3>. QED
      BY <3>1
  <2>2. call' = [call EXCEPT ![c].tries = tries, ![c].step = step]
    BY <1>1, <1>10, <2>1
  <2>3. PICK k : /\ Leaves(c, k)
                 /\ Made(k, r.op, step, r.id, r.seen, r.authority, r.run, r.at, r.todo, tries)
    BY <1>1, <2>2, RetryMoves DEF Inv
  <2>4. payloads' = payloads
    BY <1>10 DEF WithdrawOne
  <2>5. World(c)
    BY <1>2, <1>10, <2>4, Unchanging
  <2>6. Looked(k) /\ Placed(k) /\ Dated(k) /\ ~Staging(k)
    BY <1>3, <1>5, <2>3 DEF Made, Looked, Checked, Placed, Dated, Staging
  <2>7. Begins(k.seen, stream[k.id]) /\ Paused(k) /\ Minted(c, k) /\ Sweeping(k)
    BY <1>1, <1>3, <1>5, <2>3 DEF Kept, Made, Paused, Minted, Sweeping
  <2>. QED
    BY <1>2, <1>10, <2>3, <2>5, <2>6, <2>7, Silent DEF Kept, Made
<1>11. CASE written /\ done /\ told' = told \cup {[id |-> Id(c), what |-> "void"]}
  <2>1. PICK todo \in SUBSET Ids : todo = r.todo \ {r.id}
    <3>1. r.todo \ {r.id} \in SUBSET Ids
      BY <1>3
    <3>. QED
      BY <3>1
  <2>2. PICK tries \in 0 .. Tries : tries = 0
    BY DEF ApprovalsAssumption
  <2>3. call' = [call EXCEPT ![c].todo = todo, ![c].tries = tries, ![c].step = step]
    BY <1>1, <1>3, <1>11, <2>1, <2>2
  <2>4. PICK k : /\ Leaves(c, k)
                 /\ Made(k, r.op, step, r.id, r.seen, r.authority, r.run, r.at, todo, tries)
    BY <1>1, <2>3, DoneMoves DEF Inv
  <2>5. World(c) /\ stream'[r.id] # << >> /\ ~Live(stream'[r.id])
    BY <1>8, <1>11
  <2>6. PICK j : Made(j, r.op, step, r.id, r.seen, r.authority, r.run, r.at, r.todo, tries)
    BY <1>3, RecordIs, RecordFields, RecordMade
  <2>7. Kept(c, j)'
    <3>1. Looked(j) /\ Placed(j) /\ Dated(j) /\ ~Staging(j)
      BY <1>3, <1>5, <2>6 DEF Made, Looked, Checked, Placed, Dated, Staging
    <3>2. Begins(j.seen, stream[j.id]) /\ Paused(j) /\ Minted(c, j) /\ Sweeping(j)
      BY <1>1, <1>3, <1>5, <2>6 DEF Kept, Made, Paused, Minted, Sweeping
    <3>3. Kept(c, j)
      BY <2>6, <3>1, <3>2 DEF Kept, Made
    <3>. QED
      BY <2>5, <3>1, <3>3, CarryKept
  <2>8. Sweeping(k)'
    BY <1>5, <2>1, <2>4, <2>5, <2>6, <2>7 DEF Kept, Made, Sweeping
  <2>9. Looked(k) /\ Placed(k)
    BY <1>3, <1>5, <2>4 DEF Made, Looked, Checked, Placed
  <2>10. Dated(k)' /\ Paused(k)' /\ Minted(c, k)' /\ Begins(k.seen, stream[k.id])'
    BY <1>3, <1>5, <2>4, <2>6, <2>7 DEF Kept, Made, Checked, Dated, Paused, Minted, Begins
  <2>11. Kept(c, k)'
    BY <2>4, <2>8, <2>9, <2>10 DEF Kept, Made, Looked, Placed
  <2>12. PICK t : t = [id |-> r.id, what |-> "void"]
    OBVIOUS
  <2>13. t \in [id: Ids, what: Words] /\ Answered(t)'
    BY <1>3, <2>5, <2>12 DEF Words, Answered
  <2>14. PICK answers, sweeps : answers = {t} /\ sweeps = {}
    OBVIOUS
  <2>15. told' = told \cup answers /\ swept' = swept \cup sweeps /\ ~ \E v \in sweeps : TRUE
    BY <1>2, <1>3, <1>11, <2>12, <2>14
  <2>16. \A u \in answers : u \in [id: Ids, what: Words] /\ Answered(u)'
    BY <2>13, <2>14
  <2>17. Leaves(c, k)
    BY <2>4
  <2>. HIDE DEF written, done, retry
  <2>. QED
    BY <2>5, <2>11, <2>15, <2>16, <2>17, OneMoves
<1>. HIDE DEF written, done, retry
<1>. QED
  BY <1>7, <1>9, <1>10, <1>11

------------------------------------------------------------------------------
(* The authority and the turn                                                *)

\* A revision, as the others see it.
LEMMA ReviseWorld ==
    ASSUME Inv, NEW c, NEW config \in Configs,
           authority' \in {authority, Append(authority, config)},
           UNCHANGED <<stream, run, clock, payloads, rollbacks>>
    PROVE  /\ World(c)
           /\ authority' = Append(authority, config) => Len(authority') = Len(authority) + 1
<1>1. authority \in Seq(Configs) /\ authority # << >>
  BY DEF Inv, Shared
<1>2. PICK n, m \in Nat : n = Len(authority) /\ m = Len(authority') /\ n <= m
  BY <1>1
<1>3. authority' \in Seq(Configs) /\ authority' # << >>
  BY <1>1
<1>4. Begins(run, run) /\ clock \in Nat
  BY BeginsSelf DEF Inv, Shared
<1>5. Shared'
  BY <1>3 DEF Inv, Shared
<1>6. \A id \in Ids : Grows(c, stream[id], stream'[id])
  BY DEF Grows
<1>7. Len(authority) <= Len(authority') /\ clock <= clock' /\ Begins(run, run')
      /\ (rollbacks' = 0 => rollbacks = 0)
  BY <1>2, <1>4
<1>8. \A p \in payloads : p \in payloads'
  OBVIOUS
<1>9. authority' = Append(authority, config) => Len(authority') = Len(authority) + 1
  BY <1>1
<1>. QED
  BY <1>5, <1>6, <1>7, <1>8, <1>9, Zenon DEF World

\* After a revision nothing that is staged later is bound to what it replaced.
LEMMA ReviseKeeps ==
    ASSUME Inv, ApprovalsAssumption, NEW c \in Callers, Revise(c)
    PROVE  Inv'
<1>1. UNCHANGED <<stream, run, clock, payloads, swept, rollbacks>>
  BY DEF Revise
<1>2. PICK r \in Records : r = call[c] /\ r.step = "revise" /\ Kept(c, r)
  BY Acting DEF Revise, Steps
<1>3. PICK config \in Configs : config = r.op.config
  BY <1>2, RecordFields DEF ApprovalsAssumption
<1>4. authority' \in {authority, Append(authority, config)}
  BY <1>2, <1>3 DEF Revise
<1>5. World(c)
  BY <1>1, <1>3, <1>4, ReviseWorld
<1>6. CASE Return(c)
  <2>1. PICK k : k = Idle /\ Leaves(c, k)
    BY <1>6 DEF Return, Leaves
  <2>. QED
    BY <1>1, <1>5, <1>6, <2>1, Silent DEF Return
<1>7. CASE /\ Len(authority) = r.authority /\ authority' = Append(authority, config)
           /\ GoTo(c, "collect")
  <2>1. PICK step \in Steps : step = "collect"
    BY DEF Steps
  <2>2. PICK k : /\ Leaves(c, k)
                 /\ Made(k, r.op, step, r.id, r.seen, r.authority, r.run, r.at, r.todo, r.tries)
    BY <1>2, <1>7, <2>1, GoToMoves DEF Inv
  <2>3. r.op.is = "sync" /\ r.authority \in Nat
    BY <1>2, RecordFields DEF Kept, Placed
  <2>4. Len(authority') = Len(authority) + 1
    BY <1>1, <1>3, <1>7, ReviseWorld
  <2>5. r.authority < Len(authority')
    BY <1>7, <2>3, <2>4
  <2>6. Looked(k) /\ Placed(k)
    BY <2>1, <2>2, <2>3 DEF Made, Looked, Checked, Placed
  <2>7. Dated(k)' /\ Paused(k)' /\ Minted(c, k)' /\ Sweeping(k)'
    BY <2>1, <2>2, <2>3, <2>5 DEF Made, Checked, Dated, Paused, Minted, Sweeping
  <2>8. Begins(k.seen, stream[k.id])'
    BY <1>1, <1>2, <2>2 DEF Kept, Made, Begins
  <2>9. Kept(c, k)'
    BY <2>2, <2>6, <2>7, <2>8 DEF Kept, Made, Looked, Placed
  <2>. QED
    BY <1>1, <1>5, <1>7, <2>2, <2>9, Silent DEF GoTo
<1>. QED
  BY <1>2, <1>3, <1>6, <1>7 DEF Revise

\* A cancellation of the turn, as the others see it.
LEMMA CancelWorld ==
    ASSUME Inv, NEW c, run' \in {run, Append(run, "cancelling")},
           UNCHANGED <<stream, authority, clock, payloads, rollbacks>>
    PROVE  World(c)
<1>1. Len(authority) \in Nat /\ clock \in Nat
  BY DEF Inv, Shared
<1>2. run' \in Seq({"prompt", "awaiting", "cancelling"}) /\ Begins(run, run')
  <2>. DEFINE K == {"prompt", "awaiting", "cancelling"}
  <2>1. run \in Seq(K) /\ "cancelling" \in K
    BY DEF Inv, Shared
  <2>. HIDE DEF K
  <2>2. run' \in Seq(K) /\ Begins(run, run')
    <3>1. CASE run' = run
      BY <2>1, <3>1, BeginsSelf
    <3>2. CASE run' = Append(run, "cancelling")
      BY <2>1, <3>2, AppendBegins
    <3>. QED
      BY <3>1, <3>2
  <2>. QED
    BY <2>2 DEF K
<1>3. Shared'
  BY <1>2 DEF Inv, Shared
<1>4. \A id \in Ids : Grows(c, stream[id], stream'[id])
  BY DEF Grows
<1>5. Len(authority) <= Len(authority') /\ clock <= clock' /\ (rollbacks' = 0 => rollbacks = 0)
  BY <1>1
<1>6. \A p \in payloads : p \in payloads'
  OBVIOUS
<1>. QED
  BY <1>2, <1>3, <1>4, <1>5, <1>6, Zenon DEF World

\* An invalidation of the project cancels the turn before it sweeps.
LEMMA CancelFirstKeeps ==
    ASSUME Inv, ApprovalsAssumption, NEW c \in Callers, CancelFirst(c)
    PROVE  Inv'
<1>1. UNCHANGED <<stream, authority, clock, payloads, swept, rollbacks>>
  BY DEF CancelFirst
<1>2. PICK r \in Records : r = call[c] /\ r.step = "cancel" /\ Kept(c, r)
  BY Acting DEF CancelFirst, Steps
<1>3. run' \in {run, Append(run, "cancelling")}
  BY DEF CancelFirst
<1>4. World(c)
  BY <1>1, <1>3, CancelWorld
<1>5. CASE Return(c)
  <2>1. PICK k : k = Idle /\ Leaves(c, k)
    BY <1>5 DEF Return, Leaves
  <2>. QED
    BY <1>1, <1>4, <1>5, <2>1, Silent DEF Return
<1>6. CASE GoTo(c, "collect")
  <2>1. PICK step \in Steps : step = "collect"
    BY DEF Steps
  <2>2. PICK k : /\ Leaves(c, k)
                 /\ Made(k, r.op, step, r.id, r.seen, r.authority, r.run, r.at, r.todo, r.tries)
    BY <1>2, <1>6, <2>1, GoToMoves DEF Inv
  <2>3. r.op.is = "purge"
    BY <1>2 DEF Kept, Placed
  <2>4. Looked(k) /\ Placed(k) /\ Dated(k) /\ ~Staging(k)
    BY <2>1, <2>2, <2>3 DEF Made, Looked, Checked, Placed, Dated, Staging
  <2>5. Begins(k.seen, stream[k.id]) /\ Paused(k) /\ Minted(c, k) /\ Sweeping(k)
    BY <1>2, <2>1, <2>2, <2>3 DEF Kept, Made, Paused, Minted, Sweeping
  <2>. QED
    BY <1>1, <1>4, <1>6, <2>2, <2>4, <2>5, Silent DEF Kept, Made, GoTo
<1>. QED
  BY <1>5, <1>6 DEF CancelFirst

------------------------------------------------------------------------------
(* Around the calls                                                          *)

\* A step of no caller.
LEMMA NobodyMoves ==
    ASSUME Inv, ApprovalsAssumption, NEW c, c \notin Callers, World(c),
           UNCHANGED <<call, told, swept>>
    PROVE  Inv'
<1>1. ASSUME NEW d \in Callers, call'[d] # Idle
      PROVE  Kept(d, call[d])'
  <2>1. PICK r : r = call[d] /\ call'[d] = r
    OBVIOUS
  <2>2. Kept(d, r)
    BY <1>1, <2>1 DEF Inv
  <2>3. Kept(d, r)'
    BY <2>2, CarryKept
  <2>. QED
    BY <2>1, <2>3
<1>2. \A t \in told' : Answered(t)'
  BY CarryAnswered
<1>3. \A v \in swept' : Swept(v)'
  BY CarrySwept
<1>4. Shared' /\ Calls' /\ Ghosts'
  BY DEF World, Inv, Calls, Ghosts
<1>5. \A id \in Ids : History(stream[id])'
  BY CarryHistory
<1>. QED
  BY <1>1, <1>2, <1>3, <1>4, <1>5 DEF Inv

\* A turn is cancelled from outside.
LEMMA CancelRunKeeps ==
    ASSUME Inv, ApprovalsAssumption, CancelRun
    PROVE  Inv'
<1>1. PICK nobody : nobody \notin Callers
  BY NoSetContainsEverything
<1>2. World(nobody)
  BY CancelWorld DEF CancelRun, bounds
<1>. QED
  BY <1>1, <1>2, NobodyMoves DEF CancelRun

\* The clock moves, forward unless it is counted as set back.
LEMMA TickKeeps ==
    ASSUME Inv, ApprovalsAssumption, Tick
    PROVE  Inv'
<1>1. PICK nobody : nobody \notin Callers
  BY NoSetContainsEverything
<1>2. UNCHANGED <<stream, authority, run, payloads, call, told, swept>>
  BY DEF Tick, journal
<1>3. /\ clock \in Nat /\ clock' \in Nat /\ rollbacks \in Nat /\ rollbacks' \in Nat
      /\ rollbacks' = 0 => rollbacks = 0 /\ clock <= clock'
  <2>1. PICK now \in Nat : /\ clock' = now
                           /\ rollbacks' = rollbacks + (IF now < clock THEN 1 ELSE 0)
    BY DEF Tick, ApprovalsAssumption
  <2>2. PICK then, before \in Nat : then = clock /\ before = rollbacks
    BY DEF Inv, Shared
  <2>. QED
    BY <2>1, <2>2
<1>4. Shared'
  BY <1>2, <1>3 DEF Inv, Shared
<1>5. \A id \in Ids : Grows(nobody, stream[id], stream'[id])
  BY <1>2 DEF Grows
<1>6. Len(authority) <= Len(authority') /\ Begins(run, run')
  <2>1. Begins(run, run) /\ Len(authority) \in Nat
    BY BeginsSelf DEF Inv, Shared
  <2>. QED
    BY <1>2, <2>1
<1>7. World(nobody)
  BY <1>2, <1>3, <1>4, <1>5, <1>6, Zenon DEF World
<1>. QED
  BY <1>1, <1>2, <1>7, NobodyMoves

\* Everything a restart forgets is no longer relied upon.
LEMMA CrashKeeps ==
    ASSUME Inv, ApprovalsAssumption, Crash
    PROVE  Inv'
<1>1. UNCHANGED <<stream, authority, run, clock, swept, rollbacks>>
  BY DEF Crash, journal
<1>2. payloads' = {} /\ IsFiniteSet({}) /\ Cardinality({}) = 0
  BY FS_EmptySet DEF Crash
<1>3. Shared'
  BY <1>1, <1>2 DEF Inv, Shared, ApprovalsAssumption
<1>4. Calls' /\ \A c \in Callers : call'[c] = Idle
  BY DEF Crash, Calls
<1>5. ASSUME NEW t \in told'
      PROVE  Answered(t)'
  BY <1>1, <1>5 DEF Crash, Inv, Answered
<1>6. Ghosts'
  BY <1>1 DEF Crash, Inv, Ghosts
<1>7. \A id \in Ids : History(stream[id])'
  BY <1>1 DEF Inv, History, Lawful, Foldable, StateOf, Expiry
<1>8. \A v \in swept' : Swept(v)'
  BY <1>1 DEF Inv, Swept
<1>. QED
  BY <1>3, <1>4, <1>5, <1>6, <1>7, <1>8 DEF Inv

\* The invariant holds initially.
LEMMA InitInv ==
    ASSUME ApprovalsAssumption, Init
    PROVE  Inv
<1>1. \A id \in Ids : stream[id] = << >>
  BY DEF Init
<1>2. authority \in Seq(Configs) /\ authority # << >>
  <2>1. PICK config \in Configs : authority = <<config>>
    BY DEF Init, ApprovalsAssumption
  <2>. QED
    BY <2>1
<1>3. run \in Seq({"prompt", "awaiting", "cancelling"})
  BY DEF Init
<1>4. stream \in [Ids -> Seq(AnyFact)]
  <2>1. << >> \in Seq(AnyFact)
    OBVIOUS
  <2>. HIDE DEF AnyFact
  <2>. QED
    BY <2>1 DEF Init
<1>5. Shared
  BY <1>2, <1>3, <1>4, FS_EmptySet DEF Init, Shared, ApprovalsAssumption
<1>6. Calls /\ Ghosts /\ \A c \in Callers : call[c] = Idle
  BY DEF Init, Calls, Ghosts
<1>. QED
  BY <1>1, <1>5, <1>6 DEF Init, Inv, History, Lawful

\* The invariant is kept by every step.
LEMMA NextKeeps ==
    ASSUME Inv, ApprovalsAssumption, [Next]_vars
    PROVE  Inv'
<1>1. ASSUME NEW c \in Callers, Work(c)
      PROVE  Inv'
  BY <1>1, ReadAuthorityKeeps, ReadReceiptKeeps, ReadRunKeeps, LoadKeeps, CheckKeeps,
     CheckAuthorityKeeps, TakeMaterialKeeps, MintKeeps, CommitKeeps, ExpireKeeps, ReviseKeeps,
     CancelFirstKeeps, CollectKeeps, SweepKeeps, WithdrawOneKeeps DEF Work
<1>2. CASE UNCHANGED vars
  <2>1. PICK nobody : nobody \notin Callers
    BY NoSetContainsEverything
  <2>2. World(nobody)
    BY <1>2, Unchanging DEF vars, bounds
  <2>. QED
    BY <1>2, <2>1, <2>2, NobodyMoves DEF vars
<1>. QED
  BY <1>1, <1>2, StartKeeps, AbandonKeeps, CancelRunKeeps, TickKeeps, CrashKeeps DEF Next

\* The invariant holds in every reachable state.
THEOREM Invariance == Spec => []Inv
<1>1. Init => Inv
  BY ApprovalsAssumption, InitInv
<1>2. Inv /\ [Next]_vars => Inv'
  BY ApprovalsAssumption, NextKeeps
<1>. QED
  BY <1>1, <1>2, PTL DEF Spec

------------------------------------------------------------------------------
(* The properties of the state                                               *)

\* What the streams, the payloads, the calls and the answers hold, for any number of
\* callers, approvals and operations (TypeOK); the store of raw payloads never holds
\* more than its capacity.
THEOREM TypeCorrect == Spec => []TypeOK
<1>1. ASSUME Inv PROVE TypeOK
  <2>1. ASSUME NEW c \in Callers, call[c] # Idle
        PROVE  /\ call[c].op \in Operations /\ Id(c) \in Ids
               /\ Seen(c) \in Seq(AnyFact)
               /\ call[c].authority \in Nat /\ call[c].run \in Nat /\ call[c].at \in Nat
               /\ call[c].todo \subseteq Ids /\ call[c].tries \in 0 .. Tries
    <3>1. PICK r \in Records : r = call[c]
      BY <1>1, <2>1 DEF Inv, Kept
    <3>2. r.todo \in SUBSET Ids
      BY RecordFields
    <3>. QED
      BY <3>1, <3>2, RecordFields DEF Id, Seen
  <2>2. told \subseteq [id: Ids, what: {"challenge", "active", "approve", "deny",
                                        "consumed", "invalidated", "void"}]
    BY <1>1 DEF Inv, Ghosts, Words
  <2>. QED
    BY <1>1, <2>1, <2>2 DEF Inv, Shared, Ghosts, TypeOK
<1>. QED
  BY <1>1, Invariance, PTL

\* Every stream the store has written is a sequence of legal transitions, whatever
\* the clock does: the version a call commits on is the one it decided on.
THEOREM HistoriesLawful == Spec => [](\A id \in Ids : Lawful(stream[id]))
<1>1. Inv => \A id \in Ids : Lawful(stream[id])
  BY DEF Inv, History
<1>. QED
  BY <1>1, Invariance, PTL

\* As long as the clock has not been set back, every stream can be folded again, times
\* and deadlines included (HistoriesFold).  Setting it back between the two times a
\* call looks at it can write a stream that fold refuses.
THEOREM HistoriesAlwaysFold == Spec => [](rollbacks = 0 => HistoriesFold)
<1>1. Inv => (rollbacks = 0 => HistoriesFold)
  BY DEF Inv, History, HistoriesFold
<1>. QED
  BY <1>1, Invariance, PTL

\* Whoever was told of a decision was told the only one there is, however many deciders
\* race, and however often the daemon restarts (DecisionsStand).
THEOREM DecisionsAlwaysStand == Spec => []DecisionsStand
<1>1. Inv => DecisionsStand
  BY DEF Inv, Answered, DecisionsStand
<1>. QED
  BY <1>1, Invariance, PTL

\* What was invalidated or swept stays so, and after synchronize_authority has returned
\* nothing of an authority it replaced is alive, whatever was staged while it swept
\* (SweepComplete).
THEOREM SweepsComplete == Spec => []SweepComplete
<1>1. Inv => SweepComplete
  BY DEF Inv, Answered, Swept, SweepComplete
<1>. QED
  BY <1>1, Invariance, PTL

\* As long as the clock has not been set back, the payload of a challenge is there until
\* the approval is over (MaterialKept): neither a full store, nor a losing call of the
\* same request, nor the end of another approval drops it.
THEOREM MaterialAlwaysKept == Spec => [](rollbacks = 0 => MaterialKept)
<1>1. Inv => (rollbacks = 0 => MaterialKept)
  BY DEF Inv, Answered, MaterialKept
<1>. QED
  BY <1>1, Invariance, PTL

------------------------------------------------------------------------------
(* The steps                                                                 *)

\* What a step does to the streams and the authority: nothing, a revision, the commit
\* of a call, or a withdrawal.
Rests == UNCHANGED <<stream, authority>>
Revises == UNCHANGED stream /\ Len(authority') = Len(authority) + 1
Commits(c) == At(c, "commit") /\ Holds(c) /\ Write(c)
Withdraws(c) ==
    /\ At(c, "expire") \/ At(c, "withdraw")
    /\ Unmoved(c) /\ UNCHANGED authority
    /\ \E state \in {"expired", "cancelled"} :
          stream' = [stream EXCEPT ![Id(c)] =
                        Append(@, Entry(state, Max2(clock, TimeOf(Seen(c)))))]

\* Every step is one of them.
LEMMA StepCases ==
    ASSUME Inv, [Next]_vars
    PROVE  \/ Rests \/ Revises
           \/ \E c \in Callers : Commits(c) \/ Withdraws(c)
<1>1. ASSUME NEW c \in Callers, Commit(c)
      PROVE  Rests \/ Commits(c)
  BY <1>1 DEF Commit, Commits, Rests, journal
<1>2. ASSUME NEW c \in Callers, Expire(c)
      PROVE  Rests \/ Withdraws(c)
  <2>1. PICK state \in {"expired", "cancelled"} : state = "expired"
    OBVIOUS
  <2>. QED
    BY <1>2, <2>1 DEF Expire, Withdraw, Withdraws, Rests
<1>3. ASSUME NEW c \in Callers, WithdrawOne(c)
      PROVE  Rests \/ Withdraws(c)
  <2>1. PICK state \in {"expired", "cancelled"} : state = "cancelled"
    OBVIOUS
  <2>. QED
    BY <1>3, <2>1 DEF WithdrawOne, Withdraw, Withdraws, Rests
<1>4. ASSUME NEW c \in Callers, Revise(c)
      PROVE  Rests \/ Revises
  <2>1. UNCHANGED stream /\ \/ UNCHANGED authority
                            \/ authority' = Append(authority, call[c].op.config)
    BY <1>4 DEF Revise
  <2>2. PICK r \in Records : r = call[c]
    BY <1>4, Acting DEF Revise, Steps
  <2>3. call[c].op.config \in Configs
    BY <2>2, RecordFields, ApprovalsAssumption DEF ApprovalsAssumption
  <2>4. authority \in Seq(Configs)
    BY DEF Inv, Shared
  <2>. QED
    BY <2>1, <2>3, <2>4 DEF Rests, Revises
<1>5. ASSUME NEW c \in Callers,
             \/ Start(c) \/ Abandon(c) \/ ReadAuthority(c) \/ ReadReceipt(c) \/ ReadRun(c)
             \/ Load(c) \/ Check(c) \/ CheckAuthority(c) \/ TakeMaterial(c) \/ Mint(c)
             \/ CancelFirst(c) \/ Collect(c) \/ Sweep(c)
      PROVE  Rests
  BY <1>5 DEF Rests, journal, Start, Abandon, ReadAuthority, ReadReceipt, ReadRun, Load,
              Check, CheckAuthority, TakeMaterial, Mint, CancelFirst, Collect, Sweep
<1>6. CASE CancelRun \/ Tick \/ Crash \/ UNCHANGED vars
  BY <1>6 DEF CancelRun, Tick, Crash, vars, journal, Rests
<1>. QED
  BY <1>1, <1>2, <1>3, <1>4, <1>5, <1>6 DEF Next, Work

\* What a commit does to the stream it was decided on.
LEMMA CommitSteps ==
    ASSUME Inv, NEW c \in Callers, Commits(c)
    PROVE  \E r \in Records : \E e :
              /\ r = call[c] /\ r.id \in Ids /\ r.step = "commit" /\ Kept(c, r)
              /\ stream' = [stream EXCEPT ![r.id] = Append(@, e)] /\ UNCHANGED authority
              /\ Follows(stream[r.id], e) /\ stream[r.id] = r.seen
              /\ \/ /\ r.op.is = "stage" /\ stream[r.id] = << >> /\ e.state = "staged"
                    /\ e.authority = Len(authority)
                 \/ /\ r.op.is \in {"activate", "approve", "consume"} /\ stream[r.id] # << >>
                    /\ Bound(stream[r.id]) = Len(authority)
                    /\ <<StateOf(stream[r.id]), e.state>> \in
                          {<<"staged", "active">>, <<"active", "approved">>,
                           <<"approved", "consumed">>}
                    /\ e.state = "active" => r.op.is = "activate"
                    /\ e.state = "consumed" => r.op.is = "consume"
                 \/ /\ r.op.is \in {"deny", "invalidate"} /\ Live(stream[r.id])
                    /\ e.state \in {"denied", "cancelled"}
<1>1. PICK r \in Records : r = call[c] /\ r.step = "commit" /\ Kept(c, r)
  BY Acting DEF Commits, Steps
<1>2. PICK s, e : s = stream[r.id] /\ e = Fact(c)
  OBVIOUS
<1>3. Id(c) = r.id /\ r.id \in Ids /\ Seen(c) = r.seen
  BY <1>1, RecordFields DEF Id, Seen
<1>4. /\ s = r.seen /\ s \in Seq(AnyFact) /\ Lawful(s) /\ Follows(s, e)
      /\ s = << >> => e.authority = Len(authority) /\ e.nonce = c
      /\ r.op.is = "stage" => s = << >> /\ e.state = "staged" /\ e.at = r.at
      /\ r.op.is # "stage" => s # << >>
      /\ r.op.is = "invalidate" => e.state = "cancelled"
      /\ r.op.is = "activate" => e.state = "active"
      /\ r.op.is = "approve" => e.state = "approved"
      /\ r.op.is = "deny" => e.state = "denied"
      /\ r.op.is = "consume" => e.state = "consumed"
  BY <1>1, <1>2, Committing, ApprovalsAssumption DEF Commits
<1>5. stream' = [stream EXCEPT ![r.id] = Append(@, e)] /\ UNCHANGED authority
  BY <1>2, <1>3 DEF Commits, Write
<1>6. CASE r.op.is = "stage"
  BY <1>1, <1>2, <1>3, <1>4, <1>5, <1>6
<1>7. CASE r.op.is \in {"activate", "approve", "consume"}
  <2>1. StateOf(s) \in From[r.op.is]
    BY <1>1, <1>4, <1>7 DEF Kept, Looked, Checked
  <2>2. /\ r.op.is = "activate" => StateOf(s) = "staged"
        /\ r.op.is = "approve" => StateOf(s) = "active"
        /\ r.op.is = "consume" => StateOf(s) = "approved"
    BY <1>7, <2>1 DEF From
  <2>3. Bound(s) = Len(authority)
    BY <1>1, <1>3, <1>4, <1>7 DEF Commits, Holds, Is
  <2>4. /\ <<StateOf(s), e.state>> \in {<<"staged", "active">>, <<"active", "approved">>,
                                        <<"approved", "consumed">>}
        /\ e.state = "active" => r.op.is = "activate"
        /\ e.state = "consumed" => r.op.is = "consume"
    BY <1>4, <1>7, <2>2
  <2>. QED
    BY <1>1, <1>2, <1>3, <1>4, <1>5, <1>7, <2>3, <2>4
<1>8. CASE r.op.is \in {"deny", "invalidate"}
  <2>1. Live(s)
    BY <1>2, <1>4, <1>8, LawfulGrows
  <2>. QED
    BY <1>1, <1>2, <1>3, <1>4, <1>5, <1>8, <2>1
<1>9. r.op.is \in {"stage", "activate", "approve", "deny", "consume", "invalidate"}
  BY <1>1 DEF Kept, Placed
<1>. QED
  BY <1>6, <1>7, <1>8, <1>9

\* What a withdrawal does.
LEMMA WithdrawSteps ==
    ASSUME Inv, NEW c \in Callers, Withdraws(c)
    PROVE  \E id \in Ids : \E e :
              /\ stream' = [stream EXCEPT ![id] = Append(@, e)] /\ UNCHANGED authority
              /\ Follows(stream[id], e) /\ Live(stream[id])
              /\ e.state \in {"expired", "cancelled"}
<1>1. PICK r \in Records : r = call[c] /\ r.step \in {"expire", "withdraw"} /\ Kept(c, r)
  BY Acting DEF Withdraws, Steps
<1>2. Id(c) = r.id /\ Seen(c) = r.seen /\ r.id \in Ids /\ stream[r.id] = r.seen
      /\ r.seen \in Seq(AnyFact) /\ clock \in Nat
  BY <1>1, Unmoving, RecordFields DEF Withdraws, Id, Seen, Inv, Shared
<1>3. PICK s, state, e : /\ state \in {"expired", "cancelled"} /\ s = stream[r.id]
                         /\ e = Entry(state, Max2(clock, TimeOf(s)))
                         /\ stream' = [stream EXCEPT ![r.id] = Append(@, e)]
  BY <1>2 DEF Withdraws
<1>4. Live(s) /\ s \in Seq(AnyFact)
  BY <1>1, <1>2, <1>3 DEF Kept, Looked
<1>5. Follows(s, e) /\ e.state = state
  BY <1>2, <1>3, <1>4, Withdrawal
<1>. QED
  BY <1>2, <1>3, <1>4, <1>5 DEF Withdraws

\* What is reached in a history that got a fact.
LEMMA ReachedBefore ==
    ASSUME NEW s \in Seq(AnyFact), NEW e \in AnyFact, NEW t, t = Append(s, e),
           NEW state, Reached(t, state)
    PROVE  Reached(s, state) \/ e.state = state
<1>1. Len(s) \in Nat /\ Len(t) = Len(s) + 1 /\ t[Len(t)] = e /\ \A i \in 1 .. Len(s) : t[i] = s[i]
  BY Appended
<1>2. PICK i \in 1 .. Len(t) : t[i].state = state
  BY DEF Reached
<1>3. i \in 1 .. Len(s) \/ i = Len(t)
  BY <1>1
<1>. QED
  BY <1>1, <1>2, <1>3 DEF Reached

\* Once a run is cancelling no approval of it is activated or used (NothingAfterCancel):
\* both commits hold the version of the turn they looked at.
THEOREM NothingComesAfterCancel == Spec => NothingAfterCancel
<1>1. ASSUME Inv, [Next]_vars, Cancelled, NEW id \in Ids, NEW state \in {"active", "consumed"},
             Reached(stream'[id], state)
      PROVE  Reached(stream[id], state)
  <2>1. ASSUME NEW x \in Ids, NEW e, stream' = [stream EXCEPT ![x] = Append(@, e)],
               Follows(stream[x], e), x = id => e.state # state
        PROVE  Reached(stream[id], state)
    <3>1. stream \in [Ids -> Seq(AnyFact)] /\ e \in AnyFact
      BY <1>1, <2>1 DEF Inv, Shared, Follows
    <3>2. CASE x = id
      <4>1. PICK s, t : s = stream[id] /\ t = Append(s, e)
        OBVIOUS
      <4>2. stream'[id] = t /\ s \in Seq(AnyFact)
        BY <2>1, <3>1, <3>2, <4>1
      <4>3. Reached(t, state)
        BY <1>1, <4>2
      <4>. QED
        BY <2>1, <3>1, <3>2, <4>1, <4>2, <4>3, ReachedBefore
    <3>3. CASE x # id
      <4>1. stream'[id] = stream[id]
        BY <2>1, <3>1, <3>3
      <4>. QED
        BY <1>1, <4>1
    <3>. QED
      BY <3>2, <3>3
  <2>2. CASE Rests \/ Revises
    <3>1. stream' = stream
      BY <2>2 DEF Rests, Revises
    <3>. QED
      BY <1>1, <3>1
  <2>3. ASSUME NEW c \in Callers, Commits(c)
        PROVE  Reached(stream[id], state)
    <3>1. PICK r \in Records : \E e :
             /\ r = call[c] /\ r.id \in Ids /\ r.step = "commit" /\ Kept(c, r)
             /\ stream' = [stream EXCEPT ![r.id] = Append(@, e)]
             /\ Follows(stream[r.id], e)
             /\ \/ e.state \notin {"active", "consumed"}
                \/ r.op.is \in {"activate", "consume"}
      <4>1. \A v \in {"staged", "approved", "denied", "cancelled"} :
               v \notin {"active", "consumed"}
        OBVIOUS
      <4>. QED
        BY <1>1, <2>3, <4>1, CommitSteps
    <3>2. PICK e :
             /\ stream' = [stream EXCEPT ![r.id] = Append(@, e)]
             /\ Follows(stream[r.id], e)
             /\ \/ e.state \notin {"active", "consumed"}
                \/ r.op.is \in {"activate", "consume"}
      BY <3>1
    <3>3. r.op.is \notin {"activate", "consume"}
      <4>. SUFFICES ASSUME r.op.is \in {"activate", "consume"}
                    PROVE  FALSE
        OBVIOUS
      <4>1. \A i \in 1 .. r.run : run[i] # "cancelling"
        BY <3>1 DEF Kept, Paused
      <4>2. Len(run) = r.run
        BY <2>3, <3>1 DEF Commits, Holds, Is
      <4>. QED
        BY <1>1, <4>1, <4>2 DEF Cancelled
    <3>. QED
      BY <1>1, <2>1, <3>1, <3>2, <3>3
  <2>4. ASSUME NEW c \in Callers, Withdraws(c)
        PROVE  Reached(stream[id], state)
    <3>1. PICK x \in Ids : \E e : /\ stream' = [stream EXCEPT ![x] = Append(@, e)]
                              /\ Follows(stream[x], e) /\ e.state \in {"expired", "cancelled"}
      BY <1>1, <2>4, WithdrawSteps
    <3>. QED
      BY <1>1, <2>1, <3>1
  <2>. QED
    BY <1>1, <2>2, <2>3, <2>4, StepCases
<1>2. Inv /\ [Next]_vars =>
        [Cancelled => \A id \in Ids : \A state \in {"active", "consumed"} :
            Reached(stream'[id], state) => Reached(stream[id], state)]_vars
  BY <1>1
<1>. QED
  BY <1>2, Invariance, PTL DEF Spec, NothingAfterCancel

------------------------------------------------------------------------------
(* The promise to the rest of the system                                     *)

\* Where a history stands, as a grant.
LEMMA GrantCases ==
    ASSUME NEW s
    PROVE  /\ s = << >> => GrantOf(s) = "none"
           /\ s # << >> /\ StateOf(s) \in Alive \cup {"consumed"} => GrantOf(s) = StateOf(s)
           /\ s # << >> /\ StateOf(s) \notin Alive \cup {"consumed"} => GrantOf(s) = "void"
  BY DEF GrantOf

\* A stream that gets a fact changes one grant, and only its first fact binds it.
LEMMA GrantWritten ==
    ASSUME Inv, NEW id \in Ids, NEW e, Follows(stream[id], e),
           stream' = [stream EXCEPT ![id] = Append(@, e)],
           NEW grant, grant = [x \in Ids |-> GrantOf(stream[x])],
           NEW under, under = [x \in Ids |-> IF stream[x] = << >> THEN 0 ELSE Bound(stream[x])]
    PROVE  /\ [x \in Ids |-> GrantOf(stream'[x])] =
                 [grant EXCEPT ![id] = IF e.state \in Alive \cup {"consumed"} THEN e.state
                                       ELSE "void"]
           /\ [x \in Ids |-> IF stream'[x] = << >> THEN 0 ELSE Bound(stream'[x])] =
                 IF stream[id] = << >> THEN [under EXCEPT ![id] = e.authority] ELSE under
<1>1. stream \in [Ids -> Seq(AnyFact)] /\ e \in AnyFact
  BY DEF Inv, Shared, Follows
<1>2. PICK s \in Seq(AnyFact) : s = stream[id]
  BY <1>1
<1>3. PICK t : t = Append(s, e)
  OBVIOUS
<1>4. /\ t # << >> /\ t[Len(t)] = e
      /\ s # << >> => t[1] = s[1]
      /\ s = << >> => t[1] = e
  BY <1>1, <1>3, Appended
<1>5. stream'[id] = t /\ \A x \in Ids : x # id => stream'[x] = stream[x]
  BY <1>1, <1>2, <1>3
<1>6. GrantOf(t) = IF e.state \in Alive \cup {"consumed"} THEN e.state ELSE "void"
  BY <1>4, GrantCases DEF StateOf
<1>7. Bound(t) = IF s = << >> THEN e.authority ELSE Bound(s)
  BY <1>4 DEF Bound
<1>8. \A x \in Ids : x # id => GrantOf(stream'[x]) = GrantOf(stream[x])
  BY <1>5
<1>9. [x \in Ids |-> GrantOf(stream'[x])] =
         [grant EXCEPT ![id] = IF e.state \in Alive \cup {"consumed"} THEN e.state ELSE "void"]
  BY <1>5, <1>6, <1>8
<1>10. \A x \in Ids : (IF stream'[x] = << >> THEN 0 ELSE Bound(stream'[x])) =
          IF x = id /\ s = << >> THEN e.authority
          ELSE IF stream[x] = << >> THEN 0 ELSE Bound(stream[x])
  <2>1. ASSUME NEW x \in Ids, x # id
        PROVE  stream'[x] = stream[x]
    BY <1>5, <2>1
  <2>2. stream'[id] # << >> /\ Bound(stream'[id]) = Bound(t)
    BY <1>4, <1>5
  <2>. QED
    BY <1>2, <1>7, <2>1, <2>2
<1>11. s = << >> => \A x \in Ids : (IF stream'[x] = << >> THEN 0 ELSE Bound(stream'[x])) =
                      IF x = id THEN e.authority ELSE under[x]
  BY <1>10
<1>12. s # << >> => \A x \in Ids : (IF stream'[x] = << >> THEN 0 ELSE Bound(stream'[x])) =
                      under[x]
  BY <1>10
<1>13. /\ s = << >> => [x \in Ids |-> IF stream'[x] = << >> THEN 0 ELSE Bound(stream'[x])] =
                           [under EXCEPT ![id] = e.authority]
       /\ s # << >> => [x \in Ids |-> IF stream'[x] = << >> THEN 0 ELSE Bound(stream'[x])] = under
  BY <1>11, <1>12
<1>. QED
  BY <1>2, <1>9, <1>13

\* An approval is requested once, under the authority there is; moves towards one use
\* only under that authority; and is otherwise withdrawn for good (KeepsPromise): the
\* store implements Grants.
THEOREM PromiseKept == Spec => KeepsPromise
<1>1. ASSUME Init PROVE Promise!Init
  <2>1. \A id \in Ids : stream[id] = << >>
    BY <1>1 DEF Init
  <2>2. [id \in Ids |-> GrantOf(stream[id])] = [id \in Ids |-> "none"]
    BY <2>1, GrantCases
  <2>3. [id \in Ids |-> IF stream[id] = << >> THEN 0 ELSE Bound(stream[id])] = [id \in Ids |-> 0]
    BY <2>1
  <2>4. Len(authority) \in Nat
    BY <1>1, InitInv, ApprovalsAssumption DEF Inv, Shared
  <2>. QED
    BY <2>2, <2>3, <2>4 DEF Promise!Init
<1>2. ASSUME Inv, [Next]_vars PROVE [Promise!Next]_Promise!vars
  <2>1. PICK grant, under, version :
           /\ grant = [id \in Ids |-> GrantOf(stream[id])]
           /\ under = [id \in Ids |-> IF stream[id] = << >> THEN 0 ELSE Bound(stream[id])]
           /\ version = Len(authority)
    OBVIOUS
  <2>2. PICK grantNext, underNext :
           /\ grantNext = [id \in Ids |-> GrantOf(stream'[id])]
           /\ underNext = [id \in Ids |-> IF stream'[id] = << >> THEN 0 ELSE Bound(stream'[id])]
    OBVIOUS
  <2>3. CASE Rests
    BY <2>3 DEF Rests, Promise!vars
  <2>4. CASE Revises
    BY <2>4 DEF Revises, Promise!Next, Promise!Revise
  <2>5. ASSUME NEW id \in Ids, NEW e, Follows(stream[id], e), UNCHANGED authority,
               stream' = [stream EXCEPT ![id] = Append(@, e)]
        PROVE  /\ grant[id] = GrantOf(stream[id])
               /\ grantNext = [grant EXCEPT ![id] =
                     IF e.state \in Alive \cup {"consumed"} THEN e.state ELSE "void"]
               /\ stream[id] = << >> => underNext = [under EXCEPT ![id] = e.authority]
               /\ stream[id] # << >> => underNext = under /\ under[id] = Bound(stream[id])
               /\ Len(authority') = version
    BY <1>2, <2>1, <2>2, <2>5, GrantWritten
  <2>6. ASSUME NEW id \in Ids, NEW e, Follows(stream[id], e), UNCHANGED authority,
               stream' = [stream EXCEPT ![id] = Append(@, e)],
               stream[id] = << >>, e.state = "staged", e.authority = Len(authority)
        PROVE  Promise!Request(id)
    <3>1. grant[id] = "none" /\ grantNext = [grant EXCEPT ![id] = "staged"]
          /\ underNext = [under EXCEPT ![id] = version] /\ Len(authority') = version
      <4>1. grant[id] = "none"
        BY <2>5, <2>6, GrantCases
      <4>2. e.state \in Alive \cup {"consumed"}
        BY <2>6 DEF Alive
      <4>3. grantNext = [grant EXCEPT ![id] = e.state]
        BY <2>5, <2>6, <4>2
      <4>4. underNext = [under EXCEPT ![id] = e.authority] /\ Len(authority') = version
        BY <2>5, <2>6
      <4>. QED
        BY <2>1, <2>6, <4>1, <4>3, <4>4
    <3>. QED
      BY <2>1, <2>2, <3>1 DEF Promise!Request
  <2>7. ASSUME NEW id \in Ids, NEW e, Follows(stream[id], e), UNCHANGED authority,
               stream' = [stream EXCEPT ![id] = Append(@, e)], Live(stream[id]),
               e.state \in {"denied", "cancelled", "expired"}
        PROVE  Promise!Withdraw(id)
    <3>1. grant[id] \in {"staged", "active", "approved"}
      BY <2>5, <2>7, GrantCases DEF Live, Alive
    <3>2. grantNext = [grant EXCEPT ![id] = "void"] /\ underNext = under
          /\ Len(authority') = version
      BY <2>5, <2>7 DEF Live, Alive
    <3>. QED
      BY <2>1, <2>2, <3>1, <3>2 DEF Promise!Withdraw
  <2>8. ASSUME NEW id \in Ids, NEW e, Follows(stream[id], e), UNCHANGED authority,
               stream' = [stream EXCEPT ![id] = Append(@, e)], stream[id] # << >>,
               Bound(stream[id]) = Len(authority),
               NEW from \in Alive, StateOf(stream[id]) = from,
               NEW to \in Alive \cup {"consumed"}, e.state = to
        PROVE  Promise!Advance(id, from, to)
    <3>1. grant[id] = from /\ under[id] = version /\ grantNext = [grant EXCEPT ![id] = to]
          /\ underNext = under /\ Len(authority') = version
      BY <2>1, <2>5, <2>8, GrantCases
    <3>. QED
      BY <2>1, <2>2, <3>1 DEF Promise!Advance
  <2>9. ASSUME NEW c \in Callers, Commits(c)
        PROVE  Promise!Next
    <3>1. PICK id \in Ids : \E e :
             /\ stream' = [stream EXCEPT ![id] = Append(@, e)] /\ UNCHANGED authority
             /\ Follows(stream[id], e)
             /\ \/ /\ stream[id] = << >> /\ e.state = "staged" /\ e.authority = Len(authority)
                \/ /\ stream[id] # << >> /\ Bound(stream[id]) = Len(authority)
                   /\ <<StateOf(stream[id]), e.state>> \in
                         {<<"staged", "active">>, <<"active", "approved">>,
                          <<"approved", "consumed">>}
                \/ Live(stream[id]) /\ e.state \in {"denied", "cancelled"}
      BY <1>2, <2>9, CommitSteps
    <3>2. PICK e :
             /\ stream' = [stream EXCEPT ![id] = Append(@, e)] /\ UNCHANGED authority
             /\ Follows(stream[id], e)
             /\ \/ /\ stream[id] = << >> /\ e.state = "staged" /\ e.authority = Len(authority)
                \/ /\ stream[id] # << >> /\ Bound(stream[id]) = Len(authority)
                   /\ <<StateOf(stream[id]), e.state>> \in
                         {<<"staged", "active">>, <<"active", "approved">>,
                          <<"approved", "consumed">>}
                \/ Live(stream[id]) /\ e.state \in {"denied", "cancelled"}
      BY <3>1
    <3>3. CASE stream[id] = << >> /\ e.state = "staged" /\ e.authority = Len(authority)
      BY <2>6, <3>2, <3>3 DEF Promise!Next
    <3>4. ASSUME stream[id] # << >>, Bound(stream[id]) = Len(authority)
          PROVE  /\ StateOf(stream[id]) = "staged" /\ e.state = "active" =>
                       Promise!Advance(id, "staged", "active")
                 /\ StateOf(stream[id]) = "active" /\ e.state = "approved" =>
                       Promise!Advance(id, "active", "approved")
                 /\ StateOf(stream[id]) = "approved" /\ e.state = "consumed" =>
                       Promise!Advance(id, "approved", "consumed")
      BY <2>8, <3>2, <3>4 DEF Alive
    <3>5. CASE Live(stream[id]) /\ e.state \in {"denied", "cancelled"}
      BY <2>7, <3>2, <3>5 DEF Promise!Next
    <3>. QED
      BY <3>2, <3>3, <3>4, <3>5 DEF Promise!Next
  <2>10. ASSUME NEW c \in Callers, Withdraws(c)
         PROVE  Promise!Next
    <3>1. PICK id \in Ids : \E e :
             /\ stream' = [stream EXCEPT ![id] = Append(@, e)] /\ UNCHANGED authority
             /\ Follows(stream[id], e) /\ Live(stream[id]) /\ e.state \in {"expired", "cancelled"}
      BY <1>2, <2>10, WithdrawSteps
    <3>. QED
      BY <2>7, <3>1 DEF Promise!Next
  <2>. QED
    BY <1>2, <2>3, <2>4, <2>9, <2>10, StepCases
<1>3. Init => Promise!Init
  BY <1>1
<1>4. Inv /\ [Next]_vars => [Promise!Next]_Promise!vars
  BY <1>2
<1>. QED
  BY <1>3, <1>4, Invariance, PTL DEF Spec, KeepsPromise, Promise!Spec
==============================================================================
