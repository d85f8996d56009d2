--------------------------- MODULE DispatchTheorems ---------------------------
(***************************************************************************)
(* The safety of Dispatch for every number of callers, requests, executions,  *)
(* revisions, turns, restarts and commits with an unknown outcome.            *)
(*                                                                          *)
(* A dispatch reads, lets go, and commits later; between the two every other   *)
(* actor may have moved.  What carries the proof is that streams only grow:    *)
(* what a call saw at some versions is still so while these are the current     *)
(* ones (Aging), and that is kept for each call (Checked) and, once it is       *)
(* prepared, for the permit itself (Stands), which outlives the call.           *)
(*                                                                          *)
(* An execution belongs to one call (Owns, Alone), its facts are in their order *)
(* (Written) and tell how far its handler has come (Ran); a request has one     *)
(* permit (OnePermit), and only a confirmed claim lets a result go (Delivers).  *)
(***************************************************************************)
EXTENDS Dispatch, FiniteSetTheorems, SequenceTheorems, TLAPS

Outcomes == {"known", "unknown", "cancelled", "failed"}
Ends == {"unknown", "cancelled", "failed"}
Busy == [step : Steps, request : Requests, execution : Executions \cup {NoExecution},
         seen : VersionsType, outcome : Outcomes, hears : BOOLEAN]

Calls == call \in [Callers -> CallType]

\* The caller goes from one step to another, and no other caller moves.
Moved(c, step, execution, seen, outcome) ==
    /\ Calls'
    /\ call'[c].step = step /\ call'[c].request = Request(c) /\ call'[c].execution = execution
    /\ call'[c].seen = seen /\ call'[c].outcome = outcome
    /\ \A d \in Callers : d # c => call'[d] = call[d]

\* A caller is idle, or in one of the steps.
LEMMA CallCases ==
    ASSUME Calls, NEW c \in Callers
    PROVE  /\ call[c] = Idle \/ call[c] \in Busy
           /\ call[c] = Idle <=> call[c].step = "idle"
<1>1. call[c] \in CallType
  BY DEF Calls
<1>2. call[c] = Idle \/ call[c] \in Busy
  BY <1>1 DEF CallType, Busy, Outcomes
<1>3. Idle.step = "idle"
  BY DEF Idle
<1>4. ASSUME call[c] \in Busy PROVE call[c].step # "idle"
  BY <1>4 DEF Busy, Steps
<1>. QED
  BY <1>2, <1>3, <1>4

\* A step that only goes on keeps what the call has and has seen.
LEMMA GoToMoves ==
    ASSUME Calls, NEW c \in Callers, call[c].step # "idle", NEW step \in Steps, GoTo(c, step)
    PROVE  Moved(c, step, Execution(c), Seen(c), call[c].outcome)
<1>1. call[c] \in Busy
  BY CallCases
<1>2. PICK k : k = [call[c] EXCEPT !.step = step]
  OBVIOUS
<1>3. k \in Busy /\ k.step = step /\ k.request = call[c].request /\ k.execution = call[c].execution
      /\ k.seen = call[c].seen /\ k.outcome = call[c].outcome
  BY <1>1, <1>2 DEF Busy
<1>4. k \in CallType
  BY <1>3 DEF CallType, Busy, Outcomes
<1>5. call' = [call EXCEPT ![c] = k]
  BY <1>2 DEF GoTo
<1>6. Calls' /\ call'[c] = k /\ \A d \in Callers : d # c => call'[d] = call[d]
  BY <1>4, <1>5 DEF Calls
<1>. QED
  BY <1>3, <1>6 DEF Moved, Request, Execution, Seen

\* A step that reads the versions leaves the call with those.
LEMMA LookMoves ==
    ASSUME Calls, NEW c \in Callers, call[c].step # "idle", NEW step \in Steps, Look(c, step),
           Versions \in VersionsType
    PROVE  Moved(c, step, Execution(c), Versions, call[c].outcome)
<1>1. call[c] \in Busy
  BY CallCases
<1>. PICK seen \in VersionsType : seen = Versions
  OBVIOUS
<1>2. PICK k : k = [call[c] EXCEPT !.step = step, !.seen = seen]
  OBVIOUS
<1>. HIDE DEF VersionsType
<1>3. k \in Busy /\ k.step = step /\ k.request = call[c].request /\ k.execution = call[c].execution
      /\ k.seen = seen /\ k.outcome = call[c].outcome
  BY <1>1, <1>2 DEF Busy
<1>4. k \in CallType
  BY <1>3 DEF CallType, Busy, Outcomes
<1>5. call' = [call EXCEPT ![c] = k]
  BY <1>2 DEF Look
<1>6. Calls' /\ call'[c] = k /\ \A d \in Callers : d # c => call'[d] = call[d]
  BY <1>4, <1>5 DEF Calls
<1>. QED
  BY <1>3, <1>6 DEF Moved, Request, Execution, Seen

\* A step that gives the call an outcome keeps the rest of it.
LEMMA LeaveMoves ==
    ASSUME Calls, NEW c \in Callers, call[c].step # "idle", NEW step \in Steps,
           NEW outcome \in Outcomes, Leave(c, step, outcome)
    PROVE  Moved(c, step, Execution(c), Seen(c), outcome)
<1>1. call[c] \in Busy
  BY CallCases
<1>2. PICK k : k = [call[c] EXCEPT !.step = step, !.outcome = outcome]
  OBVIOUS
<1>3. k \in Busy /\ k.step = step /\ k.request = call[c].request /\ k.execution = call[c].execution
      /\ k.seen = call[c].seen /\ k.outcome = outcome
  BY <1>1, <1>2 DEF Busy
<1>4. k \in CallType
  BY <1>3 DEF CallType, Busy, Outcomes
<1>5. call' = [call EXCEPT ![c] = k]
  BY <1>2 DEF Leave
<1>6. Calls' /\ call'[c] = k /\ \A d \in Callers : d # c => call'[d] = call[d]
  BY <1>4, <1>5 DEF Calls
<1>. QED
  BY <1>3, <1>6 DEF Moved, Request, Execution, Seen

------------------------------------------------------------------------------
(* Reading the streams                                                       *)

Scopes == authority \in Nat \ {0} /\ company \in Seq({"open", "closed"})
          /\ quarantine \in Seq({"quarantined", "released"})
          /\ run \in Seq({"prompt", "note", "cancelling"} \cup TerminalKinds)
          /\ run # << >> /\ run[1] = "prompt"

\* Streams only grow.
Grows ==
    /\ authority <= authority'
    /\ company' = company \/ Len(company) < Len(company')
    /\ quarantine' = quarantine \/ Len(quarantine) < Len(quarantine')
    /\ run' = run \/ Len(run) < Len(run')

\* The versions were read some time ago.
Past(v) ==
    /\ v \in VersionsType
    /\ v.authority <= authority /\ v.company <= Len(company)
    /\ v.quarantine <= Len(quarantine) /\ v.run <= Len(run)

\* Reading the versions gives those of the four streams, and they are not to come.
LEMMA VersionsRead ==
    ASSUME Scopes
    PROVE  /\ Versions \in VersionsType /\ Past(Versions)
           /\ Versions.authority = authority /\ Versions.run = Len(run)
           /\ \A v \in VersionsType : Versions = v <=>
                 /\ v.authority = authority /\ v.company = Len(company)
                 /\ v.quarantine = Len(quarantine) /\ v.run = Len(run)
<1>1. /\ authority \in Nat /\ Len(company) \in Nat /\ Len(quarantine) \in Nat /\ Len(run) \in Nat
  BY DEF Scopes
<1>2. PICK a, b, q, n \in Nat : a = authority /\ b = Len(company) /\ q = Len(quarantine) /\ n = Len(run)
  BY <1>1
<1>3. Versions = [authority |-> a, company |-> b, quarantine |-> q, run |-> n]
  BY <1>2 DEF Versions
<1>. QED
  BY <1>2, <1>3 DEF VersionsType, Past

\* What a call saw is still so while the versions it saw are the current ones.
LEMMA Aging ==
    ASSUME Scopes, Scopes', Grows, NEW v, Past(v)
    PROVE  /\ Past(v)'
           /\ (Versions = v)' => /\ Versions = v
                                 /\ authority' = authority /\ company' = company
                                 /\ quarantine' = quarantine /\ run' = run
<1>1. /\ v \in VersionsType
      /\ v.authority \in Nat /\ v.company \in Nat /\ v.quarantine \in Nat /\ v.run \in Nat
  BY DEF Past, VersionsType
<1>2. /\ authority \in Nat /\ Len(company) \in Nat /\ Len(quarantine) \in Nat /\ Len(run) \in Nat
      /\ authority' \in Nat /\ Len(company') \in Nat /\ Len(quarantine') \in Nat /\ Len(run') \in Nat
  BY DEF Scopes
<1>3. Past(v)'
  <2>1. /\ authority <= authority' /\ Len(company) <= Len(company')
        /\ Len(quarantine) <= Len(quarantine') /\ Len(run) <= Len(run')
    BY DEF Grows
  <2>2. /\ v.authority <= authority /\ v.company <= Len(company)
        /\ v.quarantine <= Len(quarantine) /\ v.run <= Len(run)
    BY DEF Past
  <2>3. \A i, j, k \in Nat : i <= j /\ j <= k => i <= k
    OBVIOUS
  <2>4. /\ v.authority <= authority' /\ v.company <= Len(company')
        /\ v.quarantine <= Len(quarantine') /\ v.run <= Len(run')
    BY <1>1, <1>2, <2>1, <2>2, <2>3, Zenon
  <2>. QED
    BY <1>1, <2>4, Zenon DEF Past
<1>4. ASSUME (Versions = v)'
      PROVE  /\ v.authority = authority' /\ v.company = Len(company')
             /\ v.quarantine = Len(quarantine') /\ v.run = Len(run')
  BY <1>1, <1>4 DEF Versions
<1>5. ASSUME (Versions = v)'
      PROVE  /\ authority' = authority /\ company' = company
             /\ quarantine' = quarantine /\ run' = run
  BY <1>2, <1>4, <1>5 DEF Past, Grows
<1>6. (Versions = v)' => Versions = v
  BY <1>1, <1>4, <1>5, VersionsRead
<1>. QED
  BY <1>3, <1>5, <1>6

\* The turn and its state are read from the run alone.
LEMMA RunReads ==
    ASSUME run' = run
    PROVE  (Active' <=> Active) /\ Turn' = Turn /\ (Ended' <=> Ended)
<1>1. ThisTurn' = ThisTurn /\ PromptsOf(run)' = PromptsOf(run)
  BY Zenon DEF ThisTurn, PromptsOf
<1>. QED
  BY <1>1, Zenon DEF Active, Turn, Ended

\* The first fact of a run is a prompt, so that no turn has the number 0.
LEMMA TurnType ==
    ASSUME Scopes
    PROVE  Turn \in Nat \ {0}
<1>. DEFINE Facts == {"prompt", "note", "cancelling"} \cup TerminalKinds
<1>0. Len(run) \in Nat /\ DOMAIN run = 1 .. Len(run)
  <2>1. run \in Seq(Facts)
    BY DEF Scopes
  <2>. HIDE DEF Facts
  <2>. QED
    BY <2>1, LenProperties
<1>1. /\ IsFiniteSet(1 .. Len(run)) /\ PromptsOf(run) \subseteq 1 .. Len(run)
  BY <1>0, FS_Interval DEF PromptsOf
<1>2. IsFiniteSet(PromptsOf(run)) /\ Cardinality(PromptsOf(run)) \in Nat
  BY <1>1, FS_Subset, FS_CardinalityType
<1>3. 1 \in PromptsOf(run)
  BY DEF PromptsOf, Scopes
<1>4. Cardinality(PromptsOf(run)) # 0
  BY <1>2, <1>3, FS_EmptySet
<1>. QED
  BY <1>2, <1>4 DEF Turn

------------------------------------------------------------------------------
(* Permits                                                                   *)

Preparations == [is : {"prepared"}, request : Requests, turn : Nat, needs : VersionsType,
                 approval : {"none", "consumed"}]
Results == [is : {"result"}, outcome : {"known", "unknown", "cancelled"}, stopped : BOOLEAN]

\* The facts of an execution are in their order.
Written(s) ==
    /\ s \in Seq(PermitFacts) /\ Len(s) \in 0 .. 4
    /\ Len(s) >= 1 => s[1] \in Preparations
    /\ Len(s) >= 3 => s[2].is = "dispatching" /\ s[3].is = "executing"
    /\ Len(s) = 2 => s[2] \in Results
    /\ Len(s) = 4 => s[4] \in Results

\* Nothing is prepared in an empty stream.
LEMMA WrittenNone == Written(<< >>)
  BY DEF Written

\* A stream begins with the preparation.
LEMMA WrittenPrepared ==
    ASSUME NEW p \in Preparations
    PROVE  Written(<<p>>) /\ Len(<<p>>) = 1 /\ <<p>>[1] = p
<1>1. p \in PermitFacts
  BY DEF Preparations, PermitFacts
<1>. QED
  BY <1>1 DEF Written

\* The permit is consumed with two facts that follow the preparation.
LEMMA WrittenConsumed ==
    ASSUME NEW s, Written(s), Len(s) = 1,
           NEW t, t = s \o <<[is |-> "dispatching"], [is |-> "executing"]>>
    PROVE  Written(t) /\ Len(t) = 3 /\ t[1] = s[1]
<1>1. [is |-> "dispatching"] \in PermitFacts /\ [is |-> "executing"] \in PermitFacts
  BY DEF PermitFacts
<1>2. PICK d, e : d = [is |-> "dispatching"] /\ e = [is |-> "executing"]
  OBVIOUS
<1>3. d \in PermitFacts /\ e \in PermitFacts /\ d.is = "dispatching" /\ e.is = "executing"
  BY <1>1, <1>2
<1>4. s \in Seq(PermitFacts) /\ s[1] \in Preparations
  BY DEF Written
<1>5. t = s \o <<d, e>>
  BY <1>2
<1>6. <<d, e>> \in Seq(PermitFacts) /\ Len(<<d, e>>) = 2
  BY <1>3
<1>7. t \in Seq(PermitFacts) /\ Len(t) = 3 /\ t[1] = s[1] /\ t[2] = d /\ t[3] = e
  BY <1>4, <1>5, <1>6, ConcatProperties
<1>. QED
  BY <1>3, <1>4, <1>7 DEF Written

\* A permit whose next fact may be its result.
Unfinished(s) == Written(s) /\ Len(s) \in {1, 3}

\* And that permit once the fact stands.
Finished(s, e, t) == /\ Written(t) /\ Len(t) = Len(s) + 1
                     /\ t[1] = s[1] /\ t[Len(t)] = e

\* A result may follow the preparation, or the entry into the handler.
LEMMA WrittenResult ==
    ASSUME NEW s, Unfinished(s), NEW e \in Results, NEW t, t = Append(s, e)
    PROVE  Finished(s, e, t)
<1>1. Written(s) /\ Len(s) \in {1, 3}
  BY DEF Unfinished
<1>2. e \in Results /\ e.is = "result"
  BY DEF Results
<1>3. e \in PermitFacts
  BY DEF PermitFacts, Results
<1>4. /\ s \in Seq(PermitFacts) /\ s[1] \in Preparations
      /\ Len(s) = 3 => s[2].is = "dispatching" /\ s[3].is = "executing"
  BY <1>1 DEF Written
<1>6. /\ t \in Seq(PermitFacts) /\ Len(t) = Len(s) + 1 /\ t[Len(t)] = e
      /\ \A i \in 1 .. Len(s) : t[i] = s[i]
  BY <1>3, <1>4
<1>7. CASE Len(s) = 1
  BY <1>2, <1>4, <1>6, <1>7 DEF Written, Finished
<1>8. CASE Len(s) = 3
  BY <1>2, <1>4, <1>6, <1>8 DEF Written, Finished
<1>. QED
  BY <1>1, <1>7, <1>8

\* Results come second or fourth.
LEMMA WrittenLast ==
    ASSUME NEW s, Written(s)
    PROVE  /\ Len(s) \in 0 .. 4 /\ (Len(s) = 0 <=> s = << >>)
           /\ Len(s) \in {2, 4} <=> s # << >> /\ s[Len(s)].is = "result"
<1>1. Len(s) \in 0 .. 4 /\ (Len(s) = 0 <=> s = << >>)
  <2>1. s \in Seq(PermitFacts)
    BY DEF Written
  <2>2. Len(s) \in Nat /\ (s # << >> => Len(s) # 0) /\ Len(<< >>) = 0
    BY <2>1, EmptySeq, LenProperties
  <2>3. Len(s) = 0 <=> s = << >>
    BY <2>2, Zenon
  <2>. QED
    BY <2>3 DEF Written
<1>2. CASE Len(s) \in {2, 4}
  BY <1>1, <1>2 DEF Written, Results
<1>3. CASE Len(s) = 1
  BY <1>1, <1>3 DEF Written, Preparations
<1>4. CASE Len(s) = 3
  <2>1. s[3].is = "executing" /\ Len(s) \notin {2, 4}
    BY <1>4 DEF Written
  <2>2. s[Len(s)].is # "result"
    BY <1>4, <2>1
  <2>. QED
    BY <1>1, <2>1, <2>2, Zenon
<1>5. CASE Len(s) = 0
  <2>1. Len(s) \notin {2, 4}
    BY <1>5
  <2>. QED
    BY <1>1, <1>5, <2>1, Zenon
<1>6. Len(s) \in {2, 4} \/ Len(s) = 1 \/ Len(s) = 3 \/ Len(s) = 0
  BY <1>1
<1>. QED
  BY <1>1, <1>2, <1>3, <1>4, <1>5, <1>6

------------------------------------------------------------------------------
(* The invariant                                                             *)

ApprovalType == [is : {"none", "approved", "consumed", "void"}, under : Nat]

Typed ==
    /\ Scopes
    /\ pin \in [Requests -> Nat]
    /\ approval \in [Requests -> ApprovalType]
    /\ permit \in [Executions -> Seq(PermitFacts)]
    /\ delivery \in [Requests -> Nat]
    /\ Calls
    /\ started \in [Executions -> Nat] /\ sent \in [Requests -> Nat]
    /\ crashes \in Nat /\ unknowns \in Nat

\* No action is pinned to an authority to come.
Pinned == \A r \in Requests : pin[r] <= authority

Given(x) == Settled(x) /\ ResultOf(x) = "known"

\* The handler was entered at most once, after the permit was consumed, and a
\* known result is one of a handler.
Ran(x) ==
    /\ started[x] \in {0, 1} /\ (started[x] = 1 => Len(permit[x]) \in {3, 4})
    /\ Given(x) => started[x] = 1

\* While the versions a permit needs are the current ones, all that was checked
\* for it holds.
Stands(x) ==
    Prepared(x) =>
        /\ Past(PreparedFact(x).needs) /\ PreparedFact(x).turn # 0
        /\ Versions = PreparedFact(x).needs =>
              /\ Active /\ Turn = PreparedFact(x).turn
              /\ authority = Authorized /\ pin[RequestOf(x)] = Authorized
              /\ ~Quarantined /\ Open

Ledger(x) == Written(permit[x]) /\ Ran(x) /\ Stands(x)

\* What a call has checked when it gets to the prepare.
Checked(c) ==
    /\ call[c].step \in {"announce", "begin", "revision"} => pin[Request(c)] # 0
    /\ call[c].step \in {"scopes", "guard", "approval", "prepare"} =>
          pin[Request(c)] = Authorized
    /\ call[c].step \in {"guard", "approval", "prepare"} =>
          /\ Past(Seen(c))
          /\ Versions = Seen(c) => Active /\ ~Quarantined
    /\ call[c].step \in {"approval", "prepare"} =>
          /\ Seen(c).authority = Authorized
          /\ Versions = Seen(c) => Open
    /\ call[c].step = "prepare" /\ Request(c) \in Gated =>
          /\ approval[Request(c)].is # "none"
          /\ approval[Request(c)].under = Seen(c).authority

Looking == {"revision", "scopes", "guard", "approval", "prepare"}
Holding == {"prepared", "fence", "broker", "consume"}
Entering == {"handler", "running", "settle"}
Closing == {"record", "deliver", "claim", "send"}

\* How far the execution of a call has come.
Owns(c) ==
    /\ call[c].step \in Looking => Execution(c) \in Executions /\ ~Prepared(Execution(c))
    /\ call[c].step \in Holding \cup Entering \cup Closing =>
          /\ Execution(c) \in Executions /\ Prepared(Execution(c))
          /\ RequestOf(Execution(c)) = Request(c)
    /\ call[c].step \in Holding => Len(permit[Execution(c)]) = 1
    /\ call[c].step = "handler" => Len(permit[Execution(c)]) = 3 /\ started[Execution(c)] = 0
    /\ call[c].step = "running" => Len(permit[Execution(c)]) = 3 /\ started[Execution(c)] = 1
    /\ call[c].step = "settle" =>
          /\ Len(permit[Execution(c)]) \in {1, 3}
          /\ call[c].outcome # "failed"
          /\ call[c].outcome # "unknown" => started[Execution(c)] = 1
    /\ call[c].step \in {"fence", "conclude"} => call[c].outcome # "known"

\* What a call has to hand to the runner.
Delivers(c) ==
    /\ call[c].step = "claim" =>
          /\ Given(Execution(c))
          /\ Seen(c).run <= Len(run)
          /\ Len(run) = Seen(c).run => Active /\ PreparedFact(Execution(c)).turn = Turn
    /\ call[c].step = "send" =>
          Given(Execution(c)) /\ delivery[Request(c)] # 0 /\ sent[Request(c)] = 0

CallKept(c) == Checked(c) /\ Owns(c) /\ Delivers(c)

\* No two calls have the same execution, or the same delivery.
Alone(c, d) ==
    call[c].step # "idle" /\ call[d].step # "idle" =>
        /\ Execution(c) \in Executions => Execution(c) # Execution(d)
        /\ call[c].step = "send" /\ call[d].step = "send" => Request(c) # Request(d)

OnePermit == \A x, y \in Executions :
    Prepared(x) /\ Prepared(y) /\ RequestOf(x) = RequestOf(y) => x = y

SentWell(r) == sent[r] > 0 =>
    /\ sent[r] = 1 /\ delivery[r] # 0
    /\ \E x \in Executions : Given(x) /\ RequestOf(x) = r

\* An approval is consumed by the permit of its request.
Spent(r) ==
    /\ approval[r].is = "consumed" <=> \E x \in Executions : Prepared(x) /\ RequestOf(x) = r
    /\ \A x \in Executions : Prepared(x) /\ RequestOf(x) = r =>
          PreparedFact(x).needs.authority = approval[r].under

Inv ==
    /\ Typed /\ Pinned
    /\ \A x \in Executions : Ledger(x)
    /\ \A c \in Callers : CallKept(c)
    /\ \A c, d \in Callers : c # d => Alone(c, d)
    /\ OnePermit
    /\ \A r \in Requests : SentWell(r)
    /\ \A r \in Gated : Spent(r)

------------------------------------------------------------------------------
(* What a step leaves alone                                                  *)

Untouched(x) == permit'[x] = permit[x] /\ started'[x] = started[x]

\* Streams, pins and approvals only go on.
Onward ==
    /\ Scopes /\ Scopes' /\ Grows
    /\ \A r \in Requests : pin[r] # 0 => pin'[r] = pin[r]
    /\ \A r \in Gated : approval[r].is # "none" =>
          approval'[r].is # "none" /\ approval'[r].under = approval[r].under

\* What the fields of a call that is not idle may hold.
LEMMA CallFields ==
    ASSUME Calls, NEW c \in Callers, call[c].step # "idle"
    PROVE  /\ call[c].step \in Steps /\ Request(c) \in Requests
           /\ Execution(c) \in Executions \cup {NoExecution}
           /\ Seen(c) \in VersionsType /\ call[c].outcome \in Outcomes
<1>1. call[c] \in Busy
  BY CallCases
<1>. QED
  BY <1>1 DEF Busy, Request, Execution, Seen

\* Readings of the scopes do not change with unchanged streams.
LEMMA ScopeReads ==
    ASSUME run' = run, quarantine' = quarantine, company' = company
    PROVE  /\ Active' <=> Active
           /\ Turn' = Turn /\ (Quarantined' <=> Quarantined) /\ (Open' <=> Open)
<1>1. (Quarantined' <=> Quarantined) /\ (Open' <=> Open)
  BY DEF Quarantined, Open
<1>. QED
  BY <1>1, RunReads

\* What a call has checked stays so whatever the others do: the streams it has seen either
\* are as they were or are at versions that it has not seen.
LEMMA CarryChecked ==
    ASSUME Onward, Calls, NEW d \in Callers, call[d].step # "idle", call'[d] = call[d], Checked(d)
    PROVE  Checked(d)'
<1>1. Request(d) \in Requests /\ (pin[Request(d)] # 0 => pin'[Request(d)] = pin[Request(d)])
  BY CallFields DEF Onward
<1>2. /\ Request(d)' = Request(d) /\ Seen(d)' = Seen(d) /\ call'[d].step = call[d].step
  BY DEF Request, Seen
<1>3. Authorized # 0 /\ Authorized' = Authorized
  BY DEF Authorized
<1>4. PICK v : v = Seen(d)
  OBVIOUS
<1>5. ASSUME Past(v)
      PROVE  /\ Past(v)'
             /\ (Versions = v)' => /\ Versions = v /\ run' = run /\ quarantine' = quarantine
                                   /\ company' = company
  BY <1>5, Aging DEF Onward
<1>6. call[d].step \in {"announce", "begin", "revision"} => pin'[Request(d)] # 0
  BY <1>1 DEF Checked
<1>7. call[d].step \in {"scopes", "guard", "approval", "prepare"} =>
          pin'[Request(d)] = Authorized
  BY <1>1, <1>3 DEF Checked
<1>8. ASSUME call[d].step \in {"guard", "approval", "prepare"}
      PROVE  /\ Past(v)'
             /\ (Versions = v)' => Active' /\ ~Quarantined'
  <2>1. Past(v) /\ (Versions = v => Active /\ ~Quarantined)
    BY <1>4, <1>8 DEF Checked
  <2>2. Past(v)'
    BY <1>5, <2>1
  <2>3. ASSUME (Versions = v)' PROVE Active' /\ ~Quarantined'
    BY <1>5, <2>1, <2>3, ScopeReads
  <2>. QED
    BY <2>2, <2>3
<1>9. ASSUME call[d].step \in {"approval", "prepare"}
      PROVE  v.authority = Authorized /\ ((Versions = v)' => Open')
  <2>1. Past(v) /\ v.authority = Authorized /\ (Versions = v => Open)
    BY <1>4, <1>9 DEF Checked
  <2>2. ASSUME (Versions = v)' PROVE Open'
    BY <1>5, <2>1, <2>2, ScopeReads
  <2>. QED
    BY <2>1, <2>2
<1>10. call[d].step = "prepare" /\ Request(d) \in Gated =>
          approval'[Request(d)].is # "none" /\ approval'[Request(d)].under = v.authority
  BY <1>4 DEF Checked, Onward
<1>. QED
  BY <1>2, <1>3, <1>4, <1>6, <1>7, <1>8, <1>9, <1>10 DEF Checked

\* A call whose execution nobody touches has come as far as before.
LEMMA CarryOwns ==
    ASSUME NEW d \in Callers, call'[d] = call[d], Owns(d),
           Execution(d) \in Executions => Untouched(Execution(d))
    PROVE  Owns(d)'
<1>1. /\ Request(d)' = Request(d) /\ Execution(d)' = Execution(d)
      /\ call'[d].step = call[d].step /\ call'[d].outcome = call[d].outcome
  BY DEF Request, Execution
<1>2. PICK x : x = Execution(d)
  OBVIOUS
<1>3. x \in Executions => permit'[x] = permit[x] /\ started'[x] = started[x]
  BY <1>2 DEF Untouched
<1>4. x \in Executions => (Prepared(x)' <=> Prepared(x)) /\ RequestOf(x)' = RequestOf(x)
  BY <1>3 DEF Prepared, RequestOf, PreparedFact
<1>. QED
  BY <1>1, <1>2, <1>3, <1>4 DEF Owns, Looking, Holding, Entering, Closing

\* A call whose execution nobody touches may deliver what it could deliver.
LEMMA CarryDelivers ==
    ASSUME Onward, Calls, NEW d \in Callers, call'[d] = call[d], Owns(d), Delivers(d),
           Execution(d) \in Executions => Untouched(Execution(d)),
           call[d].step = "send" =>
              delivery'[Request(d)] # 0 /\ sent'[Request(d)] = sent[Request(d)]
    PROVE  Delivers(d)'
<1>1. /\ Request(d)' = Request(d) /\ Execution(d)' = Execution(d) /\ Seen(d)' = Seen(d)
      /\ call'[d].step = call[d].step
  BY DEF Request, Execution, Seen
<1>2. PICK x, v : x = Execution(d) /\ v = Seen(d)
  OBVIOUS
<1>3. call[d].step \in {"claim", "send"} => x \in Executions
  BY <1>2 DEF Owns, Closing
<1>4. x \in Executions => (Given(x)' <=> Given(x)) /\ PreparedFact(x)' = PreparedFact(x)
  BY <1>2 DEF Untouched, Given, Settled, Prepared, ResultOf, PreparedFact
<1>5. CASE call[d].step = "claim"
  <2>1. v \in VersionsType
    BY <1>2, <1>5, CallFields
  <2>2. v.run \in Nat /\ Len(run) \in Nat /\ Len(run') \in Nat
    BY <2>1 DEF VersionsType, Onward, Scopes
  <2>3. Given(x) /\ v.run <= Len(run) /\ (Len(run) = v.run => Active /\ PreparedFact(x).turn = Turn)
    BY <1>2, <1>5 DEF Delivers
  <2>4. Given(x)' /\ v.run <= Len(run') /\ (Len(run') = v.run => run' = run /\ Len(run) = v.run)
    BY <1>3, <1>4, <1>5, <2>2, <2>3 DEF Onward, Grows
  <2>5. Len(run') = v.run => Active' /\ PreparedFact(x)'.turn = Turn'
    BY <1>3, <1>4, <1>5, <2>3, <2>4, RunReads
  <2>. QED
    BY <1>1, <1>2, <1>5, <2>4, <2>5 DEF Delivers
<1>6. CASE call[d].step = "send"
  BY <1>1, <1>2, <1>3, <1>4, <1>6 DEF Delivers
<1>7. CASE call[d].step \notin {"claim", "send"}
  BY <1>1, <1>7 DEF Delivers
<1>. QED
  BY <1>5, <1>6, <1>7

\* A permit that nobody touches stands, for its versions pass for good.
LEMMA CarryLedger ==
    ASSUME Onward, Typed, NEW x \in Executions, Untouched(x), Ledger(x)
    PROVE  Ledger(x)'
<1>1. permit'[x] = permit[x] /\ started'[x] = started[x]
  BY DEF Untouched
<1>2. /\ (Given(x)' <=> Given(x)) /\ PreparedFact(x)' = PreparedFact(x)
      /\ (Prepared(x)' <=> Prepared(x)) /\ RequestOf(x)' = RequestOf(x)
  BY <1>1 DEF Given, Settled, Prepared, ResultOf, PreparedFact, RequestOf
<1>3. Written(permit[x])' /\ Ran(x)'
  BY <1>1, <1>2 DEF Ledger, Ran
<1>4. ASSUME Prepared(x)
      PROVE  Stands(x)'
  <2>1. PICK p : p = PreparedFact(x)
    OBVIOUS
  <2>2. PICK v : v = p.needs
    OBVIOUS
  <2>3. /\ Past(v) /\ p.turn # 0 /\ RequestOf(x) = p.request
        /\ Versions = v => /\ Active /\ Turn = p.turn
                           /\ authority = Authorized /\ pin[p.request] = Authorized
                           /\ ~Quarantined /\ Open
    BY <1>4, <2>1, <2>2 DEF Ledger, Stands, RequestOf
  <2>4. Len(permit[x]) >= 1
    BY <1>4, WrittenLast DEF Ledger, Prepared
  <2>5. p.request \in Requests
    BY <2>1, <2>4 DEF Ledger, Written, PreparedFact, Preparations
  <2>6. Past(v)' /\ ((Versions = v)' => /\ Versions = v /\ authority' = authority /\ run' = run
                                       /\ quarantine' = quarantine /\ company' = company)
    BY <2>3, Aging DEF Onward
  <2>7. Authorized # 0 /\ Authorized' = Authorized
    BY DEF Authorized
  <2>8. ASSUME (Versions = v)'
        PROVE  /\ Active' /\ Turn' = p.turn
               /\ authority' = Authorized /\ pin'[p.request] = Authorized
               /\ ~Quarantined' /\ Open'
    <3>1. Versions = v /\ authority' = authority
      BY <2>6, <2>8
    <3>2. (Active' <=> Active) /\ Turn' = Turn /\ (Quarantined' <=> Quarantined) /\ (Open' <=> Open)
      BY <2>6, <2>8, ScopeReads
    <3>3. pin'[p.request] = pin[p.request]
      BY <2>3, <2>5, <2>7, <3>1 DEF Onward
    <3>. QED
      BY <2>3, <3>1, <3>2, <3>3
  <2>9. /\ PreparedFact(x)' = p /\ RequestOf(x)' = p.request
    BY <1>2, <2>1, <2>3
  <2>. QED
    BY <2>2, <2>3, <2>6, <2>7, <2>8, <2>9 DEF Stands
<1>5. ~Prepared(x) => Stands(x)'
  BY <1>2 DEF Stands
<1>. QED
  BY <1>3, <1>4, <1>5 DEF Ledger

\* A call that does not move keeps what it has checked, owns and delivers.
LEMMA CarryCall ==
    ASSUME Onward, Calls, NEW d \in Callers, call'[d] = call[d], CallKept(d),
           call[d].step # "idle" /\ Execution(d) \in Executions => Untouched(Execution(d)),
           call[d].step = "send" =>
              delivery'[Request(d)] # 0 /\ sent'[Request(d)] = sent[Request(d)]
    PROVE  CallKept(d)'
<1>1. CASE call[d].step = "idle"
  <2>1. call'[d].step = "idle"
    BY <1>1
  <2>. QED
    BY <2>1, Zenon DEF CallKept, Checked, Owns, Delivers, Looking, Holding, Entering, Closing
<1>2. CASE call[d].step # "idle"
  BY <1>2, CarryChecked, CarryOwns, CarryDelivers DEF CallKept
<1>. QED
  BY <1>1, <1>2

\* Two calls that do not move stay apart.
LEMMA CarryAlone ==
    ASSUME NEW c, NEW d, call'[c] = call[c], call'[d] = call[d], Alone(c, d)
    PROVE  Alone(c, d)'
  BY DEF Alone, Execution, Request

\* With the permits, the approvals, the claims and the callbacks as they were,
\* what is between them is as it was.
LEMMA CarryPermits ==
    ASSUME Inv, UNCHANGED <<permit, approval, delivery, sent>>
    PROVE  /\ OnePermit'
           /\ \A r \in Requests : SentWell(r)'
           /\ \A r \in Gated : Spent(r)'
<1>1. \A x \in Executions : /\ (Prepared(x)' <=> Prepared(x)) /\ RequestOf(x)' = RequestOf(x)
                            /\ PreparedFact(x)' = PreparedFact(x) /\ (Given(x)' <=> Given(x))
  BY DEF Given, Settled, Prepared, ResultOf, PreparedFact, RequestOf
<1>2. OnePermit'
  BY <1>1 DEF OnePermit, Inv
<1>3. \A r \in Requests : SentWell(r)'
  BY <1>1 DEF SentWell, Inv
<1>4. \A r \in Gated : Spent(r)'
  BY <1>1 DEF Spent, Inv
<1>. QED
  BY <1>2, <1>3, <1>4

\* One call moves, and at most its own execution is touched.
LEMMA OneMoves ==
    ASSUME Inv, Onward, Typed', Pinned', NEW c \in Callers, NEW x,
           \A d \in Callers : d # c => call'[d] = call[d],
           \A d \in Callers : d # c /\ call[d].step # "idle" => Execution(d) # x,
           \A y \in Executions : y # x => Untouched(y),
           x \in Executions => Ledger(x)',
           CallKept(c)',
           \A d \in Callers : d # c => Alone(c, d)' /\ Alone(d, c)',
           \A d \in Callers : d # c /\ call[d].step = "send" =>
              delivery'[Request(d)] # 0 /\ sent'[Request(d)] = sent[Request(d)],
           OnePermit', \A r \in Requests : SentWell(r)', \A r \in Gated : Spent(r)'
    PROVE  Inv'
<1>1. \A y \in Executions : Ledger(y)'
  BY CarryLedger DEF Inv
<1>2. ASSUME NEW d \in Callers, d # c
      PROVE  CallKept(d)'
  <2>1. Calls /\ CallKept(d) /\ call'[d] = call[d]
    BY <1>2 DEF Inv, Typed
  <2>2. call[d].step # "idle" /\ Execution(d) \in Executions => Untouched(Execution(d))
    BY <1>2
  <2>3. call[d].step = "send" =>
              delivery'[Request(d)] # 0 /\ sent'[Request(d)] = sent[Request(d)]
    BY <1>2
  <2>. QED
    BY <2>1, <2>2, <2>3, CarryCall
<1>3. ASSUME NEW d \in Callers, NEW e \in Callers, d # e
      PROVE  Alone(d, e)'
  <2>1. CASE d = c \/ e = c
    BY <1>3, <2>1
  <2>2. CASE d # c /\ e # c
    BY <1>3, <2>2, CarryAlone DEF Inv
  <2>. QED
    BY <2>1, <2>2
<1>4. \A d \in Callers : CallKept(d)'
  BY <1>2
<1>5. \A d, e \in Callers : d # e => Alone(d, e)'
  BY <1>3
<1>. QED
  BY <1>1, <1>4, <1>5 DEF Inv

\* Nothing moves but the streams around the calls.
LEMMA NoneMoves ==
    ASSUME Inv, Onward, Typed', Pinned',
           UNCHANGED <<call, permit, delivery, effects>>,
           \A r \in Gated : Spent(r)'
    PROVE  Inv'
<1>. USE DEF effects
<1>1. \A y \in Executions : Ledger(y)'
  BY CarryLedger DEF Inv, Untouched
<1>2. \A d \in Callers : CallKept(d)'
  <2>. TAKE d \in Callers
  <2>1. Calls /\ CallKept(d) /\ call'[d] = call[d] /\ Untouched(Execution(d))
    BY DEF Inv, Typed, Untouched
  <2>2. call[d].step = "send" =>
              delivery'[Request(d)] # 0 /\ sent'[Request(d)] = sent[Request(d)]
    BY <2>1 DEF CallKept, Delivers
  <2>. QED
    BY <2>1, <2>2, CarryCall
<1>3. \A d, e \in Callers : d # e => Alone(d, e)'
  BY CarryAlone DEF Inv
<1>4. \A x \in Executions : /\ (Prepared(x)' <=> Prepared(x)) /\ RequestOf(x)' = RequestOf(x)
                            /\ (Given(x)' <=> Given(x))
  BY DEF Given, Settled, Prepared, ResultOf, PreparedFact, RequestOf
<1>5. OnePermit' /\ \A r \in Requests : SentWell(r)'
  BY <1>4 DEF OnePermit, SentWell, Inv
<1>. QED
  BY <1>1, <1>2, <1>3, <1>5 DEF Inv

\* One call moves; the streams may grow, the rest stays.
LEMMA OneCall ==
    ASSUME Inv, Onward, Typed', Pinned', NEW c \in Callers,
           \A d \in Callers : d # c => call'[d] = call[d],
           UNCHANGED <<permit, approval, delivery, effects>>,
           CallKept(c)',
           \A d \in Callers : d # c => Alone(c, d)' /\ Alone(d, c)'
    PROVE  Inv'
<1>. USE DEF effects
<1>1. \A y \in Executions : Untouched(y)
  BY DEF Untouched
<1>2. \A y \in Executions : Ledger(y)'
  BY <1>1, CarryLedger DEF Inv
<1>3. OnePermit' /\ (\A r \in Requests : SentWell(r)') /\ (\A r \in Gated : Spent(r)')
  BY CarryPermits
<1>4. ASSUME NEW d \in Callers, d # c
      PROVE  CallKept(d)'
  <2>1. Calls /\ CallKept(d) /\ call'[d] = call[d]
    BY <1>4 DEF Inv, Typed
  <2>2. call[d].step = "send" =>
              delivery'[Request(d)] # 0 /\ sent'[Request(d)] = sent[Request(d)]
    BY <2>1 DEF CallKept, Delivers
  <2>. QED
    BY <1>1, <2>1, <2>2, CarryCall
<1>5. \A d \in Callers : CallKept(d)'
  BY <1>4
<1>6. \A d, e \in Callers : d # e => Alone(d, e)'
  <2>. SUFFICES ASSUME NEW d \in Callers, NEW e \in Callers, d # e PROVE Alone(d, e)'
    OBVIOUS
  <2>1. CASE d = c \/ e = c
    BY <2>1
  <2>2. CASE d # c /\ e # c
    BY <2>2, CarryAlone DEF Inv
  <2>. QED
    BY <2>1, <2>2
<1>. QED
  BY <1>2, <1>3, <1>5, <1>6 DEF Inv

\* A call goes on with its execution; the streams may grow, the rest stays.
LEMMA Passes ==
    ASSUME Inv, Onward, Typed', Pinned', NEW c \in Callers, call[c].step # "idle",
           NEW step, step = "send" => call[c].step = "send", NEW seen, NEW outcome,
           Moved(c, step, Execution(c), seen, outcome),
           UNCHANGED <<permit, approval, delivery, effects>>,
           CallKept(c)'
    PROVE  Inv'
<1>. PICK x : x = Execution(c)
  OBVIOUS
<1>1. /\ call'[c].step = step /\ Execution(c)' = x /\ Request(c)' = Request(c)
      /\ \A d \in Callers : d # c => call'[d] = call[d]
  BY DEF Moved, Execution, Request
<1>2. ASSUME NEW d \in Callers, d # c
      PROVE  Alone(c, d)' /\ Alone(d, c)'
  <2>1. Execution(d)' = Execution(d) /\ call'[d] = call[d] /\ Request(d)' = Request(d)
    BY <1>1, <1>2 DEF Execution, Request
  <2>. QED
    BY <1>1, <1>2, <2>1 DEF Inv, Alone
<1>. QED
  BY <1>1, <1>2, OneCall

------------------------------------------------------------------------------
(* Steps of a call that change nothing else                                  *)

Bounded == crashes \in Nat /\ unknowns \in Nat
Still == UNCHANGED <<scope, pin, approval, permit, delivery, effects>>

\* What CallKept asks of a call with these fields.
Keeps(step, r, x, seen, outcome) ==
    /\ step \in {"announce", "begin", "revision"} => pin[r] # 0
    /\ step \in {"scopes", "guard", "approval", "prepare"} => pin[r] = Authorized
    /\ step \in {"guard", "approval", "prepare"} =>
          /\ Past(seen)
          /\ Versions = seen => Active /\ ~Quarantined
    /\ step \in {"approval", "prepare"} =>
          /\ seen.authority = Authorized
          /\ Versions = seen => Open
    /\ step = "prepare" /\ r \in Gated =>
          approval[r].is # "none" /\ approval[r].under = seen.authority
    /\ step \in Looking => x \in Executions /\ ~Prepared(x)
    /\ step \in Holding \cup Entering \cup Closing =>
          x \in Executions /\ Prepared(x) /\ RequestOf(x) = r
    /\ step \in Holding => Len(permit[x]) = 1
    /\ step = "handler" => Len(permit[x]) = 3 /\ started[x] = 0
    /\ step = "running" => Len(permit[x]) = 3 /\ started[x] = 1
    /\ step = "settle" =>
          /\ Len(permit[x]) \in {1, 3}
          /\ outcome # "failed"
          /\ outcome # "unknown" => started[x] = 1
    /\ step \in {"fence", "conclude"} => outcome # "known"
    /\ step = "claim" =>
          /\ Given(x)
          /\ seen.run <= Len(run)
          /\ Len(run) = seen.run => Active /\ PreparedFact(x).turn = Turn
    /\ step = "send" => Given(x) /\ delivery[r] # 0 /\ sent[r] = 0

\* Keeps reads the same from the fields of the call.
LEMMA KeepsCall ==
    ASSUME NEW c, CallKept(c)
    PROVE  Keeps(call[c].step, Request(c), Execution(c), Seen(c), call[c].outcome)
  BY DEF CallKept, Checked, Owns, Delivers, Keeps

\* With everything else still, only the fields count.
LEMMA StillKept ==
    ASSUME Still, NEW c, NEW step, NEW r, NEW x, NEW seen, NEW outcome,
           Moved(c, step, x, seen, outcome), r = Request(c),
           Keeps(step, r, x, seen, outcome)
    PROVE  CallKept(c)'
<1>. USE DEF Still, scope, effects
<1>1. /\ call'[c].step = step /\ Request(c)' = r /\ Execution(c)' = x /\ Seen(c)' = seen
      /\ call'[c].outcome = outcome
  BY DEF Moved, Request, Execution, Seen
<1>2. /\ (Active' <=> Active) /\ Turn' = Turn /\ (Quarantined' <=> Quarantined) /\ (Open' <=> Open)
      /\ Versions' = Versions /\ Authorized' = Authorized /\ (Past(seen)' <=> Past(seen))
  BY ScopeReads DEF Versions, Authorized, Past
<1>3. /\ (Prepared(x)' <=> Prepared(x)) /\ RequestOf(x)' = RequestOf(x)
      /\ PreparedFact(x)' = PreparedFact(x) /\ (Given(x)' <=> Given(x))
  BY DEF Given, Settled, Prepared, ResultOf, PreparedFact, RequestOf
<1>4. Checked(c)'
  BY <1>1, <1>2 DEF Checked, Keeps
<1>5. Owns(c)'
  BY <1>1, <1>3 DEF Owns, Keeps, Looking, Holding, Entering, Closing
<1>6. Delivers(c)'
  BY <1>1, <1>2, <1>3 DEF Delivers, Keeps
<1>. QED
  BY <1>4, <1>5, <1>6 DEF CallKept

\* With everything but the call as it was, all is typed.
LEMMA StillTyped ==
    ASSUME Inv, Still, Calls', Bounded'
    PROVE  Onward /\ Typed' /\ Pinned'
<1>1. Scopes /\ Scopes'
  BY DEF Inv, Typed, Scopes, Still, scope
<1>2. Grows
  BY <1>1 DEF Grows, Still, scope, Scopes
<1>. QED
  BY <1>1, <1>2 DEF Onward, Typed, Pinned, Inv, Still, scope, effects, Bounded

\* A step of a call that changes nothing else.
LEMMA CallOnly ==
    ASSUME Inv, Still, Bounded', NEW c \in Callers, call[c].step # "idle",
           NEW step, step = "send" => call[c].step = "send", NEW seen, NEW outcome,
           Moved(c, step, Execution(c), seen, outcome),
           Keeps(step, Request(c), Execution(c), seen, outcome)
    PROVE  Inv'
<1>1. Onward /\ Typed' /\ Pinned'
  BY StillTyped DEF Moved
<1>2. CallKept(c)'
  BY StillKept
<1>. QED
  BY <1>1, <1>2, Passes DEF Still

\* A step that only goes on, with everything else as it was.
LEMMA GoesOn ==
    ASSUME Inv, Still, Bounded', NEW c \in Callers, call[c].step # "idle",
           NEW step \in Steps, step # "send", GoTo(c, step),
           Keeps(step, Request(c), Execution(c), Seen(c), call[c].outcome)
    PROVE  Inv'
<1>1. Moved(c, step, Execution(c), Seen(c), call[c].outcome)
  BY GoToMoves DEF Inv, Typed
<1>. QED
  BY <1>1, CallOnly

\* A step that reads the versions, with everything else as it was.
LEMMA Looks ==
    ASSUME Inv, Still, Bounded', NEW c \in Callers, call[c].step # "idle",
           NEW step \in Steps, step # "send", Look(c, step),
           Keeps(step, Request(c), Execution(c), Versions, call[c].outcome)
    PROVE  Inv'
<1>1. Moved(c, step, Execution(c), Versions, call[c].outcome)
  BY LookMoves, VersionsRead DEF Inv, Typed
<1>. QED
  BY <1>1, CallOnly

\* A step that gives the call an outcome, with everything else as it was.
LEMMA Leaves ==
    ASSUME Inv, Still, Bounded', NEW c \in Callers, call[c].step # "idle",
           NEW step \in Steps, step # "send", NEW outcome \in Outcomes, Leave(c, step, outcome),
           Keeps(step, Request(c), Execution(c), Seen(c), outcome)
    PROVE  Inv'
<1>1. Moved(c, step, Execution(c), Seen(c), outcome)
  BY LeaveMoves DEF Inv, Typed
<1>. QED
  BY <1>1, CallOnly

\* A call that is doomed has nothing to keep.
LEMMA Dooms ==
    ASSUME Inv, Still, Bounded', NEW c \in Callers, call[c].step # "idle",
           NEW outcome \in Ends, Doom(c, outcome)
    PROVE  Inv'
<1>0. outcome \in Outcomes /\ outcome # "known"
  BY DEF Outcomes, Ends
<1>1. Keeps("conclude", Request(c), Execution(c), Seen(c), outcome)
  BY <1>0 DEF Keeps, Looking, Holding, Entering, Closing
<1>2. "conclude" \in Steps /\ Leave(c, "conclude", outcome)
  BY DEF Steps, Doom
<1>. QED
  BY <1>0, <1>1, <1>2, Leaves

\* A call that returns is idle.
LEMMA ReturnMoves ==
    ASSUME Calls, NEW c \in Callers, Return(c)
    PROVE  /\ Calls' /\ call'[c].step = "idle"
           /\ \A d \in Callers : d # c => call'[d] = call[d]
<1>1. Idle \in CallType /\ Idle.step = "idle"
  BY DEF CallType, Idle
<1>2. call' = [call EXCEPT ![c] = Idle]
  BY DEF Return
<1>. QED
  BY <1>1, <1>2 DEF Calls

\* A call that returns has nothing to keep, and the streams may grow with its last step.
LEMMA ReturnStreams ==
    ASSUME Inv, Onward, Typed', Pinned', NEW c \in Callers, Return(c),
           UNCHANGED <<permit, approval, delivery, effects>>
    PROVE  Inv'
<1>1. call'[c].step = "idle" /\ \A d \in Callers : d # c => call'[d] = call[d]
  BY ReturnMoves DEF Inv, Typed
<1>2. CallKept(c)'
  BY <1>1 DEF CallKept, Checked, Owns, Delivers, Looking, Holding, Entering, Closing
<1>3. \A d \in Callers : d # c => Alone(c, d)' /\ Alone(d, c)'
  BY <1>1 DEF Alone
<1>. QED
  BY <1>1, <1>2, <1>3, OneCall

\* A call that only returns.
LEMMA Returns ==
    ASSUME Inv, Still, Bounded', NEW c \in Callers, Return(c)
    PROVE  Inv'
<1>1. Calls'
  BY ReturnMoves DEF Inv, Typed
<1>. QED
  BY <1>1, StillTyped, ReturnStreams DEF Still

\* A new call has neither an execution nor anything checked.
LEMMA StartKeeps ==
    ASSUME Inv, NEW c \in Callers, Start(c)
    PROVE  Inv'
<1>1. PICK r \in Requests : call' = [call EXCEPT ![c] = Begun(r)]
  BY DEF Start
<1>2. PICK k : k = Begun(r)
  OBVIOUS
<1>3. /\ k \in Busy /\ k.step = "pin" /\ k.execution = NoExecution
  BY <1>2 DEF Begun, Busy, Steps, NoVersions, VersionsType, Outcomes
<1>4. k \in CallType
  BY <1>3 DEF Busy, CallType, Outcomes
<1>5. Calls /\ call' = [call EXCEPT ![c] = k]
  BY <1>1, <1>2 DEF Inv, Typed
<1>6. Calls' /\ call'[c] = k /\ \A d \in Callers : d # c => call'[d] = call[d]
  BY <1>4, <1>5 DEF Calls
<1>7. Still /\ Bounded'
  BY DEF Start, Still, bounds, Bounded, Inv, Typed
<1>8. Onward /\ Typed' /\ Pinned'
  BY <1>6, <1>7, StillTyped
<1>9. CallKept(c)'
  BY <1>3, <1>6 DEF CallKept, Checked, Owns, Delivers, Looking, Holding, Entering, Closing
<1>10. ASSUME NEW d \in Callers, d # c
       PROVE  Alone(c, d)' /\ Alone(d, c)'
  <2>1. /\ Execution(c)' = NoExecution /\ call'[c].step = "pin"
        /\ Execution(d)' = Execution(d)
    BY <1>3, <1>6, <1>10 DEF Execution
  <2>2. NoExecution \notin Executions
    BY DispatchAssumption
  <2>. QED
    BY <2>1, <2>2 DEF Alone
<1>. QED
  BY <1>6, <1>7, <1>8, <1>9, <1>10, OneCall DEF Still

\* Hearing of the cancellation changes nothing that the invariant looks at.
LEMMA HearKeeps ==
    ASSUME Inv, NEW c \in Callers, Hear(c)
    PROVE  Inv'
<1>1. call[c] \in Busy /\ call[c].step # "idle"
  BY CallCases DEF Hear, Inv, Typed
<1>2. PICK k : k = [call[c] EXCEPT !.hears = TRUE]
  OBVIOUS
<1>3. /\ k \in Busy /\ k.step = call[c].step /\ k.request = call[c].request
      /\ k.execution = call[c].execution /\ k.seen = call[c].seen /\ k.outcome = call[c].outcome
  BY <1>1, <1>2 DEF Busy
<1>4. k \in CallType
  BY <1>3 DEF CallType, Busy, Outcomes
<1>5. Calls /\ call' = [call EXCEPT ![c] = k]
  BY <1>2 DEF Hear, Inv, Typed
<1>6. Calls' /\ call'[c] = k /\ \A d \in Callers : d # c => call'[d] = call[d]
  BY <1>4, <1>5 DEF Calls
<1>7. Moved(c, call[c].step, Execution(c), Seen(c), call[c].outcome)
  BY <1>3, <1>6 DEF Moved, Request, Execution, Seen
<1>8. Keeps(call[c].step, Request(c), Execution(c), Seen(c), call[c].outcome)
  BY KeepsCall DEF Inv
<1>9. Still /\ Bounded'
  BY DEF Hear, Still, bounds, Bounded, Inv, Typed
<1>. QED
  BY <1>1, <1>7, <1>8, <1>9, CallOnly

------------------------------------------------------------------------------
(* The checks on the way to the permit                                       *)

\* A refusal dooms the call.
LEMMA RefuseKeeps ==
    ASSUME Inv, NEW c \in Callers, Refuse(c)
    PROVE  Inv'
<1>1. call[c].step # "idle" /\ Still /\ Bounded'
  BY DEF Refuse, Still, bounds, Bounded, Inv, Typed
<1>2. PICK outcome \in Ends : Doom(c, outcome)
  BY DEF Refuse, Ends
<1>. QED
  BY <1>1, <1>2, Dooms

\* The pin is there already, or the version to pin is read.
LEMMA PinKeeps ==
    ASSUME Inv, NEW c \in Callers, Pin(c)
    PROVE  Inv'
<1>1. call[c].step = "pin" /\ Still /\ Bounded'
  BY DEF Pin, At, Still, bounds, Bounded, Inv, Typed
<1>2. /\ pin[Request(c)] \in Nat /\ authority \in Nat \ {0}
      /\ call[c].step # "idle"
  BY <1>1, CallFields DEF Inv, Typed, Scopes
<1>3. CASE pin[Request(c)] = 0 /\ Look(c, "pinning")
  <2>1. Keeps("pinning", Request(c), Execution(c), Versions, call[c].outcome)
    BY DEF Keeps, Looking, Holding, Entering, Closing
  <2>. QED
    BY <1>1, <1>2, <1>3, <2>1, Looks DEF Steps
<1>4. CASE pin[Request(c)] # 0 /\ GoTo(c, "announce")
  <2>1. Keeps("announce", Request(c), Execution(c), Seen(c), call[c].outcome)
    BY <1>4 DEF Keeps, Looking, Holding, Entering, Closing
  <2>. QED
    BY <1>1, <1>2, <1>4, <2>1, GoesOn DEF Steps
<1>5. CASE Doom(c, "failed")
  BY <1>1, <1>2, <1>5, Dooms DEF Ends
<1>6. \/ pin[Request(c)] = 0 /\ Look(c, "pinning")
      \/ pin[Request(c)] # 0 /\ GoTo(c, "announce")
      \/ Doom(c, "failed")
  BY <1>2 DEF Pin
<1>. QED
  BY <1>3, <1>4, <1>5, <1>6

\* The execution a call takes is one that no other call has.
LEMMA BeginKeeps ==
    ASSUME Inv, NEW c \in Callers, Begin(c)
    PROVE  Inv'
<1>1. call[c].step = "begin" /\ Still /\ Bounded'
  BY DEF Begin, At, Still, bounds, Bounded, Inv, Typed
<1>2. call[c] \in Busy /\ Calls
  BY <1>1, CallCases DEF Inv, Typed
<1>3. CASE Doom(c, "cancelled") \/ Doom(c, "unknown")
  BY <1>1, <1>3, Dooms DEF Ends
<1>4. CASE \E x \in Fresh : call' = [call EXCEPT ![c].execution = x, ![c].step = "revision"]
  <2>1. PICK x \in Fresh : call' = [call EXCEPT ![c].execution = x, ![c].step = "revision"]
    BY <1>4
  <2>2. PICK step : step = "revision"
    OBVIOUS
  <2>3. x \in Executions /\ ~Prepared(x) /\ step \in Steps
    BY <2>2 DEF Fresh, Steps
  <2>4. PICK k : k = [call[c] EXCEPT !.execution = x, !.step = step]
    OBVIOUS
  <2>5. /\ k \in Busy /\ k.step = step /\ k.request = call[c].request
        /\ k.execution = x /\ k.seen = call[c].seen /\ k.outcome = call[c].outcome
    BY <1>2, <2>3, <2>4 DEF Busy
  <2>6. k \in CallType
    BY <2>5 DEF CallType, Busy, Outcomes
  <2>7. call' = [call EXCEPT ![c] = k]
    BY <2>1, <2>2, <2>4
  <2>8. Calls' /\ call'[c] = k /\ \A d \in Callers : d # c => call'[d] = call[d]
    BY <1>2, <2>6, <2>7 DEF Calls
  <2>9. Moved(c, step, x, Seen(c), call[c].outcome)
    BY <2>5, <2>8 DEF Moved, Request, Execution, Seen
  <2>10. pin[Request(c)] # 0
    BY <1>1 DEF Inv, CallKept, Checked
  <2>11. Keeps(step, Request(c), x, Seen(c), call[c].outcome)
    BY <2>2, <2>3, <2>10 DEF Keeps, Looking, Holding, Entering, Closing
  <2>12. CallKept(c)'
    BY <1>1, <2>9, <2>11, StillKept
  <2>13. ASSUME NEW d \in Callers, d # c
         PROVE  Alone(c, d)' /\ Alone(d, c)'
    <3>1. call[d].step # "idle" => Execution(d) # x
      BY <1>2, CallCases DEF Fresh
    <3>2. /\ call'[d] = call[d] /\ Execution(d)' = Execution(d)
          /\ Execution(c)' = x /\ call'[c].step = "revision"
      BY <2>2, <2>5, <2>8, <2>13 DEF Execution
    <3>. QED
      BY <3>1, <3>2 DEF Alone
  <2>14. Onward /\ Typed' /\ Pinned'
    BY <1>1, <2>8, StillTyped
  <2>. QED
    BY <1>1, <2>8, <2>12, <2>13, <2>14, OneCall DEF Still
<1>. QED
  BY <1>3, <1>4 DEF Begin

\* A pin is never ahead of the authority, and the authority is at its first revision: so is the pin.
LEMMA ReadRevisionKeeps ==
    ASSUME Inv, NEW c \in Callers, ReadRevision(c)
    PROVE  Inv'
<1>1. call[c].step = "revision" /\ Still /\ Bounded'
  BY DEF ReadRevision, At, Still, bounds, Bounded, Inv, Typed
<1>2. CASE Doom(c, "unknown")
  BY <1>1, <1>2, Dooms DEF Ends
<1>3. CASE authority = Authorized /\ GoTo(c, "scopes")
  <2>1. Request(c) \in Requests
    BY <1>1, CallFields DEF Inv, Typed
  <2>2. /\ pin[Request(c)] # 0 /\ pin[Request(c)] <= authority /\ pin[Request(c)] \in Nat
        /\ Execution(c) \in Executions /\ ~Prepared(Execution(c))
    BY <1>1, <2>1 DEF Inv, CallKept, Checked, Owns, Looking, Pinned, Typed
  <2>3. pin[Request(c)] = Authorized
    BY <1>3, <2>2 DEF Authorized
  <2>4. Keeps("scopes", Request(c), Execution(c), Seen(c), call[c].outcome)
    BY <2>2, <2>3 DEF Keeps, Looking, Holding, Entering, Closing
  <2>. QED
    BY <1>1, <1>3, <2>4, GoesOn DEF Steps
<1>. QED
  BY <1>2, <1>3 DEF ReadRevision

\* What is read here holds for the versions read with it.
LEMMA ReadScopesKeeps ==
    ASSUME Inv, NEW c \in Callers, ReadScopes(c)
    PROVE  Inv'
<1>1. call[c].step = "scopes" /\ Still /\ Bounded'
  BY DEF ReadScopes, At, Still, bounds, Bounded, Inv, Typed
<1>2. CASE Doom(c, "unknown")
  BY <1>1, <1>2, Dooms DEF Ends
<1>3. CASE Active /\ ~Quarantined /\ Look(c, "guard")
  <2>1. /\ pin[Request(c)] = Authorized
        /\ Execution(c) \in Executions /\ ~Prepared(Execution(c))
    BY <1>1 DEF Inv, CallKept, Checked, Owns, Looking
  <2>2. Past(Versions)
    BY VersionsRead DEF Inv, Typed
  <2>3. Keeps("guard", Request(c), Execution(c), Versions, call[c].outcome)
    BY <1>3, <2>1, <2>2 DEF Keeps, Looking, Holding, Entering, Closing
  <2>. QED
    BY <1>1, <1>3, <2>3, Looks DEF Steps
<1>. QED
  BY <1>2, <1>3 DEF ReadScopes

\* The pin is that of the revision of the run, and the authority seen is the same.
LEMMA GuardKeeps ==
    ASSUME Inv, NEW c \in Callers, Guard(c)
    PROVE  Inv'
<1>1. call[c].step = "guard" /\ Still /\ Bounded'
  BY DEF Guard, At, Still, bounds, Bounded, Inv, Typed
<1>2. CASE Doom(c, "unknown")
  BY <1>1, <1>2, Dooms DEF Ends
<1>3. CASE Open /\ pin[Request(c)] = Seen(c).authority /\ GoTo(c, "approval")
  <2>1. Keeps("approval", Request(c), Execution(c), Seen(c), call[c].outcome)
    BY <1>1, <1>3 DEF Inv, CallKept, Checked, Owns, Keeps, Looking, Holding, Entering, Closing
  <2>. QED
    BY <1>1, <1>3, <2>1, GoesOn DEF Steps
<1>4. CASE /\ Open /\ pin[Request(c)] = Seen(c).authority /\ Request(c) \notin Gated
           /\ GoTo(c, "prepare")
  <2>1. Keeps("prepare", Request(c), Execution(c), Seen(c), call[c].outcome)
    BY <1>1, <1>4 DEF Inv, CallKept, Checked, Owns, Keeps, Looking, Holding, Entering, Closing
  <2>. QED
    BY <1>1, <1>4, <2>1, GoesOn DEF Steps
<1>. QED
  BY <1>2, <1>3, <1>4 DEF Guard

\* The approval that is going to be consumed binds the authority seen.
LEMMA TakeApprovalKeeps ==
    ASSUME Inv, NEW c \in Callers, TakeApproval(c)
    PROVE  Inv'
<1>1. call[c].step = "approval" /\ Still /\ Bounded'
  BY DEF TakeApproval, At, Still, bounds, Bounded, Inv, Typed
<1>2. CASE Doom(c, "unknown")
  BY <1>1, <1>2, Dooms DEF Ends
<1>3. CASE /\ approval[Request(c)].is = "approved" /\ approval[Request(c)].under = authority
           /\ authority = Seen(c).authority /\ GoTo(c, "prepare")
  <2>1. Keeps("prepare", Request(c), Execution(c), Seen(c), call[c].outcome)
    BY <1>1, <1>3 DEF Inv, CallKept, Checked, Owns, Keeps, Looking, Holding, Entering, Closing
  <2>. QED
    BY <1>1, <1>3, <2>1, GoesOn DEF Steps
<1>. QED
  BY <1>2, <1>3 DEF TakeApproval

------------------------------------------------------------------------------
(* The streams of the run and of the project                                 *)

\* A call that is about to conclude has only its outcome to keep.
LEMMA ConcludeKept ==
    ASSUME NEW c, call'[c].step = "conclude", call'[c].outcome # "known"
    PROVE  CallKept(c)'
  BY DEF CallKept, Checked, Owns, Delivers, Looking, Holding, Entering, Closing

\* A doomed call goes to its conclusion.
LEMMA DoomMoves ==
    ASSUME Calls, NEW c \in Callers, call[c].step # "idle", NEW outcome \in Ends,
           Doom(c, outcome)
    PROVE  /\ Moved(c, "conclude", Execution(c), Seen(c), outcome)
           /\ CallKept(c)'
<1>0. outcome \in Outcomes /\ outcome # "known"
  BY DEF Ends, Outcomes
<1>1. "conclude" \in Steps /\ Leave(c, "conclude", outcome)
  BY DEF Steps, Doom
<1>2. Moved(c, "conclude", Execution(c), Seen(c), outcome)
  BY <1>0, <1>1, LeaveMoves
<1>. QED
  BY <1>0, <1>2, ConcludeKept DEF Moved

\* A further fact of the run, with or without a quarantine, is growth.
LEMMA RunGrows ==
    ASSUME Scopes, NEW fact \in {"prompt", "note", "cancelling"} \cup TerminalKinds,
           run' = Append(run, fact), UNCHANGED <<authority, company>>,
           quarantine' = quarantine \/ quarantine' = Append(quarantine, "quarantined")
    PROVE  Scopes' /\ Grows
<1>. DEFINE Facts == {"prompt", "note", "cancelling"} \cup TerminalKinds
<1>. DEFINE Marks == {"quarantined", "released"}
<1>1. run \in Seq(Facts) /\ run # << >> /\ run[1] = "prompt"
  BY DEF Scopes
<1>2. quarantine \in Seq(Marks) /\ "quarantined" \in Marks
  BY DEF Scopes
<1>3. run' \in Seq(Facts) /\ run' # << >> /\ run'[1] = "prompt" /\ Len(run) < Len(run')
  <2>1. fact \in Facts
    OBVIOUS
  <2>. HIDE DEF Facts
  <2>2. Len(run) \in Nat \ {0}
    BY <1>1, EmptySeq
  <2>3. /\ run' \in Seq(Facts) /\ Len(run') = Len(run) + 1
        /\ \A i \in 1 .. Len(run) : run'[i] = run[i]
    BY <1>1, <2>1
  <2>4. run' # << >>
    BY <2>2, <2>3, EmptySeq
  <2>. QED
    BY <1>1, <2>2, <2>3, <2>4
<1>4. /\ quarantine' \in Seq(Marks)
      /\ quarantine' = quarantine \/ Len(quarantine) < Len(quarantine')
  <2>. HIDE DEF Marks
  <2>1. Len(quarantine) \in Nat
    BY <1>2, LenProperties
  <2>. QED
    BY <1>2, <2>1
<1>. QED
  BY <1>3, <1>4 DEF Scopes, Grows

\* When the streams grow, and nothing else does but the call, all is typed.
LEMMA GrownTyped ==
    ASSUME Inv, Scopes', Grows, Calls', Bounded',
           UNCHANGED <<pin, approval, permit, delivery, effects>>
    PROVE  Onward /\ Typed' /\ Pinned'
<1>1. Onward
  BY DEF Inv, Typed, Onward
<1>2. Typed'
  BY DEF Typed, Inv, effects, Bounded
<1>3. Pinned'
  <2>. SUFFICES ASSUME NEW r \in Requests PROVE pin'[r] <= authority'
    BY DEF Pinned
  <2>1. pin[r] <= authority /\ pin[r] \in Nat /\ authority \in Nat /\ authority' \in Nat
        /\ authority <= authority'
    BY DEF Inv, Pinned, Typed, Scopes, Grows
  <2>. QED
    BY <2>1
<1>. QED
  BY <1>1, <1>2, <1>3

\* The facts of the request are further facts of the run.
LEMMA AnnounceKeeps ==
    ASSUME Inv, NEW c \in Callers, Announce(c)
    PROVE  Inv'
<1>1. /\ call[c].step = "announce" /\ run' = Append(run, "note") /\ Calls
      /\ UNCHANGED <<authority, company, quarantine, pin, approval, permit, delivery, effects>>
      /\ Bounded'
  BY DEF Announce, At, bounds, Bounded, Inv, Typed
<1>2. Scopes' /\ Grows
  BY <1>1, RunGrows DEF Inv, Typed
<1>3. CASE Return(c)
  BY <1>1, <1>2, <1>3, GrownTyped, ReturnMoves, ReturnStreams
<1>4. CASE GoTo(c, "begin")
  <2>1. Moved(c, "begin", Execution(c), Seen(c), call[c].outcome)
    BY <1>1, <1>4, GoToMoves DEF Steps
  <2>2. Onward /\ Typed' /\ Pinned'
    BY <1>1, <1>2, <2>1, GrownTyped DEF Moved
  <2>3. pin'[Request(c)] # 0
    BY <1>1 DEF Inv, CallKept, Checked
  <2>4. CallKept(c)'
    BY <2>1, <2>3 DEF Moved, Request, CallKept, Checked, Owns, Delivers, Looking, Holding, Entering, Closing
  <2>. QED
    BY <1>1, <2>1, <2>2, <2>4, Passes
<1>. QED
  BY <1>3, <1>4 DEF Announce

\* A pin is set once, to a version of the authority that is current.
LEMMA CommitPinKeeps ==
    ASSUME Inv, NEW c \in Callers, CommitPin(c)
    PROVE  Inv'
<1>1. /\ call[c].step = "pinning" /\ Calls
      /\ UNCHANGED <<scope, approval, permit, delivery, effects>> /\ Bounded'
  BY DEF CommitPin, At, Bounded, Inv, Typed
<1>2. /\ Request(c) \in Requests /\ pin[Request(c)] \in Nat /\ authority \in Nat \ {0}
      /\ pin \in [Requests -> Nat]
  BY <1>1, CallFields DEF Inv, Typed, Scopes
<1>3. CASE UNCHANGED pin /\ pin[Request(c)] # 0 /\ GoTo(c, "announce")
  <2>1. Keeps("announce", Request(c), Execution(c), Seen(c), call[c].outcome)
    BY <1>3 DEF Keeps, Looking, Holding, Entering, Closing
  <2>. QED
    BY <1>1, <1>3, <2>1, GoesOn DEF Steps, Still
<1>4. CASE UNCHANGED pin /\ \E outcome \in Ends : Doom(c, outcome)
  BY <1>1, <1>4, Dooms DEF Still
<1>5. CASE /\ pin[Request(c)] = 0 /\ pin' = [pin EXCEPT ![Request(c)] = authority]
           /\ GoTo(c, "announce") \/ Doom(c, "unknown")
  <2>1. pin' \in [Requests -> Nat] /\ pin'[Request(c)] = authority
        /\ \A r \in Requests : r # Request(c) => pin'[r] = pin[r]
    BY <1>2, <1>5
  <2>2. Scopes /\ Scopes' /\ Grows
    BY <1>1 DEF Inv, Typed, Scopes, Grows, scope
  <2>3. Onward
    BY <1>1, <1>5, <2>1, <2>2 DEF Onward
  <2>4. PICK step, outcome :
              /\ step \in {"announce", "conclude"}
              /\ Moved(c, step, Execution(c), Seen(c), outcome)
              /\ step = "conclude" => outcome # "known"
    <3>1. CASE GoTo(c, "announce")
      BY <1>1, <3>1, GoToMoves DEF Steps
    <3>2. CASE Doom(c, "unknown")
      BY <1>1, <3>2, DoomMoves DEF Ends
    <3>. QED
      BY <1>5, <3>1, <3>2
  <2>5. Typed'
    BY <1>1, <2>1, <2>2, <2>4 DEF Typed, Inv, Moved, effects, Bounded
  <2>6. Pinned'
    BY <1>1, <1>2, <2>1 DEF Pinned, Inv, scope
  <2>7. CallKept(c)'
    BY <1>2, <2>1, <2>4 DEF Moved, Request, CallKept, Checked, Owns, Delivers, Looking, Holding, Entering, Closing
  <2>. QED
    BY <1>1, <2>3, <2>4, <2>5, <2>6, <2>7, Passes
<1>6. \/ UNCHANGED pin /\ pin[Request(c)] # 0 /\ GoTo(c, "announce")
      \/ UNCHANGED pin /\ \E outcome \in Ends : Doom(c, outcome)
      \/ /\ pin[Request(c)] = 0 /\ pin' = [pin EXCEPT ![Request(c)] = authority]
         /\ GoTo(c, "announce") \/ Doom(c, "unknown")
  BY DEF CommitPin, Ends
<1>. QED
  BY <1>3, <1>4, <1>5, <1>6

\* The fact of the result is a further fact of the run.
LEMMA RecordKeeps ==
    ASSUME Inv, NEW c \in Callers, Record(c)
    PROVE  Inv'
<1>1. /\ call[c].step = "record" /\ run' = Append(run, "note") /\ Calls
      /\ UNCHANGED <<authority, company, quarantine, pin, approval, permit, delivery, effects>>
      /\ Bounded'
  BY DEF Record, At, bounds, Bounded, Inv, Typed
<1>2. Scopes' /\ Grows
  BY <1>1, RunGrows DEF Inv, Typed
<1>3. CASE GoTo(c, "deliver")
  <2>1. Moved(c, "deliver", Execution(c), Seen(c), call[c].outcome)
    BY <1>1, <1>3, GoToMoves DEF Steps
  <2>2. Onward /\ Typed' /\ Pinned'
    BY <1>1, <1>2, <2>1, GrownTyped DEF Moved
  <2>3. PICK x : x = Execution(c)
    OBVIOUS
  <2>4. x \in Executions /\ Prepared(x) /\ RequestOf(x) = Request(c)
    BY <1>1, <2>3 DEF Inv, CallKept, Owns, Closing
  <2>5. Prepared(x)' /\ RequestOf(x)' = RequestOf(x)
    BY <1>1, <2>4 DEF Prepared, RequestOf, PreparedFact
  <2>6. CallKept(c)'
    BY <2>1, <2>3, <2>4, <2>5
       DEF Moved, Request, Execution, CallKept, Checked, Owns, Delivers, Looking, Holding, Entering, Closing
  <2>. QED
    BY <1>1, <2>1, <2>2, <2>6, Passes
<1>4. CASE \E outcome \in Ends : Doom(c, outcome)
  <2>1. PICK outcome \in Ends : Doom(c, outcome)
    BY <1>4
  <2>2. Moved(c, "conclude", Execution(c), Seen(c), outcome) /\ CallKept(c)'
    BY <1>1, <2>1, DoomMoves
  <2>3. Onward /\ Typed' /\ Pinned'
    BY <1>1, <1>2, <2>2, GrownTyped DEF Moved
  <2>. QED
    BY <1>1, <2>2, <2>3, Passes
<1>5. call[c].outcome \in Outcomes
  BY <1>1, CallFields
<1>. QED
  BY <1>3, <1>4, <1>5 DEF Record, Outcomes, Ends

\* The end of a turn is growth, or nothing.
LEMMA EndTurnGrows ==
    ASSUME Scopes, NEW kind \in TerminalKinds, EndTurn(kind), UNCHANGED <<authority, company>>
    PROVE  Scopes' /\ Grows
<1>1. CASE Ended
  BY <1>1 DEF EndTurn, Scopes, Grows
<1>2. CASE ~Ended
  BY <1>2, RunGrows DEF EndTurn
<1>. QED
  BY <1>1, <1>2

\* The call ends with the end of its turn.
LEMMA ConcludeKeeps ==
    ASSUME Inv, NEW c \in Callers, Conclude(c)
    PROVE  Inv'
<1>1. /\ call[c].step = "conclude" /\ EndTurn(call[c].outcome) /\ Return(c) /\ Calls
      /\ UNCHANGED <<authority, company, pin, approval, permit, delivery, effects>>
      /\ Bounded'
  BY DEF Conclude, At, bounds, Bounded, Inv, Typed
<1>2. call[c].outcome \in Outcomes /\ call[c].outcome # "known"
  BY <1>1, CallFields DEF Inv, CallKept, Owns
<1>3. call[c].outcome \in TerminalKinds
  BY <1>2 DEF Outcomes, TerminalKinds
<1>4. Scopes' /\ Grows
  BY <1>1, <1>3, EndTurnGrows DEF Inv, Typed
<1>5. Onward /\ Typed' /\ Pinned'
  BY <1>1, <1>4, ReturnMoves, GrownTyped
<1>. QED
  BY <1>1, <1>5, ReturnStreams

------------------------------------------------------------------------------
(* The permit and the handler: steps that only move the call                 *)

\* A prepared call goes to the broker or to the fence.
LEMMA PreppingKeeps ==
    ASSUME Inv, NEW c \in Callers, Prepping(c)
    PROVE  Inv'
<1>1. call[c].step = "prepared" /\ Still /\ Bounded'
  BY DEF Prepping, At, Still, bounds, Bounded, Inv, Typed
<1>2. CASE GoTo(c, "broker")
  <2>1. Keeps("broker", Request(c), Execution(c), Seen(c), call[c].outcome)
    BY <1>1 DEF Inv, CallKept, Owns, Keeps, Looking, Holding, Entering, Closing
  <2>. QED
    BY <1>1, <1>2, <2>1, GoesOn DEF Steps
<1>3. CASE \E outcome \in {"cancelled", "unknown"} : Leave(c, "fence", outcome)
  <2>1. PICK outcome \in {"cancelled", "unknown"} : Leave(c, "fence", outcome)
    BY <1>3
  <2>2. Keeps("fence", Request(c), Execution(c), Seen(c), outcome)
    BY <1>1 DEF Inv, CallKept, Owns, Keeps, Looking, Holding, Entering, Closing
  <2>. QED
    BY <1>1, <2>1, <2>2, Leaves DEF Steps, Outcomes
<1>. QED
  BY <1>2, <1>3 DEF Prepping

\* The broker goes on to the permit, or refuses before anything ran.
LEMMA AdmitKeeps ==
    ASSUME Inv, NEW c \in Callers, Admit(c)
    PROVE  Inv'
<1>1. call[c].step = "broker" /\ Still /\ Bounded'
  BY DEF Admit, At, Still, bounds, Bounded, Inv, Typed
<1>2. CASE GoTo(c, "consume")
  <2>1. Keeps("consume", Request(c), Execution(c), Seen(c), call[c].outcome)
    BY <1>1 DEF Inv, CallKept, Owns, Keeps, Looking, Holding, Entering, Closing
  <2>. QED
    BY <1>1, <1>2, <2>1, GoesOn DEF Steps
<1>3. CASE Leave(c, "settle", "unknown")
  <2>1. Keeps("settle", Request(c), Execution(c), Seen(c), "unknown")
    BY <1>1 DEF Inv, CallKept, Owns, Keeps, Looking, Holding, Entering, Closing
  <2>. QED
    BY <1>1, <1>3, <2>1, Leaves DEF Steps, Outcomes
<1>. QED
  BY <1>2, <1>3 DEF Admit

\* What the handler answers is the outcome of an execution that ran.
LEMMA FinishKeeps ==
    ASSUME Inv, NEW c \in Callers, Finish(c)
    PROVE  Inv'
<1>1. call[c].step = "running" /\ Still /\ Bounded'
  BY DEF Finish, At, Still, bounds, Bounded, Inv, Typed
<1>2. PICK outcome \in {"known", "unknown", "cancelled"} : Leave(c, "settle", outcome)
  BY DEF Finish
<1>3. Keeps("settle", Request(c), Execution(c), Seen(c), outcome)
  BY <1>1, <1>2 DEF Inv, CallKept, Owns, Keeps, Looking, Holding, Entering, Closing
<1>. QED
  BY <1>1, <1>2, <1>3, Leaves DEF Steps, Outcomes

\* The versions seen here are those at which the result may be delivered.
LEMMA DeliverKeeps ==
    ASSUME Inv, NEW c \in Callers, Deliver(c)
    PROVE  Inv'
<1>1. call[c].step = "deliver" /\ Still /\ Bounded'
  BY DEF Deliver, At, Still, bounds, Bounded, Inv, Typed
<1>2. CASE Deliverable(Execution(c)) /\ Look(c, "claim")
  <2>1. Scopes /\ Versions.run = Len(run) /\ Len(run) \in Nat
    BY VersionsRead DEF Inv, Typed, Scopes
  <2>2. /\ Given(Execution(c)) /\ Active /\ PreparedFact(Execution(c)).turn = Turn
    BY <1>2 DEF Deliverable, Given
  <2>3. Keeps("claim", Request(c), Execution(c), Versions, call[c].outcome)
    BY <1>1, <2>1, <2>2 DEF Inv, CallKept, Owns, Keeps, Looking, Holding, Entering, Closing
  <2>. QED
    BY <1>1, <1>2, <2>3, Looks DEF Steps
<1>3. CASE \E outcome \in Ends : Doom(c, outcome)
  BY <1>1, <1>3, Dooms
<1>. QED
  BY <1>2, <1>3 DEF Deliver, Ends

------------------------------------------------------------------------------
(* The permit and the handler: steps that write                              *)

\* A call that goes on with its execution stays apart from the others.
LEMMA AloneMoved ==
    ASSUME Inv, NEW c \in Callers, call[c].step # "idle",
           NEW step, step # "send", NEW seen, NEW outcome,
           Moved(c, step, Execution(c), seen, outcome)
    PROVE  \A d \in Callers : d # c => Alone(c, d)' /\ Alone(d, c)'
<1>. SUFFICES ASSUME NEW d \in Callers, d # c
              PROVE  Alone(c, d)' /\ Alone(d, c)'
  OBVIOUS
<1>1. /\ call'[c].step = step /\ Execution(c)' = Execution(c)
      /\ Execution(d)' = Execution(d) /\ call'[d] = call[d]
  BY DEF Moved, Execution
<1>. QED
  BY <1>1 DEF Inv, Alone

\* A permit stands while no stream moves.
LEMMA StandsStill ==
    ASSUME UNCHANGED <<scope, pin>>, NEW x, Prepared(x), Stands(x),
           PreparedFact(x)' = PreparedFact(x)
    PROVE  Stands(x)'
<1>1. (Active' <=> Active) /\ Turn' = Turn /\ (Quarantined' <=> Quarantined) /\ (Open' <=> Open)
  BY ScopeReads DEF scope
<1>2. PICK f : f = PreparedFact(x)
  OBVIOUS
<1>3. PreparedFact(x)' = f /\ RequestOf(x) = f.request /\ RequestOf(x)' = f.request
  BY <1>2 DEF RequestOf
<1>4. /\ Past(f.needs)' <=> Past(f.needs)
      /\ Versions' = Versions /\ Authorized' = Authorized
  BY DEF Past, Versions, Authorized, scope
<1>. QED
  BY <1>1, <1>2, <1>3, <1>4 DEF Stands, scope

\* An execution that has no result gets a further fact from its own call.
LEMMA Writes ==
    ASSUME Inv, Bounded', UNCHANGED <<scope, pin, approval, delivery, effects>>,
           NEW c \in Callers, call[c].step # "idle",
           NEW x \in Executions, x = Execution(c), RequestOf(x) = Request(c),
           Len(permit[x]) \in {1, 3},
           NEW t, Written(t), t # << >>, t[1] = permit[x][1],
           permit' = [permit EXCEPT ![x] = t],
           started[x] = 1 => Len(t) \in {3, 4},
           t[Len(t)].is = "result" /\ t[Len(t)].outcome = "known" => started[x] = 1,
           NEW step, NEW seen, NEW outcome, Moved(c, step, x, seen, outcome),
           \/ step = "conclude" /\ outcome # "known"
           \/ step = "record"
           \/ step = "handler" /\ Len(t) = 3 /\ started[x] = 0
           \/ step = "settle" /\ Len(t) = 3 /\ outcome = "unknown"
    PROVE  Inv'
<1>. USE DEF scope, effects
<1>1. permit \in [Executions -> Seq(PermitFacts)]
  BY DEF Inv, Typed
<1>2. /\ permit' \in [Executions -> Seq(PermitFacts)] /\ permit'[x] = t
      /\ \A y \in Executions : y # x => permit'[y] = permit[y]
  BY <1>1 DEF Written
<1>3. \A y \in Executions : y # x => Untouched(y)
  BY <1>2 DEF Untouched
<1>4. Ledger(x) /\ Prepared(x) /\ ~Given(x)
  <2>1. Ledger(x) /\ Written(permit[x])
    BY DEF Inv, Ledger
  <2>2. PICK n \in {1, 3} : n = Len(permit[x])
    OBVIOUS
  <2>3. n # 0 /\ n \notin {2, 4}
    OBVIOUS
  <2>. QED
    BY <2>1, <2>2, <2>3, WrittenLast, Zenon DEF Prepared, Given, Settled
<1>5. \A y \in Executions : /\ (Prepared(y)' <=> Prepared(y)) /\ RequestOf(y)' = RequestOf(y)
                            /\ PreparedFact(y)' = PreparedFact(y)
  <2>1. \A y \in Executions : y # x => /\ (Prepared(y)' <=> Prepared(y)) /\ RequestOf(y)' = RequestOf(y)
                                       /\ PreparedFact(y)' = PreparedFact(y)
    BY <1>2 DEF Prepared, RequestOf, PreparedFact
  <2>2. Prepared(x)' /\ RequestOf(x)' = RequestOf(x) /\ PreparedFact(x)' = PreparedFact(x)
    BY <1>2 DEF Prepared, RequestOf, PreparedFact
  <2>. QED
    BY <1>4, <2>1, <2>2
<1>6. \A y \in Executions : Given(y) => Given(y)'
  BY <1>2, <1>4 DEF Given, Settled, Prepared, ResultOf
<1>7. Scopes /\ Scopes' /\ Grows /\ Onward /\ Pinned'
  BY DEF Inv, Typed, Scopes, Grows, Onward, Pinned
<1>8. Typed'
  BY <1>2, <1>7 DEF Inv, Typed, Moved, Bounded
<1>9. Ran(x)'
  <2>1. started'[x] \in {0, 1} /\ started'[x] = started[x]
    BY <1>4 DEF Ledger, Ran
  <2>2. Given(x)' => t[Len(t)].is = "result" /\ t[Len(t)].outcome = "known"
    BY <1>2 DEF Given, Settled, ResultOf
  <2>. QED
    BY <1>2, <2>1, <2>2 DEF Ran
<1>10. Stands(x)'
  BY <1>4, <1>5, StandsStill DEF Ledger
<1>11. Ledger(x)'
  BY <1>2, <1>9, <1>10 DEF Ledger
<1>12. CallKept(c)'
  <2>1. /\ call'[c].step = step /\ Execution(c)' = x /\ Request(c)' = Request(c)
        /\ call'[c].outcome = outcome
    BY DEF Moved, Execution, Request
  <2>2. Prepared(x)' /\ RequestOf(x)' = Request(c)
    BY <1>4, <1>5
  <2>. QED
    BY <1>2, <2>1, <2>2
       DEF CallKept, Checked, Owns, Delivers, Looking, Holding, Entering, Closing
<1>13. OnePermit' /\ (\A r \in Gated : Spent(r)')
  BY <1>5 DEF OnePermit, Spent, Inv
<1>14. \A r \in Requests : SentWell(r)'
  BY <1>5, <1>6 DEF SentWell, Inv
<1>15. \A d \in Callers : d # c => Alone(c, d)' /\ Alone(d, c)'
  BY AloneMoved
<1>16. \A d \in Callers : d # c => call'[d] = call[d]
  BY DEF Moved
<1>17. \A d \in Callers : d # c /\ call[d].step # "idle" => Execution(d) # x
  BY DEF Inv, Alone
<1>18. \A d \in Callers : d # c /\ call[d].step = "send" =>
          delivery'[Request(d)] # 0 /\ sent'[Request(d)] = sent[Request(d)]
  BY DEF Inv, CallKept, Delivers
<1>. QED
  BY <1>3, <1>7, <1>8, <1>11, <1>12, <1>13, <1>14, <1>15, <1>16, <1>17, <1>18, OneMoves

\* A permit closed before the broker has a result that no handler gave.
LEMMA FenceKeeps ==
    ASSUME Inv, NEW c \in Callers, Fence(c)
    PROVE  Inv'
<1>0. unknowns' = unknowns \/ unknowns' = unknowns + 1
  BY Zenon DEF Fence
<1>1. /\ call[c].step = "fence" /\ Calls /\ Bounded'
      /\ UNCHANGED <<scope, pin, approval, delivery, effects>>
  <2>1. /\ call[c].step = "fence"
        /\ UNCHANGED <<scope, pin, approval, delivery, effects>> /\ crashes' = crashes
    BY DEF Fence, At
  <2>. QED
    BY <1>0, <2>1 DEF Bounded, Inv, Typed
<1>2. PICK x : x = Execution(c)
  OBVIOUS
<1>3. /\ x \in Executions /\ RequestOf(x) = Request(c) /\ Len(permit[x]) = 1
      /\ call[c].outcome # "known" /\ Written(permit[x]) /\ Ran(x)
  BY <1>1, <1>2 DEF Inv, CallKept, Owns, Holding, Ledger
<1>4. PICK outcome \in Ends : Doom(c, outcome)
  <2>1. call[c].outcome \in Ends
    BY <1>1, <1>3, CallFields DEF Outcomes, Ends
  <2>. QED
    BY <2>1 DEF Fence, Ends
<1>5. CASE UNCHANGED permit
  BY <1>1, <1>4, <1>5, Dooms DEF Still
<1>6. CASE permit' = [permit EXCEPT ![Execution(c)] = Append(@, Result("unknown", FALSE))]
  <2>1. PICK e : e = Result("unknown", FALSE)
    OBVIOUS
  <2>0. PICK s, t : s = permit[x] /\ t = Append(s, e)
    OBVIOUS
  <2>2. /\ Written(t) /\ Len(t) = 2 /\ t[1] = permit[x][1] /\ t[Len(t)].outcome = "unknown"
    <3>1. Written(s) /\ Len(s) = 1 /\ s[1] = permit[x][1]
      BY <1>3, <2>0
    <3>2. e \in Results /\ e.outcome = "unknown"
      BY <2>1 DEF Result, Results
    <3>5. Unfinished(s)
      BY <3>1 DEF Unfinished
    <3>6. Finished(s, e, t)
      BY <2>0, <3>2, <3>5, WrittenResult, Zenon
    <3>3. /\ Written(t) /\ Len(t) = Len(s) + 1 /\ t[1] = s[1] /\ t[Len(t)] = e
      BY <3>6 DEF Finished
    <3>4. Len(t) = 2
      BY <3>1, <3>3
    <3>. QED
      BY <3>1, <3>2, <3>3, <3>4
  <2>3. t # << >>
    BY <2>2, WrittenLast
  <2>4. permit' = [permit EXCEPT ![x] = t]
    BY <1>2, <1>6, <2>0, <2>1
  <2>5. started[x] # 1
    BY <1>3 DEF Ran
  <2>6. Moved(c, "conclude", x, Seen(c), outcome) /\ outcome # "known"
    BY <1>1, <1>2, <1>4, DoomMoves DEF Ends
  <2>. QED
    BY <1>1, <1>2, <1>3, <2>2, <2>3, <2>4, <2>5, <2>6, Writes
<1>. QED
  BY <1>5, <1>6 DEF Fence

\* The permit is consumed by its own call, before the handler is entered.
LEMMA ConsumeKeeps ==
    ASSUME Inv, NEW c \in Callers, Consume(c)
    PROVE  Inv'
<1>1. /\ call[c].step = "consume" /\ Calls /\ Bounded'
      /\ UNCHANGED <<scope, pin, approval, delivery, effects>>
  BY DEF Consume, At, Bounded, Inv, Typed
<1>2. PICK x : x = Execution(c)
  OBVIOUS
<1>3. /\ x \in Executions /\ RequestOf(x) = Request(c) /\ Len(permit[x]) = 1
      /\ Prepared(x) /\ Written(permit[x]) /\ Ran(x)
  BY <1>1, <1>2 DEF Inv, CallKept, Owns, Holding, Ledger
<1>4. started[x] = 0
  BY <1>3 DEF Ran
<1>5. CASE UNCHANGED permit /\ Leave(c, "settle", "unknown")
  <2>1. Keeps("settle", Request(c), Execution(c), Seen(c), "unknown")
    BY <1>2, <1>3 DEF Keeps, Looking, Holding, Entering, Closing
  <2>. QED
    BY <1>1, <1>5, <2>1, Leaves DEF Still, Steps, Outcomes
<1>6. CASE WriteConsumed(x) /\ (GoTo(c, "handler") \/ Leave(c, "settle", "unknown"))
  <2>1. PICK t : t = permit[x] \o <<[is |-> "dispatching"], [is |-> "executing"]>>
    OBVIOUS
  <2>2. Written(t) /\ Len(t) = 3 /\ t[1] = permit[x][1]
    BY <1>3, <2>1, WrittenConsumed
  <2>3. t # << >> /\ t[Len(t)].is # "result"
    <3>1. Len(t) # 0 /\ Len(t) \notin {2, 4}
      BY <2>2
    <3>. QED
      BY <2>2, <3>1, WrittenLast, Zenon
  <2>4. permit' = [permit EXCEPT ![x] = t]
    BY <1>6, <2>1 DEF WriteConsumed
  <2>5. CASE GoTo(c, "handler")
    <3>1. Moved(c, "handler", x, Seen(c), call[c].outcome)
      BY <1>1, <1>2, <2>5, GoToMoves DEF Steps
    <3>. QED
      BY <1>1, <1>2, <1>3, <1>4, <2>2, <2>3, <2>4, <3>1, Writes
  <2>6. CASE Leave(c, "settle", "unknown")
    <3>1. Moved(c, "settle", x, Seen(c), "unknown")
      BY <1>1, <1>2, <2>6, LeaveMoves DEF Steps, Outcomes
    <3>. QED
      BY <1>1, <1>2, <1>3, <1>4, <2>2, <2>3, <2>4, <3>1, Writes
  <2>. QED
    BY <1>6, <2>5, <2>6
<1>. QED
  BY <1>2, <1>5, <1>6 DEF Consume

\* A result is the second or the fourth fact of its execution.
LEMMA SettleKeeps ==
    ASSUME Inv, NEW c \in Callers, Settle(c)
    PROVE  Inv'
<1>1. /\ call[c].step = "settle" /\ Calls /\ Bounded'
      /\ UNCHANGED <<scope, pin, approval, delivery, effects>>
  BY DEF Settle, At, Bounded, Inv, Typed
<1>2. PICK x, outcome : x = Execution(c) /\ outcome = call[c].outcome
  OBVIOUS
<1>3. /\ x \in Executions /\ Prepared(x) /\ RequestOf(x) = Request(c)
      /\ Len(permit[x]) \in {1, 3} /\ Written(permit[x]) /\ Ran(x)
      /\ outcome # "failed" /\ (outcome # "unknown" => started[x] = 1)
  BY <1>1, <1>2 DEF Inv, CallKept, Owns, Entering, Ledger
<1>4. outcome \in {"known", "unknown", "cancelled"}
  BY <1>1, <1>2, <1>3, CallFields DEF Outcomes
<1>5. PICK stopped \in BOOLEAN : stopped <=> call[c].hears /\ call[c].outcome # "unknown"
  OBVIOUS
<1>6. PICK o : Moved(c, "record", x, Seen(c), o)
  <2>1. CASE GoTo(c, "record")
    BY <1>1, <1>2, <2>1, GoToMoves DEF Steps
  <2>2. CASE Leave(c, "record", "unknown")
    BY <1>1, <1>2, <2>2, LeaveMoves DEF Steps, Outcomes
  <2>. QED
    BY <2>1, <2>2 DEF Settle
<1>7. CASE UNCHANGED permit
  <2>1. Keeps("record", Request(c), Execution(c), Seen(c), o)
    BY <1>2, <1>3 DEF Keeps, Looking, Holding, Entering, Closing
  <2>. QED
    BY <1>1, <1>2, <1>6, <1>7, <2>1, CallOnly DEF Still
<1>8. CASE permit' = [permit EXCEPT ![Execution(c)] =
                         Append(@, Result(outcome, call[c].hears /\ call[c].outcome # "unknown"))]
  <2>0. PICK e : e = Result(outcome, stopped)
    OBVIOUS
  <2>1. PICK s, t : s = permit[x] /\ t = Append(s, e)
    OBVIOUS
  <2>2. /\ Written(t) /\ Len(t) = Len(s) + 1 /\ t[1] = permit[x][1]
        /\ t[Len(t)].outcome = outcome
    <3>1. Written(s) /\ Len(s) \in {1, 3}
      BY <1>3, <2>1
    <3>2. e \in Results /\ e.outcome = outcome
      BY <1>4, <2>0 DEF Result, Results
    <3>3. e \in Results /\ t = Append(s, e)
      BY <2>1, <3>2
    <3>5. Unfinished(s)
      BY <3>1 DEF Unfinished
    <3>6. Finished(s, e, t)
      BY <3>3, <3>5, WrittenResult, Zenon
    <3>4. /\ Written(t) /\ Len(t) = Len(s) + 1 /\ t[1] = s[1] /\ t[Len(t)] = e
      BY <3>6 DEF Finished
    <3>. QED
      BY <2>1, <3>2, <3>4
  <2>3. t # << >>
    BY <1>3, <2>2, WrittenLast
  <2>4. stopped = (call[c].hears /\ call[c].outcome # "unknown")
    BY <1>5, Zenon
  <2>5. permit' = [permit EXCEPT ![x] = t]
    BY <1>2, <1>8, <2>0, <2>1, <2>4
  <2>6. started[x] = 1 => Len(t) \in {3, 4}
    <3>1. PICK n \in {1, 3} : n = Len(s)
      BY <1>3, <2>1
    <3>2. started[x] = 1 => n \in {3, 4}
      BY <1>3, <2>1, <3>1, Zenon DEF Ran
    <3>3. 1 # 3 /\ 1 # 4 /\ 3 + 1 = 4
      OBVIOUS
    <3>4. started[x] = 1 => n = 3
      BY <3>1, <3>2, <3>3, Zenon
    <3>5. Len(t) = n + 1
      BY <2>2, <3>1, Zenon
    <3>. QED
      BY <3>3, <3>4, <3>5, Zenon
  <2>. QED
    BY <1>1, <1>2, <1>3, <1>6, <2>2, <2>3, <2>5, <2>6, Writes
<1>. QED
  BY <1>2, <1>7, <1>8 DEF Settle

\* The permit is written, with the approval it uses up.
LEMMA Prepares ==
    ASSUME Inv, NEW c \in Callers, call[c].step = "prepare", PrepareHolds(c), WritePrepared(c),
           UNCHANGED <<scope, pin, delivery, effects>>, Bounded',
           NEW step, NEW outcome,
           Moved(c, step, Execution(c), Seen(c), outcome),
           step = "prepared" \/ (step = "conclude" /\ outcome # "known")
    PROVE  Inv'
<1>. USE DEF scope, effects
<1>. PICK x, r, v : x = Execution(c) /\ r = Request(c) /\ v = Seen(c)
  OBVIOUS
<1>. PICK p : p = PermitOf(c)
  OBVIOUS
<1>1. /\ call[c].step # "idle" /\ Calls /\ r \in Requests /\ v \in VersionsType
  BY CallFields DEF Inv, Typed
<1>2. /\ x \in Executions /\ ~Prepared(x)
      /\ pin[r] = Authorized /\ Past(v)
      /\ Versions = v => Active /\ ~Quarantined /\ Open
      /\ v.authority = Authorized
      /\ r \in Gated => approval[r].under = v.authority
  BY DEF Inv, CallKept, Checked, Owns, Looking
<1>3. Versions = v /\ \A y \in Executions : ~(Prepared(y) /\ RequestOf(y) = r)
  BY DEF PrepareHolds, Holds, AlreadyPrepared
<1>4. Turn \in Nat \ {0}
  BY TurnType DEF Inv, Typed
<1>5. /\ p \in Preparations
      /\ p.is = "prepared" /\ p.request = r /\ p.turn = Turn /\ p.needs = v
  <2>1. PICK a \in {"none", "consumed"} : a = IF r \in Gated THEN "consumed" ELSE "none"
    OBVIOUS
  <2>2. p = [is |-> "prepared", request |-> r, turn |-> Turn, needs |-> v, approval |-> a]
    BY <2>1 DEF PermitOf
  <2>. QED
    BY <1>1, <1>4, <2>1, <2>2 DEF Preparations
<1>6. /\ permit' \in [Executions -> Seq(PermitFacts)] /\ permit'[x] = <<p>>
      /\ \A y \in Executions : y # x => permit'[y] = permit[y]
  <2>1. <<p>> \in Seq(PermitFacts)
    BY <1>5, WrittenPrepared DEF Written
  <2>2. permit' = [permit EXCEPT ![x] = <<p>>] /\ permit \in [Executions -> Seq(PermitFacts)]
    BY DEF WritePrepared, Inv, Typed
  <2>. QED
    BY <1>2, <2>1, <2>2
<1>7. /\ approval' \in [Requests -> ApprovalType]
      /\ \A q \in Requests : approval'[q].under = approval[q].under
      /\ \A q \in Requests : q # r => approval'[q] = approval[q]
      /\ r \in Gated => approval'[r].is = "consumed"
      /\ r \notin Gated => approval' = approval
  <2>1. approval \in [Requests -> ApprovalType]
    BY DEF Inv, Typed
  <2>2. CASE r \in Gated
    <3>1. PICK k : k = [approval[r] EXCEPT !.is = "consumed"]
      OBVIOUS
    <3>2. approval[r] \in ApprovalType
      BY <1>1, <2>1
    <3>3. k \in ApprovalType /\ k.is = "consumed" /\ k.under = approval[r].under
      BY <3>1, <3>2 DEF ApprovalType
    <3>4. approval' = [approval EXCEPT ![r] = k]
      BY <2>2, <3>1 DEF WritePrepared
    <3>. QED
      BY <1>1, <2>1, <2>2, <3>3, <3>4
  <2>3. CASE r \notin Gated
    BY <2>1, <2>3 DEF WritePrepared
  <2>. QED
    BY <2>2, <2>3
<1>8. /\ Prepared(x)' /\ RequestOf(x)' = r /\ PreparedFact(x)' = p /\ Len(permit'[x]) = 1
      /\ ~Given(x)' /\ Written(permit[x])'
  <2>1. Written(<<p>>) /\ Len(<<p>>) = 1 /\ <<p>>[1] = p
    BY <1>5, WrittenPrepared
  <2>2. <<p>> # << >>
    BY <2>1, WrittenLast
  <2>. QED
    BY <1>5, <1>6, <2>1, <2>2 DEF Prepared, RequestOf, PreparedFact, Given, Settled
<1>9. \A y \in Executions : y # x =>
          /\ (Prepared(y)' <=> Prepared(y)) /\ RequestOf(y)' = RequestOf(y)
          /\ PreparedFact(y)' = PreparedFact(y) /\ (Given(y)' <=> Given(y)) /\ Untouched(y)
  BY <1>6 DEF Prepared, RequestOf, PreparedFact, Given, Settled, ResultOf, Untouched
<1>10. Ran(x)'
  <2>1. Ran(x) /\ Len(permit[x]) = 0
    BY <1>2, WrittenLast DEF Inv, Ledger, Prepared
  <2>. QED
    BY <1>8, <2>1 DEF Ran
<1>11. Stands(x)'
  <2>1. (Active' <=> Active) /\ Turn' = Turn /\ (Quarantined' <=> Quarantined) /\ (Open' <=> Open)
    BY ScopeReads
  <2>2. /\ Past(v)' <=> Past(v)
        /\ Versions' = Versions /\ Authorized' = Authorized
    BY DEF Past, Versions, Authorized
  <2>3. authority = Authorized
    BY <1>2, <1>3 DEF Versions
  <2>. QED
    BY <1>2, <1>3, <1>4, <1>5, <1>8, <2>1, <2>2, <2>3 DEF Stands
<1>12. OnePermit'
  BY <1>3, <1>8, <1>9 DEF OnePermit, Inv
<1>13. \A q \in Requests : SentWell(q)'
  <2>1. ~Given(x)
    BY <1>2 DEF Given, Settled
  <2>. QED
    BY <1>9, <2>1 DEF SentWell, Inv
<1>14. ASSUME NEW q \in Gated PROVE Spent(q)'
  <2>1. q \in Requests /\ Spent(q)
    BY DispatchAssumption DEF Inv
  <2>2. CASE q = r
    <3>1. \A y \in Executions : Prepared(y)' /\ RequestOf(y)' = r => y = x
      BY <1>3, <1>9
    <3>. QED
      BY <1>1, <1>2, <1>5, <1>7, <1>8, <2>2, <3>1 DEF Spent
  <2>3. CASE q # r
    BY <1>2, <1>7, <1>8, <1>9, <2>1, <2>3 DEF Spent
  <2>. QED
    BY <2>2, <2>3
<1>15. Scopes /\ Scopes' /\ Grows /\ Pinned'
  BY DEF Inv, Typed, Scopes, Grows, Pinned
<1>16. Onward
  <2>1. \A q \in Gated : approval[q].is # "none" =>
           approval'[q].is # "none" /\ approval'[q].under = approval[q].under
    <3>. TAKE q \in Gated
    <3>1. q \in Requests
      BY DispatchAssumption
    <3>. QED
      BY <1>7, <3>1
  <2>. QED
    BY <1>15, <2>1 DEF Onward
<1>17. Typed'
  BY <1>6, <1>7, <1>15 DEF Inv, Typed, Moved, Bounded
<1>18. CallKept(c)'
  <2>1. /\ call'[c].step = step /\ Execution(c)' = x /\ Request(c)' = r
        /\ call'[c].outcome = outcome
    BY DEF Moved, Execution, Request
  <2>. QED
    BY <1>2, <1>8, <2>1
       DEF CallKept, Checked, Owns, Delivers, Looking, Holding, Entering, Closing
<1>19. Ledger(x)'
  BY <1>8, <1>10, <1>11 DEF Ledger
<1>20. \A d \in Callers : d # c => Alone(c, d)' /\ Alone(d, c)'
  BY AloneMoved
<1>21. \A d \in Callers : d # c => call'[d] = call[d]
  BY DEF Moved
<1>22. \A d \in Callers : d # c /\ call[d].step # "idle" => Execution(d) # x
  BY <1>2 DEF Inv, Alone
<1>23. \A d \in Callers : d # c /\ call[d].step = "send" =>
          delivery'[Request(d)] # 0 /\ sent'[Request(d)] = sent[Request(d)]
  BY DEF Inv, CallKept, Delivers
<1>. QED
  BY <1>9, <1>12, <1>13, <1>14, <1>15, <1>16, <1>17, <1>18, <1>19, <1>20, <1>21, <1>22, <1>23,
     OneMoves

\* A prepare that holds, confirmed or not, or one that is refused.
LEMMA PrepareKeeps ==
    ASSUME Inv, NEW c \in Callers, Prepare(c)
    PROVE  Inv'
<1>1. /\ call[c].step = "prepare" /\ Calls /\ Bounded'
      /\ UNCHANGED <<scope, pin, delivery, effects>>
  BY DEF Prepare, At, Bounded, Inv, Typed
<1>2. CASE UNCHANGED <<permit, approval>> /\ Doom(c, "unknown")
  BY <1>1, <1>2, Dooms DEF Still, Ends
<1>3. CASE PrepareHolds(c) /\ WritePrepared(c) /\ GoTo(c, "prepared")
  <2>1. Moved(c, "prepared", Execution(c), Seen(c), call[c].outcome)
    BY <1>1, <1>3, GoToMoves DEF Steps
  <2>. QED
    BY <1>1, <1>3, <2>1, Prepares
<1>4. CASE PrepareHolds(c) /\ WritePrepared(c) /\ Doom(c, "unknown")
  <2>1. Moved(c, "conclude", Execution(c), Seen(c), "unknown")
    BY <1>1, <1>4, DoomMoves DEF Ends
  <2>. QED
    BY <1>1, <1>4, <2>1, Prepares
<1>. QED
  BY <1>2, <1>3, <1>4 DEF Prepare

\* The handler is entered by the call that consumed the permit, and only once.
LEMMA HandleKeeps ==
    ASSUME Inv, NEW c \in Callers, Handle(c)
    PROVE  Inv'
<1>. USE DEF scope
<1>1. /\ call[c].step = "handler" /\ Calls /\ Bounded'
      /\ UNCHANGED <<scope, pin, approval, permit, delivery, sent>>
      /\ GoTo(c, "running")
  BY DEF Handle, At, Bounded, bounds, Inv, Typed
<1>. PICK x : x = Execution(c)
  OBVIOUS
<1>2. /\ x \in Executions /\ Prepared(x) /\ RequestOf(x) = Request(c)
      /\ Len(permit[x]) = 3 /\ started[x] = 0 /\ Ledger(x)
  BY <1>1 DEF Inv, CallKept, Owns, Entering
<1>3. /\ started' \in [Executions -> Nat] /\ started'[x] = 1
      /\ \A y \in Executions : y # x => Untouched(y)
  BY <1>1, <1>2 DEF Handle, Inv, Typed, Untouched
<1>4. Moved(c, "running", x, Seen(c), call[c].outcome)
  BY <1>1, GoToMoves DEF Steps
<1>5. \A y \in Executions : /\ (Prepared(y)' <=> Prepared(y)) /\ RequestOf(y)' = RequestOf(y)
                            /\ PreparedFact(y)' = PreparedFact(y)
  BY <1>1 DEF Prepared, RequestOf, PreparedFact
<1>6. Ledger(x)'
  <2>1. Written(permit[x])' /\ Ran(x)'
    BY <1>1, <1>2, <1>3 DEF Ledger, Ran
  <2>2. Stands(x)'
    BY <1>1, <1>2, <1>5, StandsStill DEF Ledger
  <2>. QED
    BY <2>1, <2>2 DEF Ledger
<1>7. Scopes /\ Scopes' /\ Grows /\ Onward /\ Pinned'
  BY <1>1 DEF Inv, Typed, Scopes, Grows, Onward, Pinned
<1>8. Typed'
  BY <1>1, <1>3, <1>4, <1>7 DEF Inv, Typed, Moved, Bounded
<1>9. CallKept(c)'
  <2>1. /\ call'[c].step = "running" /\ Execution(c)' = x /\ Request(c)' = Request(c)
    BY <1>4 DEF Moved, Execution, Request
  <2>. QED
    BY <1>1, <1>2, <1>3, <1>5, <2>1
       DEF CallKept, Checked, Owns, Delivers, Looking, Holding, Entering, Closing
<1>10. OnePermit' /\ (\A r \in Requests : SentWell(r)') /\ (\A r \in Gated : Spent(r)')
  BY <1>1, CarryPermits
<1>11. \A d \in Callers : d # c => Alone(c, d)' /\ Alone(d, c)'
  BY <1>1, <1>4, AloneMoved
<1>12. \A d \in Callers : d # c => call'[d] = call[d]
  BY <1>4 DEF Moved
<1>13. \A d \in Callers : d # c /\ call[d].step # "idle" => Execution(d) # x
  BY <1>1, <1>2 DEF Inv, Alone
<1>14. \A d \in Callers : d # c /\ call[d].step = "send" =>
          delivery'[Request(d)] # 0 /\ sent'[Request(d)] = sent[Request(d)]
  BY <1>1 DEF Inv, CallKept, Delivers
<1>. QED
  BY <1>3, <1>6, <1>7, <1>8, <1>9, <1>10, <1>11, <1>12, <1>13, <1>14, OneMoves

------------------------------------------------------------------------------
(* The delivery                                                              *)

\* Of two claims of one request the second finds the first.
LEMMA ClaimKeeps ==
    ASSUME Inv, NEW c \in Callers, Claim(c)
    PROVE  Inv'
<1>. USE DEF scope, effects
<1>1. /\ call[c].step = "claim" /\ Calls /\ Bounded'
      /\ UNCHANGED <<scope, pin, approval, permit, effects>>
  BY DEF Claim, At, Bounded, Inv, Typed
<1>. PICK x, r : x = Execution(c) /\ r = Request(c)
  OBVIOUS
<1>2. /\ x \in Executions /\ Prepared(x) /\ RequestOf(x) = r /\ Given(x)
      /\ Ledger(x) /\ PreparedFact(x).turn # 0 /\ r \in Requests
  BY <1>1, CallFields DEF Inv, CallKept, Owns, Delivers, Closing, Ledger, Stands
<1>3. PreparedFact(x).turn \in Nat
  <2>1. Len(permit[x]) >= 1
    BY <1>2, WrittenLast DEF Ledger, Prepared
  <2>. QED
    BY <1>2, <2>1 DEF Ledger, Written, PreparedFact, Preparations
<1>4. CASE UNCHANGED delivery /\ Doom(c, "unknown")
  BY <1>1, <1>4, Dooms DEF Still, Ends
<1>5. CASE /\ Claimable(c)
           /\ delivery' = [delivery EXCEPT ![Request(c)] = PreparedFact(Execution(c)).turn]
           /\ GoTo(c, "send") \/ Doom(c, "unknown")
  <2>1. delivery[r] = 0 /\ sent[r] = 0
    <3>1. delivery[r] = 0 /\ SentWell(r) /\ sent[r] \in Nat
      BY <1>2, <1>5 DEF Claimable, Inv, Typed
    <3>. QED
      BY <3>1 DEF SentWell
  <2>2. /\ delivery' \in [Requests -> Nat] /\ delivery'[r] # 0
        /\ \A q \in Requests : q # r => delivery'[q] = delivery[q]
    BY <1>2, <1>3, <1>5 DEF Inv, Typed
  <2>3. PICK step, outcome :
              /\ step \in {"send", "conclude"}
              /\ Moved(c, step, x, Seen(c), outcome) /\ (step = "conclude" => outcome # "known")
    <3>1. CASE GoTo(c, "send")
      BY <1>1, <3>1, GoToMoves DEF Steps
    <3>2. CASE Doom(c, "unknown")
      BY <1>1, <3>2, DoomMoves DEF Ends
    <3>. QED
      BY <1>5, <3>1, <3>2
  <2>4. Scopes /\ Scopes' /\ Grows /\ Onward /\ Pinned'
    BY <1>1 DEF Inv, Typed, Scopes, Grows, Onward, Pinned
  <2>5. Typed'
    BY <1>1, <2>2, <2>3, <2>4 DEF Inv, Typed, Moved, Bounded
  <2>6. \A y \in Executions : /\ (Prepared(y)' <=> Prepared(y)) /\ RequestOf(y)' = RequestOf(y)
                              /\ PreparedFact(y)' = PreparedFact(y) /\ (Given(y)' <=> Given(y))
                              /\ Untouched(y)
    BY <1>1 DEF Prepared, RequestOf, PreparedFact, Given, Settled, ResultOf, Untouched
  <2>7. CallKept(c)'
    <3>1. /\ call'[c].step = step /\ Execution(c)' = x /\ Request(c)' = r
          /\ call'[c].outcome = outcome
      BY <2>3 DEF Moved, Execution, Request
    <3>. QED
      BY <1>1, <1>2, <2>1, <2>2, <2>3, <2>6, <3>1
         DEF CallKept, Checked, Owns, Delivers, Looking, Holding, Entering, Closing
  <2>8. OnePermit' /\ \A q \in Gated : Spent(q)'
    BY <1>1, <2>6 DEF OnePermit, Spent, Inv
  <2>9. \A q \in Requests : SentWell(q)'
    BY <1>1, <2>1, <2>2, <2>6 DEF SentWell, Inv
  <2>10. \A d \in Callers : d # c => call'[d] = call[d]
    BY <2>3 DEF Moved
  <2>11. \A d \in Callers : d # c /\ call[d].step = "send" =>
            /\ Request(d) # r /\ delivery'[Request(d)] # 0
            /\ sent'[Request(d)] = sent[Request(d)]
    <3>. SUFFICES ASSUME NEW d \in Callers, d # c, call[d].step = "send"
                  PROVE  /\ Request(d) # r /\ delivery'[Request(d)] # 0
                         /\ sent'[Request(d)] = sent[Request(d)]
      OBVIOUS
    <3>1. delivery[Request(d)] # 0 /\ Request(d) \in Requests
      BY <1>1, CallFields DEF Inv, CallKept, Delivers
    <3>. QED
      BY <1>1, <2>1, <2>2, <3>1
  <2>12. ASSUME NEW d \in Callers, d # c
         PROVE  Alone(c, d)' /\ Alone(d, c)'
    <3>1. /\ call'[c].step = step /\ Execution(c)' = x /\ Request(c)' = r
          /\ Execution(d)' = Execution(d) /\ call'[d] = call[d] /\ Request(d)' = Request(d)
      BY <2>3, <2>10, <2>12 DEF Moved, Execution, Request
    <3>. QED
      BY <1>1, <2>11, <2>12, <3>1 DEF Inv, Alone
  <2>13. \A d \in Callers : d # c /\ call[d].step # "idle" => Execution(d) # x
    BY <1>1, <1>2 DEF Inv, Alone
  <2>14. Ledger(x)'
    BY <1>2, <2>4, <2>6, CarryLedger DEF Inv
  <2>. QED
    BY <2>4, <2>5, <2>6, <2>7, <2>8, <2>9, <2>10, <2>11, <2>12, <2>13, <2>14, OneMoves
<1>. QED
  BY <1>4, <1>5 DEF Claim

\* The callback is made by the call whose claim was confirmed, which returns or concludes.
LEMMA SendKeeps ==
    ASSUME Inv, NEW c \in Callers, Send(c)
    PROVE  Inv'
<1>. USE DEF scope
<1>1. /\ call[c].step = "send" /\ Calls /\ Bounded'
      /\ UNCHANGED <<scope, pin, approval, permit, delivery, started>>
  BY DEF Send, At, Bounded, bounds, Inv, Typed
<1>. PICK x, r : x = Execution(c) /\ r = Request(c)
  OBVIOUS
<1>2. /\ x \in Executions /\ RequestOf(x) = r /\ Given(x) /\ Ledger(x)
      /\ r \in Requests /\ delivery[r] # 0 /\ sent[r] = 0
  BY <1>1, CallFields DEF Inv, CallKept, Owns, Delivers, Closing
<1>3. /\ sent' \in [Requests -> Nat] /\ sent'[r] = 1
      /\ \A q \in Requests : q # r => sent'[q] = sent[q]
  BY <1>2 DEF Send, Inv, Typed
<1>4. /\ Calls' /\ CallKept(c)'
      /\ \A d \in Callers : d # c => call'[d] = call[d]
      /\ call'[c].step \in {"idle", "conclude"}
      /\ call'[c].step = "conclude" => Execution(c)' = x
  <2>1. CASE Return(c)
    <3>1. /\ Calls' /\ call'[c].step = "idle"
          /\ \A d \in Callers : d # c => call'[d] = call[d]
      BY <1>1, <2>1, ReturnMoves
    <3>. QED
      BY <3>1 DEF CallKept, Checked, Owns, Delivers, Looking, Holding, Entering, Closing
  <2>2. CASE Doom(c, "unknown")
    BY <1>1, <2>2, DoomMoves DEF Ends, Moved, Execution
  <2>. QED
    BY <2>1, <2>2 DEF Send
<1>5. Scopes /\ Scopes' /\ Grows /\ Onward /\ Pinned'
  BY <1>1 DEF Inv, Typed, Scopes, Grows, Onward, Pinned
<1>6. Typed'
  BY <1>1, <1>3, <1>4, <1>5 DEF Inv, Typed, Bounded
<1>7. \A y \in Executions : /\ (Prepared(y)' <=> Prepared(y)) /\ RequestOf(y)' = RequestOf(y)
                            /\ PreparedFact(y)' = PreparedFact(y) /\ (Given(y)' <=> Given(y))
                            /\ Untouched(y)
  BY <1>1 DEF Prepared, RequestOf, PreparedFact, Given, Settled, ResultOf, Untouched
<1>8. OnePermit' /\ \A q \in Gated : Spent(q)'
  BY <1>1, <1>7 DEF OnePermit, Spent, Inv
<1>9. \A q \in Requests : SentWell(q)'
  BY <1>1, <1>2, <1>3, <1>7 DEF SentWell, Inv
<1>10. ASSUME NEW d \in Callers, d # c
       PROVE  Alone(c, d)' /\ Alone(d, c)'
  <2>1. Execution(d)' = Execution(d) /\ call'[d] = call[d]
    BY <1>4, <1>10 DEF Execution
  <2>. QED
    BY <1>1, <1>4, <1>10, <2>1 DEF Inv, Alone
<1>11. ASSUME NEW d \in Callers, d # c, call[d].step = "send"
       PROVE  delivery'[Request(d)] # 0 /\ sent'[Request(d)] = sent[Request(d)]
  <2>1. Request(d) # r /\ Request(d) \in Requests /\ delivery[Request(d)] # 0
    BY <1>1, <1>11, CallFields DEF Inv, Alone, CallKept, Delivers
  <2>. QED
    BY <1>1, <1>3, <2>1
<1>12. \A d \in Callers : d # c /\ call[d].step # "idle" => Execution(d) # x
  BY <1>1, <1>2 DEF Inv, Alone
<1>13. Ledger(x)'
  BY <1>2, <1>5, <1>7, CarryLedger DEF Inv
<1>. QED
  BY <1>4, <1>5, <1>6, <1>7, <1>8, <1>9, <1>10, <1>11, <1>12, <1>13, OneMoves

------------------------------------------------------------------------------
(* Around the calls                                                          *)

\* A sequence with a further element is a longer one.
LEMMA SeqGrows ==
    ASSUME NEW S, NEW s \in Seq(S), NEW e \in S
    PROVE  Append(s, e) \in Seq(S) /\ Len(s) < Len(Append(s, e))
<1>1. Len(s) \in Nat
  BY LenProperties
<1>. QED
  BY <1>1

\* Only the streams change, and they grow.
LEMMA StreamsKeep ==
    ASSUME Inv, Scopes', Grows,
           UNCHANGED <<pin, approval, permit, delivery, call, effects, bounds>>
    PROVE  Inv'
<1>1. Calls' /\ Bounded'
  BY DEF Inv, Typed, Calls, Bounded, bounds
<1>2. Onward /\ Typed' /\ Pinned'
  BY <1>1, GrownTyped
<1>3. \A r \in Gated : Spent(r)'
  BY CarryPermits DEF effects
<1>. QED
  BY <1>2, <1>3, NoneMoves

\* What happens around the calls makes the streams longer.
LEMMA StreamActionsKeep ==
    ASSUME Inv, Revise \/ ChangeCompany \/ Release \/ Cancel \/ Stop \/ Prompt
    PROVE  Inv'
<1>0. Scopes
  BY DEF Inv, Typed
<1>1. UNCHANGED <<pin, approval, permit, delivery, call, effects, bounds>>
  BY DEF Revise, ChangeCompany, Release, Cancel, Stop, Prompt
<1>2. CASE Revise
  <2>1. Scopes' /\ Grows
    BY <1>0, <1>2 DEF Revise, Scopes, Grows
  <2>. QED
    BY <1>1, <2>1, StreamsKeep
<1>3. CASE ChangeCompany
  <2>. DEFINE S == {"open", "closed"}
  <2>1. PICK state \in S : company' = Append(company, state)
    BY <1>3 DEF ChangeCompany
  <2>2. company' \in Seq(S) /\ Len(company) < Len(company')
    <3>1. company \in Seq(S)
      BY <1>0 DEF Scopes
    <3>. HIDE DEF S
    <3>. QED
      BY <2>1, <3>1, SeqGrows
  <2>3. UNCHANGED <<authority, quarantine, run>>
    BY <1>3 DEF ChangeCompany
  <2>4. Scopes' /\ Grows
    BY <1>0, <2>2, <2>3 DEF Scopes, Grows
  <2>. QED
    BY <1>1, <2>4, StreamsKeep
<1>4. CASE Release
  <2>. DEFINE S == {"quarantined", "released"}
  <2>1. PICK state \in S : quarantine' = Append(quarantine, state)
    BY <1>4 DEF Release
  <2>2. quarantine' \in Seq(S) /\ Len(quarantine) < Len(quarantine')
    <3>1. quarantine \in Seq(S)
      BY <1>0 DEF Scopes
    <3>. HIDE DEF S
    <3>. QED
      BY <2>1, <3>1, SeqGrows
  <2>3. UNCHANGED <<authority, company, run>>
    BY <1>4 DEF Release
  <2>4. Scopes' /\ Grows
    BY <1>0, <2>2, <2>3 DEF Scopes, Grows
  <2>. QED
    BY <1>1, <2>4, StreamsKeep
<1>5. CASE Cancel \/ Prompt
  <2>1. Scopes' /\ Grows
    BY <1>0, <1>5, RunGrows DEF Cancel, Prompt
  <2>. QED
    BY <1>1, <2>1, StreamsKeep
<1>6. CASE Stop
  <2>1. PICK kind \in TerminalKinds : EndTurn(kind)
    BY <1>6 DEF Stop, TerminalKinds
  <2>2. UNCHANGED <<authority, company>>
    BY <1>6 DEF Stop
  <2>3. Scopes' /\ Grows
    BY <1>0, <2>1, <2>2, EndTurnGrows
  <2>. QED
    BY <1>1, <2>3, StreamsKeep
<1>. QED
  BY <1>2, <1>3, <1>4, <1>5, <1>6

\* Grants and withdrawals never take back a consumption, or change what an approval binds.
LEMMA ApprovalActionsKeep ==
    ASSUME Inv, NEW r \in Requests, Grant(r) \/ Withdraw(r)
    PROVE  Inv'
<1>. USE DEF scope, effects
<1>1. UNCHANGED <<scope, pin, permit, delivery, call, effects, bounds>>
  BY DEF Grant, Withdraw
<1>2. PICK k : /\ k \in ApprovalType /\ approval' = [approval EXCEPT ![r] = k]
               /\ approval[r].is \notin {"consumed", "void"} /\ k.is \in {"approved", "void"}
               /\ approval[r].is # "none" => k.under = approval[r].under
  <2>0. approval[r] \in ApprovalType /\ authority \in Nat
    BY DEF Inv, Typed, Scopes
  <2>1. CASE Grant(r)
    <3>1. PICK k : k = [is |-> "approved", under |-> authority]
      OBVIOUS
    <3>2. k \in ApprovalType /\ k.is = "approved"
      BY <2>0, <3>1 DEF ApprovalType
    <3>3. approval' = [approval EXCEPT ![r] = k] /\ approval[r].is = "none"
      BY <2>1, <3>1 DEF Grant
    <3>. QED
      BY <3>2, <3>3
  <2>2. CASE Withdraw(r)
    <3>1. PICK k : k = [approval[r] EXCEPT !.is = "void"]
      OBVIOUS
    <3>2. k \in ApprovalType /\ k.is = "void" /\ k.under = approval[r].under
      BY <2>0, <3>1 DEF ApprovalType
    <3>3. approval' = [approval EXCEPT ![r] = k] /\ approval[r].is = "approved"
      BY <2>2, <3>1 DEF Withdraw
    <3>. QED
      BY <3>2, <3>3
  <2>. QED
    BY <2>1, <2>2
<1>3. /\ approval' \in [Requests -> ApprovalType] /\ approval'[r] = k
      /\ \A q \in Requests : q # r => approval'[q] = approval[q]
  BY <1>2 DEF Inv, Typed
<1>4. Gated \subseteq Requests
  BY DispatchAssumption
<1>5. Scopes /\ Scopes' /\ Grows
  BY <1>1 DEF Inv, Typed, Scopes, Grows
<1>6. Onward
  <2>1. \A q \in Gated : approval[q].is # "none" =>
           approval'[q].is # "none" /\ approval'[q].under = approval[q].under
    <3>. TAKE q \in Gated
    <3>1. CASE q = r
      BY <1>2, <1>3, <3>1
    <3>2. CASE q # r
      BY <1>3, <1>4, <3>2
    <3>. QED
      BY <3>1, <3>2
  <2>. QED
    BY <1>1, <1>5, <2>1 DEF Onward
<1>7. Typed' /\ Pinned'
  BY <1>1, <1>3, <1>5 DEF Inv, Typed, Calls, Pinned, bounds
<1>8. ASSUME NEW q \in Gated PROVE Spent(q)'
  <2>1. \A x \in Executions : /\ (Prepared(x)' <=> Prepared(x)) /\ RequestOf(x)' = RequestOf(x)
                              /\ PreparedFact(x)' = PreparedFact(x)
    BY <1>1 DEF Prepared, RequestOf, PreparedFact
  <2>2. Spent(q)
    BY DEF Inv
  <2>3. CASE q = r
    BY <1>2, <1>3, <2>1, <2>2, <2>3 DEF Spent
  <2>4. CASE q # r
    BY <1>3, <1>4, <2>1, <2>2, <2>4 DEF Spent
  <2>. QED
    BY <2>3, <2>4
<1>. QED
  BY <1>1, <1>6, <1>7, <1>8, NoneMoves

\* A restart leaves no call, and the ledger as it was.
LEMMA CrashKeeps ==
    ASSUME Inv, Crash
    PROVE  Inv'
<1>. USE DEF scope, effects
<1>1. /\ UNCHANGED <<scope, pin, approval, permit, delivery, effects>> /\ Bounded'
      /\ call' = [c \in Callers |-> Idle]
  BY DEF Crash, Bounded, Inv, Typed
<1>2. Idle \in CallType /\ Idle.step = "idle"
  BY DEF CallType, Idle
<1>3. Calls' /\ \A c \in Callers : call'[c].step = "idle"
  BY <1>1, <1>2 DEF Calls
<1>4. Onward /\ Typed' /\ Pinned'
  BY <1>1, <1>3, StillTyped DEF Still
<1>5. \A x \in Executions : Ledger(x)'
  BY <1>1, <1>4, CarryLedger DEF Inv, Untouched
<1>6. \A c \in Callers : CallKept(c)'
  BY <1>3 DEF CallKept, Checked, Owns, Delivers, Looking, Holding, Entering, Closing
<1>7. \A c, d \in Callers : c # d => Alone(c, d)'
  BY <1>3 DEF Alone
<1>8. OnePermit' /\ (\A r \in Requests : SentWell(r)') /\ (\A r \in Gated : Spent(r)')
  BY <1>1, CarryPermits
<1>. QED
  BY <1>4, <1>5, <1>6, <1>7, <1>8 DEF Inv

\* It holds of a new project with a run.
LEMMA InitInv ==
    ASSUME Init
    PROVE  Inv
<1>. USE DEF Init
<1>1. Scopes
  <2>1. company \in Seq({"open", "closed"}) /\ quarantine \in Seq({"quarantined", "released"})
    OBVIOUS
  <2>2. run \in Seq({"prompt", "note", "cancelling"} \cup TerminalKinds)
    OBVIOUS
  <2>3. run # << >> /\ run[1] = "prompt" /\ authority \in Nat \ {0}
    BY DEF Authorized
  <2>. QED
    BY <2>1, <2>2, <2>3 DEF Scopes
<1>2. Idle \in CallType /\ Idle.step = "idle"
  BY DEF CallType, Idle
<1>3. Calls /\ \A c \in Callers : call[c].step = "idle"
  BY <1>2 DEF Calls
<1>4. approval \in [Requests -> ApprovalType] /\ \A r \in Requests : approval[r].is = "none"
  BY DEF ApprovalType
<1>5. permit \in [Executions -> Seq(PermitFacts)]
  OBVIOUS
<1>6. Typed
  BY <1>1, <1>3, <1>4, <1>5 DEF Typed
<1>7. Pinned
  BY DEF Pinned, Authorized
<1>8. \A x \in Executions : ~Prepared(x) /\ ~Given(x)
  BY DEF Prepared, Given, Settled
<1>9. \A x \in Executions : Ledger(x)
  BY <1>8, WrittenNone DEF Ledger, Ran, Stands
<1>10. \A c \in Callers : CallKept(c)
  BY <1>3 DEF CallKept, Checked, Owns, Delivers, Looking, Holding, Entering, Closing
<1>11. \A c, d \in Callers : c # d => Alone(c, d)
  BY <1>3 DEF Alone
<1>12. OnePermit /\ \A r \in Requests : SentWell(r)
  BY <1>8 DEF OnePermit, SentWell
<1>13. \A r \in Gated : Spent(r)
  BY <1>4, <1>8, DispatchAssumption DEF Spent
<1>. QED
  BY <1>6, <1>7, <1>9, <1>10, <1>11, <1>12, <1>13 DEF Inv

\* A stuttering step keeps it.
LEMMA StutterKeeps ==
    ASSUME Inv, UNCHANGED vars
    PROVE  Inv'
<1>1. Scopes' /\ Grows
  BY DEF vars, Inv, Typed, Scopes, Grows
<1>. QED
  BY <1>1, StreamsKeep DEF vars, effects, bounds

\* The invariant is inductive.
LEMMA NextKeeps ==
    ASSUME Inv, [Next]_vars
    PROVE  Inv'
<1>1. ASSUME NEW c \in Callers, Start(c) \/ Hear(c) \/ Refuse(c) PROVE Inv'
  BY <1>1, StartKeeps, HearKeeps, RefuseKeeps
<1>2. ASSUME NEW c \in Callers, Work(c) PROVE Inv'
  <2>1. CASE Pin(c) \/ CommitPin(c) \/ Announce(c)
    BY <2>1, PinKeeps, CommitPinKeeps, AnnounceKeeps
  <2>2. CASE Begin(c) \/ ReadRevision(c) \/ ReadScopes(c) \/ Guard(c) \/ TakeApproval(c)
    BY <2>2, BeginKeeps, ReadRevisionKeeps, ReadScopesKeeps, GuardKeeps, TakeApprovalKeeps
  <2>3. CASE Prepare(c) \/ Prepping(c) \/ Fence(c)
    BY <2>3, PrepareKeeps, PreppingKeeps, FenceKeeps
  <2>4. CASE Admit(c) \/ Consume(c) \/ Handle(c) \/ Finish(c) \/ Settle(c) \/ Record(c)
    BY <2>4, AdmitKeeps, ConsumeKeeps, HandleKeeps, FinishKeeps, SettleKeeps, RecordKeeps
  <2>5. CASE Deliver(c) \/ Claim(c) \/ Send(c) \/ Conclude(c)
    BY <2>5, DeliverKeeps, ClaimKeeps, SendKeeps, ConcludeKeeps
  <2>. QED
    BY <1>2, <2>1, <2>2, <2>3, <2>4, <2>5 DEF Work
<1>3. ASSUME NEW r \in Requests, Grant(r) \/ Withdraw(r) PROVE Inv'
  BY <1>3, ApprovalActionsKeep
<1>4. CASE Revise \/ ChangeCompany \/ Release \/ Cancel \/ Stop \/ Prompt
  BY <1>4, StreamActionsKeep
<1>5. CASE Crash
  BY <1>5, CrashKeeps
<1>6. CASE UNCHANGED vars
  BY <1>6, StutterKeeps
<1>. QED
  BY <1>1, <1>2, <1>3, <1>4, <1>5, <1>6 DEF Next

\* The invariant holds in every reachable state.
THEOREM Invariance == Spec => []Inv
<1>1. Init => Inv
  BY InitInv
<1>2. Inv /\ [Next]_vars => Inv'
  BY NextKeeps
<1>. QED
  BY <1>1, <1>2, PTL DEF Spec

------------------------------------------------------------------------------
(* The properties of the state                                               *)

\* What the streams, the calls and the counters hold, for any number of callers,
\* requests and executions (TypeOK).
THEOREM TypeCorrect == Spec => []TypeOK
<1>1. ASSUME Inv PROVE TypeOK
  <2>1. ASSUME NEW s, Written(s)
        PROVE  s \in Seq(PermitFacts) /\ Len(s) <= 4
    <3>1. \A n \in 0 .. 4 : n <= 4
      OBVIOUS
    <3>. QED
      BY <2>1, <3>1, Zenon DEF Written
  <2>2. \A x \in Executions : permit[x] \in Seq(PermitFacts) /\ Len(permit[x]) <= 4
    BY <1>1, <2>1 DEF Inv, Ledger
  <2>3. /\ authority \in Nat /\ company \in Seq({"open", "closed"})
        /\ quarantine \in Seq({"quarantined", "released"})
        /\ run \in Seq({"prompt", "note", "cancelling"} \cup TerminalKinds)
    BY <1>1 DEF Inv, Typed, Scopes
  <2>. QED
    BY <1>1, <2>2, <2>3 DEF Inv, Typed, TypeOK, ApprovalType, Calls
<1>. QED
  BY <1>1, Invariance, PTL

\* An execution whose handler was entered has a permit.
LEMMA StartedPrepared ==
    ASSUME Inv, NEW x \in Executions, started[x] > 0
    PROVE  started[x] = 1 /\ Len(permit[x]) \in {3, 4} /\ Prepared(x)
<1>1. Written(permit[x]) /\ Ran(x) /\ started[x] \in Nat
  BY DEF Inv, Ledger, Typed
<1>2. started[x] = 1 /\ Len(permit[x]) \in {3, 4}
  BY <1>1 DEF Ran
<1>3. \A n \in {3, 4} : n # 0
  OBVIOUS
<1>4. Len(permit[x]) # 0
  BY <1>2, <1>3, Zenon
<1>. QED
  BY <1>1, <1>2, <1>4, WrittenLast, Zenon DEF Prepared

\* The handler of a request is entered at most once, however often and by however
\* many tasks it is dispatched (StartedOnce).
THEOREM EnteredOnce == Spec => []StartedOnce
<1>1. ASSUME Inv PROVE StartedOnce
  BY <1>1, StartedPrepared DEF StartedOnce, Inv, OnePermit
<1>. QED
  BY <1>1, Invariance, PTL

\* The class of a stream whose facts are in order.
LEMMA Classes ==
    ASSUME NEW s, Written(s)
    PROVE  /\ Len(s) = 0 => CrashClass(s) = "NotPrepared"
           /\ Len(s) = 1 => CrashClass(s) = "PreparedUndispatched"
           /\ Len(s) = 3 => CrashClass(s) = "EffectPossiblyStarted"
           /\ Len(s) \in {2, 4} => CrashClass(s) = "ResultCommitted"
<1>. PICK k : k = [i \in DOMAIN s |-> s[i].is]
  OBVIOUS
<1>. DEFINE Kinds == {"prepared", "dispatching", "executing", "result"}
<1>1. s \in Seq(PermitFacts) /\ Len(s) \in 0 .. 4
  BY DEF Written
<1>2. DOMAIN s = 1 .. Len(s) /\ \A i \in 1 .. Len(s) : s[i] \in PermitFacts
  BY <1>1, LenProperties, ElementOfSeq
<1>3. \A f \in PermitFacts : f.is \in Kinds
  BY DEF PermitFacts
<1>4. k \in Seq(Kinds) /\ Len(k) = Len(s) /\ \A i \in 1 .. Len(s) : k[i] = s[i].is
  <2>. HIDE DEF Kinds
  <2>1. k \in [1 .. Len(s) -> Kinds]
    BY <1>2, <1>3
  <2>. QED
    BY <1>1, <1>2, <2>1
<1>5. CrashClass(s) =
        CASE k = << >> -> "NotPrepared"
          [] k = <<"prepared">> -> "PreparedUndispatched"
          [] k = <<"prepared", "dispatching">> -> "DispatchUnconfirmed"
          [] k = <<"prepared", "dispatching", "executing">> -> "EffectPossiblyStarted"
          [] k \in {<<"prepared", "dispatching", "executing", "result">>,
                    <<"prepared", "result">>} -> "ResultCommitted"
          [] OTHER -> "Corrupt"
  BY DEF CrashClass
<1>6. \A p \in Preparations : p.is = "prepared"
  BY DEF Preparations
<1>7. \A e \in Results : e.is = "result"
  BY DEF Results
<1>8. CASE Len(s) = 0
  <2>1. k = << >>
    BY <1>4, <1>8
  <2>. QED
    BY <1>5, <1>8, <2>1
<1>9. CASE Len(s) = 1
  <2>1. k[1] = "prepared" /\ Len(k) = 1
    BY <1>4, <1>6, <1>9 DEF Written
  <2>2. k = <<"prepared">>
    BY <1>4, <2>1
  <2>3. /\ k # << >>
        /\ k # <<"prepared", "dispatching">>
        /\ k # <<"prepared", "dispatching", "executing">>
        /\ k \notin {<<"prepared", "dispatching", "executing", "result">>,
                     <<"prepared", "result">>}
    <3>1. /\ Len(<< >>) = 0
          /\ Len(<<"prepared", "dispatching">>) = 2 /\ Len(<<"prepared", "result">>) = 2
          /\ Len(<<"prepared", "dispatching", "executing">>) = 3
          /\ Len(<<"prepared", "dispatching", "executing", "result">>) = 4
      BY EmptySeq
    <3>2. 0 # 1 /\ 2 # 1 /\ 3 # 1 /\ 4 # 1
      OBVIOUS
    <3>. QED
      BY <2>1, <3>1, <3>2, Zenon
  <2>4. CrashClass(s) = "PreparedUndispatched"
    BY <1>5, <2>2, <2>3, Zenon
  <2>. QED
    BY <1>9, <2>4
<1>10. CASE Len(s) = 2
  <2>1. k[1] = "prepared" /\ k[2] = "result" /\ Len(k) = 2
    BY <1>4, <1>6, <1>7, <1>10 DEF Written
  <2>2. k = <<"prepared", "result">>
    BY <1>4, <2>1
  <2>. QED
    BY <1>5, <1>10, <2>2
<1>11. CASE Len(s) = 3
  <2>1. k[1] = "prepared" /\ k[2] = "dispatching" /\ k[3] = "executing" /\ Len(k) = 3
    BY <1>4, <1>6, <1>11 DEF Written
  <2>2. k = <<"prepared", "dispatching", "executing">>
    BY <1>4, <2>1
  <2>. QED
    BY <1>5, <1>11, <2>2
<1>12. CASE Len(s) = 4
  <2>1. /\ k[1] = "prepared" /\ k[2] = "dispatching" /\ k[3] = "executing"
        /\ k[4] = "result" /\ Len(k) = 4
    BY <1>4, <1>6, <1>7, <1>12 DEF Written
  <2>2. k = <<"prepared", "dispatching", "executing", "result">>
    BY <1>4, <2>1
  <2>. QED
    BY <1>5, <1>12, <2>2
<1>. QED
  BY <1>1, <1>8, <1>9, <1>10, <1>11, <1>12

\* The committed facts alone tell whether the handler may have been entered, and no
\* stream is without a class (CrashClassSound).
THEOREM ClassSound == Spec => []CrashClassSound
<1>1. ASSUME Inv, NEW x \in Executions
      PROVE  /\ CrashClass(permit[x]) \notin {"DispatchUnconfirmed", "Corrupt"}
             /\ started[x] > 0 =>
                   CrashClass(permit[x]) \in {"EffectPossiblyStarted", "ResultCommitted"}
             /\ Settled(x) /\ Len(permit[x]) = 2 => started[x] = 0
  <2>1. Written(permit[x]) /\ Len(permit[x]) \in 0 .. 4 /\ Ran(x)
    BY <1>1 DEF Inv, Ledger, Written
  <2>2. CrashClass(permit[x]) \in {"NotPrepared", "PreparedUndispatched",
                                   "EffectPossiblyStarted", "ResultCommitted"}
    BY <2>1, Classes
  <2>3. ASSUME started[x] > 0
        PROVE  CrashClass(permit[x]) \in {"EffectPossiblyStarted", "ResultCommitted"}
    BY <1>1, <2>1, <2>3, StartedPrepared, Classes
  <2>4. Len(permit[x]) = 2 => started[x] = 0
    BY <2>1 DEF Ran
  <2>. QED
    BY <2>2, <2>3, <2>4
<1>2. Inv => CrashClassSound
  BY <1>1 DEF CrashClassSound
<1>. QED
  BY <1>2, Invariance, PTL

\* An approval is used up exactly when an execution of its request is prepared, by one
\* execution, under the authority it was granted for (ApprovalSpent).
THEOREM SpentOnce == Spec => []ApprovalSpent
<1>1. ASSUME Inv, NEW r \in Gated,
             NEW uses, uses = { x \in Executions : Prepared(x) /\ RequestOf(x) = r }
      PROVE  /\ approval[r].is = "consumed" <=> uses # {}
             /\ Cardinality(uses) <= 1
             /\ \A x \in uses : PreparedFact(x).needs.authority = approval[r].under
  <2>1. Spent(r) /\ OnePermit
    BY <1>1 DEF Inv
  <2>2. approval[r].is = "consumed" <=> uses # {}
    BY <1>1, <2>1 DEF Spent
  <2>3. \A x \in uses : PreparedFact(x).needs.authority = approval[r].under
    BY <1>1, <2>1 DEF Spent
  <2>4. \A x, y \in uses : x = y
    BY <1>1, <2>1 DEF OnePermit
  <2>5. Cardinality(uses) \in {0, 1}
    <3>1. CASE uses = {}
      BY <3>1, FS_EmptySet
    <3>2. CASE uses # {}
      <4>1. PICK x : uses = {x}
        BY <2>4, <3>2
      <4>. QED
        BY <4>1, FS_Singleton
    <3>. QED
      BY <3>1, <3>2
  <2>. QED
    BY <2>2, <2>3, <2>5
<1>2. Inv => ApprovalSpent
  BY <1>1 DEF ApprovalSpent
<1>. QED
  BY <1>2, Invariance, PTL

------------------------------------------------------------------------------
(* The properties of the steps                                               *)

\* Which steps write the permits, the claims and the quarantine.
LEMMA Writers ==
    ASSUME [Next]_vars
    PROVE  /\ permit' # permit => \E c \in Callers : Prepare(c) \/ Fence(c) \/ Consume(c) \/ Settle(c)
           /\ delivery' # delivery => \E c \in Callers : Claim(c)
           /\ \/ quarantine' = quarantine \/ Release
              \/ quarantine' = Append(quarantine, "quarantined")
<1>. USE DEF scope, effects, bounds
<1>1. ASSUME NEW c \in Callers, Start(c) \/ Hear(c) \/ Refuse(c)
      PROVE  UNCHANGED <<permit, delivery, quarantine>>
  BY <1>1 DEF Start, Hear, Refuse
<1>2. ASSUME NEW c \in Callers, Work(c)
      PROVE  /\ permit' # permit => Prepare(c) \/ Fence(c) \/ Consume(c) \/ Settle(c)
             /\ delivery' # delivery => Claim(c)
             /\ quarantine' = quarantine \/ quarantine' = Append(quarantine, "quarantined")
  <2>1. ASSUME Pin(c) \/ CommitPin(c) \/ Announce(c) \/ Begin(c) \/ ReadRevision(c)
        PROVE  UNCHANGED <<permit, delivery, quarantine>>
    BY <2>1 DEF Pin, CommitPin, Announce, Begin, ReadRevision
  <2>2. ASSUME ReadScopes(c) \/ Guard(c) \/ TakeApproval(c) \/ Prepping(c)
        PROVE  UNCHANGED <<permit, delivery, quarantine>>
    BY <2>2 DEF ReadScopes, Guard, TakeApproval, Prepping
  <2>3. ASSUME Admit(c) \/ Handle(c) \/ Finish(c) \/ Record(c) \/ Deliver(c) \/ Send(c)
        PROVE  UNCHANGED <<permit, delivery, quarantine>>
    BY <2>3 DEF Admit, Handle, Finish, Record, Deliver, Send
  <2>4. Prepare(c) \/ Fence(c) \/ Consume(c) \/ Settle(c) => UNCHANGED <<delivery, quarantine>>
    BY DEF Prepare, Fence, Consume, Settle
  <2>5. Claim(c) => UNCHANGED <<permit, quarantine>>
    BY DEF Claim
  <2>6. Conclude(c) => /\ UNCHANGED <<permit, delivery>>
                       /\ \/ quarantine' = quarantine
                          \/ quarantine' = Append(quarantine, "quarantined")
    BY DEF Conclude, EndTurn
  <2>. QED
    BY <1>2, <2>1, <2>2, <2>3, <2>4, <2>5, <2>6, Zenon DEF Work
<1>3. ASSUME NEW r \in Requests, Grant(r) \/ Withdraw(r)
      PROVE  UNCHANGED <<permit, delivery, quarantine>>
  BY <1>3 DEF Grant, Withdraw
<1>4. Revise \/ ChangeCompany \/ Cancel \/ Prompt \/ Crash => UNCHANGED <<permit, delivery, quarantine>>
  BY DEF Revise, ChangeCompany, Cancel, Prompt, Crash
<1>5. Release => UNCHANGED <<permit, delivery>>
  BY DEF Release
<1>6. Stop => /\ UNCHANGED <<permit, delivery>>
              /\ quarantine' = quarantine \/ quarantine' = Append(quarantine, "quarantined")
  BY DEF Stop, EndTurn
<1>7. UNCHANGED vars => UNCHANGED <<permit, delivery, quarantine>>
  BY DEF vars
<1>. QED
  BY <1>1, <1>2, <1>3, <1>4, <1>5, <1>6, <1>7, Zenon DEF Next

\* The permit of an execution gets its third fact from the commit that compares the
\* versions with those the permit needs.
LEMMA Consumption ==
    ASSUME Inv, [Next]_vars, NEW x \in Executions, ~Executing(x), Len(permit'[x]) >= 3
    PROVE  Prepared(x) /\ Versions = PreparedFact(x).needs
<1>0. permit'[x] # permit[x]
  BY DEF Executing
<1>1. PICK c \in Callers : Prepare(c) \/ Fence(c) \/ Consume(c) \/ Settle(c)
  BY <1>0, Writers
<1>2. \A y \in Executions : Written(permit[y])
  BY DEF Inv, Ledger
<1>3. permit \in [Executions -> Seq(PermitFacts)]
  BY DEF Inv, Typed
<1>4. ASSUME NEW s, Written(s), Len(s) = 1, NEW t, NEW e, t = Append(s, e) PROVE Len(t) = 2
  <2>1. s \in Seq(PermitFacts)
    BY <1>4 DEF Written
  <2>2. PICK S : S = PermitFacts \cup {e}
    OBVIOUS
  <2>3. s \in Seq(S) /\ e \in S
    <3>1. e \in S /\ \A f \in PermitFacts : f \in S
      BY <2>2
    <3>2. s \in [1 .. 1 -> S] /\ s = [i \in 1 .. 1 |-> s[i]]
      BY <1>4, <2>1, <3>1, LenProperties
    <3>. QED
      BY <3>1, <3>2
  <2>4. Len(t) = Len(s) + 1
    BY <1>4, <2>3, AppendProperties, Zenon
  <2>. QED
    BY <1>4, <2>4
<1>5. CASE Prepare(c)
  <2>1. PICK p : permit' = [permit EXCEPT ![Execution(c)] = <<p>>]
    BY <1>0, <1>5 DEF Prepare, WritePrepared
  <2>2. permit'[x] = <<p>>
    BY <1>0, <1>3, <2>1
  <2>. QED
    BY <2>2
<1>6. CASE Fence(c)
  <2>1. PICK e : permit' = [permit EXCEPT ![Execution(c)] = Append(@, e)]
    BY <1>0, <1>6 DEF Fence
  <2>2. permit'[x] = Append(permit[x], e) /\ x = Execution(c)
    BY <1>0, <1>3, <2>1
  <2>3. Len(permit[x]) = 1
    BY <1>6, <2>2 DEF Inv, CallKept, Owns, Holding, Fence, At
  <2>4. Len(permit'[x]) = 2
    BY <1>2, <1>4, <2>2, <2>3
  <2>. QED
    BY <2>4
<1>7. CASE Settle(c)
  <2>1. PICK e : permit' = [permit EXCEPT ![Execution(c)] = Append(@, e)]
    BY <1>0, <1>7 DEF Settle
  <2>2. permit'[x] = Append(permit[x], e) /\ x = Execution(c)
    BY <1>0, <1>3, <2>1
  <2>3. Len(permit[x]) \in {1, 3}
    BY <1>7, <2>2 DEF Inv, CallKept, Owns, Entering, Settle, At
  <2>4. Len(permit[x]) = 1
    BY <2>3 DEF Executing
  <2>5. Len(permit'[x]) = 2
    BY <1>2, <1>4, <2>2, <2>4
  <2>. QED
    BY <2>5
<1>8. CASE Consume(c)
  <2>1. Consumable(Execution(c)) /\ WriteConsumed(Execution(c))
    BY <1>0, <1>8 DEF Consume
  <2>2. x = Execution(c)
    BY <1>0, <1>3, <2>1 DEF WriteConsumed
  <2>3. Prepared(x)
    BY <1>8, <2>2 DEF Inv, CallKept, Owns, Holding, Consume, At
  <2>. QED
    BY <2>1, <2>2, <2>3 DEF Consumable, Holds
<1>. QED
  BY <1>1, <1>5, <1>6, <1>7, <1>8

\* A permit is consumed only while everything that was checked for it still holds:
\* the comparison of versions in verify_and_consume is enough (StartsPermitted).
THEOREM PermittedStart == Spec => StartsPermitted
<1>1. ASSUME Inv, [Next]_vars, NEW x \in Executions, ~Executing(x), Len(permit'[x]) >= 3
      PROVE  /\ Active /\ Turn = PreparedFact(x).turn
             /\ authority = Authorized /\ pin[RequestOf(x)] = authority
             /\ ~Quarantined /\ Open
  <2>1. Prepared(x) /\ Versions = PreparedFact(x).needs
    BY <1>1, Consumption
  <2>2. Stands(x)
    BY <1>1 DEF Inv, Ledger
  <2>. QED
    BY <2>1, <2>2 DEF Stands
<1>2. Inv /\ [Next]_vars =>
        [\A x \in Executions :
          ~Executing(x) /\ Len(permit'[x]) >= 3
            => /\ Active /\ Turn = PreparedFact(x).turn
               /\ authority = Authorized /\ pin[RequestOf(x)] = authority
               /\ ~Quarantined /\ Open]_vars
  BY <1>1
<1>. QED
  BY <1>2, Invariance, PTL DEF Spec, StartsPermitted

\* No project is released while a handler of its run runs or is about to
\* (ReleasedAtRest).
THEOREM RestedRelease == Spec => ReleasedAtRest
<1>1. ASSUME Inv, [Next]_vars, Quarantined, quarantine'[Len(quarantine')] = "released",
             NEW c \in Callers, call[c].step \in {"handler", "running"}
      PROVE  FALSE
  <2>1. quarantine' # quarantine
    BY <1>1 DEF Quarantined
  <2>2. quarantine' # Append(quarantine, "quarantined")
    <3>. DEFINE Marks == {"quarantined", "released"}
    <3>1. quarantine \in Seq(Marks) /\ "quarantined" # "released"
      BY <1>1 DEF Inv, Typed, Scopes
    <3>. HIDE DEF Marks
    <3>2. ASSUME NEW q, q = Append(quarantine, "quarantined") PROVE q[Len(q)] = "quarantined"
      BY <3>1, <3>2
    <3>. QED
      BY <1>1, <3>1, <3>2
  <2>3. Release
    BY <1>1, <2>1, <2>2, Writers
  <2>4. PICK x \in Executions : x = Execution(c) /\ Len(permit[x]) = 3 /\ Written(permit[x])
    BY <1>1 DEF Inv, CallKept, Owns, Entering, Ledger
  <2>5. Settled(x)
    <3>1. Executing(x)
      BY <2>4 DEF Executing
    <3>. QED
      BY <2>3, <3>1, Zenon DEF Release, Stopped
  <2>6. permit[x] # << >> /\ permit[x][Len(permit[x])].is = "result"
    BY <2>5 DEF Settled, Prepared
  <2>7. Len(permit[x]) \in {2, 4}
    BY <2>4, <2>6, WrittenLast
  <2>. QED
    BY <2>4, <2>7
<1>2. Inv /\ [Next]_vars =>
        [Quarantined /\ quarantine'[Len(quarantine')] = "released"
          => \A c \in Callers : call[c].step \notin {"handler", "running"}]_vars
  BY <1>1
<1>. QED
  BY <1>2, Invariance, PTL DEF Spec, ReleasedAtRest

\* A result reaches the runner at most once, after the handler of its execution, and it
\* is claimed for the runner only in the turn that asked for it (DeliveredOnce).
THEOREM OneDelivery == Spec => DeliveredOnce
<1>1. Inv => SentOnce
  <2>. SUFFICES ASSUME Inv, NEW r \in Requests, sent[r] > 0
                PROVE  /\ sent[r] = 1 /\ delivery[r] # 0
                       /\ \E x \in Executions :
                             /\ Settled(x) /\ RequestOf(x) = r
                             /\ ResultOf(x) = "known" /\ started[x] = 1
    BY DEF SentOnce
  <2>1. SentWell(r)
    BY DEF Inv
  <2>2. PICK x \in Executions : Given(x) /\ RequestOf(x) = r
    BY <2>1 DEF SentWell
  <2>3. started[x] = 1
    BY <2>2 DEF Inv, Ledger, Ran
  <2>. QED
    BY <2>1, <2>2, <2>3 DEF SentWell, Given
<1>2. ASSUME Inv, [Next]_vars, NEW r \in Requests, delivery'[r] # delivery[r]
      PROVE  /\ Active /\ delivery'[r] = Turn
             /\ \E x \in Executions :
                   Prepared(x) /\ RequestOf(x) = r /\ PreparedFact(x).turn = Turn
  <2>1. PICK c \in Callers : Claim(c)
    BY <1>2, Writers
  <2>2. PICK x : x = Execution(c)
    OBVIOUS
  <2>3. /\ Claimable(c)
        /\ delivery' = [delivery EXCEPT ![Request(c)] = PreparedFact(x).turn]
    BY <1>2, <2>1, <2>2 DEF Claim
  <2>4. r = Request(c) /\ delivery'[r] = PreparedFact(x).turn
    BY <1>2, <2>3 DEF Inv, Typed
  <2>5. x \in Executions /\ Prepared(x) /\ RequestOf(x) = r
    BY <1>2, <2>1, <2>2, <2>4 DEF Inv, CallKept, Owns, Closing, Claim, At
  <2>6. Active /\ PreparedFact(x).turn = Turn
    BY <1>2, <2>1, <2>2, <2>3 DEF Inv, CallKept, Delivers, Claim, At, Claimable
  <2>. QED
    BY <2>4, <2>5, <2>6
<1>3. Inv /\ [Next]_vars => ClaimedInTurn
  BY <1>2 DEF ClaimedInTurn
<1>. QED
  BY <1>1, <1>3, Invariance, PTL DEF Spec, DeliveredOnce
==============================================================================
