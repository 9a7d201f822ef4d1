-------------------------- MODULE DashboardProofs --------------------------
(***************************************************************************)
(* Proofs about the dashboard, for any finite set of jobs and any bounds.  *)
(*                                                                         *)
(* A job keeps one loop because a poll on its way and a running timer      *)
(* exclude each other, and pollingTimers has an entry for exactly these    *)
(* (LoopsOf). A shown end is final because no answer on its way tells of   *)
(* an end that is not (Truthful).                                          *)
(***************************************************************************)
EXTENDS Dashboard, FiniteSetTheorems, TLAPS

Ends == {"succeeded", "canceled"}

\* What a continuation relies on in the call it is handed.
CallOK(c) ==
    /\ c.op \in {"poll", "retry", "cancel"} => c.job \in Jobs
    /\ c.op = "create" /\ c.answer = "ok" => c.job \in Jobs
    /\ c.op = "poll" => c.open
    /\ c.op = "cancel" /\ c.answer = "ok" => c.seen[c.job] \notin Active

CallsOK == \A c \in calls : CallOK(c)

\* With these entries, timers and calls each job has one loop or none.
LoopsOf(k, t, C) ==
    /\ \A c, d \in C : c.op = "poll" /\ d.op = "poll" /\ c.job = d.job => c = d
    /\ \A c \in C : c.op = "poll" => k[c.job] # "off" /\ t[c.job] = 0
    /\ \A j \in Jobs : t[j] > 0 => k[j] # "off"
    /\ \A j \in Jobs : k[j] # "off" /\ t[j] = 0 => \E c \in C : c.op = "poll" /\ c.job = j

Loops == LoopsOf(key, timers, calls)

\* What x says of the jobs that came to a final end.
Reported(x) == \A j \in Jobs : x[j] \in Ends => state[j] = x[j]

Truthful == Reported(shown) /\ \A c \in calls : Reported(c.seen)

\* The pairings there were, and those that may still be.
Pairings(C) == {c \in C : c.op \in {"pair", "fragment"} /\ c.answer = "pending"}

PairsBounded == IsFiniteSet(calls) /\ valid + Cardinality(Pairings(calls)) =< MaxPairs

PageOK ==
    /\ token \in 0..valid /\ shown \in [Jobs -> Names] /\ twin \in [Jobs -> BOOLEAN]
    /\ key \in [Jobs -> {"off", "first", "timer"}] /\ timers \in [Jobs -> 0..1]
    /\ remembered \in {0} \cup Jobs
    /\ refreshing \in {"off", "health", "pair", "list", "preview"}
    /\ faults \in 0..MaxFaults /\ loaded \in BOOLEAN /\ missed \in BOOLEAN

IInv ==
    /\ TypeOK /\ PairsBounded /\ CallsOK
    /\ Loops /\ ShownActiveIsPolled /\ Truthful

USE JobAssumption
USE DEF agentVars, listVars, loopVars, States, Active, Settled, Names, Ends

LEMMA InitInv == Init => IInv
<1> SUFFICES ASSUME Init PROVE IInv
  OBVIOUS
<1>1. TypeOK
  <2>1. state \in [Jobs -> Names] /\ asked \in [Jobs -> 0..MaxAttempts]
    BY DEF Init, Server!Init
  <2>2. /\ shown \in [Jobs -> Names] /\ twin \in [Jobs -> BOOLEAN]
        /\ key \in [Jobs -> {"off", "first", "timer"}] /\ timers \in [Jobs -> 0..1]
    BY DEF Init, None
  <2>3. loaded \in BOOLEAN /\ missed \in BOOLEAN
    BY DEF Init
  <2>4. valid \in 0..MaxPairs /\ token \in 0..valid /\ faults \in 0..MaxFaults
    BY DEF Init
  <2>5. /\ remembered \in {0} \cup Jobs /\ calls \subseteq Call
        /\ refreshing \in {"off", "health", "pair", "list", "preview"}
    BY DEF Init
  <2> QED  BY <2>1, <2>2, <2>3, <2>4, <2>5 DEF TypeOK
<1>2. PairsBounded
  BY FS_EmptySet DEF Init, PairsBounded, Pairings
<1>3. CallsOK /\ Loops /\ ShownActiveIsPolled /\ Truthful
  BY DEF Init, CallsOK, Loops, LoopsOf, ShownActiveIsPolled, Truthful, Reported, None
<1> QED  BY <1>1, <1>2, <1>3 DEF IInv

-----------------------------------------------------------------------------
(* Calls.                                                                  *)

\* A new call.
LEMMA RequestOK ==
    ASSUME TypeOK,
           NEW op \in {"list", "poll", "retry", "cancel", "create", "pair", "fragment"},
           NEW j \in {0} \cup Jobs, op \in {"poll", "retry", "cancel"} => j \in Jobs
    PROVE  /\ Request(op, j) \in Call
           /\ \A t \in 0..valid : [Request(op, j) EXCEPT !.token = t] \in Call
           /\ \A t : LET c == [Request(op, j) EXCEPT !.token = t]
                     IN  c.op = op /\ c.job = j /\ CallOK(c) /\ Reported(c.seen)
           /\ CallOK(Request(op, j)) /\ Reported(Request(op, j).seen)
  BY DEF Request, Call, CallOK, TypeOK, None, Reported

\* A call that is answered.
LEMMA AnswerTyped ==
    ASSUME NEW c \in Call, NEW a \in {"pending", "ok", "denied", "error"},
           NEW s \in [Jobs -> Names]
    PROVE  [c EXCEPT !.answer = a, !.seen = s] \in Call
  BY DEF Call

\* Fewer pairings on their way.
LEMMA PairsKept ==
    ASSUME TypeOK, PairsBounded, valid' = valid, IsFiniteSet(calls'),
           Pairings(calls') \subseteq Pairings(calls)
    PROVE  PairsBounded'
<1>1. IsFiniteSet(Pairings(calls)) /\ Cardinality(Pairings(calls)) \in Nat
  BY FS_Subset, FS_CardinalityType DEF PairsBounded, Pairings
<1>2. /\ Cardinality(Pairings(calls')) =< Cardinality(Pairings(calls))
      /\ Cardinality(Pairings(calls')) \in Nat
  BY <1>1, FS_Subset, FS_CardinalityType
<1> QED  BY <1>1, <1>2 DEF PairsBounded, Pairings, TypeOK

\* A call is answered, replaced or gone.
LEMMA ReplacedFinite ==
    ASSUME NEW C, NEW c, NEW a, IsFiniteSet(C)
    PROVE  /\ IsFiniteSet(C \ {c})
           /\ IsFiniteSet((C \ {c}) \cup {a}) /\ IsFiniteSet((C \ {c}) \cup {})
           /\ IsFiniteSet(C \cup {a})
<1>1. IsFiniteSet(C \ {c})
  BY FS_RemoveElement
<1>2. IsFiniteSet((C \ {c}) \cup {a}) /\ IsFiniteSet(C \cup {a})
  BY <1>1, FS_AddElement
<1>3. (C \ {c}) \cup {} = C \ {c}
  OBVIOUS
<1> QED  BY <1>1, <1>2, <1>3

-----------------------------------------------------------------------------
(* Loops.                                                                  *)

LEMMA PollAnswered ==
    ASSUME NEW C, NEW k, NEW t, NEW c \in C, NEW a, LoopsOf(k, t, C),
           a.op = c.op, c.op = "poll" => a.job = c.job
    PROVE  LoopsOf(k, t, (C \ {c}) \cup {a})
  BY DEF LoopsOf

LEMMA OtherGone ==
    ASSUME NEW C, NEW k, NEW t, NEW c, LoopsOf(k, t, C), c.op # "poll"
    PROVE  LoopsOf(k, t, C \ {c})
  BY DEF LoopsOf

\* watchJob starts a loop where there was none, and nothing else.
LEMMA WatchStarts ==
    ASSUME NEW S, S \subseteq Jobs,
           NEW k \in [Jobs -> {"off", "first", "timer"}],
           NEW t \in [Jobs -> 0..1], NEW C, LoopsOf(k, t, C), Watch(S, k, C),
           \A d \in C : d.op = "poll" => d.job \in Jobs
    PROVE  /\ LoopsOf(key', t, calls')
           /\ \A j \in Jobs : key'[j] = "off" <=> k[j] = "off" /\ (token' # 0 => j \notin S)
<1> DEFINE new == IF token' = 0 THEN {} ELSE {j \in S : ~Polled(k, j)}
           poll(j) == [Request("poll", j) EXCEPT !.token = token']
<1>1. /\ key' = [j \in Jobs |-> IF j \in new THEN "first" ELSE k[j]]
      /\ calls' = C \cup {poll(j) : j \in new}
  BY DEF Watch
<1>2. \A j : poll(j).op = "poll" /\ poll(j).job = j
  BY DEF Request
<1>3. \A j \in Jobs : j \in new <=> token' # 0 /\ j \in S /\ k[j] = "off"
  BY DEF Polled
<1>4. new \subseteq Jobs
  OBVIOUS
<1> HIDE DEF new, poll
<1>5. \A j \in Jobs : /\ key'[j] = "off" <=> k[j] = "off" /\ j \notin new
                      /\ key'[j] # "off" <=> k[j] # "off" \/ j \in new
  BY <1>1
<1>6. \A c \in calls' : c \in C \/ \E j \in new : c = poll(j)
  BY <1>1
<1>7. \A j \in new : t[j] = 0 /\ k[j] = "off" /\ \A c \in C : c.op = "poll" => c.job # j
  BY <1>3, <1>4 DEF LoopsOf
<1>8. LoopsOf(key', t, calls')
  <2>1. \A c, d \in calls' : c.op = "poll" /\ d.op = "poll" /\ c.job = d.job => c = d
    BY <1>2, <1>6, <1>7 DEF LoopsOf
  <2>2. \A c \in calls' : c.op = "poll" => key'[c.job] # "off" /\ t[c.job] = 0
    BY <1>2, <1>4, <1>5, <1>6, <1>7 DEF LoopsOf
  <2>3. \A j \in Jobs : t[j] > 0 => key'[j] # "off"
    BY <1>5 DEF LoopsOf
  <2>4. \A j \in Jobs : key'[j] # "off" /\ t[j] = 0 =>
            \E c \in calls' : c.op = "poll" /\ c.job = j
    BY <1>1, <1>2, <1>5 DEF LoopsOf
  <2> QED  BY <2>1, <2>2, <2>3, <2>4 DEF LoopsOf
<1> QED  BY <1>3, <1>5, <1>8

\* What watchJob sends, and what a step does that only adds such calls.
LEMMA WatchSends ==
    ASSUME TypeOK, token' \in 0..valid, NEW S, S \subseteq Jobs,
           NEW k \in [Jobs -> {"off", "first", "timer"}],
           NEW C, IsFiniteSet(C), Watch(S, k, C)
    PROVE  /\ key' \in [Jobs -> {"off", "first", "timer"}]
           /\ IsFiniteSet(calls')
           /\ \A c \in calls' : \/ c \in C
                                \/ /\ c \in Call /\ CallOK(c) /\ Reported(c.seen)
                                   /\ c.op = "poll"
<1> DEFINE new == IF token' = 0 THEN {} ELSE {j \in S : ~Polled(k, j)}
           poll(j) == [Request("poll", j) EXCEPT !.token = token']
<1>1. /\ key' = [j \in Jobs |-> IF j \in new THEN "first" ELSE k[j]]
      /\ calls' = C \cup {poll(j) : j \in new}
  BY DEF Watch
<1>2. \A j \in Jobs : /\ poll(j) \in Call /\ CallOK(poll(j)) /\ Reported(poll(j).seen)
                      /\ poll(j).op = "poll"
  <2> TAKE j \in Jobs
  <2>1. /\ \A t \in 0..valid : [Request("poll", j) EXCEPT !.token = t] \in Call
        /\ \A t : LET c == [Request("poll", j) EXCEPT !.token = t]
                  IN  c.op = "poll" /\ c.job = j /\ CallOK(c) /\ Reported(c.seen)
    BY RequestOK
  <2> QED  BY <2>1
<1>3. new \subseteq Jobs
  OBVIOUS
<1>4. IsFiniteSet(new)
  BY <1>3, FS_Subset
<1> HIDE DEF new, poll
<1>5. IsFiniteSet({poll(j) : j \in new})
  <2> DEFINE f == [j \in new |-> poll(j)]
  <2>1. f \in Surjection(new, {poll(j) : j \in new})
    BY DEF Surjection
  <2> QED  BY <1>4, <2>1, FS_Surjection
<1>6. IsFiniteSet(calls')
  BY <1>1, <1>5, FS_Union
<1> QED  BY <1>1, <1>2, <1>3, <1>6

\* What a step of the page has to show.
LEMMA PageInv ==
    ASSUME IInv, UNCHANGED agentVars, IsFiniteSet(calls'), PageOK',
           \A c \in calls' : c \in calls \/ (c \in Call /\ CallOK(c) /\ Reported(c.seen)),
           Pairings(calls') \subseteq Pairings(calls) \/ PairsBounded',
           \A j \in Jobs : shown'[j] \in Ends => state[j] = shown'[j],
           Loops', ShownActiveIsPolled'
    PROVE  IInv'
<1>1. Call' = Call
  BY DEF Call
<1>2. calls \subseteq Call /\ CallsOK /\ Truthful /\ TypeOK /\ PairsBounded
  BY DEF IInv, TypeOK
<1>3. calls' \subseteq Call' /\ CallsOK'
  BY <1>1, <1>2 DEF CallsOK
<1>4. Truthful'
  BY <1>2 DEF Truthful, Reported
<1>5. PairsBounded'
  BY <1>2, PairsKept
<1>6. TypeOK'
  BY <1>2, <1>3 DEF TypeOK, PageOK
<1> QED  BY <1>3, <1>4, <1>5, <1>6 DEF IInv

-----------------------------------------------------------------------------
(* The agent.                                                              *)

\* What is final stays so.
LEMMA ServerSteps ==
    ASSUME TypeOK,
           \/ Server!Interrupt
           \/ \E j \in Jobs : \/ Server!Create(j) \/ Server!Cancel(j) \/ Server!Retry(j)
                              \/ Server!Start(j) \/ Server!Succeed(j) \/ Server!Fail(j)
           \/ UNCHANGED <<state, asked>>
    PROVE  /\ state' \in [Jobs -> Names] /\ asked' \in [Jobs -> 0..MaxAttempts]
           /\ \A j \in Jobs : state[j] \in Ends => state'[j] = state[j]
<1>1. CASE Server!Interrupt
  BY <1>1 DEF Server!Interrupt, TypeOK
<1>2. CASE UNCHANGED <<state, asked>>
  BY <1>2 DEF TypeOK
<1>3. ASSUME NEW j \in Jobs,
             \/ Server!Create(j) \/ Server!Cancel(j) \/ Server!Retry(j)
             \/ Server!Start(j) \/ Server!Succeed(j) \/ Server!Fail(j)
      PROVE  /\ state' \in [Jobs -> Names] /\ asked' \in [Jobs -> 0..MaxAttempts]
             /\ \A i \in Jobs : state[i] \in Ends => state'[i] = state[i]
  BY <1>3 DEF Server!Create, Server!Cancel, Server!Retry, Server!Start, Server!Succeed,
     Server!Fail, Server!Move, TypeOK
<1> QED  BY <1>1, <1>2, <1>3

\* The agent answers a call, and does what it says.
LEMMA Answered ==
    ASSUME IInv, NEW c \in calls, NEW a, Answer(c, a),
           a.op = c.op, c.op = "poll" => a.job = c.job, a.answer # "pending",
           a \in Call', CallOK(a), \A j \in Jobs : a.seen[j] \in Ends => state'[j] = a.seen[j],
           state' \in [Jobs -> Names], asked' \in [Jobs -> 0..MaxAttempts],
           \A j \in Jobs : state[j] \in Ends => state'[j] = state[j],
           \/ valid' = valid
           \/ c \in Pairings(calls) /\ valid' = valid + 1,
           UNCHANGED <<token, listVars, loopVars, loaded, refreshing, faults, missed>>
    PROVE  IInv'
<1> DEFINE more == IF c.open THEN {a} ELSE {}
<1>1. /\ TypeOK /\ PairsBounded /\ CallsOK /\ Loops /\ ShownActiveIsPolled /\ Truthful
      /\ calls' = (calls \ {c}) \cup more
  BY DEF IInv, Answer
<1>2. IsFiniteSet(calls')
  BY <1>1, ReplacedFinite DEF PairsBounded
<1>3. PairsBounded' /\ valid' \in 0..MaxPairs /\ valid =< valid'
  <2>1. IsFiniteSet(Pairings(calls)) /\ Cardinality(Pairings(calls)) \in Nat
    BY <1>1, FS_Subset, FS_CardinalityType DEF PairsBounded, Pairings
  <2>2. Pairings(calls') \subseteq Pairings(calls) \ {c}
    BY <1>1 DEF Pairings
  <2>3. /\ IsFiniteSet(Pairings(calls) \ {c})
        /\ Cardinality(Pairings(calls) \ {c}) =
               IF c \in Pairings(calls) THEN Cardinality(Pairings(calls)) - 1
                                        ELSE Cardinality(Pairings(calls))
    BY <2>1, FS_RemoveElement
  <2>4. /\ Cardinality(Pairings(calls')) =< Cardinality(Pairings(calls) \ {c})
        /\ Cardinality(Pairings(calls')) \in Nat
    BY <2>2, <2>3, FS_Subset, FS_CardinalityType
  <2>5. valid \in Nat /\ valid + Cardinality(Pairings(calls)) =< MaxPairs
    BY <1>1 DEF TypeOK, PairsBounded
  <2> HIDE DEF Pairings
  <2>6. /\ valid' + Cardinality(Pairings(calls')) =< MaxPairs
        /\ valid' \in 0..MaxPairs /\ valid =< valid'
    BY <2>1, <2>3, <2>4, <2>5
  <2>7. (Pairings(calls))' = Pairings(calls')
    BY DEF Pairings
  <2> QED  BY <1>2, <2>6, <2>7 DEF PairsBounded
<1>4. TypeOK'
  <2>1. Call \subseteq Call' /\ token' \in 0..valid'
    BY <1>1, <1>3 DEF Call, TypeOK
  <2>2. calls' \subseteq Call'
    BY <1>1, <2>1 DEF TypeOK
  <2> QED  BY <1>1, <1>3, <2>1, <2>2 DEF TypeOK
<1>5. CallsOK'
  BY <1>1 DEF CallsOK
<1>6. Loops'
  <2>1. LoopsOf(key, timers, (calls \ {c}) \cup more)
    <3>1. CASE c.open
      BY <1>1, <3>1, PollAnswered DEF Loops
    <3>2. CASE ~c.open
      <4>1. c.op # "poll"
        BY <1>1, <3>2 DEF CallsOK, CallOK
      <4> QED  BY <1>1, <3>2, <4>1, OtherGone DEF Loops
    <3> QED  BY <3>1, <3>2
  <2> QED  BY <1>1, <2>1 DEF Loops, LoopsOf
<1>7. ShownActiveIsPolled'
  BY <1>1 DEF ShownActiveIsPolled
<1>8. Truthful'
  BY <1>1 DEF Truthful, Reported
<1> QED  BY <1>3, <1>4, <1>5, <1>6, <1>7, <1>8 DEF IInv

\* The same for an answer that changes no more than the call's result.
LEMMA Told ==
    ASSUME IInv, NEW c \in calls, NEW v \in {"ok", "denied", "error"}, NEW x \in [Jobs -> Names],
           Answer(c, [c EXCEPT !.answer = v, !.seen = x]),
           c.op = "create" => v # "ok",
           c.op = "cancel" /\ v = "ok" => x[c.job] \notin Active,
           \A j \in Jobs : x[j] \in Ends => state'[j] = x[j],
           \/ Server!Interrupt
           \/ \E j \in Jobs : \/ Server!Create(j) \/ Server!Cancel(j) \/ Server!Retry(j)
                              \/ Server!Start(j) \/ Server!Succeed(j) \/ Server!Fail(j)
           \/ UNCHANGED <<state, asked>>,
           UNCHANGED <<valid, token, listVars, loopVars, loaded, refreshing, faults, missed>>
    PROVE  IInv'
<1> DEFINE a == [c EXCEPT !.answer = v, !.seen = x]
<1>1. TypeOK /\ CallOK(c) /\ c \in Call
  BY DEF IInv, CallsOK, TypeOK
<1>2. /\ a.op = c.op /\ a.job = c.job /\ a.answer = v /\ a.seen = x /\ a.open = c.open
      /\ a \in Call
  <2>1. a \in Call
    BY <1>1, AnswerTyped
  <2>2. a.op = c.op /\ a.job = c.job /\ a.answer = v /\ a.seen = x /\ a.open = c.open
    BY <1>1 DEF Call
  <2> QED  BY <2>1, <2>2
<1>3. CallOK(a)
  BY <1>1, <1>2 DEF CallOK
<1>4. /\ state' \in [Jobs -> Names] /\ asked' \in [Jobs -> 0..MaxAttempts]
      /\ \A j \in Jobs : state[j] \in Ends => state'[j] = state[j]
  BY <1>1, ServerSteps
<1>5. Call' = Call
  BY DEF Call
<1> HIDE DEF a
<1>6. Answer(c, a)
  BY DEF a
<1> QED  BY <1>2, <1>3, <1>4, <1>5, <1>6, Answered

LEMMA HandleInv == ASSUME IInv, NEW c \in calls, Handle(c) PROVE IInv'
<1>1. TypeOK /\ CallOK(c) /\ c \in Call /\ Reported(c.seen)
  BY DEF IInv, CallsOK, Truthful, TypeOK
<1>2. UNCHANGED <<token, listVars, loopVars, loaded, refreshing, faults, missed>>
  BY DEF Handle
<1>3. /\ c.seen \in [Jobs -> Names] /\ None \in [Jobs -> Names]
      /\ \A j \in Jobs : None[j] = "absent"
  BY <1>1 DEF Call, None
<1>4. CASE Deny(c)
  BY <1>2, <1>3, <1>4, Told DEF Deny
<1>5. CASE HandleRead(c)
  <2>1. CASE Pending(c, "list") /\ \E old \in SUBSET Jobs : Tell(c, Listing(old))
    <3>1. PICK old \in SUBSET Jobs : Tell(c, Listing(old))
      BY <2>1
    <3>2. /\ Listing(old) \in [Jobs -> Names]
          /\ \A j \in Jobs : Listing(old)[j] \in Ends => state[j] = Listing(old)[j]
      BY <1>1 DEF Listing, TypeOK
    <3> QED  BY <1>2, <1>5, <2>1, <3>1, <3>2, Told DEF Tell, Pending, HandleRead
  <2>2. CASE Pending(c, "poll") /\ Tell(c, [None EXCEPT ![c.job] = state[c.job]])
    <3> DEFINE x == [None EXCEPT ![c.job] = state[c.job]]
    <3>1. x \in [Jobs -> Names] /\ \A j \in Jobs : x[j] \in Ends => state[j] = x[j]
      BY <1>1, <1>3, <2>2 DEF TypeOK, CallOK, Pending
    <3> HIDE DEF x
    <3>2. Answer(c, [c EXCEPT !.answer = "ok", !.seen = x])
      BY <2>2 DEF Tell, x
    <3> QED  BY <1>2, <1>5, <2>2, <3>1, <3>2, Told DEF Pending, HandleRead
  <2> QED  BY <1>5, <2>1, <2>2 DEF HandleRead
<1>6. ASSUME Answer(c, [c EXCEPT !.answer = "error"]), UNCHANGED <<state, asked, valid>>
      PROVE  IInv'
  <2>1. [c EXCEPT !.answer = "error"] = [c EXCEPT !.answer = "error", !.seen = c.seen]
    BY <1>1 DEF Call
  <2>2. Answer(c, [c EXCEPT !.answer = "error", !.seen = c.seen])
    BY <1>6, <2>1
  <2>3. \A j \in Jobs : c.seen[j] \in Ends => state'[j] = c.seen[j]
    BY <1>1, <1>6 DEF Reported
  <2> QED  BY <1>2, <1>3, <1>6, <2>2, <2>3, Told
<1>7. ASSUME c.op \in {"retry", "cancel"}, Turn(c), UNCHANGED valid,
             Server!Retry(c.job) \/ Server!Cancel(c.job),
             c.op = "cancel" => Server!Cancel(c.job)
      PROVE  IInv'
  <2> DEFINE x == [None EXCEPT ![c.job] = state'[c.job]]
  <2>1. c.job \in Jobs
    BY <1>1, <1>7 DEF CallOK
  <2>2. state' \in [Jobs -> Names]
    BY <1>1, <1>7, <2>1, ServerSteps
  <2>3. x \in [Jobs -> Names] /\ x[c.job] = state'[c.job]
    BY <1>3, <2>1, <2>2
  <2>4. \A j \in Jobs : x[j] \in Ends => state'[j] = x[j]
    BY <1>3, <2>1
  <2>5. c.op = "cancel" => x[c.job] \notin Active
    BY <1>1, <1>7, <2>1, <2>3 DEF Server!Cancel, Server!Move, TypeOK
  <2> HIDE DEF x
  <2>6. Answer(c, [c EXCEPT !.answer = "ok", !.seen = x])
    BY <1>7 DEF Turn, Tell, x
  <2> QED  BY <1>2, <1>7, <2>1, <2>3, <2>4, <2>5, <2>6, Told
<1>8. CASE HandleRetry(c)
  BY <1>6, <1>7, <1>8 DEF HandleRetry, Pending
<1>9. CASE HandleCancel(c)
  BY <1>6, <1>7, <1>9 DEF HandleCancel, Pending
<1>10. CASE HandleCreate(c)
  <2>1. PICK j \in NewJobs : /\ Server!Create(j)
                             /\ Answer(c, [c EXCEPT !.answer = "ok", !.job = j, !.seen[j] = state'[j]])
    BY <1>10 DEF HandleCreate
  <2>2. j \in Jobs /\ valid' = valid /\ c.op = "create"
    BY <1>10 DEF NewJobs, HandleCreate, Pending
  <2>3. /\ state' \in [Jobs -> Names] /\ asked' \in [Jobs -> 0..MaxAttempts]
        /\ \A i \in Jobs : state[i] \in Ends => state'[i] = state[i]
    BY <1>1, <2>1, <2>2, ServerSteps
  <2>4. PICK a : a = [c EXCEPT !.answer = "ok", !.job = j, !.seen[j] = state'[j]]
    OBVIOUS
  <2>5. /\ a.op = "create" /\ a.job = j /\ a.answer = "ok" /\ a \in Call
        /\ a.seen = [c.seen EXCEPT ![j] = state'[j]]
    BY <1>1, <2>2, <2>3, <2>4 DEF Call
  <2>6. \A i \in Jobs : a.seen[i] \in Ends => state'[i] = a.seen[i]
    BY <1>1, <1>3, <2>2, <2>3, <2>5 DEF Reported
  <2>7. Call' = Call
    BY <2>2 DEF Call
  <2>8. CallOK(a)
    BY <2>2, <2>5 DEF CallOK
  <2> QED  BY <1>2, <2>1, <2>2, <2>3, <2>4, <2>5, <2>6, <2>7, <2>8, Answered
<1>11. CASE HandlePair(c)
  <2>1. PICK a : a = [c EXCEPT !.answer = "ok", !.token = valid + 1]
    OBVIOUS
  <2>2. /\ valid' = valid + 1 /\ UNCHANGED <<state, asked>> /\ Answer(c, a)
        /\ c \in Pairings(calls) /\ c.op \in {"pair", "fragment"}
    BY <1>11, <2>1 DEF HandlePair, Pending, Pairings
  <2>3. /\ a.op = c.op /\ a.job = c.job /\ a.answer = "ok" /\ a.seen = c.seen
        /\ a \in Call'
    <3>1. a.op = c.op /\ a.job = c.job /\ a.answer = "ok" /\ a.seen = c.seen
      BY <1>1, <2>1 DEF Call
    <3>2. valid + 1 \in 0..valid' /\ valid \in Nat
      BY <1>1, <2>2 DEF TypeOK
    <3>3. a \in Call'
      BY <1>1, <2>1, <2>2, <3>2 DEF Call
    <3> QED  BY <3>1, <3>3
  <2>4. CallOK(a) /\ \A j \in Jobs : a.seen[j] \in Ends => state'[j] = a.seen[j]
    BY <1>1, <2>2, <2>3 DEF CallOK, Reported
  <2>5. /\ state' \in [Jobs -> Names] /\ asked' \in [Jobs -> 0..MaxAttempts]
        /\ \A j \in Jobs : state[j] \in Ends => state'[j] = state[j]
    BY <1>1, <2>2 DEF TypeOK
  <2> QED  BY <1>2, <2>2, <2>3, <2>4, <2>5, Answered
<1> QED  BY <1>4, <1>5, <1>8, <1>9, <1>10, <1>11 DEF Handle

\* The worker and the restart change what the jobs are, and no call.
LEMMA WorkInv == ASSUME IInv, Work \/ Restart PROVE IInv'
<1>1. /\ UNCHANGED <<valid, token, listVars, loopVars, loaded, refreshing, calls, missed>>
      /\ faults' \in 0..MaxFaults
  BY DEF Work, Restart, Fault, IInv, TypeOK
<1>2. /\ state' \in [Jobs -> Names] /\ asked' \in [Jobs -> 0..MaxAttempts]
      /\ \A j \in Jobs : state[j] \in Ends => state'[j] = state[j]
  BY ServerSteps DEF Work, Restart, IInv
<1>3. TypeOK'
  BY <1>1, <1>2 DEF IInv, TypeOK, Call
<1>4. PairsBounded' /\ CallsOK' /\ Loops' /\ ShownActiveIsPolled'
  BY <1>1 DEF IInv, PairsBounded, Pairings, CallsOK, Loops, LoopsOf, ShownActiveIsPolled
<1>5. Truthful'
  BY <1>1, <1>2 DEF IInv, Truthful, Reported
<1> QED  BY <1>3, <1>4, <1>5 DEF IInv

LEMMA LoseInv == ASSUME IInv, NEW c \in calls, Lose(c) PROVE IInv'
<1> DEFINE a == [c EXCEPT !.answer = "error", !.seen = None]
<1>1. /\ TypeOK /\ PairsBounded /\ CallsOK /\ Loops /\ Truthful /\ ShownActiveIsPolled
      /\ CallOK(c) /\ c \in Call
  BY DEF IInv, CallsOK, TypeOK
<1>2. /\ UNCHANGED <<agentVars, token, listVars, loopVars, loaded, refreshing, missed>>
      /\ faults' \in 0..MaxFaults /\ calls' = (calls \ {c}) \cup {a}
  BY <1>1 DEF Lose, Fault, TypeOK
<1>3. None \in [Jobs -> Names] /\ Reported(None)
  BY DEF None, Reported
<1>4. /\ a \in Call /\ a.op = c.op /\ a.job = c.job /\ a.answer = "error" /\ a.seen = None
      /\ a.open = c.open
  <2>1. a \in Call
    BY <1>1, <1>3, AnswerTyped
  <2>2. /\ a.op = c.op /\ a.job = c.job /\ a.answer = "error" /\ a.seen = None
        /\ a.open = c.open
    BY <1>1 DEF Call
  <2> QED  BY <2>1, <2>2
<1> HIDE DEF a
<1>5. CallOK(a) /\ Reported(a.seen)
  BY <1>1, <1>3, <1>4 DEF CallOK
<1>6. IsFiniteSet(calls')
  BY <1>1, <1>2, ReplacedFinite DEF PairsBounded
<1>7. \A j \in Jobs : shown'[j] \in Ends => state[j] = shown'[j]
  BY <1>1, <1>2 DEF Truthful, Reported
<1>8. Pairings(calls') \subseteq Pairings(calls)
  BY <1>2, <1>4 DEF Pairings
<1>9. PageOK'
  BY <1>1, <1>2 DEF TypeOK, PageOK
<1>10. Loops'
  <2>1. LoopsOf(key, timers, (calls \ {c}) \cup {a})
    BY <1>1, <1>4, PollAnswered DEF Loops
  <2> QED  BY <1>2, <2>1 DEF Loops, LoopsOf
<1>11. ShownActiveIsPolled'
  BY <1>1, <1>2 DEF ShownActiveIsPolled
<1>12. \A d \in calls' : d \in calls \/ (d \in Call /\ CallOK(d) /\ Reported(d.seen))
  BY <1>2, <1>4, <1>5
<1>13. UNCHANGED agentVars
  BY <1>2
<1> QED  BY <1>6, <1>7, <1>8, <1>9, <1>10, <1>11, <1>12, <1>13, PageInv

-----------------------------------------------------------------------------
(* The page: what leaves the loops alone.                                  *)

LEMMA LooplessInv ==
    ASSUME IInv, UNCHANGED <<agentVars, loopVars>>, IsFiniteSet(calls'), PageOK',
           \A c \in calls' : \/ c \in calls
                             \/ (c \in Call /\ CallOK(c) /\ Reported(c.seen) /\ c.op # "poll"),
           \A c \in calls : c.op = "poll" => c \in calls',
           Pairings(calls') \subseteq Pairings(calls) \/ PairsBounded',
           \A j \in Jobs : shown'[j] \in Ends => state[j] = shown'[j],
           ShownActiveIsPolled'
    PROVE  IInv'
<1>1. Loops
  BY DEF IInv
<1>2. Loops'
  <2>1. LoopsOf(key, timers, calls')
    <3>1. \A c \in calls' : c.op = "poll" => c \in calls
      OBVIOUS
    <3> QED  BY <1>1, <3>1 DEF Loops, LoopsOf
  <2> QED  BY <2>1 DEF Loops, LoopsOf
<1>3. UNCHANGED agentVars
  OBVIOUS
<1>4. \A c \in calls' : c \in calls \/ (c \in Call /\ CallOK(c) /\ Reported(c.seen))
  OBVIOUS
<1> QED  BY <1>2, <1>3, <1>4, PageInv

\* A request is made.
LEMMA Sent ==
    ASSUME IInv, UNCHANGED Unsent, NEW c, c \in Call, CallOK(c), Reported(c.seen),
           c.op # "poll", c.op \in {"pair", "fragment"} => PairsLeft,
           calls' = calls \cup {c}, missed' = missed,
           refreshing' \in {"off", "health", "pair", "list", "preview"},
           refreshing' = "off" => refreshing = "off"
    PROVE  IInv'
<1>1. TypeOK /\ PairsBounded /\ Truthful /\ ShownActiveIsPolled
  BY DEF IInv
<1>2. UNCHANGED <<agentVars, token, listVars, loopVars, loaded, faults>>
  BY DEF Unsent
<1>3. IsFiniteSet(calls')
  BY <1>1, ReplacedFinite DEF PairsBounded
<1>4. PageOK'
  BY <1>1, <1>2 DEF TypeOK, PageOK
<1>5. \A j \in Jobs : shown'[j] \in Ends => state[j] = shown'[j]
  BY <1>1, <1>2 DEF Truthful, Reported
<1>6. ShownActiveIsPolled'
  BY <1>1, <1>2 DEF ShownActiveIsPolled
<1>7. Pairings(calls') \subseteq Pairings(calls) \/ PairsBounded'
  <2>1. CASE c.op \notin {"pair", "fragment"}
    BY <2>1 DEF Pairings
  <2>2. CASE c.op \in {"pair", "fragment"}
    <3> DEFINE P == {d \in calls : d.op \in {"pair", "fragment"}}
    <3>1. IsFiniteSet(P) /\ Cardinality(P) \in Nat
      BY <1>1, FS_Subset, FS_CardinalityType DEF PairsBounded
    <3>2. valid + Cardinality(P) < MaxPairs
      BY <2>2 DEF PairsLeft
    <3>3. IsFiniteSet(P \cup {c}) /\ Cardinality(P \cup {c}) =< Cardinality(P) + 1
      <4> HIDE DEF P
      <4>1. /\ IsFiniteSet(P \cup {c})
            /\ Cardinality(P \cup {c}) = IF c \in P THEN Cardinality(P) ELSE Cardinality(P) + 1
        BY <3>1, FS_AddElement
      <4> QED  BY <3>1, <4>1
    <3>4. Pairings(calls') \subseteq P \cup {c}
      BY DEF Pairings
    <3>5. /\ Cardinality(Pairings(calls')) =< Cardinality(P \cup {c})
          /\ Cardinality(Pairings(calls')) \in Nat /\ Cardinality(P \cup {c}) \in Nat
      BY <3>3, <3>4, FS_Subset, FS_CardinalityType
    <3>6. valid' = valid /\ valid \in Nat
      BY <1>1, <1>2 DEF TypeOK
    <3> HIDE DEF P
    <3>7. valid' + Cardinality(Pairings(calls')) =< MaxPairs
      BY <3>1, <3>2, <3>3, <3>5, <3>6
    <3>8. (Pairings(calls))' = Pairings(calls')
      BY DEF Pairings
    <3> QED  BY <1>3, <3>7, <3>8 DEF PairsBounded
  <2> QED  BY <2>1, <2>2
<1> QED  BY <1>2, <1>3, <1>4, <1>5, <1>6, <1>7, LooplessInv

\* A refresh comes a step further without a request.
LEMMA StillInv ==
    ASSUME IInv, UNCHANGED <<agentVars, token, listVars, loopVars, loaded, calls>>,
           faults' \in 0..MaxFaults, missed' \in BOOLEAN,
           refreshing' \in {"off", "health", "pair", "list", "preview"},
           refreshing' = "off" => missed' \/ token = 0 \/ (refreshing = "off" /\ ~missed)
    PROVE  IInv'
<1>1. TypeOK /\ PairsBounded /\ Truthful /\ ShownActiveIsPolled
  BY DEF IInv
<1>2. PageOK'
  BY <1>1 DEF TypeOK, PageOK
<1>3. \A j \in Jobs : shown'[j] \in Ends => state[j] = shown'[j]
  BY <1>1 DEF Truthful, Reported
<1>4. ShownActiveIsPolled'
  BY <1>1 DEF ShownActiveIsPolled
<1>5. IsFiniteSet(calls') /\ Pairings(calls') \subseteq Pairings(calls)
  BY <1>1 DEF PairsBounded
<1> QED  BY <1>2, <1>3, <1>4, <1>5, LooplessInv

LEMMA RefreshInv == ASSUME IInv, Refresh \/ Healthy \/ Unhealthy PROVE IInv'
<1>1. TypeOK
  BY DEF IInv
<1>2. CASE Refresh
  <2>1. UNCHANGED <<agentVars, token, listVars, loopVars, loaded, calls, faults, missed>>
    BY <1>2 DEF Refresh, Unsent
  <2> QED  BY <1>1, <1>2, <2>1, StillInv DEF Refresh, TypeOK
<1>3. CASE Unhealthy
  <2>1. faults < MaxFaults /\ faults' = faults + 1 /\ faults \in 0..MaxFaults
    BY <1>1, <1>3 DEF Unhealthy, Fault, TypeOK
  <2>2. faults' \in 0..MaxFaults
    BY <2>1
  <2>3. /\ UNCHANGED <<agentVars, token, listVars, loopVars, loaded, calls>>
        /\ refreshing' = "off"
    BY <1>3 DEF Unhealthy
  <2>4. missed' /\ missed' \in BOOLEAN
    BY <1>3 DEF Unhealthy
  <2> QED  BY <2>2, <2>3, <2>4, StillInv
<1>4. CASE Healthy
  <2>1. UNCHANGED Unsent /\ missed' = missed /\ refreshing = "health"
    BY <1>4 DEF Healthy
  <2>2. UNCHANGED <<agentVars, token, listVars, loopVars, loaded, faults>>
    BY <2>1 DEF Unsent
  <2>3. CASE token = 0 /\ refreshing' = "off" /\ UNCHANGED calls
    <3>1. faults' \in 0..MaxFaults
      BY <1>1, <2>2 DEF TypeOK
    <3>2. missed' \in BOOLEAN
      BY <1>1, <2>1 DEF TypeOK
    <3>3. UNCHANGED <<agentVars, token, listVars, loopVars, loaded, calls>>
      BY <2>2, <2>3
    <3> QED  BY <2>3, <3>1, <3>2, <3>3, StillInv
  <2>4. ASSUME NEW op \in {"list", "fragment"}, calls' = calls \cup {Request(op, 0)},
               op = "fragment" => PairsLeft, refreshing' \in {"pair", "list"}
        PROVE  IInv'
    <3>1. /\ Request(op, 0) \in Call /\ CallOK(Request(op, 0))
          /\ Reported(Request(op, 0).seen) /\ Request(op, 0).op = op
      BY <1>1, RequestOK DEF Request
    <3> QED  BY <2>1, <2>4, <3>1, Sent
  <2> QED  BY <1>4, <2>3, <2>4 DEF Healthy
<1> QED  BY <1>2, <1>3, <1>4

LEMMA ClickInv ==
    ASSUME IInv, EnterCode \/ ClickCreate \/ \E j \in Jobs : ClickRetry(j) \/ ClickCancel(j)
    PROVE  IInv'
<1>1. TypeOK
  BY DEF IInv
<1>2. ASSUME NEW op \in {"retry", "cancel", "create"}, NEW j \in {0} \cup Jobs,
             op \in {"retry", "cancel"} => j \in Jobs, Click(Request(op, j))
      PROVE  IInv'
  <2>1. /\ Request(op, j) \in Call /\ CallOK(Request(op, j))
        /\ Reported(Request(op, j).seen) /\ Request(op, j).op = op
    BY <1>1, <1>2, RequestOK DEF Request
  <2>2. /\ UNCHANGED Unsent /\ calls' = calls \cup {Request(op, j)}
        /\ refreshing' = refreshing /\ missed' = missed
    BY <1>2 DEF Click
  <2> QED  BY <1>1, <2>1, <2>2, Sent DEF TypeOK
<1>3. CASE ClickCreate
  BY <1>2, <1>3 DEF ClickCreate
<1>4. CASE \E j \in Jobs : ClickRetry(j) \/ ClickCancel(j)
  BY <1>2, <1>4 DEF ClickRetry, ClickCancel
<1>5. CASE EnterCode
  <2> DEFINE c == [Request("pair", 0) EXCEPT !.token = 0]
  <2>1. 0 \in 0..valid
    BY <1>1 DEF TypeOK
  <2>2. c \in Call /\ CallOK(c) /\ Reported(c.seen) /\ c.op = "pair"
    <3>1. /\ \A t \in 0..valid : [Request("pair", 0) EXCEPT !.token = t] \in Call
          /\ \A t : LET d == [Request("pair", 0) EXCEPT !.token = t]
                    IN  d.op = "pair" /\ d.job = 0 /\ CallOK(d) /\ Reported(d.seen)
      BY <1>1, RequestOK
    <3> QED  BY <2>1, <3>1
  <2>3. /\ UNCHANGED Unsent /\ calls' = calls \cup {c} /\ PairsLeft
        /\ refreshing' = refreshing /\ missed' = missed
    BY <1>5 DEF EnterCode
  <2> HIDE DEF c
  <2> QED  BY <1>1, <2>2, <2>3, Sent DEF TypeOK
<1> QED  BY <1>3, <1>4, <1>5

\* What an answer that arrives brings with it.
LEMMA ArriveFacts ==
    ASSUME IInv, NEW c, NEW op, NEW answer, Arrive(c, op, answer)
    PROVE  /\ c \in calls /\ c \in Call /\ c.op = op /\ c.answer = answer
           /\ CallOK(c) /\ Reported(c.seen) /\ c.seen \in [Jobs -> Names] /\ c.token \in 0..valid
           /\ UNCHANGED agentVars /\ UNCHANGED faults
           /\ loaded' \in BOOLEAN
           /\ IsFiniteSet(Others(c)) /\ Others(c) \subseteq calls
<1>1. /\ c \in calls /\ c.op = op /\ c.answer = answer
      /\ UNCHANGED agentVars /\ UNCHANGED faults
  BY DEF Arrive
<1>2. c \in Call /\ CallOK(c) /\ Reported(c.seen)
  BY <1>1 DEF IInv, TypeOK, CallsOK, Truthful
<1>3. c.seen \in [Jobs -> Names] /\ c.token \in 0..valid
  BY <1>2 DEF Call
<1>4. loaded' \in BOOLEAN
  BY DEF Arrive
<1>5. IsFiniteSet(Others(c)) /\ Others(c) \subseteq calls
  BY ReplacedFinite DEF IInv, PairsBounded, Others
<1> QED  BY <1>1, <1>2, <1>3, <1>4, <1>5

\* An answer to a click or a refresh that changes neither the list nor a loop.
LEMMA TakenInv ==
    ASSUME IInv, NEW c, NEW op, NEW answer, Arrive(c, op, answer), op # "poll",
           UNCHANGED <<listVars, loopVars>>, token' \in 0..valid, missed' \in BOOLEAN,
           refreshing' \in {"off", "health", "pair", "list", "preview"},
           NEW N, N = {} \/ \E d : /\ N = {d} /\ d \in Call /\ CallOK(d) /\ Reported(d.seen)
                                   /\ d.op = "list",
           calls' = Others(c) \cup N,
           \/ token' = 0 \/ refreshing' # "off" \/ missed'
           \/ token' = token /\ refreshing = "off" /\ ~missed
    PROVE  IInv'
<1>1. /\ c \in calls /\ c.op = op /\ UNCHANGED agentVars /\ UNCHANGED faults
      /\ loaded' \in BOOLEAN /\ IsFiniteSet(Others(c)) /\ Others(c) \subseteq calls
  BY ArriveFacts
<1>2. TypeOK /\ Truthful /\ ShownActiveIsPolled
  BY DEF IInv
<1>3. PageOK'
  BY <1>1, <1>2 DEF TypeOK, PageOK
<1>4. IsFiniteSet(calls')
  <2>1. IsFiniteSet(N)
    <3>1. CASE N = {}
      BY <3>1, FS_EmptySet
    <3>2. ASSUME NEW d, N = {d}
          PROVE  IsFiniteSet(N)
      <4>1. IsFiniteSet({d})
        BY FS_Singleton
      <4> QED  BY <3>2, <4>1
    <3> QED  BY <3>1, <3>2
  <2> QED  BY <1>1, <2>1, FS_Union
<1>5. \A d \in calls' : \/ d \in calls
                        \/ d \in Call /\ CallOK(d) /\ Reported(d.seen) /\ d.op = "list"
  BY <1>1
<1>6. Pairings(calls') \subseteq Pairings(calls)
  BY <1>5 DEF Pairings
<1>7. \A d \in calls : d.op = "poll" => d \in calls'
  BY <1>1 DEF Others
<1>8. \A j \in Jobs : shown'[j] \in Ends => state[j] = shown'[j]
  BY <1>2 DEF Truthful, Reported
<1>9. ShownActiveIsPolled'
  BY <1>2 DEF ShownActiveIsPolled
<1>10. UNCHANGED <<agentVars, loopVars>>
  BY <1>1
<1> QED  BY <1>3, <1>4, <1>5, <1>6, <1>7, <1>8, <1>9, <1>10, LooplessInv

LEMMA PlainAnswerInv ==
    ASSUME IInv, NEW c, NotListed(c) \/ Failed(c) \/ NotPaired(c) \/ Paired(c)
    PROVE  IInv'
<1>1. TypeOK
  BY DEF IInv
<1>2. /\ token \in 0..valid /\ 0 \in 0..valid /\ missed \in BOOLEAN
      /\ refreshing \in {"off", "health", "pair", "list", "preview"}
  BY <1>1 DEF TypeOK
<1>3. CASE NotListed(c)
  <2>1. PICK answer : Arrive(c, "list", answer) /\ token' \in {token, 0}
    BY <1>3 DEF NotListed
  <2>2. /\ UNCHANGED <<listVars, loopVars>> /\ missed' /\ missed' \in BOOLEAN
        /\ refreshing' = "off" /\ calls' = Others(c) \cup {}
    BY <1>3 DEF NotListed
  <2> QED  BY <1>2, <2>1, <2>2, TakenInv
<1>4. CASE Failed(c)
  <2>1. PICK op \in {"retry", "cancel", "create"}, answer \in {"denied", "error"} :
            Arrive(c, op, answer) /\ token' \in {token, 0}
    BY <1>4 DEF Failed
  <2>2. /\ UNCHANGED <<listVars, loopVars>> /\ refreshing' = refreshing /\ missed' = missed
        /\ calls' = Others(c) \cup {}
    BY <1>4 DEF Failed
  <2>3. missed' \in BOOLEAN
    BY <1>2, <2>2
  <2>4. \/ token' = 0 \/ refreshing' # "off" \/ missed'
        \/ token' = token /\ refreshing = "off" /\ ~missed
    BY <2>1, <2>2
  <2> QED  BY <1>2, <2>1, <2>2, <2>3, <2>4, TakenInv
<1>5. CASE NotPaired(c)
  <2>1. /\ UNCHANGED <<listVars, loopVars>> /\ token' = token
        /\ calls' = Others(c) \cup {}
    BY <1>5 DEF NotPaired
  <2>2. CASE Arrive(c, "pair", "error") /\ UNCHANGED <<refreshing, missed>>
    <3>1. missed' \in BOOLEAN
      BY <1>2, <2>2
    <3>2. \/ token' = 0 \/ refreshing' # "off" \/ missed'
          \/ token' = token /\ refreshing = "off" /\ ~missed
      BY <2>1, <2>2
    <3> QED  BY <1>2, <2>1, <2>2, <3>1, <3>2, TakenInv
  <2>3. CASE Arrive(c, "fragment", "error") /\ refreshing' = "off" /\ missed' = TRUE
    BY <1>2, <2>1, <2>3, TakenInv
  <2> QED  BY <1>5, <2>2, <2>3 DEF NotPaired
<1>6. CASE Paired(c)
  <2>1. UNCHANGED <<listVars, loopVars>> /\ token' = c.token /\ missed' = missed
    BY <1>6 DEF Paired
  <2>2. missed' \in BOOLEAN
    BY <1>2, <2>1
  <2>3. CASE /\ Arrive(c, "pair", "ok")
             /\ refreshing' = IF refreshing = "off" THEN "health" ELSE refreshing
             /\ calls' = Others(c)
    <3>1. token' \in 0..valid
      BY <2>1, <2>3, ArriveFacts
    <3>2. calls' = Others(c) \cup {}
      BY <2>3
    <3> QED  BY <1>2, <2>1, <2>2, <2>3, <3>1, <3>2, TakenInv
  <2>4. CASE /\ Arrive(c, "fragment", "ok") /\ refreshing' = "list"
             /\ calls' = Others(c) \cup {[Request("list", 0) EXCEPT !.token = token']}
    <3> DEFINE d == [Request("list", 0) EXCEPT !.token = token']
    <3>1. token' \in 0..valid
      BY <2>1, <2>4, ArriveFacts
    <3>2. d \in Call /\ CallOK(d) /\ Reported(d.seen) /\ d.op = "list"
      <4>1. /\ \A t \in 0..valid : [Request("list", 0) EXCEPT !.token = t] \in Call
            /\ \A t : LET x == [Request("list", 0) EXCEPT !.token = t]
                      IN  x.op = "list" /\ x.job = 0 /\ CallOK(x) /\ Reported(x.seen)
        BY <1>1, RequestOK
      <4> QED  BY <3>1, <4>1
    <3> HIDE DEF d
    <3>3. calls' = Others(c) \cup {d}
      BY <2>4 DEF d
    <3> QED  BY <2>1, <2>2, <2>4, <3>1, <3>2, <3>3, TakenInv
  <2> QED  BY <1>6, <2>3, <2>4 DEF Paired
<1> QED  BY <1>3, <1>4, <1>5, <1>6

LEMMA CanceledInv == ASSUME IInv, NEW c, Canceled(c) PROVE IInv'
<1>1. /\ c \in calls /\ c.op = "cancel" /\ c.job \in Jobs /\ c.seen \in [Jobs -> Names]
      /\ c.seen[c.job] \notin Active /\ Reported(c.seen)
      /\ UNCHANGED agentVars /\ UNCHANGED faults /\ loaded' \in BOOLEAN
      /\ IsFiniteSet(Others(c)) /\ Others(c) \subseteq calls
  BY ArriveFacts DEF Canceled, CallOK
<1>2. /\ shown' = [shown EXCEPT ![c.job] = c.seen[c.job]] /\ calls' = Others(c)
      /\ UNCHANGED <<twin, token, loopVars, refreshing, missed>>
  BY DEF Canceled, Replace
<1>3. TypeOK /\ Truthful /\ ShownActiveIsPolled
  BY DEF IInv
<1>4. PageOK'
  <2>1. shown' \in [Jobs -> Names]
    BY <1>1, <1>2, <1>3 DEF TypeOK
  <2> QED  BY <1>1, <1>2, <1>3, <2>1 DEF TypeOK, PageOK
<1>5. Pairings(calls') \subseteq Pairings(calls)
  BY <1>1, <1>2 DEF Pairings
<1>6. \A d \in calls : d.op = "poll" => d \in calls'
  BY <1>1, <1>2 DEF Others
<1>7. \A j \in Jobs : shown'[j] = IF j = c.job THEN c.seen[j] ELSE shown[j]
  BY <1>2, <1>3 DEF TypeOK
<1>8. \A j \in Jobs : shown'[j] \in Ends => state[j] = shown'[j]
  BY <1>1, <1>3, <1>7 DEF Truthful, Reported
<1>9. ShownActiveIsPolled'
  <2>1. \A j \in Jobs : shown'[j] \in Active => shown[j] \in Active
    BY <1>1, <1>7
  <2> QED  BY <1>2, <1>3, <2>1 DEF ShownActiveIsPolled
<1>10. UNCHANGED <<agentVars, loopVars>> /\ IsFiniteSet(calls') /\ calls' \subseteq calls
  BY <1>1, <1>2
<1> QED  BY <1>4, <1>5, <1>6, <1>8, <1>9, <1>10, LooplessInv

-----------------------------------------------------------------------------
(* The page: what starts, follows and ends a loop.                         *)

\* A step that calls watchJob, with an entry of pollingTimers dropped before or none.
LEMMA WatchInv ==
    ASSUME IInv, UNCHANGED agentVars, UNCHANGED faults, UNCHANGED timers,
           token' \in 0..valid, shown' \in [Jobs -> Names], twin' \in [Jobs -> BOOLEAN],
           remembered' \in {0} \cup Jobs, loaded' \in BOOLEAN, missed' \in BOOLEAN,
           refreshing' \in {"off", "health", "pair", "list", "preview"},
           \A j \in Jobs : shown'[j] \in Ends => state[j] = shown'[j],
           NEW S, S \subseteq Jobs, NEW k \in [Jobs -> {"off", "first", "timer"}],
           NEW C, C \subseteq calls, LoopsOf(k, timers, C), Watch(S, k, C),
           \A j \in Jobs :
               (shown'[j] \in Active \/ twin'[j]) /\ token' # 0 /\ refreshing' = "off" /\ ~missed'
               => j \in S \/ k[j] # "off"
    PROVE  IInv'
<1>1. TypeOK /\ CallsOK /\ PairsBounded
  BY DEF IInv
<1>2. IsFiniteSet(C)
  BY <1>1, FS_Subset DEF PairsBounded
<1>3. /\ key' \in [Jobs -> {"off", "first", "timer"}] /\ IsFiniteSet(calls')
      /\ \A c \in calls' : \/ c \in C
                           \/ /\ c \in Call /\ CallOK(c) /\ Reported(c.seen)
                              /\ c.op = "poll"
  BY <1>1, <1>2, WatchSends
<1>4. /\ LoopsOf(key', timers, calls')
      /\ \A j \in Jobs : key'[j] = "off" <=> k[j] = "off" /\ (token' # 0 => j \notin S)
  <2>1. \A d \in C : d.op = "poll" => d.job \in Jobs
    BY <1>1 DEF CallsOK, CallOK
  <2>2. timers \in [Jobs -> 0..1]
    BY <1>1 DEF TypeOK
  <2> QED  BY <2>1, <2>2, WatchStarts
<1>5. PageOK'
  BY <1>1, <1>3 DEF TypeOK, PageOK
<1>6. Loops'
  BY <1>4 DEF Loops, LoopsOf
<1>7. ShownActiveIsPolled'
  BY <1>4 DEF ShownActiveIsPolled
<1>8. Pairings(calls') \subseteq Pairings(calls)
  BY <1>3 DEF Pairings
<1>9. \A c \in calls' : c \in calls \/ (c \in Call /\ CallOK(c) /\ Reported(c.seen))
  BY <1>3
<1> QED  BY <1>3, <1>5, <1>6, <1>7, <1>8, <1>9, PageInv

LEMMA ListedInv == ASSUME IInv, NEW c, Listed(c) PROVE IInv'
<1>1. /\ c \in calls /\ c.op = "list" /\ c.seen \in [Jobs -> Names] /\ Reported(c.seen)
      /\ UNCHANGED agentVars /\ UNCHANGED faults /\ loaded' \in BOOLEAN
      /\ IsFiniteSet(Others(c)) /\ Others(c) \subseteq calls
  BY ArriveFacts DEF Listed
<1>2. /\ shown' = c.seen /\ twin' = [j \in Jobs |-> FALSE]
      /\ UNCHANGED <<token, timers, remembered>>
  BY DEF Listed
<1>3. missed' \in BOOLEAN
  BY DEF Listed
<1>4. TypeOK /\ Loops
  BY DEF IInv
<1>5. \A j \in Jobs : shown'[j] \in Ends => state[j] = shown'[j]
  BY <1>1, <1>2 DEF Reported
<1>6. /\ shown' \in [Jobs -> Names] /\ twin' \in [Jobs -> BOOLEAN]
      /\ token' \in 0..valid /\ remembered' \in {0} \cup Jobs
  BY <1>1, <1>2, <1>4 DEF TypeOK
<1>7. CASE refreshing' = "preview" /\ calls' = Others(c) /\ UNCHANGED key
  <2>1. PageOK'
    BY <1>1, <1>2, <1>3, <1>4, <1>6, <1>7 DEF TypeOK, PageOK
  <2>2. Pairings(calls') \subseteq Pairings(calls)
    BY <1>1, <1>7 DEF Pairings
  <2>3. \A d \in calls : d.op = "poll" => d \in calls'
    BY <1>1, <1>7 DEF Others
  <2>4. ShownActiveIsPolled'
    BY <1>7 DEF ShownActiveIsPolled
  <2>5. UNCHANGED <<agentVars, loopVars>> /\ IsFiniteSet(calls') /\ calls' \subseteq calls
    BY <1>1, <1>2, <1>7
  <2> QED  BY <1>5, <2>1, <2>2, <2>3, <2>4, <2>5, LooplessInv
<1>8. CASE refreshing' = "off" /\ Watch(ToWatch, key, Others(c))
  <2>1. PICK S : S = ToWatch
    OBVIOUS
  <2>2. S \subseteq Jobs /\ \A j \in Jobs : shown'[j] \in Active \/ twin'[j] => j \in S
    BY <2>1 DEF ToWatch
  <2>3. LoopsOf(key, timers, Others(c)) /\ key \in [Jobs -> {"off", "first", "timer"}]
    BY <1>1, <1>4, OtherGone DEF Loops, Others, TypeOK
  <2>4. Watch(S, key, Others(c))
    BY <1>8, <2>1
  <2> QED  BY <1>1, <1>2, <1>3, <1>5, <1>6, <1>8, <2>2, <2>3, <2>4, WatchInv
<1> QED  BY <1>7, <1>8 DEF Listed

LEMMA PreviewedInv == ASSUME IInv, Previewed PROVE IInv'
<1>1. /\ refreshing' = "off" /\ Watch(ToWatch, key, calls)
      /\ UNCHANGED <<agentVars, listVars, timers, remembered, loaded, faults, missed>>
  BY DEF Previewed
<1>2. TypeOK /\ Loops /\ Truthful
  BY DEF IInv
<1>3. /\ token' \in 0..valid /\ shown' \in [Jobs -> Names] /\ remembered' \in {0} \cup Jobs
      /\ key \in [Jobs -> {"off", "first", "timer"}]
  BY <1>1, <1>2 DEF TypeOK, Previewed
<1>4. twin' \in [Jobs -> BOOLEAN] /\ loaded' \in BOOLEAN /\ missed' \in BOOLEAN
  BY <1>1, <1>2 DEF TypeOK
<1>5. \A j \in Jobs : shown'[j] \in Ends => state[j] = shown'[j]
  BY <1>1, <1>2 DEF Truthful, Reported
<1>6. PICK S : S = ToWatch
  OBVIOUS
<1>7. S \subseteq Jobs /\ \A j \in Jobs : shown'[j] \in Active \/ twin'[j] => j \in S
  BY <1>6 DEF ToWatch
<1>8. LoopsOf(key, timers, calls) /\ Watch(S, key, calls)
  BY <1>1, <1>2, <1>6 DEF Loops
<1> QED  BY <1>1, <1>3, <1>4, <1>5, <1>7, <1>8, WatchInv

\* Retry and creation show what they are told and watch their job.
LEMMA WatchedInv == ASSUME IInv, NEW c, Retried(c) \/ Created(c) PROVE IInv'
<1>1. /\ c \in calls /\ c.op # "poll" /\ c.job \in Jobs /\ c.seen \in [Jobs -> Names]
      /\ Reported(c.seen) /\ UNCHANGED agentVars /\ UNCHANGED faults /\ loaded' \in BOOLEAN
      /\ Others(c) \subseteq calls
  <2>1. CASE Retried(c)
    BY <2>1, ArriveFacts DEF Retried, CallOK
  <2>2. CASE Created(c)
    BY <2>2, ArriveFacts DEF Created, CallOK
  <2> QED  BY <2>1, <2>2
<1>2. /\ shown' = [shown EXCEPT ![c.job] = c.seen[c.job]]
      /\ \/ twin' = twin
         \/ twin' = [twin EXCEPT ![c.job] = shown[c.job] \in Active]
      /\ remembered' \in {remembered, c.job}
      /\ UNCHANGED <<token, timers, refreshing, missed>>
      /\ Watch({c.job}, key, Others(c))
  BY DEF Retried, Created, Replace, Unshift
<1>3. TypeOK /\ Loops /\ Truthful /\ ShownActiveIsPolled
  BY DEF IInv
<1>4. /\ token' \in 0..valid /\ shown' \in [Jobs -> Names] /\ remembered' \in {0} \cup Jobs
      /\ key \in [Jobs -> {"off", "first", "timer"}]
      /\ refreshing' \in {"off", "health", "pair", "list", "preview"}
  BY <1>1, <1>2, <1>3 DEF TypeOK
<1>5. missed' \in BOOLEAN
  BY <1>2, <1>3 DEF TypeOK
<1>6. twin' \in [Jobs -> BOOLEAN]
  <2>1. twin \in [Jobs -> BOOLEAN] /\ (shown[c.job] \in Active) \in BOOLEAN
    BY <1>3 DEF TypeOK
  <2> QED  BY <1>2, <2>1
<1>7. \A j \in Jobs : j # c.job => shown'[j] = shown[j] /\ twin'[j] = twin[j]
  BY <1>1, <1>2, <1>3 DEF TypeOK
<1>8. \A j \in Jobs : shown'[j] \in Ends => state[j] = shown'[j]
  BY <1>1, <1>2, <1>3, <1>7 DEF Truthful, Reported, TypeOK
<1>9. \A j \in Jobs :
          (shown'[j] \in Active \/ twin'[j]) /\ token' # 0 /\ refreshing' = "off" /\ ~missed'
          => j \in {c.job} \/ key[j] # "off"
  <2> SUFFICES ASSUME NEW j \in Jobs, j # c.job, shown'[j] \in Active \/ twin'[j],
                      token' # 0, refreshing' = "off", ~missed'
               PROVE  key[j] # "off"
    OBVIOUS
  <2>1. shown[j] \in Active \/ twin[j]
    BY <1>7
  <2>2. token # 0 /\ refreshing = "off" /\ ~missed
    BY <1>2
  <2> QED  BY <1>3, <2>1, <2>2 DEF ShownActiveIsPolled
<1>10. LoopsOf(key, timers, Others(c)) /\ {c.job} \subseteq Jobs
  BY <1>1, <1>3, OtherGone DEF Loops, Others
<1> QED  BY <1>1, <1>2, <1>4, <1>5, <1>6, <1>8, <1>9, <1>10, WatchInv

\* The answer to a poll that arrives.
LEMMA PollArrives ==
    ASSUME IInv, NEW c, NEW answer, Arrive(c, "poll", answer)
    PROVE  /\ c \in calls /\ c.op = "poll" /\ c.job \in Jobs /\ c.seen \in [Jobs -> Names]
           /\ Reported(c.seen) /\ UNCHANGED agentVars /\ UNCHANGED faults
           /\ loaded' \in BOOLEAN /\ timers[c.job] = 0
           /\ IsFiniteSet(Others(c)) /\ Others(c) \subseteq calls
           /\ LoopsOf([key EXCEPT ![c.job] = "off"], timers, Others(c))
           /\ LoopsOf([key EXCEPT ![c.job] = "timer"], [timers EXCEPT ![c.job] = @ + 1], Others(c))
<1>1. /\ c \in calls /\ c.op = "poll" /\ CallOK(c) /\ c.seen \in [Jobs -> Names]
      /\ Reported(c.seen) /\ UNCHANGED agentVars /\ UNCHANGED faults /\ loaded' \in BOOLEAN
      /\ IsFiniteSet(Others(c)) /\ Others(c) \subseteq calls
  BY ArriveFacts
<1>2. c.job \in Jobs
  BY <1>1 DEF CallOK
<1>3. LoopsOf(key, timers, calls) /\ \A d \in calls : d.op = "poll" => d.job \in Jobs
  BY DEF IInv, Loops, CallsOK, CallOK
<1>4. /\ key \in [Jobs -> {"off", "first", "timer"}] /\ timers \in [Jobs -> 0..1]
  BY DEF IInv, TypeOK
<1>5. /\ LoopsOf([key EXCEPT ![c.job] = "off"], timers, calls \ {c})
      /\ LoopsOf([key EXCEPT ![c.job] = "timer"], [timers EXCEPT ![c.job] = @ + 1], calls \ {c})
      /\ timers[c.job] = 0
  <2> DEFINE off == [key EXCEPT ![c.job] = "off"]
             timer == [key EXCEPT ![c.job] = "timer"]
             later == [timers EXCEPT ![c.job] = @ + 1]
  <2>1. timers[c.job] = 0
    BY <1>1, <1>3 DEF LoopsOf
  <2>2. LoopsOf(off, timers, calls \ {c})
    BY <1>1, <1>2, <1>3, <1>4, <2>1 DEF LoopsOf
  <2>3. LoopsOf(timer, later, calls \ {c})
    BY <1>1, <1>2, <1>3, <1>4, <2>1 DEF LoopsOf
  <2> QED  BY <2>1, <2>2, <2>3
<1> QED  BY <1>1, <1>2, <1>5 DEF Others

\* A poll is followed by a timer.
LEMMA GoesOnInv ==
    ASSUME IInv, NEW c, NEW answer, Arrive(c, "poll", answer),
           key' = [key EXCEPT ![c.job] = "timer"],
           timers' = [timers EXCEPT ![c.job] = @ + 1],
           calls' = Others(c), UNCHANGED <<twin, token, remembered, refreshing, missed>>,
           \/ shown' = shown
           \/ shown' = [shown EXCEPT ![c.job] = c.seen[c.job]]
    PROVE  IInv'
<1>1. /\ c \in calls /\ c.op = "poll" /\ c.job \in Jobs /\ c.seen \in [Jobs -> Names]
      /\ Reported(c.seen) /\ UNCHANGED agentVars /\ UNCHANGED faults
      /\ loaded' \in BOOLEAN /\ timers[c.job] = 0
      /\ IsFiniteSet(Others(c)) /\ Others(c) \subseteq calls
      /\ LoopsOf([key EXCEPT ![c.job] = "timer"], [timers EXCEPT ![c.job] = @ + 1], Others(c))
  BY PollArrives
<1>2. TypeOK /\ Truthful /\ ShownActiveIsPolled
  BY DEF IInv
<1>3. \A j \in Jobs : j # c.job => shown'[j] = shown[j]
  BY <1>2 DEF TypeOK
<1>4. \A j \in Jobs : shown'[j] \in Ends => state[j] = shown'[j]
  BY <1>1, <1>2 DEF Truthful, Reported, TypeOK
<1>5. PageOK'
  <2>1. /\ shown' \in [Jobs -> Names] /\ key' \in [Jobs -> {"off", "first", "timer"}]
        /\ timers' \in [Jobs -> 0..1]
    BY <1>1, <1>2 DEF TypeOK
  <2> QED  BY <1>1, <1>2, <2>1 DEF TypeOK, PageOK
<1>6. Loops'
  BY <1>1 DEF Loops, LoopsOf
<1>7. key'[c.job] = "timer" /\ \A j \in Jobs : j # c.job => key'[j] = key[j]
  BY <1>1, <1>2 DEF TypeOK
<1>8. ShownActiveIsPolled'
  <2> SUFFICES ASSUME NEW j \in Jobs, shown'[j] \in Active \/ twin'[j], token' # 0,
                      refreshing' = "off", ~missed', j # c.job
               PROVE  key'[j] # "off"
    BY <1>7 DEF ShownActiveIsPolled
  <2>1. (shown[j] \in Active \/ twin[j]) /\ token # 0 /\ refreshing = "off" /\ ~missed
    BY <1>3
  <2> QED  BY <1>2, <1>7, <2>1 DEF ShownActiveIsPolled
<1>9. Pairings(calls') \subseteq Pairings(calls)
  BY <1>1 DEF Pairings
<1>10. IsFiniteSet(calls') /\ calls' \subseteq calls
  BY <1>1
<1> QED  BY <1>1, <1>4, <1>5, <1>6, <1>8, <1>9, <1>10, PageInv

LEMMA PolledInv == ASSUME IInv, NEW c, Followed(c) \/ NotPolled(c) PROVE IInv'
<1>1. CASE Followed(c)
  BY <1>1, GoesOnInv DEF Followed, Replace
<1>2. CASE NotPolled(c) /\ ~GivesUp
  <2>1. token' # 0
    BY <1>2 DEF GivesUp
  <2>2. /\ Arrive(c, "poll", "error") /\ UNCHANGED token
        /\ key' = [key EXCEPT ![c.job] = "timer"]
        /\ timers' = [timers EXCEPT ![c.job] = @ + 1]
        /\ calls' = Others(c) /\ UNCHANGED <<listVars, remembered, refreshing, missed>>
    BY <1>2, <2>1 DEF NotPolled
  <2> QED  BY <2>2, GoesOnInv
<1>3. CASE NotPolled(c) /\ GivesUp
  <2>1. /\ token' = 0 /\ key' = [key EXCEPT ![c.job] = "off"] /\ UNCHANGED timers
        /\ calls' = Others(c) /\ UNCHANGED <<listVars, remembered, refreshing, missed>>
    BY <1>3 DEF NotPolled, GivesUp
  <2>2. PICK answer : Arrive(c, "poll", answer)
    BY <1>3 DEF NotPolled
  <2>3. /\ c \in calls /\ c.job \in Jobs /\ UNCHANGED agentVars /\ UNCHANGED faults
        /\ loaded' \in BOOLEAN /\ IsFiniteSet(Others(c)) /\ Others(c) \subseteq calls
        /\ LoopsOf([key EXCEPT ![c.job] = "off"], timers, Others(c))
    BY <2>2, PollArrives
  <2>4. TypeOK /\ Truthful
    BY DEF IInv
  <2>5. PageOK'
    <3>1. key' \in [Jobs -> {"off", "first", "timer"}] /\ token' \in 0..valid
      BY <2>1, <2>3, <2>4 DEF TypeOK
    <3> QED  BY <2>1, <2>3, <2>4, <3>1 DEF TypeOK, PageOK
  <2>6. Loops'
    BY <2>1, <2>3 DEF Loops, LoopsOf
  <2>7. ShownActiveIsPolled'
    BY <2>1 DEF ShownActiveIsPolled
  <2>8. \A j \in Jobs : shown'[j] \in Ends => state[j] = shown'[j]
    BY <2>1, <2>4 DEF Truthful, Reported
  <2>9. /\ IsFiniteSet(calls') /\ calls' \subseteq calls
        /\ Pairings(calls') \subseteq Pairings(calls)
    BY <2>1, <2>3 DEF Pairings
  <2> QED  BY <2>3, <2>5, <2>6, <2>7, <2>8, <2>9, PageInv
<1> QED  BY <1>1, <1>2, <1>3

LEMMA EndedInv == ASSUME IInv, NEW c, Ended(c) PROVE IInv'
<1> DEFINE k == [key EXCEPT ![c.job] = "off"]
<1>1. /\ c \in calls /\ c.job \in Jobs /\ c.seen \in [Jobs -> Names] /\ Reported(c.seen)
      /\ UNCHANGED agentVars /\ UNCHANGED faults /\ loaded' \in BOOLEAN
      /\ Others(c) \subseteq calls /\ LoopsOf(k, timers, Others(c))
  BY PollArrives DEF Ended
<1>2. /\ shown' = [shown EXCEPT ![c.job] = c.seen[c.job]]
      /\ UNCHANGED <<twin, token, timers, refreshing, missed>>
      /\ remembered' \in {0, remembered} /\ Watch(ToWatch, k, Others(c))
  BY DEF Ended, Replace
<1>3. TypeOK /\ Truthful
  BY DEF IInv
<1>4. /\ token' \in 0..valid /\ shown' \in [Jobs -> Names] /\ remembered' \in {0} \cup Jobs
      /\ k \in [Jobs -> {"off", "first", "timer"}]
      /\ refreshing' \in {"off", "health", "pair", "list", "preview"}
  BY <1>1, <1>2, <1>3 DEF TypeOK
<1>5. missed' \in BOOLEAN /\ twin' \in [Jobs -> BOOLEAN]
  BY <1>2, <1>3 DEF TypeOK
<1>6. \A j \in Jobs : shown'[j] \in Ends => state[j] = shown'[j]
  BY <1>1, <1>2, <1>3 DEF Truthful, Reported, TypeOK
<1> HIDE DEF k
<1>7. PICK S : S = ToWatch
  OBVIOUS
<1>8. S \subseteq Jobs /\ \A j \in Jobs : shown'[j] \in Active \/ twin'[j] => j \in S
  BY <1>7 DEF ToWatch
<1>9. Watch(S, k, Others(c))
  BY <1>2, <1>7
<1> QED  BY <1>1, <1>2, <1>4, <1>5, <1>6, <1>8, <1>9, WatchInv

LEMMA TickInv == ASSUME IInv, NEW j \in Jobs, Tick(j) PROVE IInv'
<1>1. TypeOK /\ Loops /\ Truthful /\ ShownActiveIsPolled /\ PairsBounded
  BY DEF IInv
<1>2. /\ timers[j] = 1 /\ timers' = [timers EXCEPT ![j] = 0]
      /\ UNCHANGED <<agentVars, token, listVars, remembered, loaded, refreshing, faults, missed>>
  <2>1. timers[j] = 1
    BY <1>1 DEF Tick, TypeOK
  <2>2. /\ timers' = [timers EXCEPT ![j] = timers[j] - 1]
        /\ UNCHANGED <<agentVars, token, listVars, remembered, loaded, refreshing, faults, missed>>
    BY DEF Tick
  <2> QED  BY <2>1, <2>2
<1>3. key[j] # "off" /\ \A c \in calls : c.op = "poll" => c.job # j
  BY <1>1, <1>2 DEF Loops, LoopsOf
<1>4. \A i \in Jobs : shown'[i] \in Ends => state[i] = shown'[i]
  BY <1>1, <1>2 DEF Truthful, Reported
<1>5. CASE token = 0 /\ key' = [key EXCEPT ![j] = "off"] /\ UNCHANGED calls
  <2>1. PageOK'
    <3>1. key' \in [Jobs -> {"off", "first", "timer"}] /\ timers' \in [Jobs -> 0..1]
      BY <1>1, <1>2, <1>5 DEF TypeOK
    <3> QED  BY <1>1, <1>2, <3>1 DEF TypeOK, PageOK
  <2>2. Loops'
    <3>1. LoopsOf(key', timers', calls)
      BY <1>1, <1>2, <1>3, <1>5 DEF Loops, LoopsOf, TypeOK
    <3> QED  BY <1>5, <3>1 DEF Loops, LoopsOf
  <2>3. ShownActiveIsPolled'
    BY <1>2, <1>5 DEF ShownActiveIsPolled
  <2>4. IsFiniteSet(calls') /\ Pairings(calls') \subseteq Pairings(calls)
    BY <1>1, <1>5 DEF PairsBounded
  <2>5. UNCHANGED agentVars /\ calls' = calls
    BY <1>2, <1>5
  <2> QED  BY <1>4, <2>1, <2>2, <2>3, <2>4, <2>5, PageInv
<1>6. CASE calls' = calls \cup {Request("poll", j)} /\ UNCHANGED key
  <2>1. PICK c : c = Request("poll", j)
    OBVIOUS
  <2>2. c \in Call /\ CallOK(c) /\ Reported(c.seen) /\ c.op = "poll" /\ c.job = j
    BY <1>1, <2>1, RequestOK DEF Request
  <2>3. calls' = calls \cup {c}
    BY <1>6, <2>1
  <2>4. PageOK'
    <3>1. timers' \in [Jobs -> 0..1]
      BY <1>1, <1>2 DEF TypeOK
    <3> QED  BY <1>1, <1>2, <1>6, <3>1 DEF TypeOK, PageOK
  <2>5. Loops'
    <3>1. LoopsOf(key, timers', calls')
      BY <1>1, <1>2, <1>3, <2>2, <2>3 DEF Loops, LoopsOf, TypeOK
    <3> QED  BY <1>6, <3>1 DEF Loops, LoopsOf
  <2>6. ShownActiveIsPolled'
    BY <1>1, <1>2, <1>6 DEF ShownActiveIsPolled
  <2>7. IsFiniteSet(calls') /\ Pairings(calls') \subseteq Pairings(calls)
    BY <1>1, <2>2, <2>3, ReplacedFinite DEF PairsBounded, Pairings
  <2>8. UNCHANGED agentVars
    BY <1>2
  <2> QED  BY <1>4, <2>2, <2>3, <2>4, <2>5, <2>6, <2>7, <2>8, PageInv
<1> QED  BY <1>5, <1>6 DEF Tick

\* The pairings on their way outlive the page.
LEMMA ReloadInv == ASSUME IInv, Reload PROVE IInv'
<1> DEFINE kept == {c \in calls : c.answer = "pending" /\ c.op \notin {"list", "poll"}}
           shut(c) == [c EXCEPT !.open = FALSE]
<1>1. TypeOK /\ CallsOK /\ Truthful /\ PairsBounded
  BY DEF IInv
<1>2. /\ shown' = None /\ twin' = [j \in Jobs |-> FALSE]
      /\ key' = [j \in Jobs |-> "off"] /\ timers' = [j \in Jobs |-> 0]
      /\ UNCHANGED <<agentVars, token, remembered>>
      /\ calls' = {shut(c) : c \in kept}
  BY DEF Reload
<1>3. \A c \in kept : /\ c \in calls /\ c \in Call /\ shut(c) \in Call /\ shut(c).op = c.op
                      /\ shut(c).job = c.job /\ shut(c).answer = "pending"
                      /\ shut(c).seen = c.seen /\ c.op # "poll" /\ c.answer = "pending"
  <2> TAKE c \in kept
  <2>1. c \in calls /\ c.op # "poll" /\ c.answer = "pending"
    OBVIOUS
  <2>2. c \in Call
    BY <1>1, <2>1 DEF TypeOK
  <2>3. shut(c) \in Call
    BY <2>2 DEF Call
  <2>4. /\ shut(c).op = c.op /\ shut(c).job = c.job /\ shut(c).answer = "pending"
        /\ shut(c).seen = c.seen
    BY <2>1, <2>2 DEF Call
  <2> QED  BY <2>1, <2>2, <2>3, <2>4
<1>4. \A c \in kept : CallOK(shut(c)) /\ Reported(shut(c).seen)
  <2> HIDE DEF kept, shut
  <2> QED  BY <1>1, <1>3 DEF CallsOK, CallOK, Truthful
<1>5. IsFiniteSet(kept)
  BY <1>1, FS_Subset DEF PairsBounded
<1>6. Pairings(calls) = Pairings(kept)
  BY DEF Pairings
<1> HIDE DEF kept, shut
<1>7. IsFiniteSet(calls')
  <2> DEFINE f == [c \in kept |-> shut(c)]
  <2>1. f \in Surjection(kept, calls')
    BY <1>2 DEF Surjection
  <2> QED  BY <1>5, <2>1, FS_Surjection
<1>8. PairsBounded'
  <2> DEFINE f == [c \in Pairings(kept) |-> shut(c)]
  <2>1. IsFiniteSet(Pairings(kept)) /\ Cardinality(Pairings(kept)) \in Nat
    BY <1>5, FS_Subset, FS_CardinalityType DEF Pairings
  <2>2. f \in Surjection(Pairings(kept), Pairings(calls'))
    BY <1>2, <1>3 DEF Surjection, Pairings
  <2>3. /\ Cardinality(Pairings(calls')) =< Cardinality(Pairings(kept))
        /\ Cardinality(Pairings(calls')) \in Nat
    BY <2>1, <2>2, FS_Surjection, FS_CardinalityType
  <2>4. valid' = valid /\ valid \in Nat /\ (Pairings(calls))' = Pairings(calls')
    BY <1>1, <1>2 DEF TypeOK, Pairings
  <2>5. valid + Cardinality(Pairings(kept)) =< MaxPairs
    BY <1>1, <1>6 DEF PairsBounded
  <2>6. valid' + Cardinality(Pairings(calls')) =< MaxPairs
    BY <2>1, <2>3, <2>4, <2>5
  <2> QED  BY <1>7, <2>4, <2>6 DEF PairsBounded
<1>9. PageOK'
  <2>1. faults' \in 0..MaxFaults
    BY <1>1 DEF Reload, Fault, TypeOK
  <2>2. loaded' \in BOOLEAN /\ missed' \in BOOLEAN
    BY DEF Reload
  <2>3. refreshing' = "health"
    BY DEF Reload
  <2>4. shown' \in [Jobs -> Names] /\ twin' \in [Jobs -> BOOLEAN]
    BY <1>2 DEF None
  <2>5. /\ key' \in [Jobs -> {"off", "first", "timer"}] /\ timers' \in [Jobs -> 0..1]
        /\ token' \in 0..valid' /\ remembered' \in {0} \cup Jobs
    BY <1>1, <1>2 DEF TypeOK
  <2> QED  BY <2>1, <2>2, <2>3, <2>4, <2>5 DEF PageOK
<1>10. Loops'
  BY <1>2, <1>3 DEF Loops, LoopsOf
<1>11. ShownActiveIsPolled'
  BY DEF Reload, ShownActiveIsPolled
<1>12. \A j \in Jobs : shown'[j] \in Ends => state[j] = shown'[j]
  BY <1>2 DEF None
<1>13. \A d \in calls' : d \in calls \/ (d \in Call /\ CallOK(d) /\ Reported(d.seen))
  BY <1>2, <1>3, <1>4
<1>14. UNCHANGED agentVars
  BY <1>2
<1> QED  BY <1>7, <1>8, <1>9, <1>10, <1>11, <1>12, <1>13, <1>14, PageInv

LEMMA NextInv == ASSUME IInv, [Next]_vars PROVE IInv'
<1>1. CASE UNCHANGED vars
  <2>1. UNCHANGED <<agentVars, token, listVars, loopVars, loaded, refreshing, calls, faults, missed>>
    BY <1>1 DEF vars
  <2>2. TypeOK' /\ PairsBounded' /\ CallsOK'
    BY <2>1 DEF IInv, TypeOK, Call, PairsBounded, Pairings, CallsOK
  <2>3. Loops' /\ ShownActiveIsPolled' /\ Truthful'
    BY <2>1 DEF IInv, Loops, LoopsOf, ShownActiveIsPolled, Truthful, Reported
  <2> QED  BY <2>2, <2>3 DEF IInv
<1>2. CASE User
  BY <1>2, RefreshInv, ClickInv, ReloadInv DEF User
<1>3. CASE Work \/ Restart
  BY <1>3, WorkInv
<1>4. CASE Healthy \/ Unhealthy \/ Previewed
  BY <1>4, RefreshInv, PreviewedInv
<1>5. ASSUME NEW c \in calls, Handle(c) \/ Lose(c)
      PROVE  IInv'
  BY <1>5, HandleInv, LoseInv
<1>6. ASSUME NEW c \in calls, Receive(c)
      PROVE  IInv'
  BY <1>6, ListedInv, PlainAnswerInv, PolledInv, EndedInv, WatchedInv, CanceledInv DEF Receive
<1>7. ASSUME NEW j \in Jobs, Tick(j)
      PROVE  IInv'
  BY <1>7, TickInv
<1> QED  BY <1>1, <1>2, <1>3, <1>4, <1>5, <1>6, <1>7 DEF Next

LEMMA Invariance == Spec => []IInv
  BY InitInv, NextInv, PTL DEF Spec

-----------------------------------------------------------------------------
(* Theorems.                                                               *)

\* The variables stay within their types: no more pairings than bounded, no second timer.
THEOREM TypeCorrectness == Spec => []TypeOK
  BY Invariance, PTL DEF IInv

\* Each job has one polling loop or none, as pollingTimers says.
THEOREM SoleLoops == Spec => []SoleLoop
<1>1. IInv => SoleLoop
  <2> SUFFICES ASSUME IInv, NEW j \in Jobs
               PROVE  timers[j] + Cardinality(Polls(j)) = IF key[j] = "off" THEN 0 ELSE 1
    BY DEF SoleLoop
  <2>1. LoopsOf(key, timers, calls) /\ timers[j] \in 0..1
    BY DEF IInv, Loops, TypeOK
  <2>2. CASE key[j] = "off" \/ timers[j] = 1
    <3>1. Polls(j) = {} /\ timers[j] = IF key[j] = "off" THEN 0 ELSE 1
      BY <2>1, <2>2 DEF LoopsOf, Polls
    <3> QED  BY <3>1, FS_EmptySet
  <2>3. CASE key[j] # "off" /\ timers[j] = 0
    <3>1. PICK c : Polls(j) = {c}
      BY <2>1, <2>3 DEF LoopsOf, Polls
    <3>2. Cardinality({c}) = 1
      BY FS_Singleton
    <3> QED  BY <2>3, <3>1, <3>2
  <2> QED  BY <2>1, <2>2, <2>3
<1> QED  BY <1>1, Invariance, PTL

\* After a refresh every job the page shows as active, in whichever entry, is polled.
THEOREM ActiveIsPolled == Spec => []ShownActiveIsPolled
  BY Invariance, PTL DEF IInv

\* What the page shows as printed or as canceled is so.
THEOREM EndsAreFinal == Spec => []ShownEndIsFinal
<1>1. IInv => ShownEndIsFinal
  BY DEF IInv, Truthful, Reported, ShownEndIsFinal
<1> QED  BY <1>1, Invariance, PTL

\* Where watchJob is called, with the entries k, an entry that is left had none before.
LEMMA WatchKeeps ==
    ASSUME NEW S, NEW k, NEW C, Watch(S, k, C)
    PROVE  \A j \in Jobs : /\ k[j] # "off" => key'[j] # "off"
                           /\ j \in S /\ token' # 0 => key'[j] # "off"
  BY DEF Watch, Polled

\* A loop ends with the last active entry of its job, with the token or with the page.
THEOREM LoopsEndForCause == Spec => LoopEndsForCause
<1>1. ASSUME IInv, [Next]_vars
      PROVE  \A j \in Jobs :
                 key[j] # "off" /\ key'[j] = "off" =>
                     \/ shown'[j] \in Settled /\ ~twin'[j]
                     \/ token' = 0 \/ shown' = None
  <2> SUFFICES ASSUME NEW j \in Jobs, key[j] # "off", key'[j] = "off", token' # 0, shown' # None
               PROVE  shown'[j] \in Settled /\ ~twin'[j]
    OBVIOUS
  <2>1. TypeOK
    BY <1>1 DEF IInv
  <2>2. ASSUME UNCHANGED key
        PROVE  FALSE
    BY <2>2
  <2>3. ASSUME NEW i \in Jobs, key' = [key EXCEPT ![i] = "timer"]
        PROVE  FALSE
    BY <2>1, <2>3 DEF TypeOK
  <2>4. ASSUME NEW S, NEW C, Watch(S, key, C)
        PROVE  FALSE
    BY <2>4, WatchKeeps
  <2>5. CASE UNCHANGED vars
    BY <2>2, <2>5 DEF vars
  <2>6. CASE User
    <3>1. CASE Reload
      BY <3>1 DEF Reload
    <3>2. CASE ~Reload
      BY <2>2, <2>6, <3>2 DEF User, Refresh, EnterCode, ClickCreate, ClickRetry, ClickCancel,
         Click, Unsent
    <3> QED  BY <3>1, <3>2
  <2>7. CASE Work \/ Restart \/ Healthy \/ Unhealthy
    BY <2>2, <2>7 DEF Work, Restart, Healthy, Unhealthy, Unsent
  <2>8. CASE Previewed
    BY <2>4, <2>8 DEF Previewed
  <2>9. ASSUME NEW c \in calls, Handle(c) \/ Lose(c)
        PROVE  FALSE
    BY <2>2, <2>9 DEF Handle, Lose
  <2>10. ASSUME NEW i \in Jobs, Tick(i)
         PROVE  FALSE
    <3>1. CASE token # 0
      BY <2>2, <2>10, <3>1 DEF Tick
    <3>2. CASE token = 0
      BY <2>10, <3>2 DEF Tick
    <3> QED  BY <3>1, <3>2
  <2>11. ASSUME NEW c \in calls, Ended(c)
         PROVE  shown'[j] \in Settled /\ ~twin'[j]
    <3> DEFINE k == [key EXCEPT ![c.job] = "off"]
    <3>1. c.job \in Jobs
      BY <1>1, <2>11, PollArrives DEF Ended
    <3>2. /\ c.seen[c.job] \in Settled /\ shown' = [shown EXCEPT ![c.job] = c.seen[c.job]]
          /\ Watch(ToWatch, k, Others(c))
      BY <2>11 DEF Ended, Replace
    <3>3. \A i \in Jobs : i # c.job => k[i] = key[i]
      BY <2>1 DEF TypeOK
    <3> HIDE DEF k
    <3>4. k[j] = "off" /\ j \notin ToWatch
      BY <3>2, WatchKeeps
    <3>5. j = c.job /\ ~twin'[j]
      BY <3>3, <3>4 DEF ToWatch
    <3> QED  BY <2>1, <3>1, <3>2, <3>5 DEF TypeOK
  <2>12. ASSUME NEW c \in calls, Listed(c) \/ Retried(c) \/ Created(c)
         PROVE  FALSE
    BY <2>2, <2>4, <2>12 DEF Listed, Retried, Created
  <2>13. ASSUME NEW c \in calls, Followed(c) \/ NotPolled(c)
         PROVE  FALSE
    <3>1. c.job \in Jobs
      BY <1>1, <2>13, PollArrives DEF Followed, NotPolled
    <3> QED  BY <2>3, <2>13, <3>1 DEF Followed, NotPolled, GivesUp
  <2>14. ASSUME NEW c \in calls,
                NotListed(c) \/ Canceled(c) \/ Failed(c) \/ Paired(c) \/ NotPaired(c)
         PROVE  FALSE
    BY <2>2, <2>14 DEF NotListed, Canceled, Failed, Paired, NotPaired
  <2> QED  BY <1>1, <2>5, <2>6, <2>7, <2>8, <2>9, <2>10, <2>11, <2>12, <2>13, <2>14
           DEF Next, Receive
<1> QED  BY <1>1, Invariance, PTL DEF Spec, LoopEndsForCause
=============================================================================
