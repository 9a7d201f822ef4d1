----------------------------- MODULE JobContract -----------------------------
(***************************************************************************)
(* What PrintLatch promises the client of a job: the states it can read,   *)
(* the requests that move them, and that nothing is printed which the      *)
(* client did not ask for. JobQueue is shown to implement this, and        *)
(* Dashboard is a client of it.                                            *)
(***************************************************************************)
EXTENDS Integers

CONSTANTS
    Jobs,
    Previews,    \* those created in preview mode
    Spooled,     \* those printed by a printer of the operating system
    MaxAttempts

VARIABLES
    state,       \* what a client reads
    asked,       \* submissions asked for: the creation and each accepted retry
    printed,     \* those of them the printer has something of
    complete     \* those of them the printer has all copies of

outputVars == <<printed, complete>>
vars == <<state, asked, outputVars>>

Init ==
    /\ state = [j \in Jobs |-> "absent"]
    /\ asked = [j \in Jobs |-> 0]
    /\ printed = [j \in Jobs |-> {}]
    /\ complete = [j \in Jobs |-> {}]

Move(j, from, to) ==
    /\ state[j] \in from
    /\ state' = [state EXCEPT ![j] = to]

Create(j) ==
    /\ Move(j, {"absent"}, IF j \in Previews THEN "preview_ready" ELSE "queued")
    /\ asked' = [asked EXCEPT ![j] = IF j \in Previews THEN 0 ELSE 1]
    /\ UNCHANGED outputVars

Cancel(j) ==
    /\ Move(j, {"queued"}, "canceled")
    /\ UNCHANGED <<asked, outputVars>>

Retry(j) ==
    /\ Move(j, {"failed", "unknown"}, "queued")
    /\ asked[j] < MaxAttempts
    /\ asked' = [asked EXCEPT ![j] = @ + 1]
    /\ UNCHANGED outputVars

Start(j) ==
    /\ Move(j, {"queued"}, "printing")
    /\ UNCHANGED <<asked, outputVars>>

Succeed(j) ==
    /\ Move(j, {"printing"}, "succeeded")
    /\ j \in Spooled => complete[j] # {}
    /\ UNCHANGED <<asked, outputVars>>

Fail(j) ==
    /\ Move(j, {"printing"}, "failed")
    /\ UNCHANGED <<asked, outputVars>>

\* An agent starts: what was under way is not known to have ended.
Interrupt ==
    /\ state' = [j \in Jobs |-> IF state[j] = "printing" THEN "unknown" ELSE state[j]]
    /\ UNCHANGED <<asked, outputVars>>

\* A copy reaches the printer, in the job's present state or much later: the thread
\* that submits it may outlive its attempt, its worker and its agent.
Output(j) ==
    /\ \E k \in 1..asked[j] :
           /\ printed' = [printed EXCEPT ![j] = @ \cup {k}]
           /\ \/ complete' = [complete EXCEPT ![j] = @ \cup {k}]
              \/ UNCHANGED complete
    /\ UNCHANGED <<state, asked>>

Next ==
    \/ \E j \in Jobs : \/ Create(j) \/ Cancel(j) \/ Retry(j)
                       \/ Start(j) \/ Succeed(j) \/ Fail(j) \/ Output(j)
    \/ Interrupt

Spec == Init /\ [][Next]_vars
=============================================================================
