----------------------------- MODULE Dashboard -----------------------------
(***************************************************************************)
(* The operator dashboard in a browser, as a client of the job contract:   *)
(* one page, its requests to the agent, which are answered in any order,   *)
(* and its polling loops. A token is the number of the pairing it is from; *)
(* only the last one is valid. Print jobs only: a preview has no loop.     *)
(***************************************************************************)
EXTENDS Integers, FiniteSets

CONSTANTS
    Jobs,        \* of the dashboard and in print mode
    MaxAttempts,
    \* Bounds: pairings; failing requests, loads of the page and restarts of the agent,
    \* together; and requests on their way when the user makes another.
    MaxPairs, MaxFaults, MaxCalls

ASSUME JobAssumption ==
    /\ IsFiniteSet(Jobs) /\ 0 \notin Jobs /\ MaxAttempts \in Nat \ {0}
    /\ MaxPairs \in Nat /\ MaxFaults \in Nat /\ MaxCalls \in Nat

VARIABLES
    \* the agent
    state,       \* of each job
    asked,       \* its submissions asked for
    valid,       \* the token of the dashboard's client; 0 before the first pairing
    \* the browser
    token,       \* appState.token; 0 is null
    shown,       \* appState.jobs: the first entry of each job
    twin,        \* whether a second entry of it reads active
    key,         \* appState.pollingTimers: "off" is no entry, "first" the null it starts with
    timers,      \* poll timers that run
    remembered,  \* ACTIVE_JOB_KEY; 0 is null
    loaded,      \* whether appState.printers is filled
    refreshing,  \* how far refreshAll has come
    calls,       \* requests on their way, answered ones included
    faults,
    \* Bookkeeping that is not in the code: the last refresh failed.
    missed

agentVars == <<state, asked, valid>>
listVars  == <<shown, twin>>
loopVars  == <<key, timers, remembered>>
vars == <<agentVars, token, listVars, loopVars, loaded, refreshing, calls, faults, missed>>

Server == INSTANCE JobContract
    WITH Previews <- {}, Spooled <- {}, printed <- [j \in Jobs |-> {}], complete <- [j \in Jobs |-> {}]

States  == {"queued", "printing", "succeeded", "failed", "unknown", "canceled"}
Active  == {"queued", "printing"}
Settled == States \ Active
None    == [j \in Jobs |-> "absent"]

Init ==
    /\ Server!Init
    /\ valid = 0 /\ token = 0
    /\ shown = None /\ twin = [j \in Jobs |-> FALSE]
    /\ key = [j \in Jobs |-> "off"] /\ timers = [j \in Jobs |-> 0] /\ remembered = 0
    /\ loaded = FALSE /\ refreshing = "health" /\ calls = {} /\ faults = 0 /\ missed = FALSE

\* A call is `open` as long as the page that made it is there to see its answer.
Request(op, j) ==
    [op |-> op, job |-> j, token |-> token, answer |-> "pending", seen |-> None, open |-> TRUE]

-----------------------------------------------------------------------------
(* The agent.                                                              *)

NewJobs == {j \in Jobs : state[j] = "absent"}

\* list_jobs_for_client: the active jobs, and the others unless they are old: the limit is
\* reached by newer ones, those outside the model included.
Listing(old) == [j \in Jobs |-> IF j \in old /\ state[j] \notin Active THEN "absent" ELSE state[j]]

Pending(c, op) ==
    /\ c \in calls /\ c.op = op /\ c.answer = "pending"
    /\ op \notin {"pair", "fragment"} => c.token = valid

Answer(c, a) == calls' = (calls \ {c}) \cup (IF c.open THEN {a} ELSE {})

Tell(c, seen) == Answer(c, [c EXCEPT !.answer = "ok", !.seen = seen])

Turn(c) == Tell(c, [None EXCEPT ![c.job] = state'[c.job]])

\* An answer of 401. Of the two requests of a refresh, the one for the printers may meet
\* it after the one for the jobs was answered.
Deny(c) ==
    /\ c \in calls /\ c.token # valid
    /\ IF c.op = "list" THEN c.answer \in {"pending", "ok"}
                        ELSE c.answer = "pending" /\ c.op \notin {"pair", "fragment"}
    /\ Answer(c, [c EXCEPT !.answer = "denied", !.seen = None])
    /\ UNCHANGED agentVars

HandleRead(c) ==
    /\ \/ Pending(c, "list") /\ \E old \in SUBSET Jobs : Tell(c, Listing(old))
       \/ Pending(c, "poll") /\ Tell(c, [None EXCEPT ![c.job] = state[c.job]])
    /\ UNCHANGED agentVars

HandleRetry(c) ==
    /\ Pending(c, "retry")
    /\ \/ Server!Retry(c.job) /\ Turn(c)
       \/ /\ state[c.job] \notin {"failed", "unknown"} \/ asked[c.job] >= MaxAttempts
          /\ Answer(c, [c EXCEPT !.answer = "error"])
          /\ UNCHANGED <<state, asked>>
    /\ UNCHANGED valid

\* Broken: the answer does not ask whether the job was still queued.
HandleCancel_Unchecked(c) ==
    /\ Pending(c, "cancel")
    /\ Server!Cancel(c.job) \/ UNCHANGED <<state, asked>>
    /\ Tell(c, [None EXCEPT ![c.job] = "canceled"])
    /\ UNCHANGED valid

HandleCancel(c) ==
    /\ Pending(c, "cancel")
    /\ \/ Server!Cancel(c.job) /\ Turn(c)
       \/ /\ state[c.job] # "queued"
          /\ Answer(c, [c EXCEPT !.answer = "error"])
          /\ UNCHANGED <<state, asked>>
    /\ UNCHANGED valid

HandleCreate(c) ==
    /\ Pending(c, "create")
    /\ \E j \in NewJobs :
           /\ Server!Create(j)
           /\ Answer(c, [c EXCEPT !.answer = "ok", !.job = j, !.seen[j] = state'[j]])
    /\ UNCHANGED valid

HandlePair(c) ==
    /\ Pending(c, "pair") \/ Pending(c, "fragment")
    /\ valid' = valid + 1
    /\ Answer(c, [c EXCEPT !.answer = "ok", !.token = valid + 1])
    /\ UNCHANGED <<state, asked>>

Handle(c) ==
    /\ \/ Deny(c) \/ HandleRead(c) \/ HandleRetry(c) \/ HandleCancel(c) \/ HandleCreate(c)
       \/ HandlePair(c)
    /\ UNCHANGED <<token, listVars, loopVars, loaded, refreshing, faults, missed>>

Work ==
    /\ \E j \in Jobs : Server!Start(j) \/ Server!Succeed(j) \/ Server!Fail(j)
    /\ UNCHANGED <<valid, token, listVars, loopVars, loaded, refreshing, calls, faults, missed>>

Fault == faults < MaxFaults /\ faults' = faults + 1

\* The agent starts anew.
Restart ==
    /\ Server!Interrupt
    /\ Fault
    /\ UNCHANGED <<valid, token, listVars, loopVars, loaded, refreshing, calls, missed>>

\* A call fails before or after the agent has handled it.
Lose(c) ==
    /\ c \in calls /\ c.open /\ c.answer # "error"
    /\ Fault
    /\ calls' = (calls \ {c}) \cup {[c EXCEPT !.answer = "error", !.seen = None]}
    /\ UNCHANGED <<agentVars, token, listVars, loopVars, loaded, refreshing, missed>>

-----------------------------------------------------------------------------
(* The page. An api() call without a token throws, and one that is denied  *)
(* clears the token, whichever it was sent with.                           *)

\* Broken: a loop whose timer id is still null is taken for none.
Polled_ByTimer(k, j) == k[j] = "timer"

Polled(k, j) == k[j] # "off"

\* watchJob for each of these, after others and with the timers in k.
Watch(S, k, others) ==
    LET new == IF token' = 0 THEN {} ELSE {j \in S : ~Polled(k, j)}
    IN  /\ key' = [j \in Jobs |-> IF j \in new THEN "first" ELSE k[j]]
        /\ calls' = others \cup {[Request("poll", j) EXCEPT !.token = token'] : j \in new}

\* Broken: only the remembered job is followed.
ToWatch_Remembered == {j \in Jobs : j = remembered' /\ shown'[j] # "absent"}

\* activeJobIds
ToWatch == {j \in Jobs : \/ shown'[j] \in Active \/ twin'[j]
                         \/ j = remembered' /\ shown'[j] # "absent"}

Unsent == <<agentVars, token, listVars, loopVars, loaded, faults>>

\* A click on Refresh, or the event of a new fragment.
Refresh ==
    /\ refreshing = "off"
    /\ refreshing' = "health"
    /\ UNCHANGED <<Unsent, calls, missed>>

RoomLeft == Cardinality(calls) < MaxCalls

PairsLeft == valid + Cardinality({c \in calls : c.op \in {"pair", "fragment"}}) < MaxPairs

\* /health is answered; a code of the fragment goes first.
Healthy ==
    /\ refreshing = "health"
    /\ RoomLeft
    /\ \/ /\ PairsLeft
          /\ refreshing' = "pair" /\ calls' = calls \cup {Request("fragment", 0)}
       \/ /\ token = 0
          /\ refreshing' = "off" /\ UNCHANGED calls
       \/ /\ token # 0
          /\ refreshing' = "list" /\ calls' = calls \cup {Request("list", 0)}
    /\ UNCHANGED <<Unsent, missed>>

Unhealthy ==
    /\ refreshing = "health" /\ Fault
    /\ refreshing' = "off" /\ missed' = TRUE
    /\ UNCHANGED <<agentVars, token, listVars, loopVars, loaded, calls>>

\* A click: another of the same is possible only once the first was handled.
Click(c) ==
    /\ token # 0 /\ RoomLeft
    /\ calls' = calls \cup {c}
    /\ UNCHANGED <<Unsent, refreshing, missed>>

ClickRetry(j)  == shown[j] \in {"failed", "unknown"} /\ Click(Request("retry", j))
ClickCancel(j) == shown[j] = "queued" /\ Click(Request("cancel", j))
ClickCreate ==
    /\ loaded
    /\ Cardinality({c \in calls : c.op = "create" /\ c.answer = "pending"}) < Cardinality(NewJobs)
    /\ Click(Request("create", 0))

\* The form of the overlay.
EnterCode ==
    /\ PairsLeft /\ RoomLeft
    /\ calls' = calls \cup {[Request("pair", 0) EXCEPT !.token = 0]}
    /\ UNCHANGED <<Unsent, refreshing, missed>>

Tick(j) ==
    /\ timers[j] > 0
    /\ timers' = [timers EXCEPT ![j] = @ - 1]
    /\ IF token = 0 THEN key' = [key EXCEPT ![j] = "off"] /\ UNCHANGED calls
                    ELSE calls' = calls \cup {Request("poll", j)} /\ UNCHANGED key
    /\ UNCHANGED <<agentVars, token, listVars, remembered, loaded, refreshing, faults, missed>>

Reload ==
    /\ Fault
    /\ shown' = None /\ twin' = [j \in Jobs |-> FALSE]
    /\ key' = [j \in Jobs |-> "off"] /\ timers' = [j \in Jobs |-> 0]
    /\ loaded' = FALSE /\ refreshing' = "health" /\ missed' = FALSE
    /\ calls' = {[c EXCEPT !.open = FALSE] : c \in
                     {c \in calls : c.answer = "pending" /\ c.op \notin {"list", "poll"}}}
    /\ UNCHANGED <<agentVars, token, remembered>>

-----------------------------------------------------------------------------
(* Answers.                                                                *)

Arrive(c, op, answer) ==
    /\ c \in calls /\ c.open /\ c.op = op /\ c.answer = answer
    /\ loaded' = (loaded \/ <<op, answer>> = <<"list", "ok">>)
    /\ UNCHANGED <<agentVars, faults>>

Others(c) == calls \ {c}

\* replaceJob, and the same in poll.
Replace(c) ==
    /\ shown' = [shown EXCEPT ![c.job] = c.seen[c.job]]
    /\ UNCHANGED twin

\* jobs.unshift, whether or not a list has shown the job already.
Unshift(c) ==
    /\ shown' = [shown EXCEPT ![c.job] = c.seen[c.job]]
    /\ twin' = [twin EXCEPT ![c.job] = shown[c.job] \in Active]

\* If a preview is listed, its document is loaded before the loops start.
Listed(c) ==
    /\ Arrive(c, "list", "ok")
    /\ shown' = c.seen /\ twin' = [j \in Jobs |-> FALSE]
    /\ missed' = FALSE
    /\ UNCHANGED <<token, timers, remembered>>
    /\ \/ refreshing' = "preview" /\ calls' = Others(c) /\ UNCHANGED key
       \/ refreshing' = "off" /\ Watch(ToWatch, key, Others(c))

\* loadPreviewDocument, which may fail, has ended.
Previewed ==
    /\ refreshing = "preview" /\ refreshing' = "off"
    /\ token' \in {token} \cup (IF token # valid THEN {0} ELSE {})
    /\ UNCHANGED <<agentVars, listVars, timers, remembered, loaded, faults, missed>>
    /\ Watch(ToWatch, key, calls)

NotListed(c) ==
    /\ \/ Arrive(c, "list", "denied") /\ token' = 0
       \/ Arrive(c, "list", "error") /\ UNCHANGED token
    /\ refreshing' = "off" /\ missed' = TRUE /\ calls' = Others(c)
    /\ UNCHANGED <<listVars, loopVars>>

Followed(c) ==
    /\ Arrive(c, "poll", "ok") /\ c.seen[c.job] \in Active
    /\ Replace(c)
    /\ key' = [key EXCEPT ![c.job] = "timer"]
    /\ timers' = [timers EXCEPT ![c.job] = @ + 1]
    /\ calls' = Others(c)
    /\ UNCHANGED <<token, remembered, refreshing, missed>>

Ended(c) ==
    /\ Arrive(c, "poll", "ok") /\ c.seen[c.job] \in Settled
    /\ Replace(c)
    /\ remembered' = IF remembered = c.job THEN 0 ELSE remembered
    /\ UNCHANGED <<token, timers, refreshing, missed>>
    /\ Watch(ToWatch, [key EXCEPT ![c.job] = "off"], Others(c))

\* Broken: a failing request ends the loop.
GivesUp_Always == TRUE

GivesUp == token' = 0

NotPolled(c) ==
    /\ \/ Arrive(c, "poll", "denied") /\ token' = 0
       \/ Arrive(c, "poll", "error") /\ UNCHANGED token
    /\ IF GivesUp
       THEN key' = [key EXCEPT ![c.job] = "off"] /\ UNCHANGED timers
       ELSE /\ key' = [key EXCEPT ![c.job] = "timer"]
            /\ timers' = [timers EXCEPT ![c.job] = @ + 1]
    /\ calls' = Others(c)
    /\ UNCHANGED <<listVars, remembered, refreshing, missed>>

Retried(c) ==
    /\ Arrive(c, "retry", "ok")
    /\ Replace(c)
    /\ UNCHANGED <<token, timers, remembered, refreshing, missed>>
    /\ Watch({c.job}, key, Others(c))

Canceled(c) ==
    /\ Arrive(c, "cancel", "ok")
    /\ Replace(c)
    /\ calls' = Others(c)
    /\ UNCHANGED <<token, loopVars, refreshing, missed>>

Created(c) ==
    /\ Arrive(c, "create", "ok")
    /\ Unshift(c)
    /\ remembered' = c.job
    /\ UNCHANGED <<token, timers, refreshing, missed>>
    /\ Watch({c.job}, key, Others(c))

Failed(c) ==
    /\ \E op \in {"retry", "cancel", "create"} :
           \/ Arrive(c, op, "denied") /\ token' = 0
           \/ Arrive(c, op, "error") /\ UNCHANGED token
    /\ calls' = Others(c)
    /\ UNCHANGED <<listVars, loopVars, refreshing, missed>>

\* The form refreshes after it has paired, unless a refresh is under way; the fragment
\* is part of one.
Paired(c) ==
    /\ token' = c.token
    /\ \/ /\ Arrive(c, "pair", "ok")
          /\ refreshing' = IF refreshing = "off" THEN "health" ELSE refreshing
          /\ calls' = Others(c)
       \/ /\ Arrive(c, "fragment", "ok")
          /\ refreshing' = "list"
          /\ calls' = Others(c) \cup {[Request("list", 0) EXCEPT !.token = token']}
    /\ UNCHANGED <<listVars, loopVars, missed>>

NotPaired(c) ==
    /\ \/ Arrive(c, "pair", "error") /\ UNCHANGED <<refreshing, missed>>
       \/ Arrive(c, "fragment", "error") /\ refreshing' = "off" /\ missed' = TRUE
    /\ calls' = Others(c)
    /\ UNCHANGED <<token, listVars, loopVars>>

Receive(c) ==
    \/ Listed(c) \/ NotListed(c) \/ Followed(c) \/ Ended(c) \/ NotPolled(c)
    \/ Retried(c) \/ Canceled(c) \/ Created(c) \/ Failed(c) \/ Paired(c) \/ NotPaired(c)

User ==
    \/ Refresh \/ EnterCode \/ Reload \/ ClickCreate
    \/ \E j \in Jobs : ClickRetry(j) \/ ClickCancel(j)

Next ==
    \/ User \/ Work \/ Restart \/ Healthy \/ Unhealthy \/ Previewed
    \/ \E c \in calls : Handle(c) \/ Lose(c) \/ Receive(c)
    \/ \E j \in Jobs : Tick(j)

\* A poll is answered, its answer arrives, and a timer fires.
Polls(j) == {c \in calls : c.op = "poll" /\ c.job = j}

Fairness == \A j \in Jobs :
    /\ WF_vars(\E c \in Polls(j) : Handle(c))
    /\ WF_vars(\E c \in Polls(j) : Receive(c))
    /\ WF_vars(Tick(j))

Spec == Init /\ [][Next]_vars /\ Fairness

-----------------------------------------------------------------------------
Names == States \cup {"absent"}

Call ==
    [op : {"list", "poll", "retry", "cancel", "create", "pair", "fragment"},
     job : {0} \cup Jobs, token : 0..valid, answer : {"pending", "ok", "denied", "error"},
     seen : [Jobs -> Names], open : BOOLEAN]

TypeOK ==
    /\ state \in [Jobs -> Names] /\ asked \in [Jobs -> 0..MaxAttempts]
    /\ valid \in 0..MaxPairs /\ token \in 0..valid
    /\ shown \in [Jobs -> Names] /\ twin \in [Jobs -> BOOLEAN]
    /\ key \in [Jobs -> {"off", "first", "timer"}]
    /\ timers \in [Jobs -> 0..1] /\ remembered \in {0} \cup Jobs
    /\ refreshing \in {"off", "health", "pair", "list", "preview"}
    /\ calls \subseteq Call
    /\ faults \in 0..MaxFaults /\ loaded \in BOOLEAN /\ missed \in BOOLEAN

\* A job has one polling loop or none, whoever starts it and however late its answers
\* are: a timer or a request on its way, as pollingTimers says.
SoleLoop == \A j \in Jobs :
    timers[j] + Cardinality(Polls(j)) = IF key[j] = "off" THEN 0 ELSE 1

\* Every job the page shows as active, in the first of its entries or in another, has a
\* loop once a refresh is done: whatever order the list, the polls and the answers to the
\* clicks come in, and across lost tokens.
ShownActiveIsPolled == \A j \in Jobs :
    (shown[j] \in Active \/ twin[j]) /\ token # 0 /\ refreshing = "off" /\ ~missed => key[j] # "off"

\* A job the page shows as printed or as canceled is so, however old the answer it has that
\* from and whatever was clicked since: no entry goes wrong because answers overtake others.
ShownEndIsFinal == \A j \in Jobs : shown[j] \in {"succeeded", "canceled"} => state[j] = shown[j]

\* A loop ends only when no entry of its job is active any more, the token is lost or the
\* page is loaded: no failing request, and nothing that is done with another job, ends it.
LoopEndsForCause == [][\A j \in Jobs :
    key[j] # "off" /\ key'[j] = "off" =>
        \/ shown'[j] \in Settled /\ ~twin'[j]
        \/ token' = 0 \/ shown' = None]_vars

\* A job that is polled and has settled is soon shown as it is, through failing requests:
\* unless it is retried, the token is replaced or the page is loaded anew.
EndIsShown == \A j \in Jobs :
    (key[j] # "off" /\ state[j] \in Settled /\ asked[j] = 1) ~>
        \/ shown[j] = state[j] \/ asked[j] > 1 \/ token # valid
        \/ shown[j] = "absent" /\ key[j] = "off"

\* CHANGELOG.md:29: "every active dashboard job now keeps an independent polling loop".
\* A job of which nothing is on its way to the page, that is.
ActiveKeepsLoop == \A j \in Jobs :
    /\ state[j] \in Active /\ shown[j] # "absent" /\ token = valid
    /\ refreshing = "off" /\ ~missed /\ \A c \in calls : c.job # j
    => key[j] # "off"
=============================================================================
