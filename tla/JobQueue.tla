------------------------------ MODULE JobQueue ------------------------------
(***************************************************************************)
(* The print queue of the PrintLatch agent: the SQLite jobs table, the     *)
(* HTTP handlers that create, cancel and retry jobs, the queue worker with *)
(* its wake-up signal, the blocking print submission it waits for, and the *)
(* life of the `serve` process that hosts them.                            *)
(*                                                                         *)
(* The table, the document files, the captures and the OS spooler outlive  *)
(* a process; everything indexed by an agent dies with it. Each agent is a *)
(* slot for one `serve` process at a time, all of them on one data         *)
(* directory and one port, so a one-element Agents means that a process is *)
(* only started when its predecessor is gone.                              *)
(***************************************************************************)
EXTENDS Integers

CONSTANTS
    Jobs,         \* the job ids (fresh UUIDs) that may come into being
    Previews,     \* those created in preview mode
    Captures,     \* those printed to the capture:pdf printer
    Agents,       \* slots for `serve` processes
    NoJob,        \* no job, in a worker's hands
    Copies,       \* copies requested of an OS printer
    MaxAttempts,  \* the literal 3 of retry_job
    Seconds,      \* the wall-clock seconds in which a row can be inserted
    MaxDbErrors   \* bound: failing database calls in one behaviour

ASSUME KindAssumption == Previews \subseteq Jobs /\ Captures \subseteq Jobs \ Previews
ASSUME NoJobAssumption == NoJob \notin Jobs
ASSUME NumberAssumption ==
    /\ Copies \in Nat \ {0}
    /\ MaxAttempts \in Nat \ {0}
    /\ MaxDbErrors \in Nat
    /\ Seconds \subseteq Nat /\ Seconds # {}

VARIABLES
    \* The database.
    row,        \* jobs.state, or "absent"
    attempts,   \* jobs.attempts
    created,    \* jobs.created_at
    \* The file system and the spooler.
    file,       \* jobs/<id>.pdf: nothing yet, the .tmp file, or the document
    capture,    \* captures/<id>.pdf
    handed,     \* copies the spooler has taken, by job and attempt
    \* A process.
    proc,       \* its life cycle
    creating,   \* the create_job handlers that have no row yet
    owed,       \* handlers that changed the table and have not notified yet
    permit,     \* the Notify permit of the QueueSignal
    worker,     \* the worker task
    held,       \* the job of the submission
    try,        \* the attempts value its claim returned
    done,       \* copies submitted; for a capture, 1 once the target is opened
    thread,     \* the blocking submission
    \* Bookkeeping that is not in the code.
    retries,    \* retry requests accepted
    dbErrors    \* failing database calls so far

rowVars    == <<row, attempts, created>>
outVars    == <<capture, handed>>
reqVars    == <<creating, owed>>
threadVars == <<held, try, done, thread>>
workerVars == <<permit, worker>>
vars == <<rowVars, file, outVars, proc, reqVars, workerVars, threadVars, retries, dbErrors>>

States   == {"absent", "preview_ready", "queued", "printing",
             "succeeded", "failed", "unknown", "canceled"}
Spooled  == Jobs \ (Previews \cup Captures)
Attempts == 1..MaxAttempts

\* Processes whose handlers run: after ctrl_c the open requests are still answered.
Answering == {"serving", "stopping"}
\* Processes with a worker task. A draining one has only its submission left.
Working   == {"binding", "serving", "stopping"}

Init ==
    /\ row = [j \in Jobs |-> "absent"]
    /\ attempts = [j \in Jobs |-> 0]
    /\ created = [j \in Jobs |-> 0]
    /\ file = [j \in Jobs |-> "none"]
    /\ capture = [j \in Jobs |-> "none"]
    /\ handed = [j \in Jobs |-> [k \in Attempts |-> 0]]
    /\ proc = [a \in Agents |-> "off"]
    /\ creating = [a \in Agents |-> {}]
    /\ owed = [a \in Agents |-> 0]
    /\ permit = [a \in Agents |-> FALSE]
    /\ worker = [a \in Agents |-> "none"]
    /\ held = [a \in Agents |-> NoJob]
    /\ try = [a \in Agents |-> 0]
    /\ done = [a \in Agents |-> 0]
    /\ thread = [a \in Agents |-> "none"]
    /\ retries = [j \in Jobs |-> 0]
    /\ dbErrors = 0

DbError == dbErrors < MaxDbErrors /\ dbErrors' = dbErrors + 1

-----------------------------------------------------------------------------
(* create_job. The requests it refuses leave nothing behind; the handler   *)
(* of an accepted one has three suspension points, before each of which    *)
(* the client may hang up and the server drop it.                          *)

BeginUpload(a, j) ==
    /\ proc[a] \in Answering
    /\ file[j] = "none" /\ row[j] = "absent"
    /\ \A b \in Agents : j \notin creating[b]
    /\ creating' = [creating EXCEPT ![a] = @ \cup {j}]
    /\ file' = [file EXCEPT ![j] = "tmp"]
    /\ UNCHANGED <<rowVars, outVars, proc, owed, workerVars, threadVars, retries, dbErrors>>

RenameUpload(a, j) ==
    /\ j \in creating[a] /\ file[j] = "tmp"
    /\ file' = [file EXCEPT ![j] = "saved"]
    /\ UNCHANGED <<rowVars, outVars, proc, reqVars, workerVars, threadVars, retries, dbErrors>>

AbandonUpload(a, j) ==
    /\ j \in creating[a]
    /\ creating' = [creating EXCEPT ![a] = @ \ {j}]
    /\ UNCHANGED <<rowVars, file, outVars, proc, owed, workerVars, threadVars, retries, dbErrors>>

\* Broken: the row is inserted before the rename.
DocumentReady_Early(j) == file[j] # "none"

DocumentReady(j) == file[j] = "saved"

\* Broken: the mode is stored for the state.
InitialState_Mode(j) == IF j \in Previews THEN "preview" ELSE "queued"

InitialState(j) == IF j \in Previews THEN "preview_ready" ELSE "queued"

\* The row is inserted with any second of the clock, which may also be set back.
InsertJob(a, j) ==
    /\ j \in creating[a] /\ DocumentReady(j)
    /\ row' = [row EXCEPT ![j] = InitialState(j)]
    /\ \E t \in Seconds : created' = [created EXCEPT ![j] = t]
    /\ creating' = [creating EXCEPT ![a] = @ \ {j}]
    /\ owed' = [owed EXCEPT ![a] = IF j \in Previews THEN @ ELSE @ + 1]
    /\ UNCHANGED <<attempts, file, outVars, proc, workerVars, threadVars, retries, dbErrors>>

\* The file is removed, as far as that succeeds.
InsertJobFails(a, j) ==
    /\ j \in creating[a] /\ DocumentReady(j)
    /\ DbError
    /\ \E f \in {"none", "saved"} : file' = [file EXCEPT ![j] = f]
    /\ creating' = [creating EXCEPT ![a] = @ \ {j}]
    /\ UNCHANGED <<rowVars, outVars, proc, owed, workerVars, threadVars, retries>>

-----------------------------------------------------------------------------
(* cancel_job and retry_job: one conditional UPDATE each. What follows it  *)
(* in retry_job and create_job is the notification.                        *)

\* Broken: the UPDATE does not look at the state it leaves.
MayCancel_Printing(j) == row[j] \in {"queued", "printing"}

MayCancel(j) == row[j] = "queued"

CancelJob(a, j) ==
    /\ proc[a] \in Answering
    /\ MayCancel(j)
    /\ row' = [row EXCEPT ![j] = "canceled"]
    /\ UNCHANGED <<attempts, created, file, outVars, proc, reqVars, workerVars, threadVars,
                   retries, dbErrors>>

\* Broken: every job that is not under way can be retried.
MayRetry_Canceled(j) == row[j] \in {"failed", "unknown", "canceled"} /\ attempts[j] < MaxAttempts

MayRetry(j) == row[j] \in {"failed", "unknown"} /\ attempts[j] < MaxAttempts

RetryJob(a, j) ==
    /\ proc[a] \in Answering
    /\ MayRetry(j)
    /\ row' = [row EXCEPT ![j] = "queued"]
    /\ retries' = [retries EXCEPT ![j] = @ + 1]
    /\ owed' = [owed EXCEPT ![a] = @ + 1]
    /\ UNCHANGED <<attempts, created, file, outVars, proc, creating, workerVars, threadVars,
                   dbErrors>>

\* Broken: notify_waiters, which stores no permit.
NotifyQueue_Waiters(a) ==
    /\ owed[a] > 0
    /\ owed' = [owed EXCEPT ![a] = @ - 1]
    /\ permit' = [permit EXCEPT ![a] = worker[a] = "waiting"]
    /\ UNCHANGED <<rowVars, file, outVars, proc, creating, worker, threadVars, retries, dbErrors>>

NotifyQueue(a) ==
    /\ owed[a] > 0
    /\ owed' = [owed EXCEPT ![a] = @ - 1]
    /\ permit' = [permit EXCEPT ![a] = TRUE]
    /\ UNCHANGED <<rowVars, file, outVars, proc, creating, worker, threadVars, retries, dbErrors>>

-----------------------------------------------------------------------------
(* worker::run.                                                            *)

\* The rows the subquery of claim_next_job may return; it does not order a tie.
Oldest == {j \in Jobs : /\ row[j] = "queued"
                        /\ \A i \in Jobs : row[i] = "queued" => created[j] <= created[i]}

\* Broken: the attempt is counted when it ends.
ClaimJob_Uncounted(a, j) ==
    /\ worker[a] = "claiming"
    /\ j \in Oldest
    /\ row' = [row EXCEPT ![j] = "printing"]
    /\ worker' = [worker EXCEPT ![a] = "awaiting"]
    /\ held' = [held EXCEPT ![a] = j]
    /\ try' = [try EXCEPT ![a] = attempts[j] + 1]
    /\ done' = [done EXCEPT ![a] = 0]
    /\ thread' = [thread EXCEPT ![a] = "running"]
    /\ UNCHANGED <<attempts, created, file, outVars, proc, reqVars, permit, retries, dbErrors>>

ClaimJob(a, j) ==
    /\ worker[a] = "claiming"
    /\ j \in Oldest
    /\ row' = [row EXCEPT ![j] = "printing"]
    /\ attempts' = [attempts EXCEPT ![j] = @ + 1]
    /\ worker' = [worker EXCEPT ![a] = "awaiting"]
    /\ held' = [held EXCEPT ![a] = j]
    /\ try' = [try EXCEPT ![a] = attempts[j] + 1]
    /\ done' = [done EXCEPT ![a] = 0]
    /\ thread' = [thread EXCEPT ![a] = "running"]
    /\ UNCHANGED <<created, file, outVars, proc, reqVars, permit, retries, dbErrors>>

ClaimNothing(a) ==
    /\ worker[a] = "claiming"
    /\ \A j \in Jobs : row[j] # "queued"
    /\ worker' = [worker EXCEPT ![a] = "parking"]
    /\ UNCHANGED <<rowVars, file, outVars, proc, reqVars, permit, threadVars, retries, dbErrors>>

\* The select is polled: from here on the worker is in the signal's list of waiters.
Park(a) ==
    /\ worker[a] = "parking"
    /\ worker' = [worker EXCEPT ![a] = "waiting"]
    /\ UNCHANGED <<rowVars, file, outVars, proc, reqVars, permit, threadVars, retries, dbErrors>>

\* Broken: an error of claim_next_job ends the loop.
ClaimFails_Ends(a) ==
    /\ worker[a] = "claiming"
    /\ DbError
    /\ worker' = [worker EXCEPT ![a] = "none"]
    /\ UNCHANGED <<rowVars, file, outVars, proc, reqVars, permit, threadVars, retries>>

ClaimFails(a) ==
    /\ worker[a] = "claiming"
    /\ DbError
    /\ worker' = [worker EXCEPT ![a] = "backoff"]
    /\ UNCHANGED <<rowVars, file, outVars, proc, reqVars, permit, threadVars, retries>>

\* notified() resolves and takes the permit.
SignalArrives(a) ==
    /\ worker[a] = "waiting" /\ permit[a]
    /\ permit' = [permit EXCEPT ![a] = FALSE]
    /\ worker' = [worker EXCEPT ![a] = "claiming"]
    /\ UNCHANGED <<rowVars, file, outVars, proc, reqVars, threadVars, retries, dbErrors>>

\* The 5 s sleep beside the signal, and the 2 s sleep after a failing claim.
TimerFires(a) ==
    /\ worker[a] \in {"waiting", "backoff"}
    /\ worker' = [worker EXCEPT ![a] = "claiming"]
    /\ UNCHANGED <<rowVars, file, outVars, proc, reqVars, permit, threadVars, retries, dbErrors>>

\* Broken: finish_job without "AND state = 'printing'".
AfterFinish_Blind(s, result) == IF result = "ok" THEN "succeeded" ELSE "failed"

\* Broken: a failing submission is only logged.
AfterFinish_OkOnly(s, result) == IF s = "printing" /\ result = "ok" THEN "succeeded" ELSE s

AfterFinish(s, result) ==
    IF s # "printing" THEN s ELSE IF result = "ok" THEN "succeeded" ELSE "failed"

\* finish_job is a conditional UPDATE of the row of the id, whatever its attempt.
FinishJob(a) ==
    /\ worker[a] = "awaiting" /\ thread[a] \in {"ok", "error"}
    /\ \/ row' = [row EXCEPT ![held[a]] = AfterFinish(@, thread[a])] /\ UNCHANGED dbErrors
       \/ DbError /\ UNCHANGED row
    /\ worker' = [worker EXCEPT ![a] = "claiming"]
    /\ held' = [held EXCEPT ![a] = NoJob]
    /\ thread' = [thread EXCEPT ![a] = "none"]
    /\ UNCHANGED <<attempts, created, file, outVars, proc, reqVars, permit, try, done, retries>>

-----------------------------------------------------------------------------
(* printers::submit, on its blocking thread.                               *)

\* Broken: for copy in 1..copies.
LastCopy_Short(n) == n + 1 >= Copies

LastCopy(n) == n = Copies

HandCopy(a) ==
    /\ thread[a] = "running" /\ held[a] \in Spooled
    /\ done' = [done EXCEPT ![a] = @ + 1]
    /\ handed' = [handed EXCEPT ![held[a]][try[a]] = @ + 1]
    /\ thread' = [thread EXCEPT ![a] = IF LastCopy(done[a] + 1) THEN "ok" ELSE "running"]
    /\ UNCHANGED <<rowVars, file, capture, proc, reqVars, workerVars, held, try, retries, dbErrors>>

\* fs::copy opens and truncates the target under its final name ...
OpenCapture(a) ==
    /\ thread[a] = "running" /\ held[a] \in Captures /\ done[a] = 0
    /\ done' = [done EXCEPT ![a] = 1]
    /\ capture' = [capture EXCEPT ![held[a]] = "partial"]
    /\ UNCHANGED <<rowVars, file, handed, proc, reqVars, workerVars, held, try, thread,
                   retries, dbErrors>>

WritingToo(a) == \E b \in Agents \ {a} : /\ thread[b] = "running" /\ done[b] = 1
                                         /\ held[b] = held[a]

\* ... and then fills it. With two writers the first to end may leave a torn file.
FillCapture(a) ==
    /\ thread[a] = "running" /\ held[a] \in Captures /\ done[a] = 1
    /\ \E c \in IF WritingToo(a) THEN {"partial", "whole"} ELSE {"whole"} :
           capture' = [capture EXCEPT ![held[a]] = c]
    /\ thread' = [thread EXCEPT ![a] = "ok"]
    /\ UNCHANGED <<rowVars, file, handed, proc, reqVars, workerVars, held, try, done,
                   retries, dbErrors>>

\* The printer is gone, a copy is refused, the copy of the file fails, or the
\* thread panics: the copies handed over before that stay handed over.
SubmitFails(a) ==
    /\ thread[a] = "running"
    /\ thread' = [thread EXCEPT ![a] = "error"]
    /\ UNCHANGED <<rowVars, file, outVars, proc, reqVars, workerVars, held, try, done,
                   retries, dbErrors>>

-----------------------------------------------------------------------------
(* serve.                                                                  *)

\* Broken: the interrupted job is replayed.
AfterRestart_Requeue(s) == IF s = "printing" THEN "queued" ELSE s

\* Broken: no recovery.
AfterRestart_None(s) == s

AfterRestart(s) == IF s = "printing" THEN "unknown" ELSE s

\* Recovery and the start of the worker, both before the port is bound. If recovery
\* fails, the process ends there, as if it had not been started.
Launch(a) ==
    /\ proc[a] = "off"
    /\ proc' = [proc EXCEPT ![a] = "binding"]
    /\ row' = [j \in Jobs |-> AfterRestart(row[j])]
    /\ worker' = [worker EXCEPT ![a] = "claiming"]
    /\ UNCHANGED <<attempts, created, file, outVars, reqVars, permit, threadVars, retries, dbErrors>>

\* A stopping process has closed its listener.
PortFree == \A b \in Agents : proc[b] # "serving"

Bind(a) ==
    /\ proc[a] = "binding" /\ PortFree
    /\ proc' = [proc EXCEPT ![a] = "serving"]
    /\ UNCHANGED <<rowVars, file, outVars, reqVars, workerVars, threadVars, retries, dbErrors>>

ForgetSubmission(a) ==
    /\ held' = [held EXCEPT ![a] = NoJob]
    /\ thread' = [thread EXCEPT ![a] = "none"]
    /\ UNCHANGED <<try, done>>

\* Dropping the runtime drops the worker task at its await, cancels a submission
\* that no thread has started, and waits for one that runs.
DropRuntime(a) ==
    /\ worker' = [worker EXCEPT ![a] = "none"]
    /\ permit' = [permit EXCEPT ![a] = FALSE]
    /\ \/ /\ thread[a] = "running"
          /\ proc' = [proc EXCEPT ![a] = "draining"]
          /\ UNCHANGED threadVars
       \/ /\ thread[a] = "running" => done[a] = 0
          /\ proc' = [proc EXCEPT ![a] = "off"]
          /\ ForgetSubmission(a)

BindFails(a) ==
    /\ proc[a] = "binding" /\ ~PortFree
    /\ DropRuntime(a)
    /\ UNCHANGED <<rowVars, file, outVars, reqVars, retries, dbErrors>>

\* ctrl_c on a serving agent.
ShutDown(a) ==
    /\ proc[a] = "serving"
    /\ proc' = [proc EXCEPT ![a] = "stopping"]
    /\ UNCHANGED <<rowVars, file, outVars, reqVars, workerVars, threadVars, retries, dbErrors>>

\* The graceful shutdown has seen its last open request answered.
Stop(a) ==
    /\ proc[a] = "stopping" /\ creating[a] = {} /\ owed[a] = 0
    /\ DropRuntime(a)
    /\ UNCHANGED <<rowVars, file, outVars, reqVars, retries, dbErrors>>

\* The submission a dropped runtime waits for ends, and nobody takes its result.
Exit(a) ==
    /\ proc[a] = "draining" /\ thread[a] \in {"ok", "error"}
    /\ proc' = [proc EXCEPT ![a] = "off"]
    /\ ForgetSubmission(a)
    /\ UNCHANGED <<rowVars, file, outVars, reqVars, workerVars, retries, dbErrors>>

\* The process is killed, loses power, or aborts on a panic.
Crash(a) ==
    /\ proc[a] # "off"
    /\ proc' = [proc EXCEPT ![a] = "off"]
    /\ creating' = [creating EXCEPT ![a] = {}]
    /\ owed' = [owed EXCEPT ![a] = 0]
    /\ permit' = [permit EXCEPT ![a] = FALSE]
    /\ worker' = [worker EXCEPT ![a] = "none"]
    /\ ForgetSubmission(a)
    /\ UNCHANGED <<rowVars, file, outVars, retries, dbErrors>>

-----------------------------------------------------------------------------
Submit(a) == HandCopy(a) \/ OpenCapture(a) \/ FillCapture(a) \/ SubmitFails(a)

Claim(a) == (\E j \in Jobs : ClaimJob(a, j)) \/ ClaimNothing(a)

Request(a, j) ==
    \/ BeginUpload(a, j) \/ RenameUpload(a, j) \/ AbandonUpload(a, j)
    \/ InsertJob(a, j) \/ InsertJobFails(a, j)
    \/ CancelJob(a, j) \/ RetryJob(a, j)

Work(a) ==
    \/ Claim(a) \/ ClaimFails(a) \/ Park(a) \/ SignalArrives(a) \/ TimerFires(a) \/ FinishJob(a)

Live(a) == Launch(a) \/ Bind(a) \/ BindFails(a) \/ ShutDown(a) \/ Stop(a) \/ Exit(a) \/ Crash(a)

Next == \E a \in Agents :
    (\E j \in Jobs : Request(a, j)) \/ NotifyQueue(a) \/ Work(a) \/ Submit(a) \/ Live(a)

Spec == Init /\ [][Next]_vars

\* The runtime polls a ready task, a sleep ends, a handler that has committed runs
\* on to its notification, and an OS submission returns. Nothing makes a user
\* start or stop an agent, or a client send a request.
Fairness == \A a \in Agents :
    /\ WF_vars(Claim(a)) /\ WF_vars(Park(a))
    /\ WF_vars(SignalArrives(a)) /\ WF_vars(TimerFires(a))
    /\ WF_vars(FinishJob(a)) /\ WF_vars(Submit(a)) /\ WF_vars(NotifyQueue(a))
    /\ WF_vars(Bind(a) \/ BindFails(a))

FairSpec == Spec /\ Fairness

-----------------------------------------------------------------------------
(* What holds whatever runs beside what.                                   *)

\* The shape of the table, the files and the processes.
TypeOK ==
    /\ row \in [Jobs -> States]
    /\ attempts \in [Jobs -> 0..MaxAttempts]
    /\ created \in [Jobs -> Nat]
    /\ file \in [Jobs -> {"none", "tmp", "saved"}]
    /\ capture \in [Jobs -> {"none", "partial", "whole"}]
    /\ handed \in [Jobs -> [Attempts -> 0..Copies]]
    /\ proc \in [Agents -> Working \cup {"off", "draining"}]
    /\ creating \in [Agents -> SUBSET Jobs]
    /\ owed \in [Agents -> Nat]
    /\ permit \in [Agents -> BOOLEAN]
    /\ worker \in [Agents -> {"none", "claiming", "parking", "waiting", "backoff", "awaiting"}]
    /\ held \in [Agents -> Jobs \cup {NoJob}]
    /\ try \in [Agents -> 0..MaxAttempts]
    /\ done \in [Agents -> 0..Copies]
    /\ thread \in [Agents -> {"none", "running", "ok", "error"}]
    /\ retries \in [Jobs -> Nat]
    /\ dbErrors \in 0..MaxDbErrors

\* States a job is in between its claim and the next retry.
Claimed == {"printing", "succeeded", "failed", "unknown"}

\* Every attempt but the first was asked for by an accepted retry, and retries stop
\* at the cap: no crash, restart, shutdown or second process starts one by itself.
AttemptAccounting == \A j \in Jobs :
    /\ attempts[j] = retries[j] + (IF row[j] \in Claimed THEN 1 ELSE 0)
    /\ attempts[j] <= MaxAttempts

\* The spooler never gets a copy of a job beyond those of its first attempt and of
\* the retries the client asked for.
ReplayNeedsRetry == \A j \in Jobs : \A k \in Attempts :
    handed[j][k] > 0 => k <= 1 + retries[j]

\* Two submissions that run at once, in two processes, are never the same attempt.
AttemptSubmittedOnce == \A a, b \in Agents :
    a # b /\ held[a] # NoJob /\ held[a] = held[b] => try[a] # try[b]

\* The attempt that a cancel takes from the queue has no output, then or ever after: what
\* a canceled job has printed is of attempts its client has retried since.
CanceledIsUnsubmitted == \A j \in Jobs : \A k \in Attempts :
    row[j] = "canceled" /\ handed[j][k] > 0 => k <= retries[j]

\* A row never refers to a document that is missing or half-written, whichever of
\* the file and database steps fail, are dropped or are cut short by a crash.
RowHasDocument == \A j \in Jobs : row[j] # "absent" => file[j] = "saved"

\* A job that reads succeeded did reach the spooler in full, in one of its attempts.
SuccessIsComplete == \A j \in Spooled :
    row[j] = "succeeded" => \E k \in Attempts : handed[j][k] = Copies

\* A settled job stays as it is, except that an accepted retry requeues a failed or
\* interrupted one: no late result, recovery or cancel touches it.
SettledNeedsRetry == [][\A j \in Jobs :
    /\ row[j] \in {"succeeded", "canceled", "preview_ready"} => row'[j] = row[j]
    /\ row[j] \in {"failed", "unknown"} /\ row'[j] # row[j] =>
           row'[j] = "queued" /\ retries'[j] = retries[j] + 1]_vars

-----------------------------------------------------------------------------
(* What holds when a process is only started after its predecessor is gone *)
(* (a one-element Agents).                                                 *)

\* The job a worker waits for is the row's current attempt, so that finish_job,
\* which only looks at the id, records the outcome of the attempt it belongs to.
SubmissionOwnsRow == \A a \in Agents :
    worker[a] = "awaiting" => row[held[a]] = "printing" /\ attempts[held[a]] = try[a]

\* A job has output while it reads printing and at no other time: not from a submission
\* that a shutdown, a restart or a cancel has overtaken.
OutputOnlyInPrinting == [][\A j \in Jobs :
    handed'[j] # handed[j] \/ capture'[j] # capture[j] => row[j] = "printing"]_vars

\* The state a client reads agrees with what the printer got: all copies of the
\* last attempt, or the whole capture, if it succeeded; not all of them if it failed.
OutcomeIsTrue == \A j \in Jobs :
    /\ row[j] = "succeeded" => \/ j \in Captures /\ capture[j] = "whole"
                               \/ j \in Spooled /\ handed[j][attempts[j]] = Copies
    /\ row[j] = "failed" /\ j \in Spooled => handed[j][attempts[j]] < Copies

\* While a worker runs, a printing job is the one it waits for, unless the database
\* refused to store an outcome: no job is left in a state nobody will end.
PrintingIsHeld == \A a \in Agents, j \in Jobs :
    proc[a] \in Working /\ row[j] = "printing" /\ dbErrors = 0 =>
        worker[a] = "awaiting" /\ held[a] = j

\* A worker that waits, or is about to, with a job to do has a wake-up stored or on its way: the 5 s
\* timer is not needed to start a job.
NoLostWakeup == \A a \in Agents :
    worker[a] \in {"parking", "waiting"} /\ (\E j \in Jobs : row[j] = "queued") =>
        permit[a] \/ owed[a] > 0

\* A queued job is eventually taken by the worker, or canceled, if the process lives.
QueuedIsTaken == \A a \in Agents, j \in Jobs :
    row[j] = "queued" /\ proc[a] \in Working ~> row[j] # "queued" \/ proc[a] \notin Working

\* A printing job eventually has an outcome, if the process lives and the database works.
PrintingEnds == \A a \in Agents, j \in Jobs :
    row[j] = "printing" /\ proc[a] \in Working ~>
        row[j] # "printing" \/ proc[a] \notin Working \/ dbErrors > 0

-----------------------------------------------------------------------------
Asked == [j \in Jobs |-> IF row[j] = "absent" \/ j \in Previews THEN 0 ELSE 1 + retries[j]]
Printed == [j \in Jobs |-> {k \in Attempts : handed[j][k] > 0}]
Complete == [j \in Jobs |-> {k \in Attempts : handed[j][k] = Copies}]

Contract == INSTANCE JobContract
            WITH state <- row, asked <- Asked, printed <- Printed, complete <- Complete

\* Handlers, workers, submissions and restarts, of however many processes, together do
\* nothing to a job but what its client is promised.
MeetsContract == Contract!Spec

-----------------------------------------------------------------------------
(* What the documentation says and the code does not always do.            *)

\* "Canceled before submission started" (README.md).
CanceledBeforeSubmission == \A j \in Spooled :
    row[j] = "canceled" => \A k \in Attempts : handed[j][k] = 0

\* "the single local worker" (README.md): one submission at a time.
SingleSubmission == \A a, b \in Agents :
    a # b => ~(thread[a] = "running" /\ thread[b] = "running")

\* "Interrupted submissions become unknown" (README.md): while an agent serves and the
\* database works, a printing job is one that some process is submitting.
InterruptedBecomesUnknown == \A j \in Jobs :
    row[j] = "printing" /\ (\E a \in Agents : proc[a] = "serving") =>
        \E b \in Agents : held[b] = j

\* "writes the accepted PDF atomically to the captures directory" (docs/architecture.md):
\* a torn capture is never left behind under its final name.
CaptureIsAtomic == \A j \in Captures :
    capture[j] = "partial" => \E a \in Agents : thread[a] = "running" /\ held[a] = j
=============================================================================
