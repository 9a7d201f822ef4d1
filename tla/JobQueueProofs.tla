--------------------------- MODULE JobQueueProofs ---------------------------
(***************************************************************************)
(* Proofs about the print queue, for any jobs, agents, copies and caps.    *)
(*                                                                         *)
(* The safety properties hold because a submission is tied to one attempt: *)
(* the attempts column only grows, so an attempt number handed out by a    *)
(* claim is never handed out again, and its holder is the only writer of   *)
(* its share of the output. IInv says this, together with the accounting   *)
(* of attempts and the order of the file and database steps.               *)
(***************************************************************************)
EXTENDS JobQueue, TLAPS

\* A queued job may be claimed once more within the cap, and a fresh one has no past.
Budget == \A j \in Jobs : row[j] \in {"absent", "queued"} => attempts[j] < MaxAttempts

\* No output belongs to an attempt that has not been claimed.
Untouched == \A j \in Jobs : \A k \in Attempts : k > attempts[j] => handed[j][k] = 0

\* Each upload has one handler, its file is on its way and its row is not there.
Uploads == \A a \in Agents : \A j \in creating[a] :
    /\ row[j] = "absent" /\ file[j] \in {"tmp", "saved"}
    /\ \A b \in Agents : j \in creating[b] => b = a

\* A submission works on a claimed attempt, and what it has handed over is what the
\* spooler has of that attempt. A worker task lives in a running process.
SubmissionOK(a) ==
    /\ proc[a] \notin Working => worker[a] = "none"
    /\ held[a] = NoJob <=> thread[a] = "none"
    /\ worker[a] = "awaiting" => thread[a] # "none"
    /\ held[a] \in Jobs => try[a] \in 1..attempts[held[a]]
    /\ held[a] \in Spooled => /\ handed[held[a]][try[a]] = done[a]
                              /\ thread[a] \in {"running", "error"} => done[a] < Copies
                              /\ thread[a] = "ok" => done[a] = Copies

Submissions == \A a \in Agents : SubmissionOK(a)

Accounts == AttemptAccounting /\ Budget /\ Untouched

IInv ==
    /\ TypeOK /\ Accounts /\ Uploads /\ Submissions
    /\ AttemptSubmittedOnce /\ RowHasDocument /\ SuccessIsComplete

USE NumberAssumption, KindAssumption, NoJobAssumption
USE DEF rowVars, outVars, reqVars, workerVars, threadVars

LEMMA InitInv == Init => IInv
  BY DEF Init, IInv, TypeOK, Accounts, AttemptAccounting, Budget, Untouched, Uploads,
         Submissions, SubmissionOK, AttemptSubmittedOnce, RowHasDocument,
         SuccessIsComplete, States, Spooled, Attempts, Claimed

-----------------------------------------------------------------------------
(* The handlers.                                                           *)

LEMMA BeginUploadKeeps ==
  ASSUME IInv, NEW a \in Agents, NEW j \in Jobs, BeginUpload(a, j)
  PROVE  IInv'
  <1>1. TypeOK'
    <2>1. creating' \in [Agents -> SUBSET Jobs]
      BY DEF IInv, TypeOK, BeginUpload
    <2> QED BY <2>1 DEF IInv, TypeOK, BeginUpload
  <1>2. Uploads' /\ RowHasDocument'
    BY DEF IInv, TypeOK, BeginUpload, Uploads, RowHasDocument
  <1> QED
    BY <1>1, <1>2 DEF IInv, BeginUpload, Accounts, AttemptAccounting, Budget, Untouched,
       Submissions, SubmissionOK, AttemptSubmittedOnce, SuccessIsComplete

LEMMA RenameUploadKeeps ==
  ASSUME IInv, NEW a \in Agents, NEW j \in Jobs, RenameUpload(a, j)
  PROVE  IInv'
  <1>1. TypeOK'
    BY DEF IInv, TypeOK, RenameUpload
  <1>2. Uploads' /\ RowHasDocument'
    BY DEF IInv, TypeOK, RenameUpload, Uploads, RowHasDocument
  <1> QED
    BY <1>1, <1>2 DEF IInv, RenameUpload, Accounts, AttemptAccounting, Budget, Untouched,
       Submissions, SubmissionOK, AttemptSubmittedOnce, SuccessIsComplete

LEMMA AbandonUploadKeeps ==
  ASSUME IInv, NEW a \in Agents, NEW j \in Jobs, AbandonUpload(a, j)
  PROVE  IInv'
  <1>1. TypeOK'
    BY DEF IInv, TypeOK, AbandonUpload
  <1>2. Uploads' /\ RowHasDocument'
    BY DEF IInv, TypeOK, AbandonUpload, Uploads, RowHasDocument
  <1> QED
    BY <1>1, <1>2 DEF IInv, AbandonUpload, Accounts, AttemptAccounting, Budget, Untouched,
       Submissions, SubmissionOK, AttemptSubmittedOnce, SuccessIsComplete

LEMMA InsertJobKeeps ==
  ASSUME IInv, NEW a \in Agents, NEW j \in Jobs, InsertJob(a, j)
  PROVE  IInv'
  <1>1. row[j] = "absent" /\ InitialState(j) \in {"preview_ready", "queued"}
    BY DEF IInv, InsertJob, Uploads, InitialState
  <1>2. TypeOK'
    <2>1. created' \in [Jobs -> Nat]
      BY DEF IInv, TypeOK, InsertJob
    <2>2. row' \in [Jobs -> States] /\ owed' \in [Agents -> Nat]
      BY <1>1 DEF IInv, TypeOK, InsertJob, States
    <2> QED BY <2>1, <2>2 DEF IInv, TypeOK, InsertJob
  <1>3. Accounts'
    BY <1>1 DEF IInv, TypeOK, InsertJob, Accounts, AttemptAccounting, Budget, Untouched, Claimed
  <1>4. Uploads' /\ RowHasDocument'
    BY DEF IInv, TypeOK, InsertJob, DocumentReady, Uploads, RowHasDocument
  <1>5. SuccessIsComplete'
    BY <1>1 DEF IInv, TypeOK, InsertJob, SuccessIsComplete, Spooled
  <1> QED
    BY <1>2, <1>3, <1>4, <1>5 DEF IInv, InsertJob, Submissions, SubmissionOK, AttemptSubmittedOnce

LEMMA InsertJobFailsKeeps ==
  ASSUME IInv, NEW a \in Agents, NEW j \in Jobs, InsertJobFails(a, j)
  PROVE  IInv'
  <1>1. TypeOK'
    <2>1. file' \in [Jobs -> {"none", "tmp", "saved"}] /\ dbErrors' \in 0..MaxDbErrors
      BY DEF IInv, TypeOK, InsertJobFails, DbError
    <2> QED BY <2>1 DEF IInv, TypeOK, InsertJobFails
  <1>2. Uploads' /\ RowHasDocument'
    BY DEF IInv, TypeOK, InsertJobFails, Uploads, RowHasDocument
  <1> QED
    BY <1>1, <1>2 DEF IInv, InsertJobFails, Accounts, AttemptAccounting, Budget, Untouched,
       Submissions, SubmissionOK, AttemptSubmittedOnce, SuccessIsComplete

LEMMA CancelJobKeeps ==
  ASSUME IInv, NEW a \in Agents, NEW j \in Jobs, CancelJob(a, j)
  PROVE  IInv'
  <1>1. TypeOK'
    BY DEF IInv, TypeOK, CancelJob, States
  <1>2. Accounts'
    BY DEF IInv, TypeOK, CancelJob, MayCancel, Accounts, AttemptAccounting, Budget, Untouched,
       Claimed
  <1>3. Uploads' /\ RowHasDocument' /\ SuccessIsComplete'
    BY DEF IInv, TypeOK, CancelJob, MayCancel, Uploads, RowHasDocument, SuccessIsComplete, Spooled
  <1> QED
    BY <1>1, <1>2, <1>3 DEF IInv, CancelJob, Submissions, SubmissionOK, AttemptSubmittedOnce

LEMMA RetryJobKeeps ==
  ASSUME IInv, NEW a \in Agents, NEW j \in Jobs, RetryJob(a, j)
  PROVE  IInv'
  <1>1. TypeOK'
    BY DEF IInv, TypeOK, RetryJob, States
  <1>2. Accounts'
    <2>1. AttemptAccounting'
      BY DEF IInv, TypeOK, Accounts, AttemptAccounting, RetryJob, MayRetry, Claimed
    <2>2. Budget'
      BY DEF IInv, TypeOK, Accounts, Budget, RetryJob, MayRetry
    <2>3. Untouched'
      BY DEF IInv, Accounts, Untouched, RetryJob
    <2> QED BY <2>1, <2>2, <2>3 DEF Accounts
  <1>3. Uploads' /\ RowHasDocument' /\ SuccessIsComplete'
    BY DEF IInv, TypeOK, RetryJob, MayRetry, Uploads, RowHasDocument, SuccessIsComplete, Spooled
  <1> QED
    BY <1>1, <1>2, <1>3 DEF IInv, RetryJob, Submissions, SubmissionOK, AttemptSubmittedOnce

-----------------------------------------------------------------------------
(* The worker and its submission.                                          *)

LEMMA ClaimJobKeeps ==
  ASSUME IInv, NEW a \in Agents, NEW j \in Jobs, ClaimJob(a, j)
  PROVE  IInv'
  <1>1. row[j] = "queued" /\ attempts[j] + 1 \in Attempts /\ handed[j][attempts[j] + 1] = 0
    BY DEF IInv, TypeOK, Accounts, Budget, Untouched, ClaimJob, Oldest, Attempts
  <1>2. TypeOK'
    <2>1. attempts' \in [Jobs -> 0..MaxAttempts] /\ try' \in [Agents -> 0..MaxAttempts]
      BY <1>1 DEF IInv, TypeOK, ClaimJob, Attempts
    <2>2. done' \in [Agents -> 0..Copies]
      BY DEF IInv, TypeOK, ClaimJob
    <2> QED BY <2>1, <2>2 DEF IInv, TypeOK, ClaimJob, States
  <1>3. Accounts'
    <2>1. AttemptAccounting'
      <3> SUFFICES ASSUME NEW i \in Jobs
                   PROVE  /\ attempts'[i] = retries[i] + (IF row'[i] \in Claimed THEN 1 ELSE 0)
                          /\ attempts'[i] <= MaxAttempts
        BY DEF AttemptAccounting, ClaimJob
      <3>1. /\ attempts[i] \in Nat /\ retries[i] \in Nat
            /\ attempts[i] = retries[i] + (IF row[i] \in Claimed THEN 1 ELSE 0)
            /\ attempts[i] <= MaxAttempts
        BY DEF IInv, TypeOK, Accounts, AttemptAccounting
      <3>2. CASE i = j
        BY <1>1, <3>1, <3>2 DEF IInv, TypeOK, ClaimJob, Claimed, Attempts
      <3>3. CASE i # j
        BY <3>1, <3>3 DEF IInv, TypeOK, ClaimJob
      <3> QED BY <3>2, <3>3
    <2>2. Budget'
      BY <1>1 DEF IInv, TypeOK, ClaimJob, Accounts, Budget
    <2>3. Untouched'
      <3> SUFFICES ASSUME NEW i \in Jobs, NEW k \in Attempts, k > attempts'[i]
                   PROVE  handed'[i][k] = 0
        BY DEF Untouched
      <3>1. attempts[i] \in Nat /\ attempts'[i] >= attempts[i] /\ k \in Nat
        BY DEF IInv, TypeOK, ClaimJob, Attempts
      <3>2. k > attempts[i]
        BY <3>1 DEF IInv, TypeOK, ClaimJob
      <3> QED BY <3>2 DEF IInv, Accounts, Untouched, ClaimJob
    <2> QED BY <2>1, <2>2, <2>3 DEF Accounts
  <1>4. Uploads' /\ RowHasDocument' /\ SuccessIsComplete'
    BY <1>1 DEF IInv, TypeOK, ClaimJob, Uploads, RowHasDocument, SuccessIsComplete, Spooled
  <1>5. Submissions'
    <2> SUFFICES ASSUME NEW b \in Agents PROVE SubmissionOK(b)'
      BY DEF Submissions
    <2>1. CASE b = a
      <3>1. proc[a] \in Working
        BY DEF IInv, Submissions, SubmissionOK, ClaimJob
      <3> QED
        BY <2>1, <3>1, <1>1 DEF IInv, TypeOK, ClaimJob, SubmissionOK, Attempts, Spooled
    <2>2. CASE b # a
      BY <2>2, <1>1 DEF IInv, TypeOK, Submissions, SubmissionOK, ClaimJob, Spooled
    <2> QED BY <2>1, <2>2
  <1>6. AttemptSubmittedOnce'
    BY <1>1 DEF IInv, TypeOK, ClaimJob, AttemptSubmittedOnce, Submissions, SubmissionOK
  <1> QED BY <1>2, <1>3, <1>4, <1>5, <1>6 DEF IInv

LEMMA FinishJobKeeps ==
  ASSUME IInv, NEW a \in Agents, FinishJob(a)
  PROVE  IInv'
  <1>1. held[a] \in Jobs
    BY DEF IInv, TypeOK, Submissions, SubmissionOK, FinishJob
  <1>2. TypeOK'
    <2>1. dbErrors' \in 0..MaxDbErrors
      BY DEF IInv, TypeOK, FinishJob, DbError
    <2>2. AfterFinish(row[held[a]], thread[a]) \in States
      BY <1>1 DEF IInv, TypeOK, AfterFinish, States
    <2>3. row' \in [Jobs -> States]
      BY <2>2, <1>1 DEF IInv, TypeOK, FinishJob
    <2> QED BY <2>1, <2>3 DEF IInv, TypeOK, FinishJob
  <1>3. Accounts'
    <2>1. AttemptAccounting'
      BY <1>1 DEF IInv, TypeOK, Accounts, AttemptAccounting, FinishJob, AfterFinish, Claimed
    <2>2. Budget'
      BY DEF IInv, TypeOK, Accounts, Budget, FinishJob, AfterFinish
    <2>3. Untouched'
      BY DEF IInv, Accounts, Untouched, FinishJob
    <2> QED BY <2>1, <2>2, <2>3 DEF Accounts
  <1>4. Uploads' /\ RowHasDocument'
    BY DEF IInv, TypeOK, FinishJob, AfterFinish, Uploads, RowHasDocument
  <1>5. Submissions' /\ AttemptSubmittedOnce'
    BY DEF IInv, TypeOK, FinishJob, Submissions, SubmissionOK, AttemptSubmittedOnce, Spooled
  <1>6. SuccessIsComplete'
    <2> SUFFICES ASSUME NEW j \in Spooled, row'[j] = "succeeded"
                 PROVE  \E k \in Attempts : handed[j][k] = Copies
      BY DEF SuccessIsComplete, FinishJob
    <2>1. CASE row[j] = "succeeded"
      BY <2>1 DEF IInv, SuccessIsComplete
    <2>2. CASE row[j] # "succeeded"
      <3>1. held[a] = j /\ thread[a] = "ok"
        BY <2>2 DEF IInv, TypeOK, FinishJob, AfterFinish, Spooled
      <3>2. try[a] \in Attempts /\ handed[j][try[a]] = Copies
        BY <3>1 DEF IInv, TypeOK, Submissions, SubmissionOK, Attempts, Spooled
      <3> QED BY <3>2
    <2> QED BY <2>1, <2>2
  <1> QED BY <1>2, <1>3, <1>4, <1>5, <1>6 DEF IInv

LEMMA HandCopyKeeps ==
  ASSUME IInv, NEW a \in Agents, HandCopy(a)
  PROVE  IInv'
  <1>1. /\ held[a] \in Jobs /\ try[a] \in Attempts /\ try[a] <= attempts[held[a]]
        /\ handed[held[a]][try[a]] = done[a] /\ done[a] + 1 \in 0..Copies
    BY DEF IInv, TypeOK, Submissions, SubmissionOK, HandCopy, Spooled, Attempts
  <1>2. TypeOK'
    <2>1. handed' \in [Jobs -> [Attempts -> 0..Copies]]
      BY <1>1 DEF IInv, TypeOK, HandCopy
    <2>2. done' \in [Agents -> 0..Copies]
      BY <1>1 DEF IInv, TypeOK, HandCopy
    <2> QED BY <2>1, <2>2 DEF IInv, TypeOK, HandCopy
  <1>3. Accounts'
    BY <1>1 DEF IInv, TypeOK, HandCopy, Accounts, AttemptAccounting, Budget, Untouched
  <1>4. Submissions'
    <2> SUFFICES ASSUME NEW b \in Agents PROVE SubmissionOK(b)'
      BY DEF Submissions
    <2>1. CASE b = a
      <3>1. handed'[held[a]][try[a]] = done[a] + 1 /\ done'[a] = done[a] + 1
        BY <1>1 DEF IInv, TypeOK, HandCopy
      <3>2. /\ thread'[a] = "running" => done[a] + 1 # Copies
            /\ thread'[a] = "ok" => done[a] + 1 = Copies
            /\ thread'[a] \in {"running", "ok"}
        BY DEF IInv, TypeOK, HandCopy, LastCopy
      <3>3. /\ UNCHANGED <<held, try, attempts, worker, proc>>
            /\ thread[a] = "running" /\ held[a] # NoJob
        BY <1>1 DEF HandCopy
      <3>4. proc[a] \notin Working => worker[a] = "none"
        BY DEF IInv, Submissions, SubmissionOK
      <3>5. try[a] \in 1..attempts[held[a]]
        BY <1>1 DEF IInv, TypeOK, Attempts
      <3> QED
        BY <2>1, <3>1, <3>2, <3>3, <3>4, <3>5, <1>1 DEF SubmissionOK
    <2>2. CASE b # a
      <3>1. held[b] \in Spooled => handed'[held[b]][try[b]] = handed[held[b]][try[b]]
        BY <2>2, <1>1 DEF IInv, TypeOK, Submissions, SubmissionOK, AttemptSubmittedOnce,
           HandCopy, Spooled, Attempts
      <3> QED BY <2>2, <3>1 DEF IInv, TypeOK, Submissions, SubmissionOK, HandCopy
    <2> QED BY <2>1, <2>2
  <1>5. SuccessIsComplete'
    BY <1>1 DEF IInv, TypeOK, HandCopy, SuccessIsComplete, Spooled
  <1> QED
    BY <1>2, <1>3, <1>4, <1>5 DEF IInv, HandCopy, Uploads, RowHasDocument, AttemptSubmittedOnce

LEMMA CaptureKeeps ==
  ASSUME IInv, NEW a \in Agents, OpenCapture(a) \/ FillCapture(a)
  PROVE  IInv'
  <1>1. TypeOK'
    <2>1. done' \in [Agents -> 0..Copies] /\ thread' \in [Agents -> {"none", "running", "ok", "error"}]
      <3>1. CASE OpenCapture(a)
        BY <3>1 DEF IInv, TypeOK, OpenCapture
      <3>2. CASE FillCapture(a)
        BY <3>2 DEF IInv, TypeOK, FillCapture
      <3> QED BY <3>1, <3>2
    <2>2. capture' \in [Jobs -> {"none", "partial", "whole"}]
      BY DEF IInv, TypeOK, OpenCapture, FillCapture
    <2> QED BY <2>1, <2>2 DEF IInv, TypeOK, OpenCapture, FillCapture
  <1>2. Submissions'
    BY DEF IInv, TypeOK, OpenCapture, FillCapture, Submissions, SubmissionOK, Spooled
  <1> QED
    BY <1>1, <1>2 DEF IInv, OpenCapture, FillCapture, Accounts, AttemptAccounting, Budget,
       Untouched, Uploads, AttemptSubmittedOnce, RowHasDocument, SuccessIsComplete

\* The steps that only move the worker, the submission or the process along.
Idling(a) ==
    \/ NotifyQueue(a) \/ ClaimNothing(a) \/ ClaimFails(a) \/ Park(a) \/ SignalArrives(a)
    \/ TimerFires(a) \/ SubmitFails(a) \/ Bind(a) \/ ShutDown(a)

LEMMA IdlingKeeps ==
  ASSUME IInv, NEW a \in Agents, Idling(a)
  PROVE  IInv'
  <1> USE DEF Idling, NotifyQueue, ClaimNothing, ClaimFails, Park, SignalArrives, TimerFires,
              SubmitFails, Bind, ShutDown
  <1>1. TypeOK'
    <2>1. dbErrors' \in 0..MaxDbErrors
      BY DEF IInv, TypeOK, DbError
    <2>2. owed' \in [Agents -> Nat] /\ permit' \in [Agents -> BOOLEAN]
      <3>1. CASE NotifyQueue(a)
        BY <3>1 DEF IInv, TypeOK
      <3>2. CASE SignalArrives(a)
        BY <3>2 DEF IInv, TypeOK
      <3> QED BY <3>1, <3>2 DEF IInv, TypeOK
    <2> QED BY <2>1, <2>2 DEF IInv, TypeOK, Working
  <1>2. Submissions'
    BY DEF IInv, TypeOK, Submissions, SubmissionOK, Working
  <1> QED
    BY <1>1, <1>2 DEF IInv, Accounts, AttemptAccounting, Budget, Untouched, Uploads,
       AttemptSubmittedOnce, RowHasDocument, SuccessIsComplete

-----------------------------------------------------------------------------
(* The life of a process.                                                  *)

LEMMA LaunchKeeps ==
  ASSUME IInv, NEW a \in Agents, Launch(a)
  PROVE  IInv'
  <1>1. TypeOK'
    BY DEF IInv, TypeOK, Launch, AfterRestart, States, Working
  <1>2. Accounts'
    BY DEF IInv, TypeOK, Launch, AfterRestart, Accounts, AttemptAccounting, Budget, Untouched,
       Claimed
  <1>3. Uploads' /\ RowHasDocument' /\ SuccessIsComplete'
    BY DEF IInv, TypeOK, Launch, AfterRestart, Uploads, RowHasDocument, SuccessIsComplete, Spooled
  <1>4. Submissions'
    BY DEF IInv, TypeOK, Launch, Submissions, SubmissionOK, Working
  <1> QED BY <1>1, <1>2, <1>3, <1>4 DEF IInv, Launch, AttemptSubmittedOnce

LEMMA ForgetSubmissionKeeps ==
  ASSUME IInv, NEW a \in Agents, ForgetSubmission(a),
         worker' = [worker EXCEPT ![a] = "none"], UNCHANGED <<attempts, handed>>,
         proc' = [proc EXCEPT ![a] = "off"]
  PROVE  Submissions' /\ AttemptSubmittedOnce'
  <1>1. Submissions'
    <2> SUFFICES ASSUME NEW b \in Agents PROVE SubmissionOK(b)'
      BY DEF Submissions
    <2>1. CASE b = a
      BY <2>1 DEF IInv, TypeOK, SubmissionOK, ForgetSubmission, Spooled
    <2>2. CASE b # a
      BY <2>2 DEF IInv, TypeOK, Submissions, SubmissionOK, ForgetSubmission
    <2> QED BY <2>1, <2>2
  <1>2. AttemptSubmittedOnce'
    BY DEF IInv, TypeOK, AttemptSubmittedOnce, ForgetSubmission
  <1> QED BY <1>1, <1>2

LEMMA DropRuntimeKeeps ==
  ASSUME IInv, NEW a \in Agents, BindFails(a) \/ Stop(a)
  PROVE  IInv'
  <1>1. DropRuntime(a) /\ UNCHANGED <<rowVars, file, outVars, reqVars, retries, dbErrors>>
    BY DEF BindFails, Stop
  <1>2. TypeOK'
    <2>1. /\ held' \in [Agents -> Jobs \cup {NoJob}]
          /\ thread' \in [Agents -> {"none", "running", "ok", "error"}]
      BY <1>1 DEF IInv, TypeOK, DropRuntime, ForgetSubmission
    <2> QED BY <2>1, <1>1 DEF IInv, TypeOK, DropRuntime, ForgetSubmission, Working
  <1>3. Submissions' /\ AttemptSubmittedOnce'
    <2>1. CASE UNCHANGED threadVars
      BY <2>1, <1>1 DEF IInv, TypeOK, Submissions, SubmissionOK, AttemptSubmittedOnce, DropRuntime,
         Working
    <2>2. CASE ForgetSubmission(a)
      <3>1. held'[a] = NoJob /\ thread'[a] = "none"
        BY <2>2 DEF IInv, TypeOK, ForgetSubmission
      <3> QED
        BY <2>2, <3>1, <1>1 DEF IInv, TypeOK, Submissions, SubmissionOK, AttemptSubmittedOnce,
           DropRuntime, ForgetSubmission, Spooled
    <2> QED BY <2>1, <2>2, <1>1 DEF DropRuntime
  <1> QED
    BY <1>1, <1>2, <1>3 DEF IInv, Accounts, AttemptAccounting, Budget, Untouched, Uploads,
       RowHasDocument, SuccessIsComplete

LEMMA EndKeeps ==
  ASSUME IInv, NEW a \in Agents, Exit(a) \/ Crash(a)
  PROVE  IInv'
  <1>1. TypeOK'
    <2>1. CASE Crash(a)
      <3>1. /\ creating' \in [Agents -> SUBSET Jobs] /\ owed' \in [Agents -> Nat]
            /\ held' \in [Agents -> Jobs \cup {NoJob}]
        BY <2>1 DEF IInv, TypeOK, Crash, ForgetSubmission
      <3> QED BY <2>1, <3>1 DEF IInv, TypeOK, Crash, ForgetSubmission
    <2>2. CASE Exit(a)
      BY <2>2 DEF IInv, TypeOK, Exit, ForgetSubmission
    <2> QED BY <2>1, <2>2
  <1>2. Uploads'
    <2>1. CASE Crash(a)
      <3>1. \A b \in Agents : creating'[b] \subseteq creating[b]
        BY <2>1 DEF IInv, TypeOK, Crash
      <3> QED BY <2>1, <3>1 DEF IInv, Uploads, Crash
    <2>2. CASE Exit(a)
      BY <2>2 DEF IInv, Uploads, Exit
    <2> QED BY <2>1, <2>2
  <1>3. Submissions' /\ AttemptSubmittedOnce'
    <2>1. worker' = [worker EXCEPT ![a] = "none"]
      <3>1. CASE Crash(a)
        BY <3>1 DEF Crash
      <3>2. CASE Exit(a)
        <4>1. worker[a] = "none" /\ worker' = worker
          BY <3>2 DEF IInv, Submissions, SubmissionOK, Exit, Working
        <4> QED BY <4>1 DEF IInv, TypeOK
      <3> QED BY <3>1, <3>2
    <2>2. /\ ForgetSubmission(a) /\ UNCHANGED <<attempts, handed>>
          /\ proc' = [proc EXCEPT ![a] = "off"]
      BY DEF Exit, Crash
    <2> QED BY <2>1, <2>2, ForgetSubmissionKeeps
  <1> QED
    BY <1>1, <1>2, <1>3 DEF IInv, Exit, Crash, ForgetSubmission, Accounts, AttemptAccounting,
       Budget, Untouched, RowHasDocument, SuccessIsComplete

-----------------------------------------------------------------------------
LEMMA StepKeeps == IInv /\ [Next]_vars => IInv'
  <1> SUFFICES ASSUME IInv, [Next]_vars PROVE IInv'
    OBVIOUS
  <1>1. CASE UNCHANGED vars
    BY <1>1 DEF vars, IInv, TypeOK, Accounts, AttemptAccounting, Budget, Untouched, Uploads,
       Submissions, SubmissionOK, AttemptSubmittedOnce, RowHasDocument, SuccessIsComplete
  <1>2. ASSUME NEW a \in Agents, NEW j \in Jobs, Request(a, j) PROVE IInv'
    BY <1>2, BeginUploadKeeps, RenameUploadKeeps, AbandonUploadKeeps, InsertJobKeeps,
       InsertJobFailsKeeps, CancelJobKeeps, RetryJobKeeps DEF Request
  <1>3. ASSUME NEW a \in Agents, NotifyQueue(a) \/ Work(a) \/ Submit(a) \/ Live(a) PROVE IInv'
    BY <1>3, ClaimJobKeeps, FinishJobKeeps, HandCopyKeeps, CaptureKeeps, IdlingKeeps,
       LaunchKeeps, DropRuntimeKeeps, EndKeeps DEF Work, Claim, Submit, Live, Idling
  <1> QED BY <1>1, <1>2, <1>3 DEF Next

\* The inductive invariant: every property below is read off it.
THEOREM Invariance == Spec => []IInv
  BY InitInv, StepKeeps, PTL DEF Spec

\* The table, the files and the processes keep their shape; the attempts column of
\* a job never passes the cap of retry_job.
THEOREM TypeCorrectness == Spec => []TypeOK
  <1>1. IInv => TypeOK
    BY DEF IInv
  <1> QED BY <1>1, Invariance, PTL

\* Attempts are exactly the first one and the accepted retries, in any interleaving
\* of handlers, workers, restarts and processes.
THEOREM AttemptsAccounted == Spec => []AttemptAccounting
  <1>1. IInv => AttemptAccounting
    BY DEF IInv, Accounts
  <1> QED BY <1>1, Invariance, PTL

\* No silent replay: the spooler has no output of an attempt nobody asked for.
THEOREM NoSilentReplay == Spec => []ReplayNeedsRetry
  <1>1. IInv => ReplayNeedsRetry
    <2> SUFFICES ASSUME IInv, NEW j \in Jobs, NEW k \in Attempts, handed[j][k] > 0
                 PROVE  k <= 1 + retries[j]
      BY DEF ReplayNeedsRetry
    <2>1. k \in Nat /\ attempts[j] \in Nat /\ retries[j] \in Nat
      BY DEF IInv, TypeOK, Attempts
    <2>2. ~(k > attempts[j])
      BY DEF IInv, Accounts, Untouched
    <2>3. attempts[j] <= 1 + retries[j]
      BY <2>1 DEF IInv, Accounts, AttemptAccounting
    <2> QED BY <2>1, <2>2, <2>3
  <1> QED BY <1>1, Invariance, PTL

\* However many processes share the data directory, none repeats another's attempt.
THEOREM AttemptsExclusive == Spec => []AttemptSubmittedOnce
  <1>1. IInv => AttemptSubmittedOnce
    BY DEF IInv
  <1> QED BY <1>1, Invariance, PTL

\* A cancel wins or loses against the claim: the attempt it took is never submitted.
THEOREM CanceledUnsubmitted == Spec => []CanceledIsUnsubmitted
  <1>1. IInv => CanceledIsUnsubmitted
    <2> SUFFICES ASSUME IInv, NEW j \in Jobs, NEW k \in Attempts, row[j] = "canceled",
                        handed[j][k] > 0
                 PROVE  k <= retries[j]
      BY DEF CanceledIsUnsubmitted
    <2>1. k \in Nat /\ attempts[j] \in Nat /\ retries[j] \in Nat
      BY DEF IInv, TypeOK, Attempts
    <2>2. ~(k > attempts[j])
      BY DEF IInv, Accounts, Untouched
    <2>3. attempts[j] = retries[j]
      BY <2>1 DEF IInv, Accounts, AttemptAccounting, Claimed
    <2> QED BY <2>1, <2>2, <2>3
  <1> QED BY <1>1, Invariance, PTL

\* The document of a job that exists is complete and stays.
THEOREM DocumentsSaved == Spec => []RowHasDocument
  <1>1. IInv => RowHasDocument
    BY DEF IInv
  <1> QED BY <1>1, Invariance, PTL

\* "succeeded" is never recorded without a complete attempt behind it.
THEOREM SuccessBacked == Spec => []SuccessIsComplete
  <1>1. IInv => SuccessIsComplete
    BY DEF IInv
  <1> QED BY <1>1, Invariance, PTL

\* No step but an accepted retry changes a settled job.
THEOREM SettledStays == Spec => SettledNeedsRetry
  <1> DEFINE Settled == \A j \in Jobs :
        /\ row[j] \in {"succeeded", "canceled", "preview_ready"} => row'[j] = row[j]
        /\ row[j] \in {"failed", "unknown"} /\ row'[j] # row[j] =>
               row'[j] = "queued" /\ retries'[j] = retries[j] + 1
  <1>1. IInv /\ [Next]_vars => [Settled]_vars
    <2> SUFFICES ASSUME IInv, Next PROVE Settled
      OBVIOUS
    <2>1. CASE UNCHANGED row
      BY <2>1
    <2>2. ASSUME NEW a \in Agents, NEW j \in Jobs,
                 InsertJob(a, j) \/ CancelJob(a, j) \/ RetryJob(a, j) \/ ClaimJob(a, j)
          PROVE  Settled
      BY <2>2 DEF IInv, TypeOK, Uploads, InsertJob, CancelJob, MayCancel, RetryJob, MayRetry,
         ClaimJob, Oldest
    <2>3. ASSUME NEW a \in Agents, FinishJob(a) PROVE Settled
      BY <2>3 DEF IInv, TypeOK, FinishJob, AfterFinish
    <2>4. ASSUME NEW a \in Agents, Launch(a) PROVE Settled
      BY <2>4 DEF IInv, TypeOK, Launch, AfterRestart
    <2>5. ASSUME NEW a \in Agents, NEW j \in Jobs, Request(a, j) PROVE Settled
      BY <2>5, <2>1, <2>2 DEF Request, BeginUpload, RenameUpload, AbandonUpload, InsertJobFails
    <2>6. ASSUME NEW a \in Agents, NotifyQueue(a) \/ Work(a) \/ Submit(a) \/ Live(a)
          PROVE  Settled
      BY <2>6, <2>1, <2>2, <2>3, <2>4 DEF NotifyQueue, Work, Claim, ClaimNothing, ClaimFails,
         Park, SignalArrives, TimerFires, Submit, HandCopy, OpenCapture, FillCapture,
         SubmitFails, Live, Bind, BindFails, ShutDown, Stop, Exit, Crash
    <2> QED BY <2>5, <2>6 DEF Next
  <1> QED BY <1>1, Invariance, PTL DEF Spec, SettledNeedsRetry
=============================================================================
