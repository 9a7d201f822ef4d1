------------------------- MODULE JobQueueSoleProofs -------------------------
(***************************************************************************)
(* Proofs about the print queue when one process runs at a time: what a    *)
(* client reads is true, no job is stranded, no wake-up is lost. Each      *)
(* rests on the job of a submission staying printing, in the submitted     *)
(* attempt, until its worker ends it, which a second process would break.  *)
(***************************************************************************)
EXTENDS JobQueueProofs

\* A process is only started after its predecessor is gone.
SoleAgent == \A a, b \in Agents : a = b

\* The submitted attempt is the current one of a printing job.
HeldOwnsRow == \A a \in Agents :
    held[a] # NoJob => row[held[a]] = "printing" /\ attempts[held[a]] = try[a]

\* Nothing is left of a process that is off.
OffIsGone == \A a \in Agents : proc[a] = "off" => held[a] = NoJob

\* A submitted capture is complete.
CaptureFilled == \A a \in Agents :
    thread[a] = "ok" /\ held[a] \in Captures => capture[held[a]] = "whole"

\* A previewed document never enters the queue.
PreviewsStayOut == \A j \in Previews : row[j] \in {"absent", "preview_ready"}

SInv == HeldOwnsRow /\ OffIsGone /\ CaptureFilled /\ PreviewsStayOut /\ OutcomeIsTrue

USE NumberAssumption, KindAssumption, NoJobAssumption
USE DEF rowVars, outVars, reqVars, workerVars, threadVars

LEMMA InitSInv == Init => SInv
  BY DEF Init, SInv, HeldOwnsRow, OffIsGone, CaptureFilled, PreviewsStayOut, OutcomeIsTrue

LEMMA RequestKeepsS ==
  ASSUME IInv, SInv, NEW a \in Agents, NEW j \in Jobs, Request(a, j)
  PROVE  SInv'
  <1> USE DEF IInv, TypeOK, SInv, HeldOwnsRow, OffIsGone, CaptureFilled, PreviewsStayOut,
              OutcomeIsTrue
  <1>1. CASE UNCHANGED <<row, attempts, proc, outVars, threadVars>>
    BY <1>1
  <1>2. CASE InsertJob(a, j)
    <2>1. row[j] = "absent"
      BY <1>2 DEF InsertJob, Uploads
    <2> QED BY <1>2, <2>1 DEF InsertJob, InitialState
  <1>3. CASE CancelJob(a, j)
    BY <1>3 DEF CancelJob, MayCancel
  <1>4. CASE RetryJob(a, j)
    BY <1>4 DEF RetryJob, MayRetry
  <1> QED
    BY <1>1, <1>2, <1>3, <1>4 DEF Request, BeginUpload, RenameUpload, AbandonUpload, InsertJobFails

LEMMA ClaimKeepsS ==
  ASSUME SoleAgent, IInv, SInv, NEW a \in Agents, NEW j \in Jobs, ClaimJob(a, j)
  PROVE  SInv'
  <1>1. row[j] = "queued" /\ proc[a] # "off"
    BY DEF IInv, Submissions, SubmissionOK, ClaimJob, Oldest, Working
  <1> QED
    BY <1>1 DEF SoleAgent, IInv, TypeOK, ClaimJob, SInv, HeldOwnsRow, OffIsGone, CaptureFilled,
       PreviewsStayOut, OutcomeIsTrue

LEMMA FinishKeepsS ==
  ASSUME SoleAgent, IInv, SInv, NEW a \in Agents, FinishJob(a)
  PROVE  SInv'
  <1>1. held[a] \in Jobs /\ row[held[a]] = "printing" /\ attempts[held[a]] = try[a]
    BY DEF IInv, TypeOK, Submissions, SubmissionOK, FinishJob, SInv, HeldOwnsRow
  <1>2. HeldOwnsRow' /\ OffIsGone' /\ CaptureFilled'
    BY <1>1 DEF SoleAgent, IInv, TypeOK, FinishJob, SInv, HeldOwnsRow, OffIsGone, CaptureFilled
  <1>3. PreviewsStayOut'
    BY <1>1 DEF IInv, TypeOK, FinishJob, SInv, PreviewsStayOut
  <1>4. OutcomeIsTrue'
    <2>1. /\ thread[a] = "ok" /\ held[a] \in Captures => capture[held[a]] = "whole"
          /\ thread[a] = "ok" /\ held[a] \in Spooled => handed[held[a]][try[a]] = Copies
          /\ thread[a] = "error" /\ held[a] \in Spooled => handed[held[a]][try[a]] < Copies
          /\ held[a] \in Captures \cup Spooled
      BY <1>1 DEF IInv, Submissions, SubmissionOK, SInv, CaptureFilled, PreviewsStayOut, Spooled
    <2> QED BY <1>1, <2>1 DEF IInv, TypeOK, FinishJob, AfterFinish, SInv, OutcomeIsTrue
  <1> QED BY <1>2, <1>3, <1>4 DEF SInv

LEMMA SubmitKeepsS ==
  ASSUME SoleAgent, IInv, SInv, NEW a \in Agents, Submit(a)
  PROVE  SInv'
  <1>1. held[a] \in Jobs /\ row[held[a]] = "printing"
    BY DEF IInv, TypeOK, Submissions, SubmissionOK, SInv, HeldOwnsRow, Submit, HandCopy,
       OpenCapture, FillCapture, SubmitFails
  <1>2. CASE HandCopy(a)
    BY <1>1, <1>2 DEF SoleAgent, IInv, TypeOK, HandCopy, SInv, HeldOwnsRow, OffIsGone,
       CaptureFilled, PreviewsStayOut, OutcomeIsTrue, Spooled
  <1>3. CASE OpenCapture(a)
    BY <1>1, <1>3 DEF SoleAgent, IInv, TypeOK, OpenCapture, SInv, HeldOwnsRow, OffIsGone,
       CaptureFilled, PreviewsStayOut, OutcomeIsTrue
  <1>4. CASE FillCapture(a)
    <2>1. capture' = [capture EXCEPT ![held[a]] = "whole"]
      BY <1>4 DEF SoleAgent, FillCapture, WritingToo
    <2> QED
      BY <1>1, <1>4, <2>1 DEF SoleAgent, IInv, TypeOK, FillCapture, SInv, HeldOwnsRow, OffIsGone,
         CaptureFilled, PreviewsStayOut, OutcomeIsTrue
  <1>5. CASE SubmitFails(a)
    BY <1>5 DEF IInv, TypeOK, SubmitFails, SInv, HeldOwnsRow, OffIsGone, CaptureFilled,
       PreviewsStayOut, OutcomeIsTrue
  <1> QED BY <1>2, <1>3, <1>4, <1>5 DEF Submit

LEMMA LiveKeepsS ==
  ASSUME SoleAgent, IInv, SInv, NEW a \in Agents, Live(a)
  PROVE  SInv'
  <1> USE DEF SoleAgent, IInv, TypeOK, SInv, HeldOwnsRow, OffIsGone, CaptureFilled,
              PreviewsStayOut, OutcomeIsTrue
  <1>1. CASE Launch(a)
    BY <1>1 DEF Launch, AfterRestart
  <1>2. CASE Bind(a) \/ ShutDown(a)
    BY <1>2 DEF Bind, ShutDown
  <1>3. CASE BindFails(a) \/ Stop(a)
    BY <1>3 DEF BindFails, Stop, DropRuntime, ForgetSubmission, Submissions, SubmissionOK
  <1>4. CASE Exit(a) \/ Crash(a)
    BY <1>4 DEF Exit, Crash, ForgetSubmission, Submissions, SubmissionOK
  <1> QED BY <1>1, <1>2, <1>3, <1>4 DEF Live

LEMMA StepKeepsS == ASSUME SoleAgent PROVE IInv /\ SInv /\ [Next]_vars => SInv'
  <1> SUFFICES ASSUME IInv, SInv, [Next]_vars PROVE SInv'
    OBVIOUS
  <1>1. CASE UNCHANGED <<row, attempts, proc, outVars, threadVars>>
    BY <1>1 DEF SInv, HeldOwnsRow, OffIsGone, CaptureFilled, PreviewsStayOut, OutcomeIsTrue
  <1>2. ASSUME NEW a \in Agents, Work(a) PROVE SInv'
    BY <1>1, <1>2, ClaimKeepsS, FinishKeepsS DEF Work, Claim, ClaimNothing, ClaimFails, Park,
       SignalArrives, TimerFires
  <1>3. ASSUME NEW a \in Agents, NotifyQueue(a) PROVE SInv'
    BY <1>1, <1>3 DEF NotifyQueue
  <1> QED
    BY <1>1, <1>2, <1>3, RequestKeepsS, SubmitKeepsS, LiveKeepsS DEF Next, vars

\* The state a client reads agrees with the printer's output.
THEOREM OutcomesTrue == ASSUME SoleAgent PROVE Spec => []OutcomeIsTrue
  <1>1. SInv => OutcomeIsTrue
    BY DEF SInv
  <1> QED BY <1>1, InitSInv, StepKeepsS, Invariance, PTL DEF Spec

\* finish_job always meets the row of the attempt its worker submitted.
THEOREM SubmissionsOwnRows == ASSUME SoleAgent PROVE Spec => []SubmissionOwnsRow
  <1>1. IInv /\ SInv => SubmissionOwnsRow
    BY DEF IInv, TypeOK, Submissions, SubmissionOK, SInv, HeldOwnsRow, SubmissionOwnsRow
  <1> QED BY <1>1, InitSInv, StepKeepsS, Invariance, PTL DEF Spec

\* Whoever submits holds a printing job, also in a process that drains.
THEOREM OutputInPrinting == ASSUME SoleAgent PROVE Spec => OutputOnlyInPrinting
  <1> DEFINE Confined == \A j \in Jobs :
        handed'[j] # handed[j] \/ capture'[j] # capture[j] => row[j] = "printing"
  <1>1. IInv /\ SInv /\ [Next]_vars => Confined
    <2> SUFFICES ASSUME IInv, SInv, [Next]_vars PROVE Confined
      OBVIOUS
    <2>1. CASE UNCHANGED outVars
      BY <2>1
    <2>2. ASSUME NEW a \in Agents, Submit(a) PROVE Confined
      <3>1. held[a] \in Jobs /\ row[held[a]] = "printing"
        BY <2>2 DEF IInv, TypeOK, Submissions, SubmissionOK, SInv, HeldOwnsRow, Submit, HandCopy,
           OpenCapture, FillCapture, SubmitFails
      <3>2. \A j \in Jobs : j # held[a] => handed'[j] = handed[j] /\ capture'[j] = capture[j]
        BY <2>2 DEF IInv, TypeOK, Submit, HandCopy, OpenCapture, FillCapture, SubmitFails
      <3> QED BY <3>1, <3>2
    <2>3. ASSUME NEW a \in Agents, NEW j \in Jobs, Request(a, j) PROVE UNCHANGED outVars
      BY <2>3 DEF Request, BeginUpload, RenameUpload, AbandonUpload, InsertJob, InsertJobFails,
         CancelJob, RetryJob
    <2>4. ASSUME NEW a \in Agents, NotifyQueue(a) \/ Work(a) PROVE UNCHANGED outVars
      BY <2>4 DEF NotifyQueue, Work, Claim, ClaimJob, ClaimNothing, ClaimFails, Park,
         SignalArrives, TimerFires, FinishJob
    <2>5. ASSUME NEW a \in Agents, Live(a) PROVE UNCHANGED outVars
      BY <2>5 DEF Live, Launch, Bind, BindFails, ShutDown, Stop, Exit, Crash
    <2> HIDE DEF Confined
    <2> QED BY <2>1, <2>2, <2>3, <2>4, <2>5 DEF Next, vars
  <1> HIDE DEF Confined
  <1>2. Spec => [][Confined]_vars
    BY <1>1, InitSInv, StepKeepsS, Invariance, PTL DEF Spec
  <1> QED BY <1>2 DEF Confined, OutputOnlyInPrinting

-----------------------------------------------------------------------------
LEMMA StepKeepsHeld ==
  ASSUME SoleAgent, IInv, SInv, PrintingIsHeld, [Next]_vars
  PROVE  PrintingIsHeld'
  <1> USE DEF SoleAgent, IInv, TypeOK, PrintingIsHeld
  <1>1. CASE UNCHANGED <<row, proc, dbErrors, worker, held>>
    BY <1>1
  <1>2. ASSUME NEW a \in Agents, NEW j \in Jobs, Request(a, j) PROVE PrintingIsHeld'
    BY <1>1, <1>2 DEF Request, BeginUpload, RenameUpload, AbandonUpload, InsertJob, InitialState,
       InsertJobFails, CancelJob, RetryJob, DbError
  <1>3. ASSUME NEW a \in Agents, NEW j \in Jobs, ClaimJob(a, j) PROVE PrintingIsHeld'
    BY <1>3 DEF ClaimJob
  <1>4. ASSUME NEW a \in Agents, ClaimNothing(a) \/ ClaimFails(a) \/ Park(a) \/ SignalArrives(a)
                                 \/ TimerFires(a)
        PROVE  PrintingIsHeld'
    BY <1>4 DEF ClaimNothing, ClaimFails, Park, SignalArrives, TimerFires, DbError
  <1>5. ASSUME NEW a \in Agents, FinishJob(a) PROVE PrintingIsHeld'
    <2>1. held[a] \in Jobs /\ AfterFinish(row[held[a]], thread[a]) # "printing"
      BY <1>5 DEF FinishJob, Submissions, SubmissionOK, AfterFinish
    <2> QED BY <1>5, <2>1 DEF FinishJob, DbError
  <1>6. ASSUME NEW a \in Agents, NotifyQueue(a) \/ Submit(a) PROVE PrintingIsHeld'
    BY <1>1, <1>6 DEF NotifyQueue, Submit, HandCopy, OpenCapture, FillCapture, SubmitFails
  <1>7. ASSUME NEW a \in Agents, Live(a) PROVE PrintingIsHeld'
    BY <1>7 DEF Live, Launch, AfterRestart, Bind, ShutDown, BindFails, Stop, DropRuntime,
       ForgetSubmission, Exit, Crash, Working
  <1> QED
    BY <1>1, <1>2, <1>3, <1>4, <1>5, <1>6, <1>7 DEF Next, Work, Claim, vars

\* No job is left printing that the running worker does not wait for.
THEOREM NoJobStranded == ASSUME SoleAgent PROVE Spec => []PrintingIsHeld
  <1>1. Init => PrintingIsHeld
    BY DEF Init, PrintingIsHeld
  <1> QED BY <1>1, StepKeepsHeld, InitSInv, StepKeepsS, Invariance, PTL DEF Spec

-----------------------------------------------------------------------------
LEMMA StepKeepsWakeup ==
  ASSUME SoleAgent, IInv, NoLostWakeup, [Next]_vars
  PROVE  NoLostWakeup'
  <1> USE DEF SoleAgent, IInv, TypeOK, NoLostWakeup
  <1>1. CASE UNCHANGED <<row, owed, permit, worker>>
    BY <1>1
  <1>2. ASSUME NEW a \in Agents, NEW j \in Jobs, Request(a, j) PROVE NoLostWakeup'
    <2>1. CASE InsertJob(a, j)
      BY <2>1 DEF InsertJob, InitialState
    <2>2. CASE CancelJob(a, j)
      BY <2>2 DEF CancelJob
    <2>3. CASE RetryJob(a, j)
      BY <2>3 DEF RetryJob
    <2> QED
      BY <1>1, <1>2, <2>1, <2>2, <2>3 DEF Request, BeginUpload, RenameUpload, AbandonUpload,
         InsertJobFails
  <1>3. ASSUME NEW a \in Agents, NotifyQueue(a) PROVE NoLostWakeup'
    BY <1>3 DEF NotifyQueue
  <1>4. ASSUME NEW a \in Agents, Work(a) PROVE NoLostWakeup'
    BY <1>4 DEF Work, Claim, ClaimJob, ClaimNothing, ClaimFails, Park, SignalArrives, TimerFires,
       FinishJob
  <1>5. ASSUME NEW a \in Agents, Submit(a) PROVE NoLostWakeup'
    BY <1>1, <1>5 DEF Submit, HandCopy, OpenCapture, FillCapture, SubmitFails
  <1>6. ASSUME NEW a \in Agents, Live(a) PROVE NoLostWakeup'
    BY <1>1, <1>6 DEF Live, Launch, Bind, ShutDown, BindFails, Stop, DropRuntime, Exit, Crash
  <1> QED BY <1>1, <1>2, <1>3, <1>4, <1>5, <1>6 DEF Next, vars

\* Whatever the order of a commit, its notification and the worker's last look at
\* the table, the worker does not go to sleep over a queued job.
THEOREM NoWakeupLost == ASSUME SoleAgent PROVE Spec => []NoLostWakeup
  <1>1. Init => NoLostWakeup
    BY DEF Init, NoLostWakeup
  <1> QED BY <1>1, StepKeepsWakeup, Invariance, PTL DEF Spec
=============================================================================
