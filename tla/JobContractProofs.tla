--------------------------- MODULE JobContractProofs ---------------------------
(***************************************************************************)
(* Proof that the queue meets the contract of a job, for any jobs, agents, *)
(* copies and caps. A step of the code that the client cannot tell is a    *)
(* stuttering step of the contract; the others are one action each. What   *)
(* makes an accepted retry legal is the accounting of attempts, and what   *)
(* makes output legal is that a submission works on a claimed attempt.     *)
(***************************************************************************)
EXTENDS JobQueueProofs

\* A job that does not exist has no past, and a previewed one is never submitted.
Unborn == \A j \in Jobs :
    /\ row[j] = "absent" => retries[j] = 0
    /\ j \in Previews => row[j] \in {"absent", "preview_ready"}

Inv == IInv /\ Unborn

USE NumberAssumption, KindAssumption, NoJobAssumption
USE DEF rowVars, outVars, reqVars, workerVars, threadVars

LEMMA UnbornKept == IInv /\ Unborn /\ [Next]_vars => Unborn'
  <1> SUFFICES ASSUME IInv, Unborn, [Next]_vars PROVE Unborn'
    OBVIOUS
  <1> USE DEF Unborn
  <1>1. CASE UNCHANGED <<row, retries>>
    BY <1>1
  <1>2. ASSUME NEW a \in Agents, NEW j \in Jobs,
               InsertJob(a, j) \/ CancelJob(a, j) \/ RetryJob(a, j) \/ ClaimJob(a, j)
        PROVE  Unborn'
    <2>1. CASE InsertJob(a, j)
      BY <2>1 DEF IInv, TypeOK, InsertJob, InitialState
    <2>2. CASE CancelJob(a, j) \/ ClaimJob(a, j)
      BY <2>2 DEF IInv, TypeOK, CancelJob, MayCancel, ClaimJob, Oldest
    <2>3. CASE RetryJob(a, j)
      BY <2>3 DEF IInv, TypeOK, RetryJob, MayRetry
    <2> QED BY <1>2, <2>1, <2>2, <2>3
  <1>3. ASSUME NEW a \in Agents, FinishJob(a) \/ Launch(a) PROVE Unborn'
    <2>1. CASE Launch(a)
      BY <2>1 DEF Launch, AfterRestart
    <2>2. ASSUME FinishJob(a), row' # row PROVE row[held[a]] = "printing" /\ held[a] \in Jobs
      BY <2>2 DEF IInv, TypeOK, FinishJob, AfterFinish
    <2>3. CASE FinishJob(a)
      BY <2>2, <2>3 DEF IInv, TypeOK, FinishJob, AfterFinish
    <2> QED BY <1>3, <2>1, <2>3
  <1>4. ASSUME NEW a \in Agents, NEW j \in Jobs, Request(a, j) PROVE Unborn'
    BY <1>4, <1>1, <1>2 DEF Request, BeginUpload, RenameUpload, AbandonUpload, InsertJobFails
  <1>5. ASSUME NEW a \in Agents, NotifyQueue(a) \/ Work(a) \/ Submit(a) \/ Live(a) PROVE Unborn'
    BY <1>5, <1>1, <1>2, <1>3 DEF NotifyQueue, Work, Claim, ClaimNothing, ClaimFails, Park,
       SignalArrives, TimerFires, Submit, HandCopy, OpenCapture, FillCapture, SubmitFails, Live,
       Bind, BindFails, ShutDown, Stop, Exit, Crash
  <1> QED BY <1>1, <1>4, <1>5 DEF Next, vars

-----------------------------------------------------------------------------
(* The steps.                                                              *)

\* The output the contract sees is a function of the copies handed over.
LEMMA OutputSteady == ASSUME UNCHANGED handed PROVE UNCHANGED Contract!outputVars
  BY DEF Contract!outputVars, Printed, Complete

LEMMA InsertCreates ==
  ASSUME Inv, NEW a \in Agents, NEW j \in Jobs, InsertJob(a, j)
  PROVE  Contract!Create(j)
  <1>1. row[j] = "absent"
    BY DEF Inv, IInv, Uploads, InsertJob
  <1>2. retries[j] = 0
    BY <1>1 DEF Inv, Unborn
  <1>3. row' = [row EXCEPT ![j] = InitialState(j)] /\ row' \in [Jobs -> States]
        /\ UNCHANGED <<retries, handed>>
    BY DEF Inv, IInv, TypeOK, InsertJob, InitialState, States
  <1>4. Asked' = [Asked EXCEPT ![j] = IF j \in Previews THEN 0 ELSE 1]
    <2>1. \A i \in Jobs \ {j} : row'[i] = row[i]
      BY <1>3 DEF Inv, IInv, TypeOK
    <2>2. row'[j] # "absent" /\ 1 + retries[j] = 1
      BY <1>2, <1>3 DEF Inv, IInv, TypeOK, InitialState
    <2> QED BY <1>3, <2>1, <2>2 DEF Asked
  <1> QED BY <1>1, <1>3, <1>4, OutputSteady DEF InitialState, Contract!Create, Contract!Move

LEMMA CancelCancels ==
  ASSUME Inv, NEW a \in Agents, NEW j \in Jobs, CancelJob(a, j)
  PROVE  Contract!Cancel(j)
  <1>1. UNCHANGED Asked
    BY DEF Inv, IInv, TypeOK, CancelJob, MayCancel, Asked
  <1> QED BY <1>1, OutputSteady DEF CancelJob, MayCancel, Contract!Cancel, Contract!Move

LEMMA RetryRetries ==
  ASSUME Inv, NEW a \in Agents, NEW j \in Jobs, RetryJob(a, j)
  PROVE  Contract!Retry(j)
  <1>1. row[j] \in {"failed", "unknown"} /\ attempts[j] < MaxAttempts
    BY DEF RetryJob, MayRetry
  <1>2. j \notin Previews
    BY <1>1 DEF Inv, Unborn
  <1>3. attempts[j] = retries[j] + 1
    BY <1>1 DEF Inv, IInv, Accounts, AttemptAccounting, Claimed
  <1>4. Asked[j] = attempts[j]
    BY <1>1, <1>2, <1>3 DEF Inv, IInv, TypeOK, Asked
  <1>5. Asked' = [Asked EXCEPT ![j] = @ + 1]
    <2>1. \A i \in Jobs \ {j} : row'[i] = row[i] /\ retries'[i] = retries[i]
      BY DEF Inv, IInv, TypeOK, RetryJob
    <2>2. row'[j] = "queued" /\ retries'[j] = retries[j] + 1 /\ retries[j] \in Nat
      BY DEF Inv, IInv, TypeOK, RetryJob
    <2>3. \A i \in Jobs : Asked'[i] = IF i = j THEN Asked[j] + 1 ELSE Asked[i]
      BY <1>1, <1>2, <2>1, <2>2 DEF Asked
    <2> QED BY <2>3 DEF Asked
  <1> QED BY <1>1, <1>4, <1>5, OutputSteady DEF RetryJob, Contract!Retry, Contract!Move

LEMMA ClaimStarts ==
  ASSUME Inv, NEW a \in Agents, NEW j \in Jobs, ClaimJob(a, j)
  PROVE  Contract!Start(j)
  <1>1. UNCHANGED Asked
    BY DEF Inv, IInv, TypeOK, ClaimJob, Oldest, Asked
  <1> QED BY <1>1, OutputSteady DEF ClaimJob, Oldest, Contract!Start, Contract!Move

\* An outcome that finds its row printing ends it; any other changes nothing.
LEMMA FinishEnds ==
  ASSUME Inv, NEW a \in Agents, FinishJob(a)
  PROVE  (\E j \in Jobs : Contract!Succeed(j) \/ Contract!Fail(j)) \/ UNCHANGED Contract!vars
  <1>1. UNCHANGED <<handed, retries>> /\ UNCHANGED Contract!outputVars
    BY OutputSteady DEF FinishJob
  <1>2. CASE UNCHANGED row
    BY <1>1, <1>2 DEF Asked, Contract!vars
  <1>3. CASE row' # row
    <2>1. held[a] \in Jobs /\ row[held[a]] = "printing" /\ thread[a] \in {"ok", "error"}
          /\ row' = [row EXCEPT ![held[a]] = IF thread[a] = "ok" THEN "succeeded" ELSE "failed"]
      BY <1>3 DEF Inv, IInv, TypeOK, FinishJob, AfterFinish, Submissions, SubmissionOK
    <2>2. UNCHANGED Asked
      BY <1>1, <2>1 DEF Inv, IInv, TypeOK, Asked
    <2>3. CASE thread[a] = "ok"
      <3>1. held[a] \in Spooled => try[a] \in Complete[held[a]]
        BY <2>1, <2>3 DEF Inv, IInv, TypeOK, Submissions, SubmissionOK, Complete, Attempts
      <3> QED BY <1>1, <2>1, <2>2, <2>3, <3>1 DEF Contract!Succeed, Contract!Move
    <2>4. CASE thread[a] = "error"
      BY <1>1, <2>1, <2>2, <2>4 DEF Contract!Fail, Contract!Move
    <2> QED BY <2>1, <2>3, <2>4
  <1> QED BY <1>2, <1>3

LEMMA LaunchInterrupts ==
  ASSUME Inv, NEW a \in Agents, Launch(a)
  PROVE  Contract!Interrupt
  <1>1. UNCHANGED Asked
    BY DEF Inv, IInv, TypeOK, Launch, AfterRestart, Asked
  <1> QED BY <1>1, OutputSteady DEF Launch, AfterRestart, Contract!Interrupt

\* A copy belongs to an attempt that was claimed, hence asked for.
LEMMA CopyIsOutput ==
  ASSUME Inv, NEW a \in Agents, HandCopy(a)
  PROVE  \E j \in Jobs : Contract!Output(j)
  <1> DEFINE j == held[a]
             k == try[a]
  <1>1. j \in Jobs /\ j \in Spooled /\ k \in 1..attempts[j] /\ k \in Attempts /\ k \in Nat
    BY DEF HandCopy, Spooled, Inv, IInv, TypeOK, Submissions, SubmissionOK, Attempts
  <1>2. k \in 1..Asked[j]
    <2>1. attempts[j] \in Nat /\ retries[j] \in Nat
      BY <1>1 DEF Inv, IInv, TypeOK
    <2>2. attempts[j] = retries[j] + (IF row[j] \in Claimed THEN 1 ELSE 0)
      BY <1>1 DEF Inv, IInv, Accounts, AttemptAccounting
    <2>3. row[j] # "absent"
      <3>1. row[j] = "absent" => retries[j] = 0
        BY <1>1 DEF Inv, Unborn
      <3> QED BY <1>1, <2>1, <2>2, <3>1 DEF Claimed
    <2> QED BY <1>1, <2>1, <2>2, <2>3 DEF Asked, Spooled
  <1>3. /\ handed[j][k] \in 0..Copies /\ handed[j][k] < Copies
        /\ handed' = [handed EXCEPT ![j][k] = @ + 1]
    BY <1>1 DEF HandCopy, Inv, IInv, TypeOK, Submissions, SubmissionOK
  <1>4. \A i \in Jobs, m \in Attempts :
          handed'[i][m] = IF i = j /\ m = k THEN handed[j][k] + 1 ELSE handed[i][m]
    BY <1>1, <1>3 DEF Inv, IInv, TypeOK
  <1>5. Printed' = [Printed EXCEPT ![j] = @ \cup {k}]
    <2>1. \A i \in Jobs : Printed'[i] = IF i = j THEN Printed[j] \cup {k} ELSE Printed[i]
      BY <1>1, <1>3, <1>4 DEF Printed
    <2> QED BY <1>1, <2>1 DEF Printed
  <1>6. \/ Complete' = [Complete EXCEPT ![j] = @ \cup {k}]
        \/ UNCHANGED Complete
    <2>1. CASE handed[j][k] + 1 = Copies
      <3>1. \A i \in Jobs : Complete'[i] = IF i = j THEN Complete[j] \cup {k} ELSE Complete[i]
        BY <1>1, <1>4, <2>1 DEF Complete
      <3> QED BY <1>1, <3>1 DEF Complete
    <2>2. CASE handed[j][k] + 1 # Copies
      <3>1. \A i \in Jobs, m \in Attempts : handed'[i][m] = Copies <=> handed[i][m] = Copies
        BY <1>3, <1>4, <2>2
      <3> QED BY <3>1 DEF Complete
    <2> QED BY <2>1, <2>2
  <1>7. UNCHANGED <<row, Asked>>
    BY DEF HandCopy, Asked
  <1> QED BY <1>1, <1>2, <1>5, <1>6, <1>7 DEF Contract!Output

\* What the client cannot tell.
LEMMA OthersStutter ==
  ASSUME UNCHANGED <<row, retries, handed>>
  PROVE  UNCHANGED Contract!vars
  BY OutputSteady DEF Asked, Contract!vars

-----------------------------------------------------------------------------
LEMMA InitContract == Init => Contract!Init /\ Unborn
  BY DEF Init, Unborn, Contract!Init, Asked, Printed, Complete

LEMMA NextContract == Inv /\ [Next]_vars => [Contract!Next]_(Contract!vars)
  <1> SUFFICES ASSUME Inv, [Next]_vars PROVE Contract!Next \/ UNCHANGED Contract!vars
    OBVIOUS
  <1>1. CASE UNCHANGED <<row, retries, handed>>
    BY <1>1, OthersStutter
  <1>2. ASSUME NEW a \in Agents, NEW j \in Jobs, Request(a, j)
        PROVE  Contract!Next \/ UNCHANGED Contract!vars
    BY <1>1, <1>2, InsertCreates, CancelCancels, RetryRetries
       DEF Request, BeginUpload, RenameUpload, AbandonUpload, InsertJobFails, Contract!Next
  <1>3. ASSUME NEW a \in Agents, Work(a)
        PROVE  Contract!Next \/ UNCHANGED Contract!vars
    BY <1>1, <1>3, ClaimStarts, FinishEnds
       DEF Work, Claim, ClaimNothing, ClaimFails, Park, SignalArrives, TimerFires, Contract!Next
  <1>4. ASSUME NEW a \in Agents, NotifyQueue(a) \/ Submit(a) \/ Live(a)
        PROVE  Contract!Next \/ UNCHANGED Contract!vars
    BY <1>1, <1>4, CopyIsOutput, LaunchInterrupts
       DEF NotifyQueue, Submit, OpenCapture, FillCapture, SubmitFails, Live, Bind, BindFails,
           ShutDown, Stop, Exit, Crash, Contract!Next
  <1> QED BY <1>1, <1>2, <1>3, <1>4 DEF Next, vars

\* The queue implements the contract: the initial states map to initial states, and
\* every step to an action of the contract or to a stutter.
THEOREM QueueMeetsContract == Spec => MeetsContract
  <1>1. Spec => []Inv
    BY InitContract, UnbornKept, Invariance, PTL DEF Spec, Inv
  <1> QED BY <1>1, InitContract, NextContract, PTL DEF Spec, MeetsContract, Contract!Spec
=============================================================================
