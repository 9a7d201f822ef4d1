# A verification of PrintLatch

PrintLatch is a local agent: browsers and local processes hand it PDFs over a
loopback HTTP API, and one queue worker passes them to a Windows printer or to a
capture directory. This directory holds TLA+ modules that model the agent, TLC
configurations that check them on small instances, and TLAPS proofs of the results
that hold for every instance. `PROJECT.json` maps each definition to its lines.

    tlc -config OneAgent.cfg MCJobQueue
    tlc -config Pairing.cfg MCPairing
    tlapm JobQueueProofs.tla

## The system

| Component | State | Operations | What makes it correct |
| --- | --- | --- | --- |
| Job queue (`db.rs`, `worker.rs`) | `jobs` table: state, attempts, created_at; the Notify permit; the worker task | insert, claim, finish, cancel, retry, recover; notify, wait | no copy without a claim or an accepted retry; a bounded number of attempts; settled states stay; outcomes tell the truth; nothing queued or printing is forgotten |
| Job handlers (`api.rs`) | `jobs/<id>.pdf`, `.pdf.tmp` | create_job, list, get, document, cancel_job, retry_job | a row never exists without its document; notify after commit |
| Print submission (`printers.rs`) | the OS spooler, `captures/<id>.pdf` | submit: copy loop or file copy, on a blocking thread | an error tells how far it can be trusted; a capture is whole or absent |
| Agent process (`main.rs`) | process phase, port | serve: recover, spawn the worker, bind, ctrl_c, drop the runtime; one-shot commands | one process at a time works on the table |
| Pairing and clients (`auth.rs`, `db.rs`, `main.rs`) | `pairing_codes`, `clients`, `instance_identity`, the agent's session | grant, check of the agent, consume, issue, create, rotate, revoke, authenticate | a code is spent once; one dashboard token; a client keeps its history and its origin; a revoked client stays revoked |
| Intake of a job (`api.rs`, `pdf_guard.rs`) | the fields of one request, the sums of the guard | header checks, `parse_job`, `printer_exists`, `validate_pdf` | what is stored is what was asked; the limits hold for every document, also at the ends of the integer ranges |
| Dashboard (`ui/*.js`) | token, job list, polling loops | pair, refresh, watch, create, retry, cancel | it follows every active job, with one loop each, and shows its end |
| Job listing (`db.rs`) | none | `list_jobs_for_client` | an active job is never outside the window |
| SDK, scripts, site, configuration | none | wrappers, packaging | not modelled |

The parts interact through the SQLite file (every statement is one atomic step and
visible to all processes), through the Notify permit inside a process, through the
files under the data directory, and through HTTP. Hard behaviours: handlers and
worker run on several threads, so a commit and its notification can be separated by
the worker's steps; the process can be killed anywhere; a submission on a blocking
thread outlives the task that waits for it; a second `serve` starts recovery and a
worker before it learns that the port is taken; handler futures are dropped when a
client hangs up; two runs of the pair handler, or two commands, meet between the
statements of their transactions; a browser sees its answers in any order. The list in `PROJECT.json` under `hazards` places each at its line.

## Modules

| Module | Content |
| --- | --- |
| `JobQueue.tla` | jobs table, job handlers, worker, submission, serve process; properties |
| `MCJobQueue.tla` | the instance for TLC, with the symmetry of the agents |
| `JobQueueProofs.tla` | inductive invariant and theorems, for any number of processes |
| `JobQueueSoleProofs.tla` | theorems for one process at a time |
| `JobContract.tla` | the abstract job: what a client is promised of it |
| `JobContractProofs.tla` | `JobQueue` implements `JobContract` |
| `Pairing.tla` | codes, clients, tokens, the check of the agent, agent runs; properties |
| `MCPairing.tla` | the instance for TLC, with two symmetries |
| `PairingProofs.tla` | inductive invariant and theorems of pairing |
| `PairingContract.tla` | codes, tokens and grants as their holders are promised them |
| `PairingContractProofs.tla` | `Pairing` implements `PairingContract` |
| `PdfGuard.tla` | the tests and the sums of `validate_pdf` |
| `Intake.tla` | one POST of a job from its headers to its row; extends `PdfGuard` |
| `MCIntake.tla` | documents and objects at and around the limits |
| `IntakeProofs.tla` | inductive invariant and theorems of both |
| `Dashboard.tla` | the page in a browser and its requests; uses `JobContract` as its server |
| `DashboardProofs.tla` | inductive invariant and theorems of the dashboard |

`JobContract` joins the two ends: the queue is shown to implement it, and the
dashboard is checked as its client, so that neither needs the state of the other.

### How JobQueue corresponds to the code

Variables indexed by a job are persistent: `row`, `attempts`, `created` are columns
of the table, `file` and `capture` the two files of a job, `handed[j][k]` the copies
the spooler took in attempt k. Variables indexed by an agent die with the process:
`proc` is the place in `serve` (off, binding, serving, stopping after ctrl_c,
draining while the dropped runtime waits for a submission), `worker` the place in
`worker::run`, `thread`, `held`, `try`, `done` the blocking submission, `permit` the
Notify, `creating` the `create_job` handlers that have begun to write, `owed` the
handlers between their commit and `notify()`. `retries` and `dbErrors` are
bookkeeping: accepted retry requests and failing database calls. The code has
neither; no guard reads `retries`.

* `BeginUpload`, `RenameUpload`, `InsertJob` and `InsertJobFails` are the steps of
  `create_job` between its awaits, `AbandonUpload` the drop of its future at one of
  them. Requests it refuses change nothing and are not actions. A job's mode and
  printer are constants (`Previews`, `Captures`, the rest is spooled): the choice of
  the client is a choice of the instance.
* `CancelJob`, `RetryJob`: the conditional UPDATE. `NotifyQueue`: the call after it,
  a step of its own because the worker may run between.
* `ClaimJob`, `ClaimNothing`, `ClaimFails`: the three arms of the loop. `Park` is the
  first poll of the select, `SignalArrives` and `TimerFires` its two ends; the 2 s
  sleep after an error ends by `TimerFires` too.
* `HandCopy` is one turn of the Windows copy loop, `OpenCapture` and `FillCapture`
  are what `fs::copy` does to its target, `SubmitFails` every error and panic.
* `FinishJob` stores the outcome, or fails to. `Launch` is recovery and the start of
  the worker, in this order and before `Bind`. `DropRuntime` is what tokio does at
  the end of `serve`, after `BindFails` or `Stop`; `Exit` the end of the wait.
* `Crash` may happen at any time, `Launch` any number of times.

Data left out: one client owns every job (ownership is a clause of each statement),
details and timestamps other than `created_at`, document contents. `created` is any
element of `Seconds` at each insert, so ties and a clock that is set back are
included. Files written before a power loss are taken to be on the disk.

### JobContract and the refinement

A client reads `state`; `asked` counts the submissions it asked for (the creation
and each accepted retry), `printed` and `complete` tell which of them the printer has
something or everything of. `JobQueue` maps the column `state` to itself, `asked` to
one plus the accepted retries of a row that exists, and the other two to what
`handed` says. An accepted retry is `Retry`, a claim `Start`, `recover_interrupted_jobs`
`Interrupt`, a stored outcome `Succeed` or `Fail`, a copy `Output`, also of a thread
that outlived its agent; every other step is a stutter. `Succeed` demands that the
printer has every copy of some submission asked for, which is what `succeeded` tells
a client when processes overlap.

### How Pairing corresponds to the code

`secret`, `code`, `client`, `token`, `origin`, `expired` are the tables. A fresh random
value is called by the name of the process that draws it: a token and a client id by
the request or command that mints them, a session by its agent run, the instance
secret by the process whose candidate was stored. Hashing, formats and lifetimes are
left out; a code or a client expires by a step of its own.

* `Challenge` is `verify_dashboard_agent` up to the answer of whoever listens,
  `Verify` its check, `Grant` the stored code. `UseSecret` is INSERT OR IGNORE and
  SELECT in one transaction; an insert takes the write lock, so nothing comes between.
* `ReadCode` and `ConsumeCode` are the SELECT that finds a row and the UPDATE of a
  deferred transaction, `MissCode` is a SELECT that finds none. `fresh` says that nothing was committed since the SELECT: SQLite in WAL
  mode then, and only then, lets a reader become a writer. This is the one fact about
  SQLite the argument needs, named `MayUpgrade`. `RefusePairing` is a refused upgrade,
  a busy file or a failing second transaction.
* `IssueToken` and `IssueDashboardToken` are the second transaction, immediate in the
  case of the dashboard and so one step. `RotateClient` is not: `ReadClient` is a
  statement of its own.
* `ClientsOf`, `OriginAllowed`, `Opens` are `authenticate`. The Host header of the
  dashboard's own fetches is taken as the origin it names.
* `Start`, `ShutDown` and `Crash` are agent runs. Only one of them has the port, while
  those that stop still answer. A foreign listener has the port when no agent does.

### PairingContract and the refinement

The contract knows neither requests nor agents nor transactions. A code is new, open,
owed (spent, and its token not yet handed out) or over; `grants` are what the tokens in
use are worth: an origin, whether it is the dashboard's, whether it has lapsed; a token
leaves `unused` once. `Pairing` maps the stage of a code to its row and to the request
that owes its token, and the grants to the active rows of `clients`. Storing a code is
`Offer`, the commit of the UPDATE `Spend`, the second transaction `Pay`, which for the
dashboard replaces the grants it had, a redemption that fails after its code was spent
(also several at once, by a crash) `Forfeit`; `Create`, `Renew`, `Revoke` and `Lapse` are
the commands and the clock. A code that is too old may still be spent in the contract,
as in the code when the clock passes its end between the SELECT and the UPDATE.

### How Intake and PdfGuard correspond to the code

`Intake` follows one request. `body` is the sequence of the fields that arrived; the
code reads each once and keeps the rest unread, so the model reads a field when it
appends it. `file`, `mode`, `printer`, `copies` are the `Option`s of `parse_job`;
`EndOfBody` is what follows its loop. A text is the value `TooLong` when it does not
fit its field. `printer_exists` is a choice. `Store` keeps the columns that the request
decides; what happens to file and row is `JobQueue`.

`PdfGuard` sees a document as what is tested before the scan (`HeadType`) and a number
of objects, each of which comes up when the scan reaches it. `Top` is the greatest
u64; `Product` saturates, sums are checked, `Yield` is the decoder cut one byte after
the limit. `exactBytes` and `exactPixels` are the same sums without limit or width, and
`unpacked` adds up what decoders yielded; no guard reads them. Parser and decoder are
external: `inflated` is what the decoder would yield, `torn` says that it then fails.
`content` is the length of what the parser leaves of an object. The parser may have
unpacked it, and no line of the guard bounds it by the size of the upload, so it may be
any u64. `WorkBounded` is about the decoders of the scan; what `Document::load_mem`
unpacks before it is outside the model.

### How Dashboard corresponds to the code

`calls` are the requests on their way, with the token they carry, their answer and
what it tells; they are answered and arrive in any order. Tokens are numbered by
pairings and only the last is valid, which `Pairing` shows of the dashboard's client.
`key` is `pollingTimers`: no entry, the null of a loop that begins, or a timer id that
may already have fired; `timers` are the timers that run. `Listed` to `NotPaired` are
the continuations after `await`, `Tick` a timer, `Refresh`, `Click...`, `EnterCode` and
`Reload` the user. `Watch` is `watchJob` for a set of jobs: without a token its first
poll throws at once and leaves no entry. `twin` says that the job list has a second
entry of a job that reads active, which arises when the answer to a creation arrives
after a list that has the job already.

Taken together or left out: previews (the wait for a preview's document remains, as
the state "preview" of a refresh), the two requests of a refresh are one call that may
be denied after its jobs were read, `canRetry`'s count of attempts (the server refuses
such a retry), the read of an error's text, and the exact window of the list: of the
settled jobs any part may be missing. A second entry has no buttons in the model, so a
job is canceled or retried by its first, and a denied document request clears the token
only while that is not the valid one; other calls show the clearing of a newer token.

The definitions of all modules whose name has an underscore, such as
`AfterRestart_Requeue`, are broken variants of the definition they precede;
`PROJECT.json` says which property notices which of them.

## What the runs check

| Run | Instance | Shows |
| --- | --- | --- |
| `one_agent` | one process slot; a spooled, a captured and a previewed job; 2 copies, 2 attempts, 1 database error | `TypeOK`, `AttemptAccounting`, `RowHasDocument`, `SubmissionOwnsRow`, `OutcomeIsTrue`, `PrintingIsHeld`, `NoLostWakeup`, `OutputOnlyInPrinting` |
| `one_agent_live` | one process slot, a spooled and a captured job in either order, 1 copy, 2 attempts, 1 database error, fair | `QueuedIsTaken`, `PrintingEnds` |
| `two_agents` | two overlapping processes, one job, 2 copies, 3 attempts, 1 database error | `ReplayNeedsRetry`, `AttemptSubmittedOnce`, `SuccessIsComplete`, `SettledNeedsRetry`, `CanceledIsUnsubmitted`, `MeetsContract` |
| `pairing` | two agent runs, a foreign listener, two dashboard codes for different ports and an application's code, two requests, one command | `TypeOK`, `CodeSpentOnce`, `OneDashboardToken`, `HistoriesApart`, `TokenKeepsOrigin`, `GrantStaysHome`, `OwnAgentProves`, `ServesHolders`, `RevocationIsFinal`, `MeetsContract` |
| `intake` | up to 4 fields, 12 kinds of documents, up to 3 objects of 21 kinds, a u64 of 4 bits | `TypeOK`, `StoredAsAsked`, `AcceptedWithinLimits`, `RefusedForCause`, `WorkBounded` |
| `dashboard` | one job, 2 attempts, 2 pairings, one fault, at most two requests before the user makes another, fair | `TypeOK`, `SoleLoop`, `ShownActiveIsPolled`, `ShownEndIsFinal`, `EndIsShown`, `LoopEndsForCause` |
| `doc_canceled` | one process, one job | "Canceled before submission started" does not hold of a job canceled after a retry |
| `doc_single_worker` | two processes, two jobs | two workers can submit at once |
| `doc_interrupted` | two processes, one job | a process that loses the port can strand a job in `printing` |
| `doc_capture` | one process, one capture | a failing capture leaves a torn file under its final name |
| `doc_spent_code` | as `pairing` | a failing second transaction spends a code without a token |
| `doc_polling_loop` | one job, one pairing, no fault | a poll answered before a retry and received after it ends the loop of a queued job |

Why the bounds are enough to be interesting. In the queue, two copies let a submission
fail or be killed between copies. Two attempts let a retry follow an interrupted
attempt and reach the cap; the literal three of the code is used where processes
overlap, so that a third attempt can meet two late ones. One database error can strike
the insert, the claim or the outcome. Two jobs let the worker be busy with one while
the other is inserted, retried or canceled. With one element, `Seconds` makes every
order of claims possible; with two, in the liveness run, the clock decides. Restarts,
crashes and timer ticks are not bounded. `MaxDbErrors` is a bound the code does not
have; a database that always fails leaves nothing to check.

In `pairing`, two requests can race for one code, or redeem the two dashboard codes in
turn, from two ports; the second agent run is the successor of the first; one command
can rotate what a request issued, beside a revocation. Everything may come to rest, so
deadlock is not checked, nor in `intake`, where a request ends. In `intake`, four
fields repeat or swap any two of the three kinds beside the file; the limits lie below
the greatest integer as in the code, close enough for a product to pass it, and two
streams together pass a limit each keeps.

In `dashboard`, `MaxFaults` counts failing requests, loads of the page and restarts of
the agent together, `MaxCalls` limits what the user starts (and the steps of a refresh
wait for it) and not the polls, whose number `SoleLoop` bounds. Loops of different jobs
share only the remembered job and the token, so one job is instantiated; two jobs are
beyond the memory of a small machine (more than eight million states).

Fairness (`FairSpec`) is weak fairness of the worker's steps, of a committed
handler's notification, of the bind and of the submission. The tokio runtime polls
ready tasks and ends sleeps, nothing awaits between a commit and `notify()`, and a
bind answers at once. That a submission returns is an assumption on the spooler. No
fairness is given to clients, users, restarts or crashes: the liveness properties
promise progress only while the process lives.

`Dashboard` assumes for each job that a poll on its way is answered, that the answer
arrives, and that a timer fires: `fetch` settles, and browsers fire timers of a page
that is open. Nothing is assumed of the user, of refreshes, of the worker or of the
agent's restarts.

## What is proved

`JobQueueProofs` proves, for any sets of jobs and processes and any numbers, under
the named assumptions of `JobQueue` on its constants: `TypeOK`, `AttemptAccounting`,
`ReplayNeedsRetry`, `AttemptSubmittedOnce`, `RowHasDocument`, `SuccessIsComplete`,
`SettledNeedsRetry` and `CanceledIsUnsubmitted`. None of the invariants is inductive alone. `IInv` adds: a queued
job has an attempt left under the cap (`Budget`); no output belongs to an attempt not
yet claimed (`Untouched`); an upload has one handler, no row, and its file on the way
(`Uploads`); a submission works on a claimed attempt and is the only source of that
attempt's output (`Submissions` with `AttemptSubmittedOnce`). The argument turns on
the attempts column: it only grows and only in a claim, so the number a claim returns
is new, and output, outcome and exclusivity can be told apart by it. One lemma per
action, or per group of actions that disturb the same conjuncts, shows that `IInv` is
kept; the theorems are read off it.

`JobQueueSoleProofs` adds the assumption `SoleAgent`, that a process is started only
after its predecessor is gone, and proves `OutcomeIsTrue`, `SubmissionOwnsRow`,
`PrintingIsHeld`, `NoLostWakeup` and `OutputOnlyInPrinting`. The strengthening is `HeldOwnsRow`: whatever is
being submitted is a printing row in its current attempt, also while a stopped
process drains. The runs `doc_single_worker` and `doc_interrupted` show that the
assumption is needed, and that `serve` does not enforce it.

`JobContractProofs` proves `MeetsContract`: `Spec => Contract!Spec`. Beside `IInv` it
needs that a job without a row has no retries and that a previewed job is never
submitted (`Unborn`). Each action of the queue is mapped to its abstract action; a
retry is legal because the accounting of attempts bounds `asked`, a copy because its
attempt was claimed, and so asked for.

`PairingProofs` proves all eight properties of `pairing` for any number of agents,
codes, origins, requests and commands. The strengthening: a request with a fresh
snapshot still sees its code unspent, and one past it finds it spent or deleted
(`Redemptions`); a client or token comes from a maker that is done, so no token is
stored twice (`Tables`); there is one active dashboard row and a token lies with the
origin of its grant (`OneDashboard`, `TokenOrigin`); once drawn the secret never
changes (`Proven`). `CodeSpentOnce` rests on `MayUpgrade`: two requests can both have
read the code, but the commit of the first outdates the snapshot of the second.

`PairingContractProofs` proves `MeetsContract`: `Spec => Contract!Spec`, and
`ServesHolders`. Beside the invariant of `PairingProofs` it needs that no two rows share a
token (`Rows`), so that a rotation replaces the one grant it means. An issued token pays
an owed code because a code is owed to one request alone (`CodeSpentOnce`), and replaces
just the dashboard's grant because there is one stable row (`OneDashboard`).

`IntakeProofs` proves the five properties of `intake` for any limits and widths that
`LimitAssumption` allows, bodies of any length, and any documents, of which
`DocumentAssumption` says only that lengths and dimensions fit a u64. `Counting` says that
the guard's sums are the exact ones as long as it has not refused (saturation and the
cut of the decoder show only above a limit) and that what was unpacked is part of them, so
that `WorkBounded` follows for the one stream that passes the limit; `Heard` that each field holds what the
body last said of it; `Checked` that a request past `EndOfBody` passed its tests.

`DashboardProofs` proves `TypeOK`, `SoleLoop`, `ShownActiveIsPolled`, `ShownEndIsFinal` and
`LoopEndsForCause` for any finite set of jobs and any bounds. The heart of the inductive
invariant is `LoopsOf`: a poll on its way and a running timer of one job exclude each
other, no job has two polls on their way, and `pollingTimers` has an entry for exactly
the jobs that have the one or the other. It is kept because `watchJob` looks at the entry
before it makes one, and every continuation of a poll replaces it or takes it away in the
step in which it is run. `Truthful` says that no answer on its way, and no entry of the
list, tells of a succeeded or canceled job that is not; answers are made from the present
state and both ends are final in `JobContract`, so age does no harm. `CallsOK` is what a
continuation relies on in its answer, `PairsBounded` that the pairings so far and those on
their way stay within their bound, for which `calls` is shown to be finite.

Only model-checked: the liveness properties `QueuedIsTaken`, `PrintingEnds` and
`EndIsShown` (fairness and ENABLED are beyond the prover), and the counterexamples. Every
other property of a passing run is a theorem.

## What disagrees with the documentation

The six `doc_` runs are listed with their quotations under `findings`. Two concern
this part of the code: a pairing code can be spent without a token, since it is
consumed and the token stored in two transactions; and the polling loop of a retried
job can end on an answer that was given before the retry. For this reason
`EndIsShown` is limited to jobs that were never retried.

## Not modelled

* `get_document`, `list_printers`, `list_clients`, `diagnose` and the command
  `printers` read and print; CORS and security headers decide what a browser may read
  and have no state. The files of refused or abandoned uploads are in `JobQueue`.
* Printer discovery asks the operating system and appears as a choice.
* Configuration and errors resolve paths and format answers.
* The SDK is a wrapper without state. A creation whose answer is lost is a call that
  `Lose` takes after it was handled.
* Previews and the printer list of the dashboard, its navigation, dialogs and toasts.
* Installer, landing page and examples.

## Plan

1. Done: the queue and its contract, pairing and its contract, intake with the PDF guard,
   the dashboard; proofs of all safety properties.
2. Next: what the proofs leave to `SoleAgent`, as a theorem about overlapping processes
   that names what still holds of a job while two of them work.
3. Then: two jobs in `Dashboard` with fewer faults, if a symmetry of jobs can be used.
