# Provenn in TLA+

Provenn issues invoices as stamped PDFs and later tells whether a PDF that an
employee hands in is one of them. An HTTP API (`cmd/api`) and a worker process
(`cmd/worker`) share a PostgreSQL database, a MinIO bucket and a River job
queue (a table of the same database). No operation that touches more than one
of the three is a transaction. What happens when calls fail, answers are lost,
processes die and jobs are run again is therefore up to the order of the calls
in the code, and that order is what the modules here describe and check.

## 1. The system

| Part | State | Operations | Models |
|---|---|---|---|
| Issuance (`internal/invoice/invoice.go`, `handlers.go`) | the request's loop counter and row | `createInvoice`, `CreateInvoice` | `Issuance` |
| Stamp worker (`stamp_worker.go`, `cmd/worker`) | the running `Work` of each job | `Work`, River's start, retry, rescue, discard | `StampWorker` |
| Repository and bucket (`internal/db`, `internal/storage`) | tables, objects | inserts, lookups, status update, `Put`, `Get` | `Store`, parts of `Download`, `Verification`, `Review`, `Accounts` |
| Status, download, billing (`handlers.go`, `db/billing_events.go`) | the request, billing events | `GetStatus`, `Download` | `Download` |
| Verification (`internal/verification/verification.go`) | the request, verification rows | `Submit` | `Verification` |
| Reference-code extraction (`verification.go:129-225`) | none | `ExtractRefCode`, and stamping as its counterpart | `RefCode` |
| Approval, list, export (`verification/handlers.go`, `db/verifications.go`) | approval columns | `Approve`, `List`, `Export` | `Review` |
| Authentication (`internal/auth`) | users, tokens | `Register`, `Login`, `RequireRole` | `Accounts` |
| Startup (`cmd/*/main.go`) | advisory lock, schema version | River migration with retries | `Startup` |
| Web pages (`web/app`, `web/lib`) | page state, `localStorage`, requests under way | list, decide, issue, poll, download, log in, register | `Dashboard` (admin page), `ProviderPage`, `Accounts` (forms and `AuthProvider`) |
| Platform console (`internal/admin`) | none | counting queries | no |
| Observability | counters | - | no |

How they meet: `CreateInvoice` inserts the row, uploads `{id}/raw.pdf` and
inserts a job. River hands the job to `Work`, which reads row and file, stamps,
uploads `{id}/v1.pdf`, inserts a version row with the hash and sets the status
to `ready`. Clients poll the status and download by reference code; the first
download inserts a billing event. Employees hand in PDFs; `Submit` takes the
reference code out of the file, finds the invoice, compares the hash with a
version row and inserts a verification, which a company admin approves, rejects
and exports. Role and company of every such request come from a token made at
login. Before any of this both processes bring River's tables up to date.

What is hard, and where the properties are aimed: calls that take effect but
report an error; a job that runs again after a failure, a crash, or a lost
completion, while clients already use what it published; several reads that
are not one snapshot; retries that cannot tell a collision from any other
error; the limits of attempts, slots and column widths; admins who decide the
same row; pages whose answers overtake each other or outlive what they were
asked for; tabs that share one login; a lock that belongs to a connection the
caller does not hold on to. `PROJECT.json` lists these hazards line by line.

### What makes each part correct

* Issuance: an acknowledgement means row, file and job exist; rows lost by the
  retry loop have no effect; a refused amount leaves no row in the table, and no
  request leaves more rows than its loop has turns; every request ends.
* Worker: a ready invoice can be served and verified; what becomes ready is the
  file recorded last; every job comes to rest.
* Download: no dead end after the status check; billed once, not before ready,
  and before the first byte.
* Verification: a match vouches for these bytes and the invoice of the code in
  them; a genuine file is refused only if the job ran again; a file of the
  worker never counts as one without a code.
* Approval: decided by an admin of the row's company; the pair of decision and
  approver comes from one request; a sheet holds only what was approved.
* Authentication: a token never contradicts the users table; an account is that
  of the one registration that was told so; company routes have a company.
* Startup: who is up has the whole schema; guarded migrations never meet; a
  start comes to an end.
* Web pages: what is displayed belongs to the company and was really decided
  so; waiting ends; polling loops do not pile up; a wrong status, a refused
  download, or a page with the wrong token have one cause each.

## 2. The modules

* `Store`: the shared variables (rows, objects, jobs) and the repository calls
  as operators. `status[i] = "absent"` is a row that was not inserted. Invoices
  are uuids and taken to be unique. A *rendering* stands for the bytes of a
  stamped file; the file is the pair of invoice and rendering, because the
  invoice's own code is in each of its files. SHA-256 is taken to be injective,
  so a version row holds the rendering its hash was computed from.
* `Issuance`: one action per call of `CreateInvoice`. Each call has three
  outcomes: it takes effect and answers, takes effect and errs, or errs. The
  amount is checked against zero by the handler and against the column's width
  by the insert. `InsertErrored` is the loop: any error is a collision, so a row whose
  insert answered with an error stays in the table and belongs to no request
  (`reqInv` does not know of it). `RowsAreChargedToTurns` therefore counts the rows of
  the table itself, against the turns of the loops.
* `StampWorker`: one action per call of `Work` (`Fetch`, `PutStamped`,
  `InsertVersion`, `FlipReady`, `Complete`), with `pc[i]` the next call of the
  `Work` that runs for invoice `i`. `Start`, `Unsuccessful` and `Rescue` are
  River's. `Crash` is the death of the process, not its shutdown, which lets running
  jobs finish: it ends every `Work` and leaves jobs in state `running`.
  `stampPDF` chooses any rendering: it falls back to a text stamp or to the raw
  file, and the PDF library writes the time into what it makes.
* `Pipeline`: requests and worker over one store.
* `InvoiceLedger`: what the pipeline promises, without requests, jobs and
  attempts: open, put up a file, record the file that is up, publish when the
  file that is up is the one recorded last. Nothing is withdrawn.
  `Pipeline!ImplementsLedger` is the refinement, with the mapping phase to
  status, served to v1 and records to versions (`StampWorker!Ledger`).
* `Download`: `GetStatus` is one query. `Download` is lookup, version row,
  billing event, stream. Each may fail and end the request; a failure while
  streaming leaves the client with a cut body, since the 200 is out.
* `RefCode`: a file as `ExtractRefCode` sees it, which is what each of its three
  methods meets first: the QR code, if the bytes decode as an image (a PDF does not);
  in the extracted text what follows "REF:", else the first word of eight characters
  of A-Z and 2-7; in the raw bytes what follows the first "REF:". `Stamped` and
  `Stamp` are what the worker makes of it: the footer may or may not be seen by the
  text extraction, old comments may get lost, stamping may fail, and "REF: code" is
  put at the end in every case. `FoundCodes[c]` are the codes that can be found in a
  file issued under `c`. How the PDF library orders text is not known to the code,
  hence these choices.
* `Verification`: `Submit` as four calls: the extraction and its first branch,
  the lookup, the comparison with some version row, the insert. A file is the
  code found in it and what its bytes are.
* `Delivery`: the whole server. It extends `Pipeline`, so requests, worker,
  clients and submissions run together. Submitted files are those that some client
  downloaded completely, with a code that `RefCode` allows for them, or foreign
  bytes with any code or none.
* `DeliveryLedger`: what the server promises those outside it. To the ledger of
  invoices it adds three steps, each at one moment: bill a ready invoice that was
  not billed, hand over the file that is up if the invoice was billed, vouch for a file
  that is recorded for a billed invoice. In the code each is spread over several
  calls. `Delivery!ImplementsDelivery` maps what is handed over to the complete
  body of a client, and what is vouched for to the file of a submission with the
  verdict `match`.
* `Review`: the verifications table as employees and admins of several companies use
  it. A PATCH is three steps: the request, the read with the company check
  (`CheckCompany`), the unconditional update. Each may fail, the update also after it
  took effect. `List` and `Export` are one query each. A row is its position in the
  table, which stands for its place in the order of `submitted_at`. (The column's
  default is the time of the insert's transaction, so concurrent inserts may be
  ordered otherwise than they commit; every property holds for whichever order the
  positions stand for.) What a row says about the invoice (hash, result, version) is
  left to `Verification`: nothing here writes it.
* `ApprovalLedger`: deciding a row as one step between question and answer, by an
  admin whose company is that of the row at that moment; who is refused has
  changed nothing. `Review!ImplementsApprovals` maps a call between request and answer to
  an open question.
* `Dashboard`: `web/app/admin/page.tsx` of one admin over `Review`. A list request is
  sent, answered and applied in three steps, so answers overtake each other and the
  decisions of others. `HandleDecision` is a click on a card that is shown
  (`HasButtons`); it sends a PATCH of `Review`, and `EndDecision` is what follows its
  answer, or the loss of the connection: then the slot is free and the buttons are
  back while the server may still be about to check or update the row. A decision
  keeps the tab of the render it was clicked in (`clickTab`), because the refresh uses
  that closure. `seen` is there for one property only.
* `ProviderPage`: `web/app/provider/page.tsx`. The effect on `result` starts a
  loop per issued invoice (`poll[i]`): ask, store, sleep. `IssueAnother` runs the
  effect's cleanup, which cancels the loop but not the request under way, so
  `ApplyPoll` stores the answer whether or not the loop was cancelled. The
  server is reduced to the phases of `InvoiceLedger`; an invoice may stay in
  processing for ever, as one whose job was discarded does.
* `Accounts`: `Register` and `Login` as one step of the server each, between the
  submission of a form and the continuation of its `handleSubmit`; and the
  browser. Tabs share `localStorage` (`stored`), each has an `AuthProvider`
  (`context`), and the home, admin and console pages read their token from
  `localStorage` when they are mounted (`token`). `EndLogin` writes context and
  storage and calls `router.push`; `Arrive` is the end of that navigation, so
  another tab may log in in between. A continuation survives its page being left
  by a navigation, not its being unloaded (`where`). `routed` is history for one
  property.
* `Startup`: the loop around River's migrator in both processes. The lock call,
  the reading of the applied versions, each version's transaction and the unlock
  are steps. The lock belongs to a session; lock and unlock each run on any
  connection of the pool, as `pool.Exec` does, so an unlock may miss the lock
  and leave it behind (until `CloseIdle`), or a second turn of the loop take
  it twice. Errors of both calls are dropped (`LockFails` goes on).
* `MigrationLedger`: bringing the schema up to date as entering, applying the next
  version, leaving and getting up. One process is inside at a time. A right to apply
  may be lost, and from then on others may apply beside whoever is inside, but nobody
  gets up before all versions are there. `Startup!ImplementsMigrations` maps inside to the
  processes that migrate on a session that was granted the lock, and lost to the history
  variable `unguarded`.
* `AccountRegistry`: accounts that are opened once, in one step, for one person who may
  be told so then, and never change; and tokens that are made of accounts and copied or
  forgotten. `Accounts!ImplementsRegistry` maps what was told to the requests answered 201
  with what they asked for, and the tokens held to all that are in answers, tabs and
  `localStorage`.
* `MCReview`, `MCDashboard`, `MCDelivery`, `MCAccounts`: constants and symmetry
  for TLC. `MCDashboard!BusyPageSpec` is the page with fewer tabs and inputs (section 3).
* `*_proofs`: see section 5.

Definitions whose comment begins with "Mutant" are deliberate bugs. No
specification uses them. They replace the definition after them to show that a
property would notice.

Left out: log lines, metrics, HTTP headers, the form's other fields, the filter
of a list on the result, the layout of the sheet, what a version row says
besides its hash, hashing and signing, the expiry of tokens (it only takes them
away). A reading call that fails without changing anything a client
sees is not an action. Malformed PATCH requests end before the table is touched.

## 3. The runs

| Run | Instance | Distinct states | Question |
|---|---|---|---|
| `worker` | 2 jobs, 1 slot, 3 attempts, 2 renderings | 266,000 | Does whatever is published serve and verify? Does every job wear out, and settle? |
| `pipeline` | 2 requests, 2 rows, 2 codes, 2 tries, 2 attempts, 2 slots, amounts 0, 1, 2 with an int4 limit of 1 | 211,000 | Is the ledger implemented, and does what was acknowledged get ready? What does a lost or refused insert leave in the table, and what keeps an invoice in processing? Does every request end? |
| `delivery` | 1 request, 1 invoice, 1 code, 2 renderings, 2 clients, 1 submission, 2 attempts | 3,467,000 | Are downloads and verdicts right while the request is on its way and the job runs again? Is the ledger of deliveries implemented? |
| `review` | 2 companies, 3 admins, 2 employees, 2 calls, 2 rows, lists of 1 | 123,000 | Do walls and decisions hold while admins interleave? Does deciding look like one step? |
| `dashboard` | 2 rows on one screen, 2 decisions, 2 admins, 2 lists under way, 2 tabs | 939,000 | Is what the page shows and sends right, also when answers overtake each other and two rows share the slot of the disabled buttons? Does waiting end? |
| `startup` | 2 processes, pools of 2, 4 versions, 3 tries | 44,000 | Is the ledger of migrations implemented, whatever becomes of the lock? Can a start go on for ever? |
| `provider_page` | 3 invoices | 37,000 | What can a late answer do to the page, and what can it not? |
| `accounts` | 3 emails, 2 passwords, 2 requests, 2 tabs, 5 forms | 1,150,000 | Is the registry of accounts implemented? Can a token contradict the table, a page get the wrong token? |

Why the bounds are enough. A second attempt is where a job can differ from itself, and
a third is where a rerun meets the work of two others. Invoices meet only at the
worker's slots, so two jobs over one slot show waiting and two over two slots show
independence; in `delivery` one invoice is enough for what clients and the worker do
to each other. That a code of one invoice in the file of another never makes a match
is proved for any number of invoices and codes (`MatchesAreAuthentic`). One request
with one try suffices for the same reason: what several requests do to each other is
the question of `pipeline`. Two clients suffice for a race on the billing event, whose
key is the invoice. Two tries per request let an insert be lost and its request still
succeed, on the other row. The amounts are one refused by the form, one accepted, and
one that only the column refuses. The bounds `MaxAttempts`, `MaxTries`, `MaxWorkers`
and `Int4Max` exist in the code, with larger values (25, 5, 5, 2^31 - 1); no other
counter is cut off there. In `Review`, `ListLimit` is the code's 50; `MaxRows` and the
set `Call` cut off the table and the PATCH requests, and `Fetch` the lists a page has
under way. Two calls are the first that can race for a row, and a row more than the
limit is the first that a list leaves out. Two lists under way are the first that can
overtake each other. Two decisions are the first that share the slot of the disabled
buttons. To leave room for them, `MCDashboard!BusyPageSpec` keeps to two of the four
tabs, has all rows in before the page is opened, the first of them by e1, and lets the
page approve and the other admin reject; none of this constrains a fair action, and
`empty_tab_is_empty` runs without it. A third decision, which is the first that can be
a second one on a row whose answer the page still waits for, is beyond TLC's liveness
check in reasonable time: what the slot still excludes then (`SecondClickNeedsOther`)
is proved, for any number of rows and decisions.

In `Startup` a pool of two is the first in which lock and unlock miss each other,
`MaxTries` is the code's 3, `MaxConns` its pool size of four or more, and four
versions let two unguarded migrations overtake each other more than once. With three
invoices a late answer can meet the form, the next invoice and the one after.
Two requests in two tabs are the first that can overtake each other; the
two seeded users and the new email give each tab a role of its own, and the forms
hold a taken email, a free one twice, a company that is missing and one that
does not exist.

The two properties that end in `WearOut` are action properties with a measure: what a job
or a start can still do is a number that no step raises and each move lowers. TLC shows
it on these instances, the proofs for all; with the liveness properties it says that
the end comes because of the limits in the code, and not because of fairness alone.

`delivery`, `review` and `accounts` use symmetry: over clients and renderings; over
calls, employees and the two admins of one company; over requests and tabs. No
action and no property of theirs tells one from another, and they check safety only
(invariants, action properties and refinements). `delivery` also has a view: a
request that has ended takes no further step and no property of the run asks how
it ended, so states that differ in that alone are one.

Deadlock is not checked where the system may stop: when all requests have
ended and all jobs are completed or discarded (`worker`, `pipeline`). Everywhere
else somebody may always act (ask, list, restart, reload), and deadlock is checked.

### Disagreements between code and its words

Four runs check a statement of the repository and end in a counterexample.

* `downloaded_matches`. The end-to-end test expects `match` for a downloaded
  file (`internal/e2e/e2e_test.go:338-340`). If the first attempt gets as far
  as the version row and then fails, or its completion is lost, the second
  attempt overwrites `v1.pdf` and inserts another row, again with version number
  1 (`stamp_worker.go:79-88`). The latest version is then any of the two. The
  proved counterpart `GenuineMismatchNeedsRetry` says that nothing else leads
  there.
* `stamp_is_found`. `stamp_worker.go:65-66` says of the comment at the end of the
  file that the raw scan "will always find it". The scan comes last, after the
  extracted text, where any word of eight capitals counts as a code
  (SUBTOTAL, CUSTOMER), and it takes the first "REF:", which an older stamp
  in the same file may hold. What does hold, and is proved, is `OwnFileHasCode`:
  some code is found. `StampIsFoundUnlessForeign`, proved too, says when it is another:
  only if the PDF brought along something that reads as one.
* `processing_in_progress`. `handlers.go:162` tells clients to try again shortly.
  After a failed upload or enqueueing (`invoice.go:97`, `102`), or a discarded job,
  nobody is at work on the invoice and nobody will be. `ProcessingIsExplained`,
  proved, says that these are the only ways.
* `empty_tab_is_empty`. The page says that a tab has no rows
  (`admin/page.tsx:202`) because the answer for the tab selected before arrived
  last. Nothing corrects it until the next click.

These were met while modelling and need no run:

* The comment on `verification.go:83` reads an error of the lookup as an unknown
  code, but a lost connection ends in the same branch, and the verdict
  `not_found` is stored for good (`FindInvoice`).
* "so only one process migrates at a time" (`cmd/api/main.go:59`) is not so when
  the lock call fails, whose error is dropped, or the session that holds the
  lock is lost. `ImplementsMigrations` and `RaceNeedsLostLock` say that nothing else leads
  there, the unlock on the wrong connection in particular.
* `auth/handlers.go:86` answers "email already registered" to every error of the
  INSERT, also to a company that does not exist.
* The comment on `List` promises an admin all of the company's rows
  (`verification/handlers.go:86`), but the limit of 50 comes with no offset.
  `CutOnlyWhenFull` is what holds instead: a matching row is left out only by a list
  that is full of newer ones, so deciding what is listed as pending leads to every
  pending row.
* `provider/page.tsx:255-257` says "Polling for status updates" whenever the
  stored status is not ready. A late not-ready answer for an earlier invoice may
  replace the Ready of this one after its loop has ended, and then nothing polls
  any more. `OnlyLateAnswersUndo` says that this is the only way.
* `provider/page.tsx:44` redirects who is "not authenticated or not a provider",
  but looks at the first only; and a reload of the page sends an authenticated
  provider to the login, because its effect runs before the `AuthProvider` has read
  `localStorage` (`Accounts!Load`).

## 4. Fairness

Safety needs none. `Delivery`, `Accounts` and `Review` alone state none;
`ServerSpec` takes the steps of `Pipeline`, not its fairness.

In `Pipeline` a handler is a goroutine that takes its next step until it returns; all
its calls carry the request's context, which has a timeout, so a call that does not
answer ends as an error (an outcome of the same action). `RequestsEnd` rests on this
alone. `WorkerFairness`: River polls for jobs and runs its rescuer as long as a worker
process is up, so starting, rescuing and the calls of `Work` are weakly fair. That a
worker process is up again after it died is an assumption about operation, not about
the code: `deploy/docker-compose.yml` has no restart policy, and `JobSettles` and
`AckedBecomesReady` do not hold where nobody starts it again. `Crash` is not fair, and
calls need never succeed: `JobSettles` and `AckedBecomesReady` say that a job is
completed or discarded in the end, not that it is completed. Weak fairness is enough
because a waiting job stays startable until its slot is taken, and a slot is taken for
at most `MaxAttempts` attempts of each other job.

`Dashboard`: a request that was sent ends in an answer or an error and its
continuation runs (`EndFetch`, `EndDecision`), and a handler takes its next step
(`Decide`). Clicks are not fair, and an error is always possible, so `SpinnerStops`
and `ButtonsComeBack` do not assume that a request succeeds.

`ProviderPage`: timers fire (`Wake`), and polls which are made again and again do not
fail for ever (strong fairness of `AnswerPoll` and `ApplyPoll`), since `ReadyIsShown` is
a promise about success. Nothing is assumed of the worker: the promise is about
invoices that have become ready, and those of a discarded job never do
(`processing_in_progress`).

`Startup`: a process takes its next step; a waiter for an advisory lock is
granted it if the lock becomes free again and again, since PostgreSQL queues
waiters (strong fairness of `Granted`); the pool's health check closes idle
connections (`CloseIdle`). Crashes, restarts, lost sessions and failures are not
fair. Without `CloseIdle` a process could wait for ever for a lock that its own
pool holds on another connection.

## 5. The proofs

Everything below is for any sets of invoices, codes, renderings, requests,
amounts, clients, submissions, rows, admins, emails, tabs and processes and any
limits. It is proved from the assumptions on the constants alone: `None` is no
member of the sets, limits are positive, amounts are integers, seeded users
satisfy what `Register` checks.

`StampWorker_proofs`. The published properties are not inductive: `status = "ready"`
implies a recorded file only if one knows what a `Work` about to set it has done.
`WorkerInv` adds, by the position of the running `Work`, which of upload, row and
status have been done in this attempt (`ProgressInv`), that only a queued invoice has
anything (`JobInv`), and that records are fewer than attempts while the current one
has not inserted (`RecordInv`). The last gives "one attempt, one record". `WorkStep`
and `CrashStep` show that every step keeps it; `WorkerSafe` and
`ReadyServesAndVerifies` follow, and the action property `FlipPublishesRecorded`
(`FlipIsExact`): a `Work` at its last call has uploaded and recorded the same file.
(No run checks that one by itself: the ledger's `Publish` demands it.) `JobsAreFinite`
proves `JobsWearOut`: `MovesLeft` counts seven moves for each attempt that is left and
what the place in `Work` has still to do; the invariant is needed for the attempt that
`Start` spends (a job that waits has one left) and for `Crash` (only a running job has
a `Work`). It is the half of `JobSettles` that needs no fairness: what remains for
fairness is that some move is made. `WorkerKeepsLedger` maps each step of a job to a
step of the ledger or a stutter, for every composition the worker is part of.

`Pipeline_proofs`. `RequestInv` says what a request at each position has left in the
stores (`HoldInv`), that objects and jobs exist only for rows some request holds
(`HeldInv`), and that codes and rows belong to one request. An issuing step adds a row
nobody works on or queues a job never started, so it keeps `WorkerInv`
(`IssueKeepsWorker`). The theorems carry the properties of both modules over to the
composition, and `PipelineRefinesLedger` shows that each step, crashes and failing
calls included, is a ledger step or a stutter. `RowsAreAccountedFor` proves
`RowsAreChargedToTurns`: an injection from the rows of the table into the turns of
requests whose amount form and column accept. It survives each step because turns are
only added (`TurnsAreKept`), and the step that adds a row, whatever it answers, adds
the turn it was made in (`OneMoreToCharge`); that no turn is used twice needs
`HoldInv`, by which a request still in its loop has no row of its own.
`ProcessingHasAReason` is the positive side of `processing_in_progress`;
`CodesAreUnambiguous` says that a code leads to the row of one request;
`HashesAreBounded` that an invoice never has more version rows than its job had
attempts; `QueuedJobsAreFinite` that no request gives a job that is over a new life;
and `WhatIsSeenStays` that no step takes back a status, a recorded hash or the object
to serve.

`Delivery_proofs`. `ServerIInv` is the invariant of the pipeline and that of clients
and submissions. `Kept` is what no step of a request or a worker takes back: the code,
readiness, records already there, and in a first attempt also the list of records of a
ready invoice. A client that holds a file knows that it is the only record of its
invoice until a second attempt (`FileOf`), hands this on to the submission, and
`Compare` uses it: the row found by the file's own code is the file's invoice
(`CodesUnique`, from the pipeline's `HeldInv`), so a mismatch means that there was a second
attempt. `StampLeavesCode` is the lemma about `RefCode` behind `OwnFilesAreLookedUp`:
the last of the three methods finds at least what the worker put at the end.
`ServerIsAPipeline` carries the pipeline's safety over to the server, and
`ServerRefinesLedger` its refinement.
`DeliveryKeepsItsPromise` is the refinement of `DeliveryLedger`. That a client who
streams is one whose invoice was billed is `ClientInv`; that nobody is vouched for
before the invoice was billed is not in it, since a submission does not look at
billing: `Vouchable` follows it from the download that the file came from, and
`BillsStay` keeps it. The run checks the refinement; `BilledOnceWhenReady` and
`DeliveredIsBilled`, proved on their own, are consequences of it.

`Review_proofs`. That the updated row is of the admin's company follows from a check
made on an earlier read. `ReviewInv` therefore says of a call between check and update
that its row is of its admin's company (`CallInv`), and `Kept` says why that stays
true: rows keep their place, company and employee, a decided row stays decided, and a
call that has ended keeps what it asked for. With `Kept`, a decision once made stays
made (`EarnedIsKept`), and so every list and sheet handed out stays right although it
is a snapshot. The theorems are `DecisionsAreEarned`, `AckedIsDecided`,
`RepliesAreOwn` and `RepliesAreEarned` for any number of rows, calls, admins and
companies. `RepliesAreOwn` is a matter of two WHERE clauses and of the rows'
permanence, so no run spends a check on it. `DecidingIsAtomic` is the refinement of
`ApprovalLedger`: the update is the step that decides, and the check made before it
still holds because a row keeps its company; a refusal is the step that finds another
one. `AckedIsDecided`, proved on its own, is not among the run's properties because
the refinement implies more. `ListsAreFull` proves `CutOnlyWhenFull`, about the newest
rows of a set: a finite set of positions has a least element (`LeastRow`, by
well-founded choice), and what is not among its newest has as many rows above it as
the list is long (`NewestIsFull`).

`Dashboard_proofs`. Steps of the server keep `Kept`, so cards on the screen or on
their way to it stay right (`CardStays`); steps of the page alone leave the server's
invariant alone (`QuietStep`). `PageInv` ties the two: a click was made on a card,
cards are of the own company, so its call passes the check, answered or not
(`PageCallPasses`); a refresh is sent only after a 200, so `AckedIsDecided` says what
its answer shows. `PageIsAClient` shows that the page makes the steps of `Review` and
no others, so a click too is one atomic decision (`ClicksAreAtomic`). `OpenInv` is
needed because `clickTab` tells clicked calls from others by its not being `None`.
`SlotInv` is what makes `SecondClickNeedsOther` inductive: a row with a decision under
way that does not have the slot lost it to a decision on another row, which took it
or, at its end, freed it (`SlotStays`). The theorems are the safety properties of the
run, `SecondClickNeedsOther`, and that the spinner is on only while a list is under
way.

`Startup_proofs`. `ProcInv` ties a turn of the loop to the lock: who migrates with
a session (`sess`) is the holder, and who migrates without one has lost the
lock or never had it. From this, as long as nobody was unguarded, what a migration
has seen is what is there (`seen[p] = schema`), so no version is applied twice.
`HolderIsAlive` is needed for the lock of a dead process. The arithmetic of nested
acquisitions (`depth`) is in `ReleaseFacts`. `StartsMigrate` is the refinement of
`MigrationLedger`. Its lemmas speak of the two sets the ledger sees: a step of one
process moves nobody else in or out (`OneMoves`), and whoever is granted the lock, for the
first time or once more, finds nobody inside (`GrantedFindsNobody`), since who is inside
holds it on a session of its own. `UpHasSchema`, `LockExcludes` and `RaceNeedsLostLock` are
proved from the invariant; the first two say what the ledger says of up and inside.
`StartsAreFinite` proves `StartsWearOut`. The bound is a product, the turns left times the
moves of a turn, so its arithmetic has lemmas of its own (`TurnCosts`, `MoveInTurn`): a
move within a turn leaves the product alone, and the next turn costs one more than it
gives.

`ProviderPage_proofs`. `LoopInv` says where the loop of each invoice may be: never
started while the invoice is not on the screen, cancelled unless it is, over only
if cancelled or ready. `OneLoop`, `OnlyLateAnswersUndo` and `RefusedDownloadIsLate`
follow, the last because a Ready on the screen is always of a loop that had stored
it and was cancelled if it is not the own one.

`Accounts_proofs`. Rows are never updated, so a token keeps telling the row it was
made from: `TokensTellTheRow` is inductive with `RowsAreSound`. `TabInv` is the
argument for the tabs: after a login `stored` is its token or that of a login that
ended elsewhere (`FromElsewhere`, which is stable), the page that is being navigated
to is that of the token's role, and a token page that no login led to has no
continuation of a login pending. `MisfitNeedsOtherTab` follows when the page is
mounted. `AccountsKeepTheRegistry` is the refinement of `AccountRegistry`: an INSERT
that took effect is the step that opens an account, whatever its answer; a login that
is answered 200 grants; all that the browser does, forgets (`BrowserForgets`).
`CreatedIsKept` and `TokensTellTheRow`, proved on their own, are consequences of it.
The steps that leave all tabs alone share one lemma (`TabsDoNotNotice`), and so do
those that touch one tab only (`OtherTab`).

Only model-checked: the liveness properties `JobSettles`, `AckedBecomesReady`,
`RequestsEnd`, `SpinnerStops`, `ButtonsComeBack`, `StartupEnds` and `ReadyIsShown`.
The prover has no rule for fairness or ENABLED here. All invariants, action properties
and refinements of the runs are proved.

## 6. Not modelled

* The employee page, the portal, the console and the download page: each has one
  request at a time under way over handlers that are modelled, or only links.
* Partner keys (`APIKeyMiddleware`): one read per request; partners and companies are
  written by seed scripts only.
* The console's counting queries, observability, routing: no state anything reads
  back. Shutdown and request timeouts are the failures and crashes of the other
  modules.
* Expiry of tokens and the 24 hours they last: they take tokens away, and no
  property needs one to be there.
* Several submissions of one file: nothing the code does relates them, so there
  is nothing to state but that duplicates are possible.

What could come next: `Review` fed by `Verification` instead of free inserts; the
server of `ProviderPage` tied to `InvoiceLedger` by a refinement.
