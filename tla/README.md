# Formal model of Tradutor.IA / Yomu

This directory holds a TLA+ model of the parts of the repository where processes,
crashes and requests meet: the persistent job queue in `jobs.sqlite3`, the worker
processes that drain it, the runner and pipeline processes a worker starts, the UI
process that shares nothing but the database with them, the launchers that keep
workers alive, the pages of a chapter through the attempts to translate it, its
payment, the progress a pipeline reports, the publication of a finished chapter and
the quality revision of one. TLC model-checks
small instances; TLAPS proves the theorems listed below for every value of the
constants.

All modules are translated from the Python source. `PROJECT.json` gives, for every
definition, the file and lines it stands for.

## 1. Inventory

Paths are relative to `src/yomu/` unless they start with `src/`.

| Component | State it keeps | Operations | Modelled in |
|---|---|---|---|
| Job store, `runtime/job_store.py` | `jobs`, `workers`, `reviews`, `events` tables (SQLite, WAL) | `create_job`, `transition`, `claim_next_job`, `orphaned_in_flight_jobs`, `request_cancel`, `mark_resumable`, `complete_review`, leases | `JobStatus`, `JobLifecycle`, `JobQueue` |
| Worker service, `runtime/worker_service.py` | lease, current job, active runner handle | poll loop, `_reconcile_stale`, claim, `_prepare_source`, `_apply_phase`, `_run_one`, `_stop_active_runner`, `_reconcile_runner_exit` | `JobQueue` |
| Job runner, `runtime/job_runner.py`, `runtime/runner_start_gate.py` | its pipeline child, stop flag | start gate, boot checks, STARTING/RUNNING, spawn, cancel, stop, `_finalize` | `JobQueue` |
| Process trees, `runtime/process_tree.py` | none (asks the OS) | `snapshot`, `matches`, `terminate_tree` | `JobQueue` (`TrackedUp`, `Killed`) |
| UI bridge, `ui/ui_bridge.py` | HTTP handlers, owned worker handle | `start`, `cancel`, `resume`, `dismiss…`, `reconcile_orphans`, `confirm_source_pages`, `resume_source_verification`, `continue_authorized_download`, `ensure_worker`, `shutdown` | `JobQueue`, `WorkerSupervisor` |
| Source readiness and source phase, `review/source_readiness.py`, `review/source_analysis_phase.py` | policy rows, resolutions | `apply_source_analysis`, `resolve_ready_pipeline` | `JobQueue` (`Decide`, `Handoff`, `ResolveReady`) |
| Worker supervisor, `runtime/worker_supervisor.py` | state, child handle, restart budget, stop event | `run`, `_schedule_restart`, `request_stop` | `WorkerSupervisor` |
| Launcher, `commands/start_tradutor.py` | `_SUPERVISOR` | `start_worker`, `supervise_worker`, `start_ui`, `stop_worker`, `main` | `WorkerSupervisor` |
| YK reservation, `runtime/yk_reservation.py`, `translation/providers/yomu_backend_provider.py`, `src/supabase/…` | `yk_reservations` and `translation_requests` rows; `.yk_reservation.json`, the cached results and the ready marker | reserve, send, replay, mark, consume, release, recover | `YkSettlement` |
| Progress events, `runtime/progress_contract.py`, `_OutputPump`, `JobStore.apply_progress_event`, `update_progress` | the pump's counter and queue, the row's progress columns | read, number, drain, apply, join | `ProgressEvents` |
| Quality revision, `review/chapter_quality_revision.py`, its handlers in `ui/ui_bridge.py` | revision manifests, pointer, checkpoint, request cache, PDFs and their version record | start, resume, cancel, poll, sweep; the review loops | `ChapterRevision` |
| Quality review of regions, `JobStore.record_review_action*` | revisions, action log | record, bulk record, complete | `JobQueue` (`complete_review` only) |
| Community publish, `community/…`, `Worker._recover_*_community_publishes` | posts, files, publish jobs, files of the storage provider | publish, upload, finalize, recover; unpublish, moderate, delete, trash | `CommunityPublish` |
| Pipeline, `pipeline/benchmark_pipeline.py`, `pipeline/pipeline_cache.py`, `ocr/ocr_parallel.py` | page files, `progress.json`, PDF, processed and OCR caches | reuse, precheck, OCR, classification, translation, rendering by two threads, export | `ChapterPages` (what the stages compute is not modelled) |
| Download and source adapters | files | network and site-specific parsing | not modelled |
| Adaptive scheduler | in-memory permits | acquire, release, resize | not modelled: it changes durations only |
| Update bootstrap and installer | payload directories | stage, activate, probe, roll back | not modelled (section 9) |
| Authentication, desktop shell, static UI, VPS scripts | – | – | not modelled: external services, presentation, operations |

### How the components interact

* **Shared database.** UI, workers and runners open `jobs.sqlite3` themselves. A
  statement is atomic; a *read, decide, write* sequence is not. `transition` guards
  its `UPDATE` with the status it read, so it is atomic in effect, but a handler that
  calls it twice, or that reads a row, asks the OS for a process and then writes, can
  be interleaved with anything.
* **Processes.** launcher → worker → runner → pipeline. Each is a process of its own,
  started detached: a parent's death kills no child. Identity is pid + creation time
  (+ the job id on the command line for runners).
* **Signals between processes** go through the database (`stop_requested`,
  `cancel_requested`), through a gate file (worker → runner) and through
  `terminate_tree`.
* **Attempts of a chapter** hand their work on through files only: a resumed attempt
  reads the page files, the checkpoint and the reservation of the one that died, and
  every job reads the caches.
* **The wallet's server** is reached over HTTP by the pipeline (reserve, translate,
  commit), the runner and the worker (settle). A call whose client has given up goes
  on at the server; what one attempt leaves behind in the output directory is what the
  next one knows.
* **Publication** spans three stores no transaction covers: `community.sqlite3`, the
  job row and the storage provider.
* **A revision** is a thread of the UI process; requests and restarts reach it only
  through files that are read, changed and written back without a lock.

### What is hard here

Two workers alive at the same time (start race, suspended machine whose lease goes
stale); a worker that dies between any two statements; a runner that outlives its
worker; a tree that survives `kill`; a pid that cannot be stored; a cancel that races
claim, analysis, start, finalization and exit accounting; a UI request that acts on
a row it read before somebody else moved it; a wallet that cannot settle; a worker
that keeps crashing; a launcher that closes while its supervisor restarts the worker;
a settlement that races a request still at work or one that only begins; a paid
translation lost, or a refunded one kept; a post withdrawn while its upload goes on; an upload retried after a late
answer; a page drawn in place over the file a record calls completed, then cached, then
recorded, with a death between any two; a pump whose queue is full while the runner waits for it; a PDF half written
when the process dies.
The list with source lines is `PROJECT.json`, `hazards`.

## 2. Modules

| Module | What it is |
|---|---|
| `JobStatus` | the 15 statuses, their classes and `ALLOWED_TRANSITIONS`, as constants |
| `JobLifecycle` | *abstract specification*: what a single row may do, whoever writes it |
| `JobQueue` | *detailed specification*: every writer of the row, process by process; implements `JobLifecycle` |
| `JobQueueClaims` | sentences of comments the queue does not keep, each with a run that shows it |
| `MCJobQueue` | TLC instance: symmetry sets |
| `JobQueue_proofs` | types of `JobQueue`; it implements `JobLifecycle`; settled rows stay; runners are recorded before they work |
| `JobQueueSafety_proofs` | one supervisor per row, resumed rows are history, pipelines are tracked, one per output, and wanted; rows in flight are attended, runners have their source |
| `WorkerSupervisor` | launchers, supervisors, UI-started workers and worker processes |
| `WorkerSupervisor_proofs` | types, restart budget, serial children, finality of a stop |
| `ChapterPages` | the attempts on one chapter, its pages, files, caches and reservation |
| `ChapterPages_proofs` | types, current pages, whole PDFs, renderings that are paid for, chapters that are read |
| `MCSuperviseChapter` | TLC instance of the two |
| `CommunityPublish` | requests, worker, upload runner, two databases and the storage provider |
| `CommunityPublish_proofs` | types, no duplicate, withdrawn posts stay withdrawn, `publishing` is backed, the feed is readable, jobs tell the truth |
| `ProgressEvents` | pipeline output, pump thread, runner's loop, progress columns |
| `ProgressEvents_proofs` | types, no gap, nothing lost, nothing that turns back |
| `MCPublishProgress` | TLC instance of the two, with their fairness |
| `YkSettlement` | reservation, requests, pipeline's calls, settlement and recovery of one chapter |
| `YkSettlement_proofs` | types, the file agrees with the server, charged work is kept, counted work is not refunded |
| `ChapterRevision` | a revision's thread, the requests around it and the files between them |
| `ChapterRevision_proofs` | types, complete revisions, whole PDFs, polls that settle |
| `MCSettleRevise` | TLC instance of the two |

`JobQueue` and `WorkerSupervisor` overlap in one place: the start of a worker.
`JobQueue` sees a launcher as "a worker is started when none is healthy"
(`StartWorker`); `WorkerSupervisor` models who does that, how often and who ends it,
and sees the queue not at all. `YkSettlement` refines what `JobQueue` calls "the wallet
settled or did not" and sees one attempt at a time; `ProgressEvents` sees one runner and
the columns `JobQueue` leaves out. `CommunityPublish` has rows of its own job type, for
which `JobQueue` claims nothing. `ChapterRevision` starts where a job is over.
`ChapterPages` looks into the pipeline: it takes from `JobQueue` that a chapter's
directory has one attempt at a time, and sees the reservation as `YkSettlement` sees
one attempt, through several.

### `JobQueue`: state and code

| Variable | Code |
|---|---|
| `row[j]` | columns of `jobs`: `status`, `chap` (owner, slug), `owner` (`worker_id`), `cancel` (`cancel_requested`), `rw`/`top` (`runner_pid` + `runner_create_time`), `recov` (`recoverable`), `prev` (`retry_of_job_id`), `root` (the output directory, shared by the attempts of a chain), `payload`, `sel`, `auth` (source evidence, selection, resolution) |
| `lease[w]`, `stopq[w]` | the row of `workers`: fresh/stale heartbeat, `stop_requested` |
| `wk[w]` | program counter and locals of `Worker.run`; a restarted worker is a new instance |
| `todo[w]` | the list `orphaned_in_flight_jobs` returned, with the snapshot of each row |
| `run[w][j]` | the runner `w` spawned for `j`: program counter, whether its pid is stored, gate, pipeline child, outcome |
| `rq[r]` | a UI request: where it is, its row, and the copy of the row it decided on |

One action is one statement (or one guarded read-then-`UPDATE`) plus the local code up
to the next database, file or process call. What the code reads and *keeps* is kept:
the orphan list, the row snapshot of `cancel`, `resume` and `reconcile_orphans`, the
status read by `_reconcile_runner_exit`. A handler that reads a row and then releases or
cancels it by `transition`, which expects no status, does so in two actions:
`ConfirmPages`, `VerifySource` and `AuthorizeDownload` are followed by `Requeue`,
`CancelHeld` by `SettleCancelled`. Reads merged with a write after them are these, and
nothing can change in between what the write depends on: the flag `request_cancel` reads
before its `UPDATE`; a *negative* answer of a process probe, which is stable; the status
`confirm_source_pages` reads before it stores the selection, which is stored whatever
the status then is and which a row that has left the hold already has, or no longer
needs; the owner checks of `dismiss…` and `complete_review`, whose `UPDATE`s name the
status they expect. `ResolveReady` and `Handoff` are one immediate transaction each.

The process identity needs care. `_run_one` stores pid and creation time of the
process it started, which on Windows may be a venv shim; the runner then overwrites
the pid with its own and leaves the creation time. `top`, `skew` and `TrackedUp`
follow that: the pair matches as long as both processes start within the tolerance.

Faults are constants of a run (`Faults`), so that a run can say under which of them a
property holds: worker crash, stale lease of a live worker, a failed store of the pid,
a tree that survives kill, a runner that dies without its pipeline, the start-time
skew, an unreachable wallet, a UI restart.

Abstracted, and why it does not matter for the properties: the contents of analysis,
policy and reports (nondeterministic outcomes); `claim_next_job`'s filters on
`queued_at` and on the worker's contract (all rows pass); `active_job` (`cancel` picks
*any* in-flight row, the code the latest claimed); timeouts (may always expire);
the completion-evidence branch of `reconcile_orphans`, which no in-flight row reaches.
Not in this module: `STAGING` uploads, `retry_job`, review and community child jobs,
and the `.cancel.requested` marker file.

### `WorkerSupervisor`: state and code

| Variable | Code |
|---|---|
| `proc[w]` | a worker process: not started, booting (before `another_worker_alive`), checked, registered, gone; the launcher whose child it is; its `stop_requested`; whether it ran for `STABILITY_SECONDS` |
| `sup[l]` | `WorkerSupervisor` thread: where `run` is, `self.process`, `self.restarts`, the stop event |
| `la[l]` | `main(["all"])` and the UI it waits for: `look`, `spawn` (`start_worker`), `ui`, `ensure` (`ensure_worker`), `uistop`/`uiwait` (`UiBridge.shutdown`), `intent`, `stop`, `await` (`stop_worker`), `exit`, `gone` |
| `short` | history: starts in a row that did not prove stable |

`ensure_worker` starts a worker the supervisor knows nothing about; a child the
supervisor restarts then finds it and exits, which costs the budget. `stop_worker`
asks *whichever* worker is healthy. Both are in the model, as is a worker that was up
before the launcher came. Abstracted: stale leases of live workers (in `JobQueue`),
the stop of a worker with another contract or environment, `--force`, the wording of
`state`, and a launcher that is itself killed (its supervisor dies with it, and its
worker goes on, as documented).

### `ChapterPages`: state and code

| Variable | Code |
|---|---|
| `look[p]` | a downloaded page: whether OpenCV can decode it, and what `no_text_precheck`, `valid_image` and the OCR tell of it |
| `attempt` | the pipeline process: its stage in `run_benchmark`, the page of its precheck loop, `resume_checkpoint`, `force`, the version of its code and settings |
| `page[p]`, `ocrJobs` | `page_states` and `ocr_jobs`, and how far the page's own thread is |
| `previous`, `progress` | `previous_records` and `progress.json` |
| `out[p]`, `pdf` | `page_XXX.png` and the PDF in the output directory, each page file with the version that wrote it |
| `kept`, `ocrKept` | the processed cache by page and `process_key`, an image and then its metadata; the OCR cache |
| `purse` | `.yk_reservation.json` and the requests whose results are stored |
| `paidFor` | history: pages whose translation a consumed reservation paid for |

An action is a file operation of a page (its rendering in place takes two), or a stage
between two of them. A version stands for `process_key` and `run_signature`: code,
settings and fonts; versions only grow, since a resumed job keeps its command and only
an update changes the rest. With a setting switched to and fro, a page copied from the
cache before a crash can be taken for the record of another setting's file; that case is
outside the model. All texts of an attempt are one request, the calls of
`YkSettlement` in between are not repeated here, and a settlement succeeds or leaves the
reservation held. Left out: output plans, the clean and layered artifacts, cancellation
points (a cancel ends an attempt as `RaiseError` does), `PIPELINE_STREAMING` (off by
default), reports, and what OCR and rendering compute. Rendering has two threads, the
default of `PIPELINE_PAGE_WORKERS`.

### `CommunityPublish`: state and code

| Variable | Code |
|---|---|
| `post[p]`, `file[f]`, `latest[p]` | `community_posts` and `community_files` (one row per post and content), and which file is the newest |
| `remote[r]` | what the provider holds for an upload session: `complete`, or `unusable` while it is in part and once it is deleted |
| `pub[j]` | the publish job's row in `jobs`: status, its file, `cancel_requested`, owner, `recoverable`, the exit the worker recorded, the attempt |
| `api` | the request that holds the API's `_community_lock`, and which of its transactions is next |
| `worker`, `upload` | the worker's recovery and claim, and the runner process it started |
| `asked`, `earlyId` | what users ask for, and whether the provider names a file when its session opens |
| `withdrawn` | history: jobs whose post left `publishing` by another's hand |

An action is one transaction or one provider call; checks with no write between them
are one action. `PublishNext` has the owner's and the moderator's requests
(`community_service.py`), the runner (`community_publish_runner.py`), the worker's
claim, exit accounting and recovery, and deaths of each of the three processes. Rows
that are over keep their status and file only. Every answer of the provider and of the
publication metadata service is possible at every call.

Three places need the code's exact order. `run_job` looks at the job's status *before*
it looks at the attempt (`RunnerStarts`): a runner whose row is not claimed exits without
a write. `_recover_interrupted_community_publishes` terminates the old runner before it
reads the attempt (`ReadAttempt`), and reads the row again before it writes it
(`Settles`); the recovery of staged rows does not, and relies on `transition()`.
The proof of `JobsTellTheTruth` rests on all three. One abstraction remains: the model
has one `upload` process. A runner that has not yet read its row when its worker dies,
while a stalled publish request queues that row again, is forgotten once the next worker
spawns its own; two runners of one row are outside the model.

### `YkSettlement`: state and code

| Variable | Code |
|---|---|
| `reservation`, `request[q]` | `yk_reservations.status` and the `translation_requests` rows, by the SQL functions in `src/supabase/migrations` |
| `edge[q]`, `settling` | the `translation-execute` call at work on a request, and the `settle_translation_job` transaction, which counts *before* it locks |
| `yk`, `cached`, `marked` | `.yk_reservation.json`, `.translation_results`, `.translation_ready.json` in the output directory |
| `chapter` | the row of the current attempt |
| `pipe` | the pipeline: first call, retries, commit, rendering |
| `closer` | the process that settles: the pipeline's commit, the runner's `_finalize` or the worker's recovery |

`settling.counted` is the set of request rows the settlement has counted. It holds their
locks until it ends, so the steps of their calls wait (`Free`); a request it has not
seen may begin, be answered and be completed before the reservation is locked, and is
in the model whatever the time a provider takes (section 7).

### `ProgressEvents`: state and code

| Variable | Code |
|---|---|
| `pages`, `stdout` | the pipeline process, what it wrote, and the OS pipe it blocks on |
| `pump`, `pending` | `_OutputPump`: last number, `_canonical_seen`, `_dirty`, snapshot, the bounded queue |
| `loop` | the runner's main loop, its drained batch, `_join_output_pump_and_drain` |
| `prow` | `last_event_sequence`, stage, counters and closed stages of the row |

### `ChapterRevision`: state and code

| Variable | Code |
|---|---|
| `manifest[r]`, `newest`, `checkpoint`, `contextual[r]`, `cache` | `revision_manifest.json`, `latest_revision.json`, `completed_reviews`, `contextual_translation_review.json`, `revision_request_cache.jsonl` |
| `pdfs`, `versions` | reviewed PDF files and `reviewed_pdf_version_manifest.json` |
| `reviser` | the thread of `start`/`_run`, serial or concurrent, with its answers |
| `press`, `poll` | a start or cancel request and a status request, each between two of its file operations |
| `cancels`, `restarts` | cancel events ever set; deaths of the process |

A read and the write after it are separate actions: `mark_cancelling`,
`mark_interrupted` and the sweep of `quality_revision_status` can overwrite what the
thread wrote meanwhile. Left out: the canary, revisions of single pages, the audit that
finds the suspicious regions (its result is `Regions`), and two pages of the browser
that start at once.

## 3. Properties

Each property's comment in its module says which behaviour of the code it is about.

* **`OneWriterPerOutput`** – attempts of one chain share an output directory; never two
  live pipelines on it. `docs/WORKER_QUEUE.md:93-94`: "Nunca há dois attempts ativos
  para o mesmo capítulo". It needs the recovery to end the old tree *before* it frees
  the row, the refusal of `resume` while the old runner lives, the failed recovery to
  hold back the claim, and the one-active-row index.
* **`PipelineTracked`** – a live pipeline is under the runner the row points at and its
  worker owns the row, so that cancel, resume and recovery can find it.
* **`StartsRecorded`** – no process works on a job before its pid is stored.
* **`OneSupervisor`** – one worker at most is on its way to a runner of a row.
* **`LivePipelineIsWanted`** – a pipeline that outlives the settlement of its row has
  been asked to stop.
* **`ResumedIsHistory`** – a row with a successor is never active again.
* **`ImplementsLifecycle`** – no process writes a row otherwise than the job store's
  table and its three plain `UPDATE`s allow.
* **`NoRowForgotten`** – a row in flight that nobody asked to cancel belongs to a worker
  that is busy with it, or is gone, so that the next worker finds an orphan. A row
  left in flight under a live worker that has gone back to its loop would be found by
  nobody: `orphaned_in_flight_jobs` passes it by, `resume` refuses it, and the unique
  index keeps its chapter from being submitted again.
* **`QueuedIsTaken`**, **`FlightEnds`** – a queued row is taken, a claimed row leaves
  flight, although workers and runners die.
* **`BudgetRespected`**, **`OneChild`**, **`IntentRespected`**, **`Replaced`** – the
  restart budget, one child of a launcher at a time, no restart after a stop, and a
  dead worker replaced or reported.
* **`CompletedIsCurrent`** – a page an attempt holds for completed, reused, skipped or
  drawn, is a whole file of its own version, although an earlier attempt died between
  the writes of the page, of its cache entry and of the checkpoint.
* **`PdfIsWhole`** – a PDF that is made holds no half written page, and leaves out only
  pages whose download cannot be decoded, or was gone when the page failed. A page the
  OCR or the rendering failed on is copied as it was downloaded; an undecodable copy is
  then dropped by the filter before the PDF, and a chapter without a page is refused.
  It is about the PDF an attempt makes: a resumed one keeps the PDF it finds (section 7).
* **`RenderedIsPaid`** – no translated page is in an output, a PDF or the cache that
  serves every job before its translation was paid for.
* **`NoDuplicate`** – the same content is never published by two posts, however
  uploads, retries and withdrawals interleave.
* **`WithdrawnNeverPublished`** – a job whose post was withdrawn never publishes it.
* **`PublishingIsBacked`** – a post in `publishing` has a job, a request or a runner
  that will end it, through every crash; **`AttemptEnds`** – and it does end.
* **`FeedIsReadable`** – what the feed shows has a whole file at the provider.
* **`JobsTellTheTruth`** – a publish job that says `finished` has published.
* **`ChargedWorkIsKept`**, **`CountedWorkIsPaid`** – the user pays only for what is on
  the disk, and a refund takes back nothing the user holds of what its settlement
  counted; **`SettlementsAgree`** – the file and the server agree, and nobody asks for
  the refund of what was charged. Without the word *counted* the second is false
  (section 7).
* **`NoSequenceGap`**, **`NoEventMissed`**, **`ProgressNeverGoesBack`**,
  **`RunnerCloses`** – no event refused, none lost, none that turns the display back,
  and no deadlock between the pump's full queue and the runner that joins the pump.
* **`EndedIsComplete`**, **`NamedPdfMatches`**, **`RecordedPdfIsWhole`**,
  **`PollSettles`** – a revision that ended answered every region; the PDF it names is
  whole and shows its corrections; a half written one is never recorded or written
  again; a poll leaves no revision in flight without a thread.
* **`TypeOK`** – one per module; a run of two modules checks both as `TypesOK`.

## 4. Runs

| Run | Instance | Faults / user | Checks |
|---|---|---|---|
| `QueueCrash` | 2 workers, 2 rows of one chapter, 1 request | worker crash, surviving tree, failed store of the pid; submit, resume, reconcile | `TypeOK`, `OneWriterPerOutput`, `PipelineTracked`, `StartsRecorded` |
| `QueueLease` | 2 workers, 2 rows, 1 request | stale lease; submit, resume | `OneWriterPerOutput`, `OneSupervisor` |
| `QueueResume` | 1 worker, 2 rows, 2 requests | submit, resume, reconcile | `ResumedIsHistory` |
| `QueueRequests` | 1 worker, 1 row, 2 requests | wallet down, UI restart; every operation but resume | `LivePipelineIsWanted`, `NoRowForgotten`, `ImplementsLifecycle` |
| `QueueDrains` | 2 workers, 1 row, 1 request, fairness | worker crash, runner dies alone, start-time skew; submit, cancel | `QueuedIsTaken`, `FlightEnds` |
| `SuperviseChapter` | supervisor: 1 launcher, 4 processes, budget 2, fairness; chapter: 2 pages of 7 looks, 2 versions, 2 attempts | crashes, failed spawns, a foreign worker, UI-started workers; 2 deaths, exceptions, broken pages or lost downloads | `TypesOK`; `BudgetRespected`, `OneChild`, `IntentRespected`, `Replaced`; `CompletedIsCurrent`, `PdfIsWhole`, `RenderedIsPaid` |
| `PublishProgress` | publish: 2 posts of one content, 2 jobs, 2 sessions, 2 attempts; progress: 2 stages, 3 lines, queue and pipe of 1; fairness | one death, stop or database failure; any provider failure; both posts published; or one post and its owner's requests; or one post, its owner and a moderator | `TypesOK`; `FeedIsReadable`, `JobsTellTheTruth`, `NoDuplicate`, `PublishingIsBacked`, `WithdrawnNeverPublished`, `AttemptEnds`; `NoSequenceGap`, `NoEventMissed`, `ProgressNeverGoesBack`, `RunnerCloses` |
| `SettleRevise` | settlement: 3 requests, 2 of them in the first call; revision: 2 regions, 2 revisions, serial and concurrent | 3 deaths, timeouts or lost answers; 1 restart | `YkTypeOK`, `ChargedWorkIsKept`, `CountedWorkIsPaid`, `SettlementsAgree`; `RevisionTypeOK`, `EndedIsComplete`, `NamedPdfMatches`, `RecordedPdfIsWhole`, `PollSettles` |
| `ClaimSourceEvidence` | 1 worker, 1 row | none | `NoRunnerWithoutSource` (violated) |
| `ClaimFlagged` | 1 worker, 1 row, fairness | none | `FlaggedRowLeavesFlight` (violated) |
| `ClaimHandoff` | 2 workers, 1 row | none | `OneSupervisor` (violated) |
| `ClaimFailOpen` | 1 page, 1 version, 2 attempts | none | `NeverEmptyOcr` (violated) |

The largest passing runs have over a million states and take a few minutes.

**Why the bounds are enough.** Every property relates at most two workers, two rows of
one chain and one chapter: a row's owner and its usurper, an attempt and its successor.
Two worker instances let one die or sleep while the other recovers; two rows let a
chain grow by a resume, and the same chapter makes the unique index matter. Two
requests are run where the hazard is a race between handlers, on one row (a resume
would need a second, `QueueResume` runs it there) so that all the other
operations fit. The supervisor run has one process more than its budget pays for plus
one for the user interface or for somebody else. `MaxJob` and `MaxWorker` are the only
bounds; an insert beyond `MaxJob` is answered like a refusal, a spawn beyond
`MaxWorker` does not happen, and the liveness properties say so (`NoWorkerLeft`,
`NoneLeft`).

`PublishProgress`, `SettleRevise` and `SuperviseChapter` hold two components each that share no state: `part`, chosen at the
start, says which one a behaviour follows, since a pair of their states tells a
property nothing more than the two alone. Two posts of one content are what
`NoDuplicate` relates; two jobs and two sessions let a post be published again after a
withdrawal and an upload be retried over the remains of the first; more deaths repeat
the recovery the first one starts. A third request is a retry after the first call's
marker, the only case in which work is sent after the reservation may be consumed; three
faults let a settlement be lost, the process that repeats it die and the attempt after
it too. One place in the
queue and in the pipe blocks the pump and the pipeline; three lines are an event, its
successor and a legacy text. Two regions tell a partial review from a whole one and
serial from concurrent, two revisions a resumed from the stopped one. A second page is
what a first one can be ahead of, in the precheck, in the OCR and between two threads;
six looks are the ways a page can be taken for another kind of page, the seventh is a
file that cannot be decoded. The second
attempt is the one that reads what the first left, and the second version the update
between them; two faults let a page break in an attempt that then dies. Bounds of these
modules: `MaxPublish`, `MaxRemote`, `MaxOutage`, `MaxYkFaults`, `MaxLines`, `PipeSize`,
`MaxRevisions`, `MaxRestarts`, `MaxAttempts`, `MaxPageFaults`; `MaxAttempt` and `MaxPending` are the code's own limits.

Symmetry is used for workers and for requests, which differ by name only, and never
with liveness. `CHECK_DEADLOCK FALSE` everywhere: with a bounded number of instances,
all gone and every row settled, the system really stops.

**Faults left out of a run are left out on purpose.** `LivePipelineIsWanted` does not
hold when a worker crashes or sleeps past its lease: the recovery that listed a row
before its owner woke up writes `interrupted` although that owner's runner goes on
until its next transition. `OneWriterPerOutput` does not hold when a runner dies
without its pipeline (nothing records the pipeline's pid) nor under the start-time
skew (the recovery takes a live tree for a reused pid). Both are outside the runs that
check it and are noted in section 7.

**Fairness.** Worker loop, runner and supervisor are sequential programs the operating
system schedules: weak fairness of their steps taken together. A UI handler that began
runs on (`UiContinues`). A live worker heartbeats, a dead one's lease runs out, and a
worker is started while none is healthy: that is what the supervisor and
`ensure_worker` do, and what `Replaced` shows for the supervisor. Users, crashes,
failures of the wallet, of a spawn and of a kill owe nothing. In `PublishProgress` the
upload runner and the worker run on (weak fairness each); the worker keeps reading its
publish attempts and claiming publish rows although other rows come first from time to
time (strong fairness of `ReadAttempt` and `ClaimPublish`, which its polling loop
repeats); pump thread and runner's loop run on. The pipeline need neither write nor
end. `SettleRevise` states no liveness.

### Mutants

A definition named `Bug…` stands before the definition it imitates and is used nowhere.
It is that definition with a mistake the code could make: an orphan query that misses
the dead owner's rows, a recovery that requeues a claimed row, a gate that does not
wait, a sleep whose stop request is not read again. Putting it in place of the
original makes TLC violate the property `PROJECT.json` pairs it with; this is how we
know that each property depends on the code it is about.

## 5. Proofs

| Theorem | Statement | Run that shows it small |
|---|---|---|
| `TypeCorrect` | `Spec => []TypeOK` (`JobQueue`) | `QueueCrash` |
| `Refinement` | `Spec => ImplementsLifecycle` | `QueueRequests` |
| `SettledRowsStay` | `Spec => SettledIsFinal` | `QueueRequests` (part of `ImplementsLifecycle`) |
| `RunnersAreRecorded` | `Spec => []StartsRecorded` | `QueueCrash` |
| `OneWorkerAtATime` | `Spec /\ [][RequeuesAlone]_vars => []OneSupervisor` | `QueueLease` |
| `ResumedRowsAreHistory` | `Spec /\ [][RequeuesAlone]_vars => []ResumedIsHistory` | `QueueResume` |
| `PipelinesAreTracked` | the same `=> []PipelineTracked`, with `NoStrayRunner` | `QueueCrash` |
| `OneWriterAtATime` | the same `=> []OneWriterPerOutput`, with `NoStrayRunner` | `QueueCrash`, `QueueLease` |
| `PipelinesAreWanted` | the same and `[][FreezesFresh]_vars => []LivePipelineIsWanted`, with `NoStrayRunner` and no stale lease | `QueueRequests` |
| `WithoutReviewNoRace` | `Spec => [][RequeuesAlone]_vars` where nobody confirms, verifies, resolves or authorizes | – |
| `QueueWithoutReview` | there, with `NoStrayRunner`: `Spec =>` the first four, always | `QueueCrash`, `QueueLease`, `QueueResume` |
| `NoPipelineGivenUp` | there, nobody reconciling and no stale lease either: `Spec => []LivePipelineIsWanted` | `QueueRequests`, in part |
| `RowsAreAttended` | `Spec => []NoRowForgotten` | `QueueRequests` |
| `SourceIsThere` | `Spec /\ [][ClaimsWhole]_vars => []NoRunnerWithoutSource` | – (`ClaimSourceEvidence` violates the rest) |
| `SupervisorTypeCorrect` | `Spec => []TypeOK` (`WorkerSupervisor`) | `SuperviseChapter` |
| `RestartsAreBounded` | `Spec => []BudgetRespected` | `SuperviseChapter` |
| `ChildrenAreSerial` | `Spec => []OneChild` | `SuperviseChapter` |
| `StopIsFinal` | `Spec => IntentRespected` | `SuperviseChapter` |
| `ChapterTypes` | `ChapterSpec => []ChapterTypeOK` | `SuperviseChapter` |
| `CompletedStaysCurrent` | `ChapterSpec => []CompletedIsCurrent` | `SuperviseChapter` |
| `PdfStaysWhole` | `ChapterSpec => PdfIsWhole` | `SuperviseChapter` |
| `RenderingIsPaid` | `ChapterSpec => []RenderedIsPaid` | `SuperviseChapter` |
| `OnlyBlankChaptersGoUnread` | `ChapterSpec => []((\E p \in Page : ~look[p].skip) => NeverEmptyOcr)` | – (`ClaimFailOpen` violates the rest) |
| `PublishTypes` | `PublishSpec => []PublishTypeOK` | `PublishProgress` |
| `OneCarrier` | `PublishSpec => []NoDuplicate` | `PublishProgress` |
| `WithdrawalHolds` | `PublishSpec => WithdrawnNeverPublished` | `PublishProgress` |
| `PublishingBacked` | `PublishSpec => []PublishingIsBacked` | `PublishProgress` |
| `FeedReadable` | `PublishSpec => []FeedIsReadable` | `PublishProgress` |
| `TrueJobs` | `PublishSpec => []JobsTellTheTruth` | `PublishProgress` |
| `ProgressTypes` | `ProgressSpec => []ProgressTypeOK` | `PublishProgress` |
| `NumbersAgree` | `ProgressSpec => []NoSequenceGap` | `PublishProgress` |
| `EverythingArrives` | `ProgressSpec => []NoEventMissed` | `PublishProgress` |
| `NeverBack` | `ProgressSpec => ProgressNeverGoesBack` | `PublishProgress` |
| `YkTypes` | `SettleSpec => []YkTypeOK` | `SettleRevise` |
| `FileAndServerAgree` | `SettleSpec => []SettlementsAgree` | `SettleRevise` |
| `ChargedIsKept` | `SettleSpec => []ChargedWorkIsKept` | `SettleRevise` |
| `CountedIsPaid` | `SettleSpec => CountedWorkIsPaid` | `SettleRevise` |
| `RevisionTypes` | `RevisionSpec => []RevisionTypeOK` | `SettleRevise` |
| `EndedComplete` | `RevisionSpec => []EndedIsComplete` | `SettleRevise` |
| `NamedMatches` | `RevisionSpec => []NamedPdfMatches` | `SettleRevise` |
| `RecordedWhole` | `RevisionSpec => []RecordedPdfIsWhole` | `SettleRevise` |
| `PollSettlesAll` | `RevisionSpec => []PollSettles` | `SettleRevise` |

The assumptions are `QueueAssumption` (`MaxJob` is a natural number, `NoWorker` is not
a worker, `NoJob` is not a number), `SupervisorAssumption` (bounds are naturals,
`NoLauncher` is not a launcher), `PagesAssumption` (at least one page and one version,
looks are looks, bounds are naturals), `PublishAssumption` (bounds are naturals, at least
one attempt, the null values are none of the others), `ProgressAssumption` (at least
one stage, one place in the queue and one in the pipe), `YkAssumption` (the first call
has at least one request) and `RevisionAssumption` (finitely many numbered regions, at
least one reviewer). Any number of workers, rows, chapters, pages and requests, any set of
faults and operations, any posts, contents and demands, any length of queue and of
output, any number of retries, revisions and restarts are covered.

Most safety theorems of the queue have hypotheses, because without them the properties
are false; TLC shows each violation. `TypeCorrect`, `Refinement`, `SettledRowsStay`,
`RunnersAreRecorded` and `RowsAreAttended` have none.

* `RequeuesAlone` excludes two races of requests, step by step. `RequeuesApart`: two
  handlers that release one held row (`confirm_source_pages`,
  `resume_source_verification` and `continue_authorized_download` are synchronous
  handlers, run in a thread pool): the second requeues what a worker has meanwhile
  claimed, since `transition()` to `queued` expects no particular status and the table
  allows it from `claiming` and `resumable`. `HandoffsApart`: a resolve or an
  authorization that requeues a ready row while its worker is about to take it over,
  which is `ClaimHandoff`. With two confirmations TLC finds
  `OneSupervisor`, `ResumedIsHistory` and `PipelineTracked` violated (two rows, a crash,
  submit, confirm and resume). `OneWriterPerOutput` takes three: a row is run, interrupted
  and resumed, and its successor fails; the second confirmation requeues it; while its
  new pipeline runs, a reconciliation that had listed the row before settles it, a second
  resume makes it resumable, the third confirmation requeues it once more, and another
  worker starts a second pipeline. No breadth-first run reaches that depth; TLC, led
  along the schedule, finds each of its 89 steps enabled and the property violated at
  the end: `OneWriterAtATime`, too, needs the hypothesis.
  `WithoutReviewNoRace` turns the hypothesis into one on the constants, and
  `QueueWithoutReview` has none left on behaviours.
* `NoStrayRunner`: no `runner_alone` and no `shim_skew` among the faults. The first
  leaves a pipeline whose pid no row holds, the second makes a probe miss a live tree;
  TLC shows the first violating `PipelineTracked` and both `OneWriterPerOutput`.
* `FreezesFresh`, and no `stale_lease`: no row is settled by `reconcile_orphans` on a
  copy read before its runner was recorded, nor by a recovery that takes a sleeping
  worker for a dead one. Either way `LivePipelineIsWanted` fails.
* `ClaimsWhole`: no worker claims a row between the two statements of `_create_job`. It
  says nothing of any other step; without it `ClaimSourceEvidence` violates the property.

* **Types.** `TypeOK` is inductive for `JobQueue` once it says that a worker past the
  claim and a request under way hold a row, and that a runner about to finalize knows
  its outcome: otherwise `row[Mine(w)]` need not be a row.
* **Refinement.** The mapping is `status <- [j |-> row[j].status]`. Each action changes
  the status of one row at most; `StatusStep` says that the pair it writes is one of
  the table, the handoff or the completion of a review. The writes that bypass
  `transition` are the interesting steps: the claim (`queued` only), `Handoff` and
  `ResolveReady` (`source_analysis_ready` only), the insert of a row that was absent.
* **Start gate.** `StartsRecorded` is not inductive. `GateInv` adds that only a recorded
  runner's gate is open and that a worker about to open a gate has recorded the runner
  behind it, if that runner is still there. The proof does not mention crashes or
  leases: the gate holds whoever dies, which is what it was built for.
* **Ownership.** `OwnInv` is the invariant the other proofs of the queue stand on.
  `HoldInv`: a worker between claim and exit holds a row that names it, in flight or
  closed by somebody else; `SingleInv`: no two hold the same; `RunInv`: the row of a
  runner is its worker's and, once the pid is stored, points at the runner. A crash or a
  lost lease changes nothing in it: a recovery takes a row from its owner only by
  closing it, after the runner it records is gone, and only a claim gives it to another.
  `OneSupervisor` follows. It is not inductive alone because a row may be requeued under
  its worker; `LateInv` says that a handler about to release a row finds it on hold, or
  over.
* **History.** `HistoryInv` adds to `ResumedIsHistory` the row whose successor a request
  is about to insert: between `mark_resumable` and `create_job` nothing brings it back.
* **Pipelines.** `PipeInv`: a pipeline is live under a runner at its loop, whose pid
  matches. With `OwnInv` and `GateInv` it gives `PipelineTracked`.
* **One writer.** The attempts of a line share an output. `LineInv`: of two rows of one
  line one has a successor. `QuietInv`: a row with a successor, or about to get
  one, has no runner at work, because `resume` probes it first. So two live pipelines on one output are
  of one row, and `OwnInv` makes that row one worker's.
* **Wanted pipelines.** `WantedInv` is `LivePipelineIsWanted` for every runner at
  work, pipeline or not. Who could settle its row? A recovery (`LeaseInv`,
  `OwnerInv`, `TodoInv`: what it lists belongs to a worker that is gone, and its runner
  is probed first), a cancel (`CancelInv`: past its first write the row carries the
  flag) or a reconciliation (`FreezesFresh`).
* **Rows in flight.** `AttendInv` is `NoRowForgotten` with the worker's place: the owner
  of the row is at `Attending`, and before it has a runner the row is still `claiming`.
  Everyone else writes such a row too, so each write of the queue is sorted by `Stays`:
  it leaves status and owner alone, takes the row out of flight, or begins a
  cancellation that was asked for; the exceptions are `Takes` (a claim, a handoff) and
  the runner that starts its own row. `WatchInv` keeps that runner away from a worker
  before its runner: no gate is open but under a worker that watches. `FlagInv` says who
  may begin a cancellation (recovery, runner, request, or worker at the exit of its
  runner): only who has seen the flag, and a flag stays. `OwnInv` is not used, so two
  workers on one row, lost leases and stray runners are all covered. The flag
  is excluded because `ClaimFlagged` forgets a flagged row: by this theorem, it is the
  only kind of row the queue can forget.
* **Runners with a source.** `NoRunnerWithoutSource` is false (`ClaimSourceEvidence`);
  the theorem says where. `SourceInv` follows the worker: a row in `claiming` has its
  payload, so has the row of a worker from the preparation to the handoff, and from the
  handoff on the row has a selection. `_prepare_source` spawns without an analysis only
  for a row with a selection or without a payload, and the second is excluded. The rest
  is that others cannot spoil it: no step takes a payload or a selection back
  (`Retains`), and only a claim or a handoff makes a row `claiming` (`Takes`).
* **Budget.** `BudgetInv`: the failures in a row never exceed the restarts spent, which
  never exceed the budget, and the failure that finds the budget empty is the last. It
  needs `Fresh`: the supervisor has not begun before its launcher started a worker.
* **Serial children.** `ChildInv`: a live child of a launcher is the process its
  supervisor waits on, or the supervisor died with its process. `OneChild` alone is not
  inductive, since it says nothing of a supervisor that is about to spawn.
* **Pages.** `ChapterInv`: `WorkInv` says what a page's thread may be doing at each
  stage, and that every page is done or under work from the translation on. `FileInv`
  extends `CompletedIsCurrent` to pages delivered after an error and to pages drawn but
  not yet kept; `KeepImage` needs it even for the types. `RecordInv` is what makes the
  record of a dead attempt trustworthy: a file is never older than the record that calls
  it completed, nor newer than the attempt, so a record of the attempt's own version
  speaks of the file that is there. `PaidInv` follows the request from the provider to
  the threads: only what a consumed reservation paid for is replayed, and only that is
  drawn. `PdfIsWhole` rests on `WorkInv` (when the PDF is made, every page is completed,
  delivered after an error, or lost) and on `FileInv` (the first two have a whole file).
* **Chapters that are read.** `NeverEmptyOcr` is false (`ClaimFailOpen`); the theorem says
  where. `GenuineInv` follows a page the precheck does not skip: neither this attempt, nor
  a record, nor the cache ever calls a copy of its download completed (the copy made when
  such a page fails is delivered and not kept), so a reused page of this kind is
  drawn. `SoughtInv`: the precheck leaves each such page queued for the OCR, read or
  completed. One such page is enough for an OCR stage that is not empty.
* **Publication.** `PublishBase`: types, and which request, runner or job has a file in
  hand. `NoDuplicate` follows from `Apart`: of two posts no moderator touched, one at most
  is `Holding` a content, published or with a live upload, because the check and the
  claim of a file are one transaction. `WithdrawnNeverPublished` needs
  `Revoked`: the attempt of a withdrawn job is not live, and no request is about to
  activate it. `PublishingIsBacked` needs `Backing`: every place where one of
  the three processes can be when it dies leaves a job that says the attempt is not
  over, so that the recovery finds it. `FeedIsReadable` needs `Stored`: a verified file
  is whole, no two files name one remote file, the remote file in a runner's hand is named by its own
  file only, and what the runner is about to complete is whole. The middle parts
  are what a retry could break that discards the remains of an earlier session.
  `JobsTellTheTruth` needs `Truth`: a row that waits to be run, or was given up before
  it ran, is one no run has verified a file for (`RowsTrue`); a runner at work has a
  running row (`UploadTrue`); and the worker's verdict is still true when the row is
  written, since no runner of that row is alive in between (`WorkerTrue`).
* **Progress.** `Gapless`: the row's number, then the batch in the runner's hand, then the
  queue, then the pump's last number are one chain of successors: an event takes its
  number only once the queue has room for it. `Counted`:
  the pump has numbered every event that left the pipe, by a count of the events still
  in it. `Drained`: from the join on, what is not in the row is in the batch, the
  queue or the pump, so a runner at `closed` has applied all of it.
* **Settlement.** `YkInv`. `EdgeInv` ties a call at work to its request's row, `Kept`
  says that a result on the disk is a completed request, `MarkInv` that the marker is
  written after everything it names, unless the reservation was released and is only
  replayed, and `DecisionInv` carries what the settling process read, the marker, to the
  transaction that acts on it after any number of crashes. `CountedIsPaid` needs no more
  than `Kept`: what a release has counted is failed when it locks, hence not on the disk.
* **Revision.** `StartedInv` (what the thread knows of its revision),
  `NamesInv` (a PDF carries a number no higher than the revision that wrote it, so a
  new revision finds a free name, whatever a crash left behind), `VersionsInv` (the
  record names files that are whole and one revision's own), `ReviewInv` (what is
  queued, in flight or answered is every region), `PdfInv` (the file between its
  writing and its record) and `SweepInv` (what a poll that saw no thread has still to
  sweep is all that can be in flight).
* The prover does not open nested `EXCEPT`s on records well, so the supervisor's proofs
  first state the *effect* of each action in plain equations and use only those.

**Only model-checked**: the liveness properties (`QueuedIsTaken`, `FlightEnds`,
`Replaced`, `AttemptEnds`, `RunnerCloses`), since liveness under fairness and `ENABLED`
are out of the prover's reach; and the two `TypesOK` of the MC modules, each the
conjunction of two type invariants proved for their own specifications. Of the
queue's safety properties, what `RequeuesAlone` excludes is only explored by the runs:
`QueueRequests` checks `LivePipelineIsWanted` with every operation but resume, on one
worker and one row.

## 6. Findings

* **`ClaimSourceEvidence`.** `_create_job` inserts the row as `queued` and stores the
  source type and evidence with a second statement (`ui/ui_bridge.py:6682`). A worker
  that polls in between takes it for a row that needs no source analysis and starts a
  runner, against `worker_service.py:726` and `ui_bridge.py:5459-5460`.
  `SourceIsThere` is the converse: no other interleaving of claims, analyses, requeues
  and crashes starts a runner without a selection.
* **`ClaimFlagged`.** A cancel sets the flag while the row is being analysed; the row
  goes to a hold, the settlement is refused, the flag stays. Confirmed later, the row
  is requeued, claimed, and dropped by `_prepare_source` in `claiming` under a live
  worker, which no recovery touches; `ui_bridge.py:6786-6788` says that nothing is
  left in flight forever.
* **`ClaimHandoff`.** The user interface resolves a row between the analysis and the
  worker's handoff. The row is queued again, another worker claims it, and the first
  takes the answer "duplicate" for its own handoff (`worker_service.py:511`): two
  workers on one row, which `source_readiness.py:564-568` says is closed.
* **`ClaimFailOpen`.** When the precheck takes every page for blank, the attempt sends
  them all to the OCR after all (`benchmark_pipeline.py:2909-2927`), but a skipped page
  has no `ocr_cache_key`, and `_persist_ocr_result` raises `KeyError` at line 2953. By
  then every page is in the processed cache as finished: the next attempt, or any other
  job of the same chapter, reuses them, skips none, and delivers the pages as they were
  downloaded with an empty OCR stage, which lines 2909-2912 say must never happen.
  `OnlyBlankChaptersGoUnread` is the converse: with one page not taken for blank it does
  not, whatever dies and whatever is reused.

## 7. Where text and code differ without a run

* `docs/WORKER_QUEUE.md:121-122`, "Concorrência inicial: **1**": the check and the
  registration of `Worker.run` are two statements (`worker_service.py:1187-1191`), so
  two workers may run; the queue is built to survive it (`QueueLease`).
* `runtime/job_store.py:471`, "at most one active translation": the index omits
  `waiting_source_verification`, which `is_active_for_dedupe` counts.
* `runtime/job_runner.py:923-927`, "The runner does not set them": line 1030 overwrites
  `runner_pid` and leaves the creation time of the process the worker started.
* `runtime/job_store.py:174`, "Terminal states do not transition": `complete_review`
  moves `review_required` to `finished`.
* `docs/WORKER_QUEUE.md:93-94`, no two active attempts: not when a runner dies and its
  pipeline does not, nor when shim and interpreter start further apart than the
  tolerance (see section 4).
* `ui/ui_bridge.py:7685`, "Stop only a worker that this UI instance started": it calls
  `stop_worker`, which stops whichever worker is healthy.
* `commands/start_tradutor.py:527-529`, a launcher leaves nothing running behind it:
  `stop_worker` (361) sees registered workers only. One closed while its child boots, or
  while its supervisor is about to spawn, leaves a detached worker.
* `translation/providers/yomu_backend_provider.py:755-759`, "A completed job may replay its
  exact durable result during recovery": an attempt that dies during rendering leaves
  some pages in the processed cache, so the resumed one asks for the others only. That is
  another request, which a consumed reservation refuses (771): the chapter is paid for
  and no resume delivers it (`RefuseNewRequest`).
* `docs/technical/DOCUMENTACAO_TECNICA.md:1886-1887`, "mudar configuração relevante
  invalida a entrada, não a reaproveita erradamente": `_relevant_output_config`
  (`benchmark_pipeline.py:7089-7168`) leaves out the output plan, so pages drawn without
  text for a clean-only job are reused by a full one.
* `docs/technical/DOCUMENTACAO_TECNICA.md:1893-1895`, "`--force` ignora os caches de
  download, OCR, tradução e renderização": not in a resumed attempt, which takes rendered
  pages from the cache (`benchmark_pipeline.py:2831`).
* The failure of `ClaimFailOpen` also meets a resumed attempt whose text pages are all
  reused while one page the precheck skips is too flat or too low for `valid_image`: it
  fails on that attempt and on each one after it. A resumed attempt keeps a PDF it finds
  although pages were drawn again afterwards (`benchmark_pipeline.py:3716-3732`).
* `20260926175232_yk_job_atomic_settlement.sql:100-102`, "Even one completed
  request/result makes the reservation non-refundable": the requests are counted before
  the reservation is locked, and a request that begins in between is not seen. If it is
  answered and completed before the lock, the reservation is released and the user keeps
  the translation; the marker it leaves makes every later settlement ask for a charge,
  which `reservation_terminal_conflict` refuses. `YkSettlement` has these behaviours;
  TLC reaches the first in 22 states. `CountedWorkIsPaid` says what is left of the sentence.
* A retry the provider refused, or whose outcome is unknown, keeps both `consume` and
  `release` from ever being accepted: the attempt stays `interrupted` with
  `wallet_settlement_pending`. A settlement after the first call's marker, but before
  the retries, makes the resumed attempt raise `reservation_already_settled`, against
  `yomu_backend_provider.py:815`. A lost answer to the reserve call leaves a
  reservation nobody settles.
* `runtime/job_runner.py:1224`, "Never persist a terminal job while its wallet
  reservation is unresolved": `_reconcile_runner_exit`, and `cancel` and
  `reconcile_orphans` of the UI, write `cancelled` without a settlement
  (`CloseDeadAttempt`).
* `community/community_publish_runner.py:299`, "Resume from any previously uploaded
  bytes, else start a fresh session": it always starts a fresh one. `mark_failed` of the
  metadata service is never called; its finalization comes before the file's. A job
  cancelled after its file was verified says `cancelled`. An unpublish while the upload
  runs leaves that content in conflict for good; a transient `stat` error on a retry
  deletes the old file and then always finds the reference in conflict. A moderator's
  restore publishes whatever the post is, a withdrawn one included.
* `review/chapter_quality_revision.py:2525-2527`, "none is silently omitted or treated
  as approved": a cancel on the concurrent path ends the review early and the revision
  `finished` (2424-2431), which is why `EndedIsComplete` is about revisions nobody
  cancelled. That path writes no checkpoint either. `mark_cancelling` can overwrite
  `finished`, and the next poll then makes it `interrupted`; the browser stops polling
  at `cancelling`.
* The progress parser accepts events `apply_progress_event` rejects without using up
  their number, after which every later one would be a gap; the pipeline emits none. A
  process that outlives the pipeline and holds its output keeps the runner joining,
  without heartbeats.

## 8. Plan

Done, each with its runs and proofs: `JobStatus`, `JobLifecycle`, `JobQueue`,
`WorkerSupervisor`, `CommunityPublish`, `YkSettlement`, `ProgressEvents`,
`ChapterRevision` and `ChapterPages`.

What would come next, most useful first:

1. `JobQueue`: `STAGING` uploads, `retry_job`, the log of review actions.
2. The composition of `JobQueue` and `WorkerSupervisor`: a lost worker is replaced and
   its rows are recovered.
3. `ChapterPages`: output plans and the clean artifacts; the composition with
   `YkSettlement`, whose retried calls it abstracts.
4. The updater: stage, activate, probe, roll back, with a crash between any two.

## 9. Not modelled, and why

What the translation pipeline computes (download, OCR, cleaning, translation,
typesetting, export) is data transformation, and most of the repository's lines:
`ChapterPages` has its stages and files, `YkSettlement` its paid requests,
`ProgressEvents` its output, the queue a process that exits with an outcome. The
streaming of pages is off by default (`PIPELINE_STREAMING`), and `pipeline_streaming` is
imported by tests only; the VPS slot managers have no callers.
The adaptive scheduler changes durations and nothing else a property here speaks of.
Authentication and licence checks are external services; the desktop shell and the
static UI keep no state the queue depends on. Schema migrations run before any process
uses the database. Windows-specific launching details matter through the start-time
skew only. The marker file `.cancel.requested` is removed by the next runner before its
pipeline starts. The log of review actions (`record_review_action`,
`record_review_actions_bulk`) is a read, a count and an insert without a transaction;
two handlers at once may lose one of two actions, and nothing else reads the log.
