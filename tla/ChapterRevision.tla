---------------------------- MODULE ChapterRevision ----------------------------
(***************************************************************************)
(* The quality revision of a finished chapter: a thread of the user        *)
(* interface's process asks a provider about every region that looks       *)
(* suspicious, applies the safe corrections and writes a reviewed PDF,     *)
(* while requests start it, cancel it and poll it, and the process may be  *)
(* restarted at any moment (chapter_quality_revision.py, ui_bridge.py).    *)
(*                                                                         *)
(* All that survives a restart is in files that are read, changed and      *)
(* written back without a lock: a read and its write are two steps.  The   *)
(* page has one start or cancel under way at a time                        *)
(* (qualityReviewBulkBusy) and polls meanwhile.                            *)
(***************************************************************************)
EXTENDS Naturals, Sequences, FiniteSets

CONSTANTS
  Regions,       \* the suspicious regions of the chapter, in reading order
  Concurrency,   \* the values of QUALITY_REVISION_CONCURRENCY a process may start with
  Replies,       \* Replies[x]: the answers the provider may give about region x
  MaxRevisions,  \* bound: revisions started
  MaxRestarts    \* bound: restarts of the process

ASSUME RevisionAssumption ==
  /\ IsFiniteSet(Regions) /\ Regions \subseteq Nat /\ Concurrency \subseteq Nat \ {0}
  /\ Replies \in [Regions -> SUBSET {"keep", "rewrite", "manual"}]
  /\ MaxRevisions \in Nat /\ MaxRestarts \in Nat

VARIABLES
  manifest,    \* revision_manifest.json of each revision: its status and PDF
  newest,      \* latest_revision.json, 0 before the first revision
  checkpoint,  \* completed_reviews of the latest revision's checkpoint
  contextual,  \* contextual_translation_review.json of each revision
  cache,       \* revision_request_cache.jsonl
  pdfs,        \* reviewed PDF files: which revision wrote one, with which corrections
  versions,    \* reviewed_pdf_version_manifest.json
  reviser,      \* the revision's thread and what it holds in memory
  press,       \* the start or cancel request under way
  poll,        \* the status request under way
  cancels,     \* the revisions whose cancel event was set
  restarts

revisionVars == <<manifest, newest, checkpoint, contextual, cache, pdfs, versions,
                  reviser, press, poll, cancels, restarts>>

(***************************************************************************)
(* State.                                                                  *)
(***************************************************************************)

Revision == 1 .. MaxRevisions
None == 0

Answer == {"keep", "rewrite", "manual"}  \* a rewrite is one that is safe to apply
Cacheable == {"keep", "rewrite"}
Unanswered == [x \in Regions |-> "none"]
Answered(answers) == {x \in Regions : answers[x] # "none"}
Rewritten(answers) == {x \in Regions : answers[x] = "rewrite"}

RevisionInFlight == {"running", "cancelling"}          \* REVISION_IN_FLIGHT_STATUSES
Resumable == {"cancelled", "interrupted", "failed"}
Settled == {"finished", "review_required"}

NoReviser == [rev |-> None, pc |-> "none", limit |-> 1,
             stopped |-> FALSE, todo |-> {}, flight |-> {}, answers |-> Unanswered,
             carried |-> Unanswered, pdf |-> None]
NoManifest == [status |-> "none", pdf |-> None]
NoPress == [pc |-> "none", rev |-> None, pdf |-> None]
NoPoll == [pc |-> "none", rev |-> None, pdf |-> None, lost |-> FALSE, todo |-> {}, quiet |-> FALSE]
NoPdf == [by |-> None, whole |-> FALSE, changes |-> {}]

RevisionInit ==
  /\ manifest = [r \in Revision |-> NoManifest] /\ newest = None
  /\ checkpoint = Unanswered
  /\ contextual = [r \in Revision |-> Unanswered]
  /\ cache = Unanswered
  /\ pdfs = [n \in Revision |-> NoPdf] /\ versions = <<>>
  /\ reviser = NoReviser /\ press = NoPress /\ poll = NoPoll
  /\ cancels = {} /\ restarts = 0

Alive == reviser.rev # None
Cancelled == reviser.rev \in cancels
ReviserAt(pc) == reviser.pc = pc

WriteStatus(status) == manifest' = [manifest EXCEPT ![reviser.rev] = [@ EXCEPT !.status = status]]

(***************************************************************************)
(* The thread: start and _run.                                             *)
(***************************************************************************)

\* the answers of the latest revision, if it was stopped, and its own manifest
BeginRevision ==
  /\ ReviserAt("begin")
  /\ WriteStatus("running")
  /\ reviser' = [reviser EXCEPT !.pc = "point",
       !.carried = IF newest # None /\ manifest[newest].status \in Resumable
                   THEN checkpoint ELSE Unanswered]
  /\ UNCHANGED <<newest, checkpoint, contextual, cache, pdfs, versions, press, poll,
                 cancels, restarts>>

PointLatest ==
  /\ ReviserAt("point")
  /\ newest' = reviser.rev /\ checkpoint' = Unanswered
  /\ reviser' = [reviser EXCEPT !.pc = "plan"]
  /\ UNCHANGED <<manifest, contextual, cache, pdfs, versions, press, poll,
                 cancels, restarts>>

\* the regions still to review; the concurrent path takes what the cache has at once
PlanReview ==
  /\ ReviserAt("plan")
  /\ WriteStatus("running")
  /\ \E limit \in Concurrency :
       LET open == Regions \ Answered(reviser.carried)
           serial == limit = 1 \/ Cardinality(open) <= 1
           hits == IF serial THEN {} ELSE open \intersect Answered(cache)
       IN reviser' = [reviser EXCEPT !.pc = "review", !.todo = open \ hits,
            !.limit = IF serial THEN 1 ELSE limit,
            !.answers = [x \in Regions |-> IF x \in hits THEN cache[x] ELSE "none"]]
  /\ UNCHANGED <<newest, checkpoint, contextual, cache, pdfs, versions, press, poll,
                 cancels, restarts>>

Serial == reviser.limit = 1
NextRegion(x) == x \in reviser.todo /\ \A y \in reviser.todo : x <= y

\* one region at a time: the cancel event is looked at first
TakeCached(x) ==
  /\ ReviserAt("review") /\ Serial /\ reviser.flight = {} /\ ~Cancelled
  /\ NextRegion(x) /\ cache[x] # "none"
  /\ reviser' = [reviser EXCEPT !.answers = [@ EXCEPT ![x] = cache[x]], !.todo = @ \ {x}]
  /\ UNCHANGED <<manifest, newest, checkpoint, contextual, cache, pdfs, versions, press,
                 poll, cancels, restarts>>

BugHasSlot == Cardinality(reviser.flight) <= reviser.limit

HasSlot == Cardinality(reviser.flight) < reviser.limit

\* schedule_one, and the request of the serial loop
AskProvider(x) ==
  /\ ReviserAt("review") /\ HasSlot /\ ~Cancelled
  /\ NextRegion(x) /\ cache[x] = "none"
  /\ reviser' = [reviser EXCEPT !.todo = @ \ {x}, !.flight = @ \union {x}]
  /\ UNCHANGED <<manifest, newest, checkpoint, contextual, cache, pdfs, versions, press,
                 poll, cancels, restarts>>

\* only the serial loop writes the checkpoint
TakeAnswer(x, answer) ==
  /\ ReviserAt("review") /\ x \in reviser.flight /\ answer \in Replies[x]
  /\ reviser' = [reviser EXCEPT !.answers = [@ EXCEPT ![x] = answer], !.flight = @ \ {x}]
  /\ cache' = IF answer \in Cacheable THEN [cache EXCEPT ![x] = answer] ELSE cache
  /\ checkpoint' = IF Serial THEN reviser'.answers ELSE checkpoint
  /\ UNCHANGED <<manifest, newest, contextual, pdfs, versions, press, poll, cancels,
                 restarts>>

\* nothing is left, or the review was cancelled: the concurrent path does not say so
EndReview ==
  /\ ReviserAt("review") /\ reviser.flight = {}
  /\ reviser.todo = {} \/ Cancelled
  /\ reviser' = [reviser EXCEPT !.pc = "reviewed",
                              !.stopped = Serial /\ reviser.todo # {}, !.todo = {}]
  /\ UNCHANGED <<manifest, newest, checkpoint, contextual, cache, pdfs, versions, press,
                 poll, cancels, restarts>>

BugAllReviews == reviser.answers

\* the answers of this run and those carried over
AllReviews == [x \in Regions |->
                 IF reviser.carried[x] # "none" THEN reviser.carried[x] ELSE reviser.answers[x]]

WriteContextual ==
  /\ ReviserAt("reviewed")
  /\ contextual' = [contextual EXCEPT ![reviser.rev] = AllReviews]
  /\ reviser' = [NoReviser EXCEPT !.rev = reviser.rev,
                                !.pc = IF reviser.stopped THEN "stop" ELSE "apply"]
  /\ UNCHANGED <<manifest, newest, checkpoint, cache, pdfs, versions, press, poll, cancels,
                 restarts>>

EndWith(status) ==
  /\ WriteStatus(status)
  /\ reviser' = NoReviser
  /\ UNCHANGED <<newest, checkpoint, contextual, cache, pdfs, versions, press, poll,
                 cancels, restarts>>

StopRevision == ReviserAt("stop") /\ EndWith("cancelled")

\* the corrections are applied and drawn, with a checkpoint of the manifest before each
ApplyChanges ==
  /\ ReviserAt("apply")
  /\ WriteStatus("running")
  /\ reviser' = [reviser EXCEPT !.pc = "pdf"]
  /\ UNCHANGED <<newest, checkpoint, contextual, cache, pdfs, versions, press, poll,
                 cancels, restarts>>

Changes == Rewritten(contextual[reviser.rev])

BugEquivalent == versions # <<>> /\ Changes # {}

\* the last recorded version has the same corrections
Equivalent ==
  /\ versions # <<>> /\ Changes # {}
  /\ pdfs[versions[Len(versions)].pdf].changes = Changes

KeepPdf ==
  /\ ReviserAt("pdf") /\ (Equivalent \/ Changes = {})
  /\ reviser' = [reviser EXCEPT !.pc = "finish",
       !.pdf = IF Changes = {} THEN None ELSE versions[Len(versions)].pdf]
  /\ UNCHANGED <<manifest, newest, checkpoint, contextual, cache, pdfs, versions, press,
                 poll, cancels, restarts>>

\* _next_reviewed_pdf_path: the first name no file has
NextPath == CHOOSE n \in Revision :
  pdfs[n].by = None /\ \A m \in 1 .. (n - 1) : pdfs[m].by # None

\* generate_pdf begins: the file exists from now on ...
CreatePdf ==
  /\ ReviserAt("pdf") /\ ~Equivalent /\ Changes # {}
  /\ pdfs' = [pdfs EXCEPT ![NextPath] =
                [by |-> reviser.rev, whole |-> FALSE, changes |-> Changes]]
  /\ reviser' = [reviser EXCEPT !.pc = "generate", !.pdf = NextPath]
  /\ UNCHANGED <<manifest, newest, checkpoint, contextual, cache, versions, press, poll,
                 cancels, restarts>>

\* ... and is complete
CompletePdf ==
  /\ ReviserAt("generate")
  /\ pdfs' = [pdfs EXCEPT ![reviser.pdf] = [@ EXCEPT !.whole = TRUE]]
  /\ reviser' = [reviser EXCEPT !.pc = "record"]
  /\ UNCHANGED <<manifest, newest, checkpoint, contextual, cache, versions, press, poll,
                 cancels, restarts>>

BugRecordFrom == {"generate", "record"}

\* the PDF is recorded when it is there
RecordFrom == {"record"}

RecordVersion ==
  /\ reviser.pc \in RecordFrom
  /\ versions' = Append(versions, [pdf |-> reviser.pdf, rev |-> reviser.rev])
  /\ manifest' = [manifest EXCEPT ![reviser.rev] = [status |-> "running", pdf |-> reviser.pdf]]
  /\ reviser' = [reviser EXCEPT !.pc = "finish"]
  /\ UNCHANGED <<newest, checkpoint, contextual, cache, pdfs, press, poll, cancels,
                 restarts>>

\* a region for a human, or one the visual gate refused, keeps it in review
FinishRevision(status) ==
  /\ ReviserAt("finish")
  /\ LET blocked == \E x \in Regions : contextual[reviser.rev][x] = "manual" IN
       \/ status = "finished" /\ ~blocked
       \/ status = "review_required" /\ (blocked \/ Changes # {})
  /\ manifest' = [manifest EXCEPT ![reviser.rev] = [status |-> status, pdf |-> reviser.pdf]]
  /\ reviser' = NoReviser
  /\ UNCHANGED <<newest, checkpoint, contextual, cache, pdfs, versions, press, poll,
                 cancels, restarts>>

\* an exception anywhere in _run
FailRevision ==
  /\ Alive /\ reviser.pc \notin {"begin", "point", "stop"}
  /\ EndWith("failed")

ReviserNext ==
  \/ BeginRevision \/ PointLatest \/ PlanReview \/ EndReview \/ WriteContextual
  \/ StopRevision \/ ApplyChanges \/ KeepPdf \/ CreatePdf \/ CompletePdf \/ RecordVersion
  \/ FailRevision
  \/ \E x \in Regions : TakeCached(x) \/ AskProvider(x)
  \/ \E x \in Regions, answer \in Answer : TakeAnswer(x, answer)
  \/ \E status \in Settled : FinishRevision(status)

(***************************************************************************)
(* The requests of the page.                                               *)
(***************************************************************************)

\* start_quality_revision; with a thread alive it only answers the status
StartRequest(r) ==
  /\ press.pc = "none" /\ ~Alive
  /\ manifest[r].status = "none" /\ \A q \in 1 .. (r - 1) : manifest[q].status # "none"
  /\ reviser' = [NoReviser EXCEPT !.rev = r, !.pc = "begin"]
  /\ poll' = [poll EXCEPT !.quiet = FALSE]
  /\ UNCHANGED <<manifest, newest, checkpoint, contextual, cache, pdfs, versions, press,
                 cancels, restarts>>

\* cancel_quality_revision: the event, then the manifest of a thread that is alive ...
CancelRequest ==
  /\ press.pc = "none" /\ newest # None
  /\ cancels' = IF Alive THEN cancels \union {reviser.rev} ELSE cancels
  /\ press' = [press EXCEPT !.pc = IF Alive THEN "mark" ELSE "settle"]
  /\ poll' = [poll EXCEPT !.quiet = FALSE]
  /\ UNCHANGED <<manifest, newest, checkpoint, contextual, cache, pdfs, versions, reviser,
                 restarts>>

\* ... mark_cancelling: only one that runs ...
MarkReads ==
  /\ press.pc = "mark"
  /\ press' = IF manifest[newest].status = "running"
              THEN [pc |-> "marking", rev |-> newest, pdf |-> manifest[newest].pdf]
              ELSE NoPress
  /\ UNCHANGED <<manifest, newest, checkpoint, contextual, cache, pdfs, versions, reviser,
                 poll, cancels, restarts>>

MarkWrites ==
  /\ press.pc = "marking"
  /\ manifest' = [manifest EXCEPT ![press.rev] = [status |-> "cancelling", pdf |-> press.pdf]]
  /\ press' = NoPress
  /\ UNCHANGED <<newest, checkpoint, contextual, cache, pdfs, versions, reviser, poll,
                 cancels, restarts>>

\* ... or mark_interrupted when there is none
SettleLost ==
  /\ press.pc = "settle"
  /\ manifest' = IF manifest[newest].status \in RevisionInFlight
                 THEN [manifest EXCEPT ![newest] = [@ EXCEPT !.status = "interrupted"]] ELSE manifest
  /\ press' = NoPress
  /\ UNCHANGED <<newest, checkpoint, contextual, cache, pdfs, versions, reviser, poll,
                 cancels, restarts>>

PressNext ==
  CancelRequest \/ MarkReads \/ MarkWrites \/ SettleLost \/ \E r \in Revision : StartRequest(r)

(***************************************************************************)
(* quality_revision_status.                                                *)
(***************************************************************************)

PollOnly == UNCHANGED <<manifest, newest, checkpoint, contextual, cache, pdfs, versions,
                        reviser, press, cancels, restarts>>

PollReads ==
  /\ poll.pc = "none" /\ newest # None
  /\ poll' = [NoPoll EXCEPT !.pc = "alive", !.rev = newest,
                            !.lost = manifest[newest].status \in RevisionInFlight]
  /\ PollOnly

BugSweepOf(keep) == {newest} \ {keep}

\* the manifests sweep_stale_revisions looks at
SweepOf(keep) == Revision \ {keep}

\* a revision in flight without a thread is lost; a live one is kept from the sweep
PollChecks ==
  /\ poll.pc = "alive"
  /\ poll' = [poll EXCEPT
       !.pc = IF ~Alive /\ poll.lost THEN "mark" ELSE "sweep",
       !.rev = None, !.lost = FALSE, !.todo = SweepOf(IF Alive THEN poll.rev ELSE None),
       !.quiet = ~Alive /\ press.pc = "none"]
  /\ PollOnly

\* mark_interrupted reads the pointer and the manifest again
PollMarks ==
  /\ poll.pc = "mark"
  /\ poll' = IF manifest[newest].status \in RevisionInFlight
             THEN [poll EXCEPT !.pc = "marking", !.rev = newest, !.pdf = manifest[newest].pdf]
             ELSE [poll EXCEPT !.pc = "sweep"]
  /\ PollOnly

SweepReads(r) ==
  /\ poll.pc = "sweep" /\ r \in poll.todo
  /\ poll' = IF manifest[r].status \in RevisionInFlight
             THEN [poll EXCEPT !.pc = "marking", !.rev = r, !.pdf = manifest[r].pdf,
                               !.todo = @ \ {r}]
             ELSE [poll EXCEPT !.todo = @ \ {r}]
  /\ PollOnly

PollWrites ==
  /\ poll.pc = "marking"
  /\ manifest' = [manifest EXCEPT ![poll.rev] = [status |-> "interrupted", pdf |-> poll.pdf]]
  /\ poll' = [poll EXCEPT !.pc = "sweep", !.rev = None, !.pdf = None]
  /\ UNCHANGED <<newest, checkpoint, contextual, cache, pdfs, versions, reviser, press,
                 cancels, restarts>>

PollAnswers ==
  /\ poll.pc = "sweep" /\ poll.todo = {}
  /\ poll' = NoPoll
  /\ PollOnly

PollNext ==
  \/ PollReads \/ PollChecks \/ PollMarks \/ PollWrites \/ PollAnswers
  \/ \E r \in Revision : SweepReads(r)

\* The process dies and is started again: threads, events and requests are gone.
RestartUi ==
  /\ restarts < MaxRestarts
  /\ restarts' = restarts + 1
  /\ reviser' = NoReviser /\ press' = NoPress /\ poll' = NoPoll
  /\ UNCHANGED <<manifest, newest, checkpoint, contextual, cache, pdfs, versions, cancels>>

RevisionNext == ReviserNext \/ PressNext \/ PollNext \/ RestartUi

RevisionSpec == RevisionInit /\ [][RevisionNext]_revisionVars

(***************************************************************************)
(* Properties.                                                             *)
(***************************************************************************)

ManifestRecord ==
  [status : {"none"} \union RevisionInFlight \union Resumable \union Settled,
   pdf : {None} \union Revision]

RevisionTypeOK ==
  /\ manifest \in [Revision -> ManifestRecord] /\ newest \in {None} \union Revision
  /\ checkpoint \in [Regions -> Answer \union {"none"}]
  /\ \A r \in Revision : contextual[r] \in [Regions -> Answer \union {"none"}]
  /\ cache \in [Regions -> Cacheable \union {"none"}]
  /\ pdfs \in [Revision -> [by : {None} \union Revision, whole : BOOLEAN,
                            changes : SUBSET Regions]]
  /\ \A i \in DOMAIN versions : versions[i] \in [pdf : Revision, rev : Revision]
  /\ reviser.rev \in {None} \union Revision
  /\ reviser.answers \in [Regions -> Answer \union {"none"}]
  /\ reviser.todo \intersect reviser.flight = {}
  /\ Cardinality(reviser.flight) <= reviser.limit
  /\ press.pdf \in {None} \union Revision /\ poll.pdf \in {None} \union Revision
  /\ cancels \subseteq Revision /\ restarts \in 0 .. MaxRestarts

\* Through restarts, resumed revisions and cached answers, a revision that nobody
\* cancelled and that came to an end has an answer for every suspicious region.
EndedIsComplete ==
  \A r \in Revision \ cancels :
    manifest[r].status \in Settled => Answered(contextual[r]) = Regions

\* The PDF an ended revision names is complete and shows the corrections this
\* revision made, whether it wrote it or took it over from an earlier one.
NamedPdfMatches ==
  \A r \in Revision :
    manifest[r].status \in Settled /\ Rewritten(contextual[r]) # {} =>
      LET n == manifest[r].pdf IN
      n # None /\ pdfs[n].whole /\ pdfs[n].changes = Rewritten(contextual[r])

\* A crash while a PDF is written leaves a file that no version record names and that
\* no later revision writes to: what is recorded is complete and one revision's own.
RecordedPdfIsWhole ==
  \A i \in DOMAIN versions :
    /\ pdfs[versions[i].pdf].whole /\ pdfs[versions[i].pdf].by = versions[i].rev
    /\ \A j \in DOMAIN versions : versions[j].pdf = versions[i].pdf => i = j

\* A status request that finds no thread, and no other request beside it, leaves no
\* revision in flight, the ones that the newest pointer no longer names included.
PollSettles ==
  poll.pc = "sweep" /\ poll.todo = {} /\ poll.quiet =>
    \A r \in Revision : manifest[r].status \notin RevisionInFlight

===============================================================================
