----------------------------- MODULE ChapterPages -----------------------------
(***************************************************************************)
(* The pages of one chapter, through the attempts to translate it: what an *)
(* attempt of the pipeline (run_benchmark in benchmark_pipeline.py) takes  *)
(* from the attempts before it, what it reads, pays for and draws, and     *)
(* what is left when it fails or its process dies.                         *)
(*                                                                         *)
(* An attempt is one pipeline process; JobQueue shows that a chapter's     *)
(* output directory never has two.  A resumed attempt has the same         *)
(* directory (its page files, progress.json, the reservation, the PDF), a  *)
(* new job a fresh one, and every attempt the same global caches.          *)
(*                                                                         *)
(* A definition named Bug... is not part of the model (README, "Mutants"). *)
(***************************************************************************)
EXTENDS Naturals, FiniteSets

CONSTANTS
  Pages,         \* logical pages of the chapter
  Looks,         \* the looks its pages may have
  Codes,         \* versions of the pipeline's code and settings, in their order
  MaxAttempts,   \* bound: attempts on the chapter
  MaxPageFaults  \* bound: deaths, exceptions, pages that fail in a stage, lost downloads

\* decodes: OpenCV can read the downloaded file; skip: no_text_precheck takes the page
\* for one without text, which it does of no file it cannot read; solid: valid_image
\* (of another library) accepts it, which it does not if the page is flat or under 100
\* pixels high; text: it holds text to translate
PageLook == [decodes : BOOLEAN, skip : BOOLEAN, solid : BOOLEAN, text : BOOLEAN]

ASSUME PagesAssumption ==
  /\ Pages \in Nat \ {0} /\ Codes \in Nat \ {0}
  /\ Looks \subseteq PageLook /\ \A l \in Looks : l.skip => l.decodes
  /\ MaxAttempts \in Nat /\ MaxPageFaults \in Nat

Page == 1 .. Pages
Code == 1 .. Codes

VARIABLES
  look,        \* the downloaded pages
  attempt,     \* the pipeline process: where it is, its options, the page it is at
  page,        \* page_states: what the process knows of each page
  ocrJobs,     \* pages sent to the OCR stage
  previous,    \* the records of progress.json, as read at the start
  progress,    \* progress.json: each page's key, 0 for none, and whether it is completed
  out,         \* the page files of the output directory
  pdf,         \* the PDF: its pages, or NoPdf
  kept,        \* the processed cache: an image and its metadata for each page and key
  ocrKept,     \* pages in the OCR cache
  purse,       \* .yk_reservation.json, and the requests whose results are stored
  paidFor,     \* history: pages whose translation a consumed reservation paid for
  pageFaults

onDisk == <<progress, out, pdf, kept, ocrKept>>
money == <<purse, paidFor>>
pageVars == <<look, attempt, page, ocrJobs, previous, onDisk, money, pageFaults>>

(***************************************************************************)
(* State.                                                                  *)
(***************************************************************************)

Whole == {"source", "drawn"}  \* a copy of the downloaded page, or its rendering

NoProgress == [p \in Page |-> [key |-> 0, completed |-> FALSE]]
NoFiles == [p \in Page |-> [what |-> "none", code |-> 0]]
NoPdf == [p \in Page |-> "none"]

\* keyed: the state has an ocr_cache_key; work: how far the page's own thread is
Unread == [status |-> "none", from |-> "none", keyed |-> FALSE, lines |-> "none",
           work |-> "none"]

Ended == {"new", "failed", "interrupted", "done"}

ChapterInit ==
  /\ look \in [Page -> Looks]
  /\ attempt = [pc |-> "new", at |-> 1, code |-> 1, resume |-> FALSE, force |-> FALSE,
                number |-> 0]
  /\ page = [p \in Page |-> Unread] /\ ocrJobs = {}
  /\ previous = NoProgress /\ progress = NoProgress
  /\ out = NoFiles /\ pdf = NoPdf
  /\ kept = [k \in Page \X Code |-> [image |-> "none", whole |-> FALSE]]
  /\ ocrKept = {}
  /\ purse = [state |-> "none", results |-> {}] /\ paidFor = {}
  /\ pageFaults = 0

PageFault == pageFaults < MaxPageFaults /\ pageFaults' = pageFaults + 1

Stage(pc) == attempt.pc = pc
Enter(pc) == attempt' = [attempt EXCEPT !.pc = pc]

(***************************************************************************)
(* The beginning and the end of an attempt.                                *)
(***************************************************************************)

\* resume keeps the job's command, --force included, which empties the page folder;
\* only an update changes the code, and the settings with it
BeginAttempt ==
  /\ attempt.pc \in Ended /\ attempt.number < MaxAttempts
  /\ \E resume, force \in BOOLEAN, code \in attempt.code .. Codes :
       /\ resume => attempt.pc = "interrupted" /\ force = attempt.force
       /\ attempt' = [pc |-> "precheck", at |-> 1, code |-> code, resume |-> resume,
                      force |-> force, number |-> attempt.number + 1]
       /\ previous' = IF resume THEN progress ELSE NoProgress
       /\ progress' = previous'
       /\ out' = IF resume /\ ~force THEN out ELSE NoFiles
       /\ pdf' = IF resume THEN pdf ELSE NoPdf
       /\ purse' = IF resume THEN purse ELSE [state |-> "none", results |-> {}]
  /\ UNCHANGED <<look, page, ocrJobs, kept, ocrKept, paidFor, pageFaults>>

Consume ==
  /\ purse' = [purse EXCEPT !.state = "consumed"]
  /\ paidFor' = paidFor \union UNION purse.results

\* The runner or the worker settles what the attempt left held, if it can reach the
\* server; see YkSettlement.
SettleLeft ==
  \/ UNCHANGED money
  \/ purse.state = "held" /\ purse.results # {} /\ Consume
  \/ /\ purse.state = "held" /\ purse.results = {}
     /\ purse' = [purse EXCEPT !.state = "released"] /\ UNCHANGED paidFor

EndAttempt(outcome) ==
  /\ attempt' = [attempt EXCEPT !.pc = outcome, !.at = 1]
  /\ page' = [p \in Page |-> Unread] /\ ocrJobs' = {} /\ previous' = NoProgress
  /\ SettleLeft

\* an attempt that was translated, or whose reservation cannot be settled, is kept for
\* another one, most of the time
Failures ==
  IF purse.results = {} /\ purse.state # "held" THEN {"failed"} ELSE {"failed", "interrupted"}

FailAttempt ==
  /\ \E outcome \in Failures : EndAttempt(outcome)
  /\ UNCHANGED <<look, onDisk>>

\* an exception nothing handles, among them a provider that refuses and a settlement
\* that cannot be made
RaiseError ==
  /\ attempt.pc \notin Ended /\ PageFault
  /\ FailAttempt

\* the process or its runner dies, or is stopped with the worker
Die ==
  /\ attempt.pc \notin Ended /\ PageFault
  /\ EndAttempt("interrupted")
  /\ UNCHANGED <<look, onDisk>>

(***************************************************************************)
(* The precheck loop: page by page, a page is taken over, skipped or       *)
(* queued.                                                                 *)
(***************************************************************************)

\* _write_progress, of the states of the pages in S
Records(states, S) ==
  [p \in Page |-> IF p \in S
                  THEN [key |-> attempt.code, completed |-> states[p].status = "completed"]
                  ELSE [key |-> 0, completed |-> FALSE]]

\* the entry of the page's process_key
Entry(p) == kept[<<p, attempt.code>>]

Valid(p, what) == what \in Whole /\ look[p].solid

BugRecorded(p) == previous[p].completed /\ Valid(p, out[p].what)

\* _reuse_completed_page: the record of an earlier attempt whose file is there ...
Recorded(p) ==
  previous[p].completed /\ previous[p].key = attempt.code /\ Valid(p, out[p].what)

\* ... or load_processed_cache; the image is there before the metadata is.
Cached(p) == Entry(p).whole /\ Valid(p, Entry(p).image)

Reusable(p) == (attempt.force => attempt.resume) /\ (Recorded(p) \/ Cached(p))

Prechecking(p) == Stage("precheck") /\ p = attempt.at /\ page[p].work = "none"
NextPage == attempt' = [attempt EXCEPT !.at = @ + 1]

ReusePage(p) ==
  /\ Prechecking(p) /\ Reusable(p)
  /\ out' = IF Recorded(p) THEN out
            ELSE [out EXCEPT ![p] = [what |-> Entry(p).image, code |-> attempt.code]]
  /\ page' = [page EXCEPT ![p] = [@ EXCEPT !.status = "completed", !.from = "reuse"]]
  /\ NextPage
  /\ UNCHANGED <<look, ocrJobs, previous, progress, pdf, kept, ocrKept, money, pageFaults>>

\* a page taken for one without text is copied and completed, and kept (below)
SkipPage(p) ==
  /\ Prechecking(p) /\ ~Reusable(p) /\ look[p].skip
  /\ out' = [out EXCEPT ![p] = [what |-> "source", code |-> attempt.code]]
  /\ page' = [page EXCEPT ![p] = [@ EXCEPT !.status = "completed", !.from = "precheck",
                                                 !.work = "written"]]
  /\ UNCHANGED <<look, attempt, ocrJobs, previous, progress, pdf, kept, ocrKept, money,
                 pageFaults>>

\* the checkpoint of the loop holds the pages seen so far
NoteSkip(p) ==
  /\ Stage("precheck") /\ p = attempt.at /\ page[p].work = "kept"
  /\ progress' = Records(page, 1 .. p)
  /\ page' = [page EXCEPT ![p].work = "none"]
  /\ NextPage
  /\ UNCHANGED <<look, ocrJobs, previous, out, pdf, kept, ocrKept, money, pageFaults>>

QueuePage(p) ==
  /\ Prechecking(p) /\ ~Reusable(p) /\ ~look[p].skip
  /\ IF p \in ocrKept /\ ~attempt.force
     THEN /\ page' = [page EXCEPT ![p] = [@ EXCEPT !.keyed = TRUE, !.lines = "read"]]
          /\ UNCHANGED ocrJobs
     ELSE /\ page' = [page EXCEPT ![p].keyed = TRUE]
          /\ ocrJobs' = ocrJobs \union {p}
  /\ NextPage
  /\ UNCHANGED <<look, previous, onDisk, money, pageFaults>>

Skipped == {p \in Page : page[p].from = "precheck"}

\* After the loop.  An empty OCR stage of an attempt that skipped a page sends every
\* page to the OCR, the completed ones too.
DiscoverJobs ==
  /\ Stage("precheck") /\ attempt.at = Pages + 1
  /\ IF ocrJobs = {} /\ Skipped # {}
     THEN /\ ocrJobs' = Page
          /\ page' = [p \in Page |-> [page[p] EXCEPT !.status = "none", !.from = "none"]]
     ELSE UNCHANGED <<ocrJobs, page>>
  /\ Enter("ocr")
  /\ UNCHANGED <<look, previous, onDisk, money, pageFaults>>

(***************************************************************************)
(* OCR and classification.                                                 *)
(***************************************************************************)

Reading(p) == Stage("ocr") /\ p \in ocrJobs /\ page[p].lines = "none"

\* _persist_ocr_result
ReadPage(p) ==
  /\ Reading(p) /\ page[p].keyed /\ look[p].decodes
  /\ page' = [page EXCEPT ![p].lines = "read"]
  /\ ocrKept' = ocrKept \union {p}
  /\ progress' = Records(page', Page)
  /\ UNCHANGED <<look, attempt, ocrJobs, previous, out, pdf, kept, money, pageFaults>>

\* a page that never got its ocr_cache_key: a KeyError, which nothing handles
LosePage(p) ==
  /\ Reading(p) /\ ~page[p].keyed
  /\ FailAttempt
  /\ UNCHANGED pageFaults

\* the OCR reports an error: a file that cannot be read, always, or a fault of its own
MissPage(p) ==
  /\ Reading(p)
  /\ IF look[p].decodes THEN PageFault ELSE UNCHANGED pageFaults
  /\ page' = [page EXCEPT ![p].lines = "failed"]
  /\ progress' = Records(page', Page)
  /\ UNCHANGED <<look, attempt, ocrJobs, previous, out, pdf, kept, ocrKept, money>>

\* _complete_page_with_error: the page is delivered as it was downloaded, readable or
\* not, which makes it "completed_with_error" (here "error") ...
Delivered(S) ==
  [p \in Page |-> IF p \in S THEN [what |-> "source", code |-> attempt.code] ELSE out[p]]

\* ... if its file is still there.  Of the pages in S those in `gone' have lost it.
Losing(gone, S) ==
  gone \subseteq S /\ IF gone = {} THEN UNCHANGED pageFaults ELSE PageFault

Failing == {p \in Page : page[p].lines = "failed" \/ ~look[p].decodes}
Uncompleted == {p \in Page : page[p].status # "completed"}

\* process_pre_translation_page of every page, merged in the order of the pages
Classify ==
  /\ Stage("ocr") /\ \A p \in ocrJobs : page[p].lines # "none"
  /\ \E gone \in SUBSET Page :
       /\ Losing(gone, Uncompleted)
       /\ out' = Delivered((Uncompleted \intersect Failing) \ gone)
       /\ page' = [p \in Page |->
                     IF p \in gone THEN [page[p] EXCEPT !.status = "lost"]
                     ELSE IF p \notin Uncompleted THEN page[p]
                     ELSE IF p \in Failing THEN [page[p] EXCEPT !.status = "error"]
                     ELSE [page[p] EXCEPT !.work = "analyzed"]]
  /\ progress' = Records(page', Page)
  /\ Enter("translate")
  /\ UNCHANGED <<look, ocrJobs, previous, pdf, kept, ocrKept, money>>

(***************************************************************************)
(* Translation: the request names the texts of all pages still to be       *)
(* translated, by their position.                                          *)
(***************************************************************************)

Analyzed == {p \in Page : page[p].work = "analyzed"}
Targets == {p \in Analyzed : look[p].text}

\* translate_many: without a text nothing is asked and nothing paid; a settled
\* reservation only replays the very request it paid for
AskProvider ==
  /\ Stage("translate")
  /\ \/ Targets = {} /\ Enter("render") /\ UNCHANGED purse
     \/ /\ Targets # {} /\ purse.state \in {"consumed", "released"}
        /\ Targets \in purse.results
        /\ Enter("commit") /\ UNCHANGED purse
     \/ /\ Targets # {} /\ purse.state \in {"none", "held"}
        /\ purse' = [purse EXCEPT !.state = "held"] /\ Enter("asked")
  /\ UNCHANGED <<look, page, ocrJobs, previous, onDisk, paidFor, pageFaults>>

\* reservation_already_settled
RefuseNewRequest ==
  /\ Stage("translate") /\ Targets # {} /\ Targets \notin purse.results
  /\ purse.state \in {"consumed", "released"}
  /\ FailAttempt
  /\ UNCHANGED pageFaults

BugStoreResults ==
  /\ Stage("asked")
  /\ purse' = [purse EXCEPT !.results = @ \union {Targets}]
  /\ Enter("render")
  /\ UNCHANGED <<look, page, ocrJobs, previous, onDisk, paidFor, pageFaults>>

\* persist_for_job and mark_translation_ready; the retries of single texts follow
StoreResults ==
  /\ Stage("asked")
  /\ purse' = [purse EXCEPT !.results = @ \union {Targets}]
  /\ Enter("commit")
  /\ UNCHANGED <<look, page, ocrJobs, previous, onDisk, paidFor, pageFaults>>

\* commit_translation_success, before anything is drawn
CommitTranslations ==
  /\ Stage("commit")
  /\ IF purse.state = "held" THEN Consume ELSE UNCHANGED money
  /\ Enter("render")
  /\ UNCHANGED <<look, page, ocrJobs, previous, onDisk, pageFaults>>

(***************************************************************************)
(* Rendering: two threads draw the analyzed pages and keep each one, and   *)
(* the process takes their results when the last one is done.              *)
(***************************************************************************)

AtWork == {p \in Page : page[p].work \in {"writing", "written", "imaged"}}
Work(p, work) == page' = [page EXCEPT ![p].work = work]

\* cv2.imwrite writes the file in place
DrawPage(p) ==
  /\ Stage("render") /\ page[p].work = "analyzed" /\ Cardinality(AtWork) < 2
  /\ out' = [out EXCEPT ![p] = [what |-> "torn", code |-> attempt.code]]
  /\ Work(p, "writing")
  /\ UNCHANGED <<look, attempt, ocrJobs, previous, progress, pdf, kept, ocrKept, money,
                 pageFaults>>

FinishPage(p) ==
  /\ Stage("render") /\ page[p].work = "writing"
  /\ out' = [out EXCEPT ![p].what = "drawn"]
  /\ Work(p, "written")
  /\ UNCHANGED <<look, attempt, ocrJobs, previous, progress, pdf, kept, ocrKept, money,
                 pageFaults>>

\* save_processed_cache, of a drawn or a skipped page: the image ...
KeepImage(p) ==
  /\ page[p].work = "written"
  /\ kept' = [kept EXCEPT ![<<p, attempt.code>>].image = out[p].what]
  /\ Work(p, "imaged")
  /\ UNCHANGED <<look, attempt, ocrJobs, previous, progress, out, pdf, ocrKept, money,
                 pageFaults>>

\* ... and then the metadata that makes it an entry.
KeepMetadata(p) ==
  /\ page[p].work = "imaged"
  /\ kept' = [kept EXCEPT ![<<p, attempt.code>>].whole = TRUE]
  /\ Work(p, "kept")
  /\ UNCHANGED <<look, attempt, ocrJobs, previous, progress, out, pdf, ocrKept, money,
                 pageFaults>>

BreakPage(p) ==
  /\ Stage("render") /\ p \in Analyzed \union AtWork /\ PageFault
  /\ Work(p, "broken")
  /\ UNCHANGED <<look, attempt, ocrJobs, previous, onDisk, money>>

Broken == {p \in Page : page[p].work = "broken"}

BugMergePages ==
  /\ Stage("render") /\ Analyzed \union AtWork = {}
  /\ \E gone \in SUBSET Page :
       /\ Losing(gone, Broken)
       /\ page' = [p \in Page |->
                     CASE p \in gone -> [page[p] EXCEPT !.status = "lost", !.work = "none"]
                       [] p \in Broken \ gone ->
                            [page[p] EXCEPT !.status = "error", !.work = "none"]
                       [] page[p].work = "kept" ->
                            [page[p] EXCEPT !.status = "completed", !.from = "fresh",
                                            !.work = "none"]
                       [] OTHER -> page[p]]
  /\ Enter("pdf")
  /\ UNCHANGED <<look, ocrJobs, previous, progress, out, pdf, kept, ocrKept, money>>

MergePages ==
  /\ Stage("render") /\ Analyzed \union AtWork = {}
  /\ \E gone \in SUBSET Page :
       /\ Losing(gone, Broken)
       /\ out' = Delivered(Broken \ gone)
       /\ page' = [p \in Page |->
                     CASE p \in gone -> [page[p] EXCEPT !.status = "lost", !.work = "none"]
                       [] p \in Broken \ gone ->
                            [page[p] EXCEPT !.status = "error", !.work = "none"]
                       [] page[p].work = "kept" ->
                            [page[p] EXCEPT !.status = "completed", !.from = "fresh",
                                            !.work = "none"]
                       [] OTHER -> page[p]]
  /\ Enter("pdf")
  /\ UNCHANGED <<look, ocrJobs, previous, progress, pdf, kept, ocrKept, money>>

(***************************************************************************)
(* The PDF, written aside and then put in place, and the last checkpoint,  *)
(* after the other formats and the reports.                                *)
(***************************************************************************)

\* completed_states: the pages completed, with an error or without, whose file can be
\* read; a half written one may be
Included(p) ==
  /\ page[p].status \in {"completed", "error"} /\ out[p].what # "none"
  /\ out[p].what = "source" => look[p].decodes

\* a resumed attempt keeps the PDF it finds
ExportPdf ==
  /\ Stage("pdf") /\ \E p \in Page : Included(p)
  /\ pdf' = IF attempt.resume /\ pdf # NoPdf THEN pdf
            ELSE [p \in Page |-> IF Included(p) THEN out[p].what ELSE "none"]
  /\ Enter("report")
  /\ UNCHANGED <<look, page, ocrJobs, previous, progress, out, kept, ocrKept, money, pageFaults>>

\* "Nenhuma pagina valida foi produzida."
RefuseNoPages ==
  /\ Stage("pdf") /\ \A p \in Page : ~Included(p)
  /\ FailAttempt
  /\ UNCHANGED pageFaults

FinishChapter ==
  /\ Stage("report")
  /\ progress' = Records(page, Page)
  /\ EndAttempt("done")
  /\ UNCHANGED <<look, out, pdf, kept, ocrKept, pageFaults>>

PageNext(p) ==
  \/ ReusePage(p) \/ SkipPage(p) \/ NoteSkip(p) \/ QueuePage(p)
  \/ ReadPage(p) \/ LosePage(p) \/ MissPage(p)
  \/ DrawPage(p) \/ FinishPage(p) \/ KeepImage(p) \/ KeepMetadata(p) \/ BreakPage(p)

ChapterNext ==
  \/ BeginAttempt \/ RaiseError \/ Die
  \/ \E p \in Page : PageNext(p)
  \/ DiscoverJobs \/ Classify
  \/ AskProvider \/ RefuseNewRequest \/ StoreResults \/ CommitTranslations
  \/ MergePages \/ ExportPdf \/ RefuseNoPages \/ FinishChapter

ChapterSpec == ChapterInit /\ [][ChapterNext]_pageVars

(***************************************************************************)
(* Properties.                                                             *)
(***************************************************************************)

ChapterTypeOK ==
  /\ look \in [Page -> Looks]
  /\ attempt \in [pc : Ended \union {"precheck", "ocr", "translate", "asked", "commit",
                                     "render", "pdf", "report"},
                  at : 1 .. Pages + 1, code : Code, resume : BOOLEAN, force : BOOLEAN,
                  number : 0 .. MaxAttempts]
  /\ page \in [Page -> [status : {"none", "completed", "error", "lost"},
                        from : {"none", "reuse", "precheck", "fresh"},
                        keyed : BOOLEAN,
                        lines : {"none", "read", "failed"},
                        work : {"none", "analyzed", "writing", "written", "imaged",
                                "kept", "broken"}]]
  /\ ocrJobs \subseteq Page
  /\ previous \in [Page -> [key : 0 .. Codes, completed : BOOLEAN]]
  /\ progress \in [Page -> [key : 0 .. Codes, completed : BOOLEAN]]
  /\ out \in [Page -> [what : {"none", "torn"} \union Whole, code : 0 .. Codes]]
  /\ pdf \in [Page -> {"none", "torn"} \union Whole]
  /\ kept \in [Page \X Code -> [image : {"none"} \union Whole, whole : BOOLEAN]]
  /\ ocrKept \subseteq Page
  /\ purse \in [state : {"none", "held", "consumed", "released"},
                results : SUBSET (SUBSET Page)]
  /\ paidFor \subseteq Page
  /\ pageFaults \in 0 .. MaxPageFaults

\* Whatever an attempt takes from a cache, from an earlier attempt that died, or from
\* its own threads, a page it holds for completed is a whole file made by its own code.
CompletedIsCurrent ==
  \A p \in Page : page[p].status = "completed" =>
    out[p].what \in Whole /\ out[p].code = attempt.code

\* A PDF that is made holds no half written page, and leaves out no page but those whose
\* download cannot be read or was gone when the page failed: a page the OCR or the
\* rendering failed on is in it as it was downloaded, wherever an earlier attempt died.
NewPdfIsWhole ==
  pdf' # pdf /\ pdf' # NoPdf =>
    \A p \in Page :
      \/ pdf'[p] \in Whole
      \/ pdf'[p] = "none" /\ (~look[p].decodes \/ page[p].status = "lost")

PdfIsWhole == [][NewPdfIsWhole]_pageVars

\* A translated page is nowhere to be had, in the output of this or another job, in the
\* PDF or in the cache that serves them all, before its translation was paid for.
RenderedIsPaid ==
  \A p \in Page :
    look[p].text /\ (\/ out[p].what = "drawn" \/ pdf[p] = "drawn"
                     \/ \E c \in Code : kept[<<p, c>>].image = "drawn") => p \in paidFor

\* "A positive download must never collapse into an empty OCR stage solely because the
\* conservative no-text precheck classified every page as blank" (benchmark_pipeline.py).
NeverEmptyOcr ==
  Stage("translate") /\ ocrJobs = {} =>
    \E p \in Page : page[p].lines = "read" \/ out[p].what = "drawn"

===============================================================================
