-------------------------- MODULE ChapterPages_proofs --------------------------
(***************************************************************************)
(* Proofs about the pages of a chapter: types, pages that are current,     *)
(* PDFs that are whole, renderings that are paid for, and OCR stages that  *)
(* are not empty, for any number of pages, looks, versions, attempts and   *)
(* faults.                                                                 *)
(***************************************************************************)
EXTENDS ChapterPages, TLAPS

USE PagesAssumption

(***************************************************************************)
(* The inductive invariant.                                                *)
(***************************************************************************)

Translating == {"translate", "asked", "commit"}

\* What a page's thread may be doing at each stage.  Only the precheck's own page is
\* under work before the rendering; after it, no page is.
WorkInv ==
  \A p \in Page :
    /\ attempt.pc \in Ended => page[p].status = "none" /\ page[p].work = "none"
    /\ Stage("precheck") =>
         /\ page[p].work \in {"none", "written", "imaged", "kept"}
         /\ page[p].work # "none" => p = attempt.at /\ page[p].status = "completed"
    /\ Stage("ocr") => page[p].work = "none"
    /\ attempt.pc \in {"precheck", "ocr"} => page[p].status \notin {"error", "lost"}
    /\ attempt.pc \in Translating => page[p].work \in {"none", "analyzed"}
    /\ attempt.pc \in Translating \union {"render"} =>
         (page[p].status = "none" <=> page[p].work # "none")
    /\ attempt.pc \in {"pdf", "report"} => page[p].status # "none" /\ page[p].work = "none"

Current(p) == out[p].what \in Whole /\ out[p].code = attempt.code

\* A page the process is done with, or has drawn, is a whole file of its own code.
FileInv ==
  \A p \in Page :
    /\ page[p].status \notin {"none", "lost"} => Current(p)
    /\ Stage("render") /\ page[p].work \in {"written", "imaged", "kept"} => Current(p)
    /\ Stage("render") /\ page[p].work = "writing" => out[p].code = attempt.code

\* Versions only grow: a file is never older than the record that calls it completed,
\* nor newer than the attempt.
NotOlder(record, p) ==
  record[p].completed =>
    record[p].key <= attempt.code /\ (out[p].what = "none" \/ record[p].key <= out[p].code)

RecordInv ==
  \A p \in Page :
    /\ out[p].code <= attempt.code
    /\ NotOlder(previous, p) /\ NotOlder(progress, p)

\* What has been paid for, from the request to the page.
PaidInv ==
  /\ purse.state \in {"none", "released"} => purse.results = {}
  /\ purse.state = "consumed" => UNION purse.results \subseteq paidFor
  /\ Stage("asked") => purse.state = "held"
  /\ Stage("commit") => Targets \in purse.results
  /\ Stage("render") =>
       \A p \in Page : page[p].work \in {"analyzed", "writing"} /\ look[p].text => p \in paidFor

ChapterInv ==
  ChapterTypeOK /\ WorkInv /\ FileInv /\ RecordInv /\ PaidInv /\ RenderedIsPaid

(***************************************************************************)
(* Types, variable by variable.                                            *)
(***************************************************************************)

AttemptType ==
  [pc : Ended \union {"precheck", "ocr", "translate", "asked", "commit", "render", "pdf",
                      "report"},
   at : 1 .. Pages + 1, code : Code, resume : BOOLEAN, force : BOOLEAN,
   number : 0 .. MaxAttempts]
PageState ==
  [status : {"none", "completed", "error", "lost"},
   from : {"none", "reuse", "precheck", "fresh"}, keyed : BOOLEAN, lines : {"none", "read", "failed"},
   work : {"none", "analyzed", "writing", "written", "imaged", "kept", "broken"}]
PageType == [Page -> PageState]
PdfType == [Page -> {"none", "torn"} \union Whole]
ProgressType == [Page -> [key : 0 .. Codes, completed : BOOLEAN]]
OutType == [Page -> [what : {"none", "torn"} \union Whole, code : 0 .. Codes]]
KeptType == [Page \X Code -> [image : {"none"} \union Whole, whole : BOOLEAN]]
PurseType == [state : {"none", "held", "consumed", "released"}, results : SUBSET (SUBSET Page)]
Types ==
  /\ look \in [Page -> Looks]
  /\ attempt \in AttemptType /\ page \in PageType /\ ocrJobs \subseteq Page
  /\ previous \in ProgressType /\ progress \in ProgressType
  /\ out \in OutType /\ pdf \in PdfType
  /\ kept \in KeptType /\ ocrKept \subseteq Page
  /\ purse \in PurseType /\ paidFor \subseteq Page
  /\ pageFaults \in 0 .. MaxPageFaults

\* The type invariant, by the types of the variables.
LEMMA TypesSplit == (ChapterTypeOK <=> Types) /\ (ChapterTypeOK' <=> Types')
BY DEF ChapterTypeOK, Types, AttemptType, PageType, PageState, ProgressType, OutType, PdfType,
       KeptType, PurseType

\* An empty progress.json is one.
LEMMA NothingNoted == NoProgress \in ProgressType
<1>1. [key |-> 0, completed |-> FALSE] \in [key : 0 .. Codes, completed : BOOLEAN]
  OBVIOUS
<1> QED
  BY <1>1 DEF NoProgress, ProgressType

\* What a settlement does to the reservation and to what was paid for.
LEMMA Consuming ==
  ASSUME Types, Consume PROVE purse' \in PurseType /\ paidFor' \subseteq Page
BY DEF Types, PurseType, Consume

\* The end of an attempt keeps the types of all it touches.
LEMMA Ending ==
  ASSUME Types, NEW outcome \in Ended, EndAttempt(outcome)
  PROVE  /\ attempt' \in AttemptType /\ page' \in PageType /\ ocrJobs' \subseteq Page
         /\ previous' \in ProgressType /\ purse' \in PurseType /\ paidFor' \subseteq Page
<1> USE DEF Types
<1>1. attempt' \in AttemptType
  <2>1. attempt' = [attempt EXCEPT !.pc = outcome, !.at = 1] /\ 1 \in 1 .. Pages + 1
    BY DEF EndAttempt
  <2> QED
    BY <2>1 DEF AttemptType
<1>2. page' \in PageType /\ ocrJobs' \subseteq Page
  BY DEF EndAttempt, PageType, PageState, Unread
<1>3. previous' \in ProgressType
  BY NothingNoted DEF EndAttempt
<1>4. purse' \in PurseType /\ paidFor' \subseteq Page
  <2>1. CASE UNCHANGED money
    BY <2>1 DEF money
  <2>2. CASE Consume
    BY <2>2, Consuming
  <2>3. CASE purse' = [purse EXCEPT !.state = "released"] /\ UNCHANGED paidFor
    BY <2>3 DEF PurseType
  <2> QED
    BY <2>1, <2>2, <2>3 DEF EndAttempt, SettleLeft
<1> QED
  BY <1>1, <1>2, <1>3, <1>4

\* A checkpoint is a progress.json.
LEMMA Noting ==
  ASSUME Types, NEW states, NEW S PROVE Records(states, S) \in ProgressType
<1>1. ASSUME NEW p \in Page
      PROVE  [key |-> attempt.code, completed |-> states[p].status = "completed"]
               \in [key : 0 .. Codes, completed : BOOLEAN]
  BY DEF Types, AttemptType, Code
<1>2. [key |-> 0, completed |-> FALSE] \in [key : 0 .. Codes, completed : BOOLEAN]
  OBVIOUS
<1> QED
  BY <1>1, <1>2 DEF Records, ProgressType

\* Delivered pages are page files.
LEMMA Delivering ==
  ASSUME Types, NEW S PROVE Delivered(S) \in OutType
BY DEF Types, Delivered, OutType, AttemptType, Code, Whole

\* Files that are lost are counted.
LEMMA LosingCounted ==
  ASSUME Types, NEW gone, NEW S, Losing(gone, S) PROVE pageFaults' \in 0 .. MaxPageFaults
BY DEF Types, Losing, PageFault

\* What MergePages makes of a page's state.
Merged(gone, p) ==
  CASE p \in gone -> [page[p] EXCEPT !.status = "lost", !.work = "none"]
    [] p \in Broken \ gone -> [page[p] EXCEPT !.status = "error", !.work = "none"]
    [] page[p].work = "kept" ->
         [page[p] EXCEPT !.status = "completed", !.from = "fresh", !.work = "none"]
    [] OTHER -> page[p]

\* A stage of the attempt.
LEMMA Moving ==
  ASSUME Types, NEW pc \in {"precheck", "ocr", "translate", "asked", "commit", "render", "pdf",
                      "report"}, Enter(pc) PROVE attempt' \in AttemptType
BY DEF Types, Enter, AttemptType

\* A stage of a page.
LEMMA Working ==
  ASSUME Types, NEW p \in Page, NEW work \in {"writing", "written", "imaged", "kept", "broken"},
         Work(p, work)
  PROVE  page' \in PageType
BY DEF Types, Work, PageType, PageState

\* A page whose thread has its file is one of those FileInv speaks of.
LEMMA WorkedIsCurrent ==
  ASSUME Types, WorkInv, FileInv, NEW p \in Page, page[p].work \in {"written", "imaged", "kept"}
  PROVE  Current(p)
BY DEF Types, AttemptType, WorkInv, FileInv, Stage, Translating, Ended

\* A page's turn ends inside the chapter, so the next page's number is still typed.
LEMMA TurnTyped ==
  ASSUME Types, NEW p \in Page, p = attempt.at, NextPage
  PROVE  attempt' \in AttemptType
<1>1. p + 1 \in 1 .. Pages + 1
  BY PagesAssumption DEF Page
<1>2. attempt' = [attempt EXCEPT !.at = p + 1]
  BY DEF NextPage, Types, AttemptType
<1> QED
  BY <1>1, <1>2 DEF Types, AttemptType

\* Every step keeps the types.  Only KeepImage needs more: the file it copies is whole.
LEMMA TypesStep ==
  ASSUME Types, WorkInv, FileInv, [ChapterNext]_pageVars
  PROVE  Types'
<1> USE DEF Types
<1>1. CASE BeginAttempt
  <2>1. PICK resume \in BOOLEAN, force \in BOOLEAN, code \in attempt.code .. Codes :
          /\ attempt' = [pc |-> "precheck", at |-> 1, code |-> code, resume |-> resume,
                         force |-> force, number |-> attempt.number + 1]
          /\ previous' = IF resume THEN progress ELSE NoProgress
          /\ out' = IF resume /\ ~force THEN out ELSE NoFiles
          /\ pdf' = IF resume THEN pdf ELSE NoPdf
          /\ purse' = IF resume THEN purse ELSE [state |-> "none", results |-> {}]
    BY <1>1 DEF BeginAttempt
  <2>2. attempt' \in AttemptType
    <3>1. attempt.number + 1 \in 0 .. MaxAttempts
      BY <1>1 DEF BeginAttempt, AttemptType
    <3>2. code \in Code
      BY DEF AttemptType, Code
    <3> QED
      BY <2>1, <3>1, <3>2 DEF AttemptType
  <2>3. previous' \in ProgressType /\ progress' \in ProgressType
    BY <1>1, <2>1, NothingNoted DEF BeginAttempt
  <2>4. out' \in OutType /\ pdf' \in PdfType
    BY <2>1 DEF OutType, PdfType, NoFiles, NoPdf
  <2>5. purse' \in PurseType
    BY <2>1 DEF PurseType
  <2> QED
    BY <1>1, <2>2, <2>3, <2>4, <2>5 DEF BeginAttempt
<1>2. ASSUME FailAttempt, pageFaults' \in 0 .. MaxPageFaults, UNCHANGED <<look, onDisk>>
      PROVE  Types'
  BY <1>2, Ending DEF FailAttempt, Failures, Ended, onDisk
<1>3. ASSUME PageFault PROVE pageFaults' \in 0 .. MaxPageFaults
  BY <1>3 DEF PageFault
<1>4. CASE RaiseError
  BY <1>2, <1>3, <1>4 DEF RaiseError, FailAttempt
<1>5. CASE Die
  BY <1>3, <1>5, Ending DEF Die, Ended, onDisk
<1>6. CASE DiscoverJobs
  <2>1. page' \in PageType
    <3>1. [p \in Page |-> [page[p] EXCEPT !.status = "none", !.from = "none"]] \in PageType
      BY DEF PageType, PageState
    <3> QED
      BY <1>6, <3>1 DEF DiscoverJobs
  <2> QED
    BY <1>6, <2>1, Moving DEF DiscoverJobs, onDisk, money
<1>7. CASE Classify
  <2>1. \E gone : /\ Losing(gone, Uncompleted)
                  /\ out' = Delivered((Uncompleted \intersect Failing) \ gone)
    BY <1>7 DEF Classify
  <2>2. out' \in OutType /\ pageFaults' \in 0 .. MaxPageFaults
    BY <2>1, Delivering, LosingCounted
  <2>3. page' \in PageType
    BY <1>7 DEF Classify, PageType, PageState
  <2> QED
    BY <1>7, <2>2, <2>3, Moving, Noting DEF Classify, money
<1>8. CASE AskProvider
  <2>1. purse' \in PurseType
    BY <1>8 DEF AskProvider, PurseType
  <2> QED
    BY <1>8, <2>1, Moving DEF AskProvider, onDisk
<1>9. CASE RefuseNewRequest \/ RefuseNoPages
  BY <1>2, <1>9 DEF RefuseNewRequest, RefuseNoPages, FailAttempt
<1>10. CASE StoreResults
  <2>1. Targets \subseteq Page
    BY DEF Targets, Analyzed
  <2>2. purse' \in PurseType
    BY <1>10, <2>1 DEF StoreResults, PurseType
  <2> QED
    BY <1>10, <2>2, Moving DEF StoreResults, onDisk
<1>11. CASE CommitTranslations
  BY <1>11, Moving, Consuming DEF CommitTranslations, onDisk, money
<1>12. CASE MergePages
  <2>1. page' \in PageType
    <3>1. PICK gone : page' = [p \in Page |-> Merged(gone, p)]
      BY <1>12 DEF MergePages, Merged
    <3>2. ASSUME NEW p \in Page PROVE Merged(gone, p) \in PageState
      BY DEF Merged, PageType, PageState
    <3> QED
      BY <3>1, <3>2 DEF PageType
  <2>2. \E gone : Losing(gone, Broken) /\ out' = Delivered(Broken \ gone)
    BY <1>12 DEF MergePages
  <2>3. out' \in OutType /\ pageFaults' \in 0 .. MaxPageFaults
    BY <2>2, Delivering, LosingCounted
  <2> QED
    BY <1>12, <2>1, <2>3, Moving DEF MergePages, money
<1>13. CASE ExportPdf
  <2>1. pdf' \in PdfType
    BY <1>13 DEF ExportPdf, PdfType, OutType
  <2> QED
    BY <1>13, <2>1, Moving DEF ExportPdf, money
<1>14. CASE FinishChapter
  BY <1>14, Ending, Noting DEF FinishChapter, Ended
<1>15. ASSUME NEW p \in Page, PageNext(p) PROVE Types'
  <2>1. CASE ReusePage(p)
    <3>1. attempt' \in AttemptType
      BY <2>1, TurnTyped DEF ReusePage, Prechecking
    <3>2. page' \in PageType
      <4>1. [page[p] EXCEPT !.status = "completed", !.from = "reuse"] \in PageState
        BY DEF PageType, PageState
      <4> QED
        BY <2>1, <4>1 DEF ReusePage, PageType
    <3>3. out' \in OutType
      <4>1. CASE Recorded(p)
        BY <2>1, <4>1 DEF ReusePage
      <4>2. CASE ~Recorded(p)
        <5>1. Entry(p).image \in Whole
          BY <2>1, <4>2 DEF ReusePage, Reusable, Cached, Valid
        <5> QED
          BY <2>1, <4>2, <5>1 DEF ReusePage, OutType, AttemptType, Code
      <4> QED
        BY <4>1, <4>2
    <3> QED
      BY <2>1, <3>1, <3>2, <3>3 DEF ReusePage, money
  <2>2. CASE SkipPage(p)
    <3>1. page' \in PageType
      <4>1. [page[p] EXCEPT !.status = "completed", !.from = "precheck", !.work = "written"]
              \in PageState
        BY DEF PageType, PageState
      <4> QED
        BY <2>2, <4>1 DEF SkipPage, PageType
    <3>2. out' \in OutType
      BY <2>2 DEF SkipPage, OutType, AttemptType, Code, Whole
    <3> QED
      BY <2>2, <3>1, <3>2 DEF SkipPage, money
  <2>3. CASE NoteSkip(p)
    <3>1. attempt' \in AttemptType
      BY <2>3 DEF NoteSkip, NextPage, Stage, AttemptType, Page
    <3>2. page' \in PageType
      BY <2>3 DEF NoteSkip, PageType, PageState
    <3> QED
      BY <2>3, <3>1, <3>2, Noting DEF NoteSkip, money
  <2>4. CASE QueuePage(p)
    <3>1. attempt' \in AttemptType
      BY <2>4, TurnTyped DEF QueuePage, Prechecking
    <3>2. page' \in PageType
      <4>1. CASE page' = [page EXCEPT ![p] = [@ EXCEPT !.keyed = TRUE, !.lines = "read"]]
        BY <4>1 DEF PageType, PageState
      <4>2. CASE page' = [page EXCEPT ![p].keyed = TRUE]
        BY <4>2 DEF PageType, PageState
      <4> QED
        BY <2>4, <4>1, <4>2 DEF QueuePage
    <3> QED
      BY <2>4, <3>1, <3>2 DEF QueuePage, onDisk, money
  <2>5. CASE ReadPage(p)
    <3>1. page' \in PageType
      BY <2>5 DEF ReadPage, PageType, PageState
    <3> QED
      BY <2>5, <3>1, Noting DEF ReadPage, money
  <2>6. CASE LosePage(p)
    BY <1>2, <2>6 DEF LosePage, FailAttempt
  <2>7. CASE MissPage(p)
    <3>1. page' \in PageType
      BY <2>7 DEF MissPage, PageType, PageState
    <3> QED
      BY <1>3, <2>7, <3>1, Noting DEF MissPage, money
  <2>8. CASE DrawPage(p)
    <3>1. out' \in OutType
      BY <2>8 DEF DrawPage, OutType, AttemptType, Code
    <3> QED
      BY <2>8, <3>1, Working DEF DrawPage, money
  <2>9. CASE FinishPage(p)
    <3>1. out' \in OutType
      BY <2>9 DEF FinishPage, OutType, Whole
    <3> QED
      BY <2>9, <3>1, Working DEF FinishPage, money
  <2>10. CASE KeepImage(p)
    <3>1. out[p].what \in Whole
      BY <2>10, WorkedIsCurrent DEF KeepImage, Current
    <3>2. attempt.code \in Code
      BY DEF AttemptType
    <3>3. kept' \in KeptType
      BY <2>10, <3>1, <3>2 DEF KeepImage, KeptType
    <3> QED
      BY <2>10, <3>3, Working DEF KeepImage, money
  <2>11. CASE KeepMetadata(p)
    <3>1. attempt.code \in Code
      BY DEF AttemptType
    <3>2. kept' \in KeptType
      BY <2>11, <3>1 DEF KeepMetadata, KeptType
    <3> QED
      BY <2>11, <3>2, Working DEF KeepMetadata, money
  <2>12. CASE BreakPage(p)
    BY <1>3, <2>12, Working DEF BreakPage, onDisk, money
  <2> QED
    BY <1>15, <2>1, <2>2, <2>3, <2>4, <2>5, <2>6, <2>7, <2>8, <2>9, <2>10, <2>11, <2>12
    DEF PageNext
<1>16. CASE UNCHANGED pageVars
  BY <1>16 DEF pageVars, onDisk, money
<1> QED
  BY <1>1, <1>4, <1>5, <1>6, <1>7, <1>8, <1>9, <1>10, <1>11, <1>12, <1>13, <1>14, <1>15, <1>16
  DEF ChapterNext

(***************************************************************************)
(* What a page is in.                                                      *)
(***************************************************************************)

\* After an attempt, the process knows nothing of any page.
LEMMA Forgetting ==
  ASSUME Types, NEW outcome \in Ended, EndAttempt(outcome)
  PROVE  /\ attempt'.pc = outcome /\ attempt'.code = attempt.code
         /\ \A p \in Page : page'[p].status = "none" /\ page'[p].work = "none"
         /\ previous' = NoProgress
BY DEF Types, AttemptType, EndAttempt, Unread

\* What Enter leaves alone: the code.
LEMMA Entering ==
  ASSUME Types, NEW pc, Enter(pc)
  PROVE  attempt'.pc = pc /\ attempt'.code = attempt.code
BY DEF Types, AttemptType, Enter

\* What NextPage leaves alone.
LEMMA Turning ==
  ASSUME Types, NextPage
  PROVE  /\ attempt'.pc = attempt.pc /\ attempt'.code = attempt.code
         /\ attempt'.at = attempt.at + 1
BY DEF Types, AttemptType, NextPage

\* What Work does to the page, and to no other.
LEMMA WorkingOn ==
  ASSUME Types, NEW p \in Page, NEW work, Work(p, work)
  PROVE  /\ page'[p].work = work /\ page'[p].status = page[p].status
         /\ \A q \in Page \ {p} : page'[q] = page[q]
BY DEF Types, PageType, PageState, Work

\* MergePages, page by page: S are the pages delivered.
LEMMA Merging ==
  ASSUME Types, MergePages
  PROVE  \E S \in SUBSET Broken :
           /\ out' = Delivered(S)
           /\ \A p \in Page :
                /\ page[p].work = "kept" =>
                     page'[p].status = "completed" /\ page'[p].work = "none"
                /\ page[p].work = "broken" =>
                     page'[p].status = (IF p \in S THEN "error" ELSE "lost")
                     /\ page'[p].work = "none"
                /\ page[p].work \notin {"kept", "broken"} => page'[p] = page[p]
                /\ page[p].work \in {"none", "kept", "broken"}
<1>1. PICK gone \in SUBSET Page : /\ gone \subseteq Broken /\ out' = Delivered(Broken \ gone)
                                 /\ page' = [p \in Page |-> Merged(gone, p)]
  BY DEF MergePages, Losing, Merged
<1>2. ASSUME NEW p \in Page
      PROVE  /\ page[p].work = "kept" =>
                  page'[p].status = "completed" /\ page'[p].work = "none"
             /\ page[p].work = "broken" =>
                  page'[p].status = (IF p \in Broken \ gone THEN "error" ELSE "lost")
                  /\ page'[p].work = "none"
             /\ page[p].work \notin {"kept", "broken"} => page'[p] = page[p]
             /\ page[p].work \in {"none", "kept", "broken"}
  <2>1. page[p] \in PageState /\ page'[p] = Merged(gone, p)
    BY <1>1 DEF Types, PageType
  <2>2. p \in Broken <=> page[p].work = "broken"
    BY DEF Broken
  <2>3. page[p].work \in {"none", "kept", "broken"}
    BY <2>1 DEF MergePages, Analyzed, AtWork, PageState
  <2>4. CASE page[p].work = "broken"
    <3>1. CASE p \in gone
      BY <2>1, <2>4, <3>1 DEF Merged, PageState
    <3>2. CASE p \notin gone
      BY <2>1, <2>2, <2>4, <3>2 DEF Merged, PageState
    <3> QED
      BY <2>2, <2>4, <3>1, <3>2
  <2>5. CASE page[p].work # "broken"
    <3>1. p \notin gone /\ p \notin Broken
      BY <1>1, <2>2, <2>5
    <3> QED
      BY <2>1, <2>3, <2>5, <3>1 DEF Merged, PageState
  <2> QED
    BY <2>4, <2>5
<1>3. Broken \ gone \in SUBSET Broken
  OBVIOUS
<1> QED
  BY <1>1, <1>2, <1>3

\* Classify, page by page: S are the pages delivered.
LEMMA Classifying ==
  ASSUME Types, Classify
  PROVE  \E S \in SUBSET Uncompleted :
           /\ out' = Delivered(S)
           /\ \A p \in Page :
                /\ page'[p].lines = page[p].lines
                /\ page[p].status = "completed" => page'[p] = page[p]
                /\ page[p].status # "completed" =>
                     \/ /\ page'[p].status = (IF p \in S THEN "error" ELSE "lost")
                        /\ page'[p].work = page[p].work
                     \/ /\ page'[p].status = page[p].status /\ page'[p].work = "analyzed"
                        /\ p \notin S
<1>1. PICK gone \in SUBSET Page :
        /\ gone \subseteq Uncompleted
        /\ out' = Delivered((Uncompleted \intersect Failing) \ gone)
        /\ page' = [p \in Page |->
                     IF p \in gone THEN [page[p] EXCEPT !.status = "lost"]
                     ELSE IF p \notin Uncompleted THEN page[p]
                     ELSE IF p \in Failing THEN [page[p] EXCEPT !.status = "error"]
                     ELSE [page[p] EXCEPT !.work = "analyzed"]]
  BY DEF Classify, Losing
<1> DEFINE S == (Uncompleted \intersect Failing) \ gone
<1>2. ASSUME NEW p \in Page
      PROVE  /\ page'[p].lines = page[p].lines
             /\ page[p].status = "completed" => page'[p] = page[p]
             /\ page[p].status # "completed" =>
                  \/ /\ page'[p].status = (IF p \in S THEN "error" ELSE "lost")
                     /\ page'[p].work = page[p].work
                  \/ /\ page'[p].status = page[p].status /\ page'[p].work = "analyzed"
                     /\ p \notin S
  <2>1. page[p] \in PageState
    BY DEF Types, PageType
  <2>2. p \in Uncompleted <=> page[p].status # "completed"
    BY DEF Uncompleted
  <2> QED
    BY <1>1, <2>1, <2>2 DEF PageState
<1>3. S \in SUBSET Uncompleted /\ out' = Delivered(S)
  BY <1>1
<1> HIDE DEF S
<1> QED
  BY <1>2, <1>3

\* Every step keeps WorkInv.
LEMMA WorkStep ==
  ASSUME Types, WorkInv, [ChapterNext]_pageVars
  PROVE  WorkInv'
<1> USE DEF Types, WorkInv
<1>1. ASSUME FailAttempt PROVE WorkInv'
  BY <1>1, Forgetting DEF FailAttempt, Failures, Ended, Stage, Translating
<1>2. CASE BeginAttempt
  BY <1>2 DEF BeginAttempt, Ended, Stage, Translating
<1>3. CASE RaiseError
  BY <1>1, <1>3 DEF RaiseError
<1>4. CASE Die
  BY <1>4, Forgetting DEF Die, Ended, Stage, Translating
<1>5. CASE DiscoverJobs
  <2>1. attempt'.pc = "ocr"
    BY <1>5, Entering DEF DiscoverJobs
  <2>2. \A q \in Page : page'[q].work = page[q].work
    <3>1. CASE page' = [p \in Page |-> [page[p] EXCEPT !.status = "none", !.from = "none"]]
      BY <3>1 DEF PageType, PageState
    <3> QED
      BY <1>5, <3>1 DEF DiscoverJobs
  <2>3. \A q \in Page : page[q].work = "none"
    <3>1. attempt.pc = "precheck" /\ attempt.at = Pages + 1
      BY <1>5 DEF DiscoverJobs, Stage
    <3>2. \A q \in Page : q # Pages + 1
      BY DEF Page
    <3> QED
      BY <3>1, <3>2 DEF Stage
  <2>4. \A q \in Page : page'[q].status \notin {"error", "lost"}
    <3>1. CASE page' = [p \in Page |-> [page[p] EXCEPT !.status = "none", !.from = "none"]]
      BY <3>1 DEF PageType, PageState
    <3> QED
      BY <1>5, <3>1 DEF DiscoverJobs, Stage
  <2> QED
    BY <2>1, <2>2, <2>3, <2>4 DEF Stage, Ended, Translating
<1>6. CASE Classify
  <2>1. attempt'.pc = "translate"
    BY <1>6, Entering DEF Classify
  <2>2. \A q \in Page : /\ page'[q].work \in {"none", "analyzed"}
                        /\ page'[q].status = "none" <=> page'[q].work # "none"
    <3>1. \A q \in Page :
            /\ page[q].status = "completed" => page'[q] = page[q]
            /\ page[q].status # "completed" =>
                 \/ /\ page'[q].status \in {"error", "lost"}
                    /\ page'[q].work = page[q].work
                 \/ page'[q].status = page[q].status /\ page'[q].work = "analyzed"
      BY <1>6, Classifying
    <3>2. \A q \in Page : /\ page[q].work = "none"
                          /\ page[q].status \in {"none", "completed"}
      BY <1>6 DEF Classify, Stage, PageType, PageState
    <3> QED
      BY <3>1, <3>2
  <2> QED
    BY <2>1, <2>2 DEF Stage, Ended, Translating
<1>7. CASE AskProvider
  BY <1>7, Entering DEF AskProvider, Stage, Ended, Translating
<1>8. CASE RefuseNewRequest \/ RefuseNoPages
  BY <1>1, <1>8 DEF RefuseNewRequest, RefuseNoPages
<1>9. CASE StoreResults
  BY <1>9, Entering DEF StoreResults, Stage, Ended, Translating
<1>10. CASE CommitTranslations
  BY <1>10, Entering DEF CommitTranslations, Stage, Ended, Translating
<1>11. CASE MergePages
  <2>1. attempt.pc = "render" /\ attempt'.pc = "pdf"
    BY <1>11, Entering DEF MergePages, Stage
  <2>2. \A q \in Page : page'[q].status # "none" /\ page'[q].work = "none"
    BY <1>11, <2>1, Merging DEF Ended, Translating
  <2> QED
    BY <2>1, <2>2 DEF Stage, Ended, Translating
<1>12. CASE ExportPdf
  BY <1>12, Entering DEF ExportPdf, Stage, Ended, Translating
<1>13. CASE FinishChapter
  BY <1>13, Forgetting DEF FinishChapter, Ended, Stage, Translating
<1>14. ASSUME NEW p \in Page, PageNext(p) PROVE WorkInv'
  <2>1. CASE ReusePage(p)
    <3>1. attempt'.pc = "precheck" /\ attempt.pc = "precheck"
      BY <2>1, Turning DEF ReusePage, Prechecking, Stage
    <3>2. \A q \in Page : /\ page'[q].work = page[q].work
                        /\ page'[q].status \in {page[q].status, "completed"}
      BY <2>1 DEF ReusePage, PageType, PageState
    <3>3. \A q \in Page : page[q].work = "none"
      BY <2>1 DEF ReusePage, Prechecking, Stage
    <3> QED
      BY <3>1, <3>2, <3>3 DEF Stage, Ended, Translating
  <2>2. CASE SkipPage(p)
    <3>1. attempt.pc = "precheck" /\ p = attempt.at
      BY <2>2 DEF SkipPage, Prechecking, Stage
    <3>2. page'[p].work = "written" /\ page'[p].status = "completed"
      BY <2>2 DEF SkipPage, PageType, PageState
    <3>3. \A q \in Page \ {p} : page'[q] = page[q]
      BY <2>2 DEF SkipPage, PageType
    <3>4. UNCHANGED attempt
      BY <2>2 DEF SkipPage
    <3> QED
      BY <3>1, <3>2, <3>3, <3>4 DEF Stage, Ended, Translating
  <2>3. CASE NoteSkip(p)
    <3>1. attempt'.pc = "precheck" /\ attempt.pc = "precheck" /\ p = attempt.at
      BY <2>3, Turning DEF NoteSkip, Stage
    <3>2. /\ page'[p].work = "none" /\ page'[p].status = page[p].status
          /\ \A q \in Page \ {p} : page'[q] = page[q]
      BY <2>3 DEF NoteSkip, PageType, PageState
    <3>3. \A q \in Page : page'[q].work = "none" /\ page'[q].status \notin {"error", "lost"}
      BY <3>1, <3>2 DEF Stage
    <3> QED
      BY <3>1, <3>3 DEF Stage, Ended, Translating
  <2>4. CASE QueuePage(p)
    <3>1. attempt'.pc = "precheck" /\ attempt.pc = "precheck"
      BY <2>4, Turning DEF QueuePage, Prechecking, Stage
    <3>2. \A q \in Page : page'[q].work = page[q].work /\ page'[q].status = page[q].status
      <4>1. CASE page' = [page EXCEPT ![p] = [@ EXCEPT !.keyed = TRUE, !.lines = "read"]]
        BY <4>1 DEF PageType, PageState
      <4>2. CASE page' = [page EXCEPT ![p].keyed = TRUE]
        BY <4>2 DEF PageType, PageState
      <4> QED
        BY <2>4, <4>1, <4>2 DEF QueuePage
    <3>3. \A q \in Page : page[q].work = "none"
      BY <2>4 DEF QueuePage, Prechecking, Stage
    <3> QED
      BY <3>1, <3>2, <3>3 DEF Stage, Ended, Translating
  <2>5. CASE ReadPage(p)
    <3>1. attempt.pc = "ocr" /\ UNCHANGED attempt
      BY <2>5 DEF ReadPage, Reading, Stage
    <3>2. \A q \in Page : page'[q].work = page[q].work /\ page'[q].status = page[q].status
      BY <2>5 DEF ReadPage, PageType, PageState
    <3> QED
      BY <3>1, <3>2 DEF Stage, Ended, Translating
  <2>6. CASE LosePage(p)
    BY <1>1, <2>6 DEF LosePage
  <2>7. CASE MissPage(p)
    <3>1. attempt.pc = "ocr" /\ UNCHANGED attempt
      BY <2>7 DEF MissPage, Reading, Stage
    <3>2. \A q \in Page : page'[q].work = page[q].work /\ page'[q].status = page[q].status
      BY <2>7 DEF MissPage, PageType, PageState
    <3> QED
      BY <3>1, <3>2 DEF Stage, Ended, Translating
  <2>8. CASE DrawPage(p)
    BY <2>8, WorkingOn DEF DrawPage, Stage, Ended, Translating
  <2>9. CASE FinishPage(p)
    BY <2>9, WorkingOn DEF FinishPage, Stage, Ended, Translating
  <2>10. CASE KeepImage(p)
    BY <2>10, WorkingOn DEF KeepImage, Stage, Ended, Translating
  <2>11. CASE KeepMetadata(p)
    BY <2>11, WorkingOn DEF KeepMetadata, Stage, Ended, Translating
  <2>12. CASE BreakPage(p)
    <3>1. attempt.pc = "render" /\ UNCHANGED attempt /\ Work(p, "broken")
      BY <2>12 DEF BreakPage, Stage
    <3>2. page[p].work # "none"
      BY <2>12 DEF BreakPage, Analyzed, AtWork
    <3> QED
      BY <3>1, <3>2, WorkingOn DEF Stage, Ended, Translating
  <2> QED
    BY <1>14, <2>1, <2>2, <2>3, <2>4, <2>5, <2>6, <2>7, <2>8, <2>9, <2>10, <2>11, <2>12
    DEF PageNext
<1>15. CASE UNCHANGED pageVars
  BY <1>15 DEF pageVars, Stage
<1> QED
  BY <1>2, <1>3, <1>4, <1>5, <1>6, <1>7, <1>8, <1>9, <1>10, <1>11, <1>12, <1>13, <1>14, <1>15
  DEF ChapterNext

(***************************************************************************)
(* The files of the pages.                                                 *)
(***************************************************************************)

\* Delivered, page by page.
LEMMA Receiving ==
  ASSUME Types, NEW S, out' = Delivered(S), NEW p \in Page
  PROVE  IF p \in S THEN out'[p].what = "source" /\ out'[p].code = attempt.code
         ELSE out'[p] = out[p]
BY DEF Delivered

\* A page taken over is whole and current: the only place where the record of another
\* attempt is believed.
LEMMA Reusing ==
  ASSUME Types, RecordInv, NEW p \in Page, ReusePage(p)
  PROVE  /\ out'[p].what \in Whole /\ out'[p].code = attempt.code
         /\ \A q \in Page \ {p} : out'[q] = out[q]
         /\ page'[p].status = "completed" /\ page'[p].work = "none"
         /\ \A q \in Page \ {p} : page'[q] = page[q]
<1> USE DEF Types
<1>1. /\ page'[p].status = "completed" /\ page'[p].work = "none"
      /\ \A q \in Page \ {p} : page'[q] = page[q]
  BY DEF ReusePage, Prechecking, PageType, PageState
<1>2. CASE Recorded(p)
  <2>1. out' = out
    BY <1>2 DEF ReusePage
  <2>2. out[p].what \in Whole /\ previous[p].key = attempt.code /\ previous[p].completed
    BY <1>2 DEF Recorded, Valid
  <2>3. out[p].what # "none" /\ previous[p].key <= out[p].code /\ out[p].code <= attempt.code
    BY <2>2 DEF RecordInv, NotOlder, Whole
  <2>4. out[p].code \in Nat /\ attempt.code \in Nat
    BY DEF OutType, AttemptType, Code
  <2> QED
    BY <1>1, <2>1, <2>2, <2>3, <2>4
<1>3. CASE ~Recorded(p)
  <2>1. out' = [out EXCEPT ![p] = [what |-> Entry(p).image, code |-> attempt.code]]
    BY <1>3 DEF ReusePage
  <2>2. Entry(p).image \in Whole
    BY <1>3 DEF ReusePage, Reusable, Cached, Valid
  <2> QED
    BY <1>1, <2>1, <2>2 DEF OutType
<1> QED
  BY <1>2, <1>3

\* SkipPage, page by page.
LEMMA Skipping ==
  ASSUME Types, NEW p \in Page, SkipPage(p)
  PROVE  /\ out'[p].what = "source" /\ out'[p].code = attempt.code
         /\ \A q \in Page \ {p} : out'[q] = out[q] /\ page'[q] = page[q]
BY DEF Types, SkipPage, OutType, PageType

\* DrawPage, page by page.
LEMMA Drawing ==
  ASSUME Types, NEW p \in Page, DrawPage(p)
  PROVE  /\ out'[p].what = "torn" /\ out'[p].code = attempt.code
         /\ \A q \in Page \ {p} : out'[q] = out[q]
BY DEF Types, DrawPage, OutType

\* FinishPage, page by page.
LEMMA Finishing ==
  ASSUME Types, NEW p \in Page, FinishPage(p)
  PROVE  /\ out'[p].what = "drawn" /\ out'[p].code = out[p].code
         /\ \A q \in Page \ {p} : out'[q] = out[q]
BY DEF Types, FinishPage, OutType

\* A queued page is as far as it was.
LEMMA Queueing ==
  ASSUME Types, NEW p \in Page, QueuePage(p), NEW q \in Page
  PROVE  page'[q].status = page[q].status /\ page'[q].work = page[q].work
<1>1. CASE page' = [page EXCEPT ![p] = [@ EXCEPT !.keyed = TRUE, !.lines = "read"]]
  BY <1>1 DEF Types, PageType, PageState
<1>2. CASE page' = [page EXCEPT ![p].keyed = TRUE]
  BY <1>2 DEF Types, PageType, PageState
<1> QED
  BY <1>1, <1>2 DEF QueuePage

\* A page that was read, or could not be, is as far as it was.
LEMMA ReadingOn ==
  ASSUME Types, NEW p \in Page, ReadPage(p) \/ MissPage(p), NEW q \in Page
  PROVE  page'[q].status = page[q].status /\ page'[q].work = page[q].work
BY DEF Types, PageType, PageState, ReadPage, MissPage

\* A checkpoint changes the status of no page.
LEMMA Noted ==
  ASSUME Types, NEW p \in Page, NoteSkip(p), NEW q \in Page
  PROVE  page'[q].status = page[q].status
BY DEF Types, PageType, PageState, NoteSkip

\* DiscoverJobs, page by page.
LEMMA Restarting ==
  ASSUME Types, DiscoverJobs, NEW p \in Page
  PROVE  page'[p].status \in {page[p].status, "none"} /\ page'[p].work = page[p].work
<1>1. CASE page' = [q \in Page |-> [page[q] EXCEPT !.status = "none", !.from = "none"]]
  BY <1>1 DEF Types, PageType, PageState
<1> QED
  BY <1>1 DEF DiscoverJobs

\* Every step keeps FileInv.
LEMMA FileStep ==
  ASSUME Types, WorkInv, FileInv, RecordInv, [ChapterNext]_pageVars
  PROVE  FileInv'
<1> USE DEF FileInv, Current
<1>1. ASSUME NEW outcome \in Ended, EndAttempt(outcome) PROVE FileInv'
  BY <1>1, Forgetting DEF Ended, Stage
<1>2. CASE BeginAttempt
  BY <1>2 DEF BeginAttempt, WorkInv, Stage
<1>3. CASE FailAttempt
  BY <1>1, <1>3 DEF FailAttempt, Failures, Ended
<1>4. CASE RaiseError \/ RefuseNewRequest \/ RefuseNoPages
  BY <1>3, <1>4 DEF RaiseError, RefuseNewRequest, RefuseNoPages
<1>5. CASE Die \/ FinishChapter
  BY <1>1, <1>5 DEF Die, FinishChapter, Ended
<1>6. CASE DiscoverJobs
  <2>1. attempt'.pc = "ocr" /\ attempt'.code = attempt.code /\ UNCHANGED out
    BY <1>6, Entering DEF DiscoverJobs, onDisk
  <2> QED
    BY <1>6, <2>1, Restarting DEF Stage
<1>7. CASE Classify
  <2>1. attempt'.pc = "translate" /\ attempt'.code = attempt.code /\ attempt.pc = "ocr"
    BY <1>7, Entering DEF Classify, Stage
  <2>2. PICK S \in SUBSET Uncompleted :
          /\ out' = Delivered(S)
          /\ \A p \in Page :
               /\ page[p].status = "completed" => page'[p] = page[p]
               /\ page[p].status # "completed" =>
                    \/ page'[p].status = (IF p \in S THEN "error" ELSE "lost")
                    \/ page'[p].status = page[p].status
    BY <1>7, Classifying
  <2> SUFFICES ASSUME NEW p \in Page, page'[p].status \notin {"none", "lost"}
               PROVE  out'[p].what \in Whole /\ out'[p].code = attempt.code
    BY <2>1 DEF Stage
  <2>3. CASE p \in S
    BY <2>2, <2>3, Receiving DEF Whole
  <2>4. CASE p \notin S
    <3>1. out'[p] = out[p]
      BY <2>2, <2>4, Receiving
    <3>2. page[p].status = "completed"
      BY <2>1, <2>2, <2>4 DEF WorkInv, Types, PageType, PageState
    <3> QED
      BY <3>1, <3>2
  <2> QED
    BY <2>3, <2>4
<1>8. CASE AskProvider
  <2>1. /\ attempt.pc = "translate" /\ attempt'.code = attempt.code
        /\ UNCHANGED <<page, out>>
    BY <1>8, Entering DEF AskProvider, onDisk, Stage
  <2>2. \A p \in Page : page[p].work \in {"none", "analyzed"}
    BY <2>1 DEF WorkInv, Translating
  <2> QED
    BY <2>1, <2>2
<1>9. CASE StoreResults \/ CommitTranslations
  <2>1. /\ attempt.pc \in {"asked", "commit"} /\ attempt'.code = attempt.code
        /\ UNCHANGED <<page, out>>
    BY <1>9, Entering DEF StoreResults, CommitTranslations, onDisk, Stage
  <2>2. \A p \in Page : page[p].work \in {"none", "analyzed"}
    BY <2>1 DEF WorkInv, Translating
  <2> QED
    BY <2>1, <2>2
<1>10. CASE MergePages
  <2>1. attempt.pc = "render" /\ attempt'.pc = "pdf" /\ attempt'.code = attempt.code
    BY <1>10, Entering DEF MergePages, Stage
  <2>2. PICK S \in SUBSET Broken :
          /\ out' = Delivered(S)
          /\ \A p \in Page :
               /\ page[p].work = "broken" =>
                    page'[p].status = (IF p \in S THEN "error" ELSE "lost")
               /\ page[p].work \notin {"kept", "broken"} => page'[p] = page[p]
               /\ page[p].work \in {"none", "kept", "broken"}
    BY <1>10, Merging
  <2> SUFFICES ASSUME NEW p \in Page, page'[p].status \notin {"none", "lost"}
               PROVE  out'[p].what \in Whole /\ out'[p].code = attempt.code
    BY <2>1 DEF Stage
  <2>3. CASE p \in S
    BY <2>2, <2>3, Receiving DEF Whole
  <2>4. CASE p \notin S
    <3>1. out'[p] = out[p]
      BY <2>2, <2>4, Receiving
    <3>2. page[p].work \in {"none", "kept"}
      BY <2>2, <2>4
    <3>3. CASE page[p].work = "kept"
      BY <2>1, <3>1, <3>3 DEF Stage
    <3>4. CASE page[p].work = "none"
      BY <2>2, <3>1, <3>4
    <3> QED
      BY <3>2, <3>3, <3>4
  <2> QED
    BY <2>3, <2>4
<1>11. CASE ExportPdf
  <2>1. attempt'.pc = "report" /\ attempt'.code = attempt.code /\ UNCHANGED <<page, out>>
    BY <1>11, Entering DEF ExportPdf
  <2> QED
    BY <2>1 DEF Stage
<1>12. ASSUME NEW p \in Page, PageNext(p) PROVE FileInv'
  <2>1. CASE ReusePage(p)
    <3>1. attempt'.pc = "precheck" /\ attempt'.code = attempt.code
      BY <2>1, Turning DEF ReusePage, Prechecking, Stage
    <3> QED
      BY <2>1, <3>1, Reusing DEF Stage
  <2>2. CASE SkipPage(p)
    <3>1. attempt.pc = "precheck" /\ UNCHANGED attempt
      BY <2>2 DEF SkipPage, Prechecking, Stage
    <3> QED
      BY <2>2, <3>1, Skipping DEF Stage, Whole
  <2>3. CASE NoteSkip(p)
    <3>1. attempt'.pc = "precheck" /\ attempt'.code = attempt.code /\ UNCHANGED out
      BY <2>3, Turning DEF NoteSkip, Stage
    <3> QED
      BY <2>3, <3>1, Noted DEF Stage
  <2>4. CASE QueuePage(p)
    <3>1. attempt'.pc = "precheck" /\ attempt'.code = attempt.code /\ UNCHANGED out
      BY <2>4, Turning DEF QueuePage, Prechecking, Stage, onDisk
    <3> QED
      BY <2>4, <3>1, Queueing DEF Stage
  <2>5. CASE ReadPage(p) \/ MissPage(p)
    <3>1. attempt.pc = "ocr" /\ UNCHANGED <<attempt, out>>
      BY <2>5 DEF ReadPage, MissPage, Reading, Stage
    <3> QED
      BY <2>5, <3>1, ReadingOn DEF Stage
  <2>6. CASE LosePage(p)
    BY <1>3, <2>6 DEF LosePage
  <2>7. CASE DrawPage(p)
    <3>1. attempt.pc = "render" /\ UNCHANGED attempt /\ Work(p, "writing")
      BY <2>7 DEF DrawPage, Stage
    <3>2. page[p].status = "none"
      BY <2>7, <3>1 DEF DrawPage, WorkInv
    <3> QED
      BY <2>7, <3>1, <3>2, Drawing, WorkingOn DEF Stage
  <2>8. CASE FinishPage(p)
    <3>1. attempt.pc = "render" /\ UNCHANGED attempt /\ Work(p, "written")
      BY <2>8 DEF FinishPage, Stage
    <3>2. out[p].code = attempt.code
      BY <2>8, <3>1 DEF FinishPage, Stage
    <3> QED
      BY <2>8, <3>1, <3>2, Finishing, WorkingOn DEF Stage, Whole
  <2>9. CASE KeepImage(p) \/ KeepMetadata(p)
    <3>1. UNCHANGED <<attempt, out>> /\ page[p].work \in {"written", "imaged"}
      BY <2>9 DEF KeepImage, KeepMetadata
    <3>2. Work(p, "imaged") \/ Work(p, "kept")
      BY <2>9 DEF KeepImage, KeepMetadata
    <3>3. Current(p)
      BY <3>1, WorkedIsCurrent
    <3>4. page'[p].status = page[p].status /\ \A q \in Page \ {p} : page'[q] = page[q]
      BY <3>2, WorkingOn
    <3>5. page'[p].work # "writing"
      BY <3>2, WorkingOn
    <3> QED
      BY <3>1, <3>3, <3>4, <3>5 DEF Stage
  <2>10. CASE BreakPage(p)
    <3>1. UNCHANGED <<attempt, out>> /\ Work(p, "broken")
      BY <2>10 DEF BreakPage, onDisk
    <3> QED
      BY <3>1, WorkingOn DEF Stage
  <2> QED
    BY <1>12, <2>1, <2>2, <2>3, <2>4, <2>5, <2>6, <2>7, <2>8, <2>9, <2>10 DEF PageNext
<1>13. CASE UNCHANGED pageVars
  BY <1>13 DEF pageVars, onDisk, Stage
<1> QED
  BY <1>2, <1>4, <1>5, <1>6, <1>7, <1>8, <1>9, <1>10, <1>11, <1>12, <1>13 DEF ChapterNext

(***************************************************************************)
(* The records, and the PDF.                                               *)
(***************************************************************************)

\* A step that writes no file, or files of its own code, and records only such files as
\* completed.
LEMMA Recording ==
  ASSUME Types, Types', RecordInv,
         attempt'.code = attempt.code,
         \A p \in Page : out'[p] = out[p] \/ out'[p].code = attempt.code,
         previous' \in {previous, NoProgress},
         \/ progress' = progress
         \/ \E states \in {page, page'}, S \in {Page} \union {1 .. q : q \in Page} :
              /\ progress' = Records(states, S)
              /\ \A p \in Page : states[p].status = "completed" => out'[p].code = attempt.code
  PROVE  RecordInv'
<1> SUFFICES ASSUME NEW p \in Page
             PROVE  /\ out'[p].code <= attempt'.code
                    /\ NotOlder(previous, p)' /\ NotOlder(progress, p)'
  BY DEF RecordInv
<1>1. out[p].code \in Nat /\ attempt.code \in Nat /\ out'[p].code \in Nat
  <2>1. out[p].code \in Nat /\ attempt.code \in Nat
    BY DEF Types, OutType, AttemptType, Code
  <2>2. out'[p].code \in 0 .. Codes
    <3>1. out' \in OutType
      BY DEF Types
    <3> QED
      BY <3>1 DEF OutType
  <2> QED
    BY <2>1, <2>2
<1>2. out'[p].code <= attempt'.code
  BY <1>1 DEF RecordInv
<1>3. ASSUME NEW record \in ProgressType, NotOlder(record, p)
      PROVE  record[p].completed => /\ record[p].key <= attempt'.code
                                    /\ out'[p].what = "none" \/ record[p].key <= out'[p].code
  <2>1. record[p].key \in Nat
    BY DEF ProgressType
  <2> QED
    BY <1>1, <1>3, <2>1 DEF NotOlder
<1>4. NotOlder(previous, p)'
  <2>1. CASE previous' = previous
    BY <1>3, <2>1 DEF RecordInv, NotOlder, Types
  <2>2. CASE previous' = NoProgress
    BY <2>2 DEF NotOlder, NoProgress
  <2> QED
    BY <2>1, <2>2
<1>5. NotOlder(progress, p)'
  <2>1. CASE progress' = progress
    BY <1>3, <2>1 DEF RecordInv, NotOlder, Types
  <2>2. ASSUME NEW states \in {page, page'}, NEW S \in {Page} \union {1 .. q : q \in Page},
               progress' = Records(states, S),
               \A q \in Page : states[q].status = "completed" => out'[q].code = attempt.code
        PROVE  NotOlder(progress, p)'
    <3>1. progress'[p] = IF p \in S THEN [key |-> attempt.code,
                                          completed |-> states[p].status = "completed"]
                         ELSE [key |-> 0, completed |-> FALSE]
      BY <2>2 DEF Records
    <3>2. CASE p \in S /\ states[p].status = "completed"
      BY <1>1, <2>2, <3>1, <3>2 DEF NotOlder
    <3>3. CASE ~(p \in S /\ states[p].status = "completed")
      <4>1. ~progress'[p].completed
        <5>1. CASE p \notin S
          BY <3>1, <5>1
        <5>2. CASE p \in S /\ states[p].status # "completed"
          <6>1. progress'[p].completed = (states[p].status = "completed")
            BY <3>1, <5>2
          <6> QED
            BY <5>2, <6>1
        <5> QED
          BY <3>3, <5>1, <5>2
      <4> QED
        BY <4>1 DEF NotOlder
    <3> QED
      BY <3>2, <3>3
  <2> QED
    BY <2>1, <2>2
<1> QED
  BY <1>2, <1>4, <1>5

\* Every step keeps RecordInv.
LEMMA RecordStep ==
  ASSUME Types, Types', WorkInv, FileInv, FileInv', RecordInv, [ChapterNext]_pageVars
  PROVE  RecordInv'
<1> USE DEF Types
<1>1. CASE BeginAttempt
  <2>1. PICK resume \in BOOLEAN, force \in BOOLEAN, code \in attempt.code .. Codes :
          /\ attempt' = [pc |-> "precheck", at |-> 1, code |-> code, resume |-> resume,
                         force |-> force, number |-> attempt.number + 1]
          /\ previous' = IF resume THEN progress ELSE NoProgress
          /\ progress' = previous'
          /\ out' = IF resume /\ ~force THEN out ELSE NoFiles
    BY <1>1 DEF BeginAttempt
  <2> SUFFICES ASSUME NEW p \in Page
               PROVE  out'[p].code <= attempt'.code /\ NotOlder(previous, p)'
    BY <2>1 DEF RecordInv, NotOlder
  <2>2. /\ out[p].code \in Nat /\ attempt.code \in Nat /\ attempt'.code \in Nat
        /\ progress[p].key \in Nat /\ attempt.code <= attempt'.code
    BY <2>1 DEF OutType, AttemptType, Code, ProgressType
  <2>3. out'[p] = out[p] \/ (out'[p].what = "none" /\ out'[p].code = 0)
    BY <2>1 DEF NoFiles
  <2>4. out'[p].code <= attempt'.code
    BY <2>2, <2>3 DEF RecordInv
  <2>5. NotOlder(previous, p)'
    <3>1. CASE previous' = progress
      BY <2>2, <2>3, <3>1 DEF RecordInv, NotOlder
    <3>2. CASE previous' = NoProgress
      BY <3>2 DEF NoProgress, NotOlder
    <3> QED
      BY <2>1, <3>1, <3>2
  <2> QED
    BY <2>4, <2>5
<1>2. CASE FailAttempt /\ UNCHANGED onDisk
  <2>1. attempt'.code = attempt.code /\ previous' = NoProgress
    BY <1>2, Forgetting DEF FailAttempt, Failures, Ended
  <2> QED
    BY <1>2, <2>1, Recording DEF onDisk
<1>3. CASE RaiseError \/ RefuseNewRequest \/ RefuseNoPages
  BY <1>2, <1>3 DEF RaiseError, RefuseNewRequest, RefuseNoPages, FailAttempt
<1>4. CASE Die
  <2>1. attempt'.code = attempt.code /\ previous' = NoProgress
    BY <1>4, Forgetting DEF Die, Ended
  <2> QED
    BY <1>4, <2>1, Recording DEF Die, onDisk
<1>5. CASE FinishChapter
  <2>1. attempt'.code = attempt.code /\ previous' = NoProgress
    BY <1>5, Forgetting DEF FinishChapter, Ended
  <2>2. progress' = Records(page, Page) /\ UNCHANGED out
    BY <1>5 DEF FinishChapter
  <2>3. \A p \in Page : page[p].status = "completed" => out'[p].code = attempt.code
    BY <2>2 DEF FileInv, Current
  <2> QED
    BY <2>1, <2>2, <2>3, Recording
<1>6. CASE DiscoverJobs \/ AskProvider \/ StoreResults \/ CommitTranslations \/ ExportPdf
  <2>1. attempt'.code = attempt.code /\ UNCHANGED <<previous, progress, out>>
    BY <1>6, Entering
    DEF DiscoverJobs, AskProvider, StoreResults, CommitTranslations, ExportPdf, onDisk
  <2> QED
    BY <2>1, Recording
<1>7. CASE Classify
  <2>1. attempt'.code = attempt.code /\ UNCHANGED previous
    BY <1>7, Entering DEF Classify
  <2>2. (\E S : out' = Delivered(S)) /\ progress' = Records(page', Page)
    BY <1>7 DEF Classify
  <2>3. \A p \in Page : out'[p] = out[p] \/ out'[p].code = attempt.code
    BY <2>2, Receiving
  <2>4. \A p \in Page : page'[p].status = "completed" => out'[p].code = attempt.code
    BY <2>1 DEF FileInv, Current
  <2> QED
    BY <2>1, <2>2, <2>3, <2>4, Recording
<1>8. CASE MergePages
  <2>1. attempt'.code = attempt.code /\ UNCHANGED <<previous, progress>>
    BY <1>8, Entering DEF MergePages
  <2>2. \E S : out' = Delivered(S)
    BY <1>8 DEF MergePages
  <2>3. \A p \in Page : out'[p] = out[p] \/ out'[p].code = attempt.code
    BY <2>2, Receiving
  <2> QED
    BY <2>1, <2>3, Recording
<1>9. ASSUME NEW p \in Page, PageNext(p) PROVE RecordInv'
  <2>1. CASE ReusePage(p)
    <3>1. attempt'.code = attempt.code /\ UNCHANGED <<previous, progress>>
      BY <2>1, Turning DEF ReusePage
    <3> QED
      BY <2>1, <3>1, Reusing, Recording
  <2>2. CASE SkipPage(p)
    BY <2>2, Skipping, Recording DEF SkipPage
  <2>3. CASE NoteSkip(p)
    <3>1. attempt'.code = attempt.code /\ UNCHANGED <<previous, out>>
      BY <2>3, Turning DEF NoteSkip
    <3>2. progress' = Records(page, 1 .. p)
      BY <2>3 DEF NoteSkip
    <3>3. \A q \in Page : page[q].status = "completed" => out'[q].code = attempt.code
      BY <3>1 DEF FileInv, Current
    <3> QED
      BY <3>1, <3>2, <3>3, Recording
  <2>4. CASE QueuePage(p)
    BY <2>4, Turning, Recording DEF QueuePage, onDisk
  <2>5. CASE ReadPage(p) \/ MissPage(p)
    <3>1. UNCHANGED <<attempt, previous, out>> /\ progress' = Records(page', Page)
      BY <2>5 DEF ReadPage, MissPage
    <3>2. \A q \in Page : page'[q].status = "completed" => out'[q].code = attempt.code
      BY <3>1 DEF FileInv, Current
    <3> QED
      BY <3>1, <3>2, Recording
  <2>6. CASE LosePage(p)
    BY <1>2, <2>6 DEF LosePage, FailAttempt, onDisk
  <2>7. CASE DrawPage(p)
    BY <2>7, Drawing, Recording DEF DrawPage
  <2>8. CASE FinishPage(p)
    <3>1. out[p].code = attempt.code
      BY <2>8 DEF FinishPage, FileInv
    <3> QED
      BY <2>8, <3>1, Finishing, Recording DEF FinishPage
  <2>9. CASE KeepImage(p) \/ KeepMetadata(p) \/ BreakPage(p)
    BY <2>9, Recording DEF KeepImage, KeepMetadata, BreakPage, onDisk
  <2> QED
    BY <1>9, <2>1, <2>2, <2>3, <2>4, <2>5, <2>6, <2>7, <2>8, <2>9 DEF PageNext
<1>10. CASE UNCHANGED pageVars
  BY <1>10 DEF pageVars, onDisk, RecordInv, NotOlder
<1> QED
  BY <1>1, <1>3, <1>4, <1>5, <1>6, <1>7, <1>8, <1>9, <1>10 DEF ChapterNext

\* Every step keeps PdfIsWhole: the export finds every page done, and its file whole.
LEMMA PdfStep ==
  ASSUME Types, WorkInv, FileInv, [ChapterNext]_pageVars
  PROVE  NewPdfIsWhole
<1>1. CASE BeginAttempt
  BY <1>1 DEF BeginAttempt, NewPdfIsWhole
<1>2. CASE ExportPdf
  <2> SUFFICES ASSUME pdf' # pdf, NEW p \in Page
               PROVE  \/ pdf'[p] \in Whole
                      \/ pdf'[p] = "none" /\ (~look[p].decodes \/ page[p].status = "lost")
    BY DEF NewPdfIsWhole
  <2>1. pdf'[p] = IF Included(p) THEN out[p].what ELSE "none"
    BY <1>2 DEF ExportPdf
  <2>2. page[p].status \in {"completed", "error", "lost"}
    BY <1>2 DEF ExportPdf, Stage, WorkInv, Types, PageType, PageState
  <2>3. page[p].status # "lost" => out[p].what \in Whole
    BY <2>2 DEF FileInv, Current
  <2>4. CASE Included(p)
    BY <2>1, <2>3, <2>4 DEF Included
  <2>5. CASE ~Included(p)
    BY <2>1, <2>2, <2>3, <2>5 DEF Included, Whole
  <2> QED
    BY <2>4, <2>5
<1>3. CASE UNCHANGED pdf
  BY <1>3 DEF NewPdfIsWhole
<1>4. CASE RaiseError \/ Die \/ RefuseNewRequest \/ RefuseNoPages \/ FinishChapter
  BY <1>3, <1>4 DEF RaiseError, Die, RefuseNewRequest, RefuseNoPages, FailAttempt, FinishChapter, onDisk
<1>5. CASE \/ DiscoverJobs \/ Classify \/ AskProvider \/ StoreResults
           \/ CommitTranslations \/ MergePages
  BY <1>3, <1>5
  DEF DiscoverJobs, Classify, AskProvider, StoreResults, CommitTranslations, MergePages, onDisk
<1>6. ASSUME NEW p \in Page, PageNext(p) PROVE UNCHANGED pdf
  <2>1. CASE ReusePage(p) \/ SkipPage(p) \/ NoteSkip(p) \/ QueuePage(p)
    BY <2>1 DEF ReusePage, SkipPage, NoteSkip, QueuePage, onDisk
  <2>2. CASE ReadPage(p) \/ LosePage(p) \/ MissPage(p)
    BY <2>2 DEF ReadPage, LosePage, FailAttempt, MissPage, onDisk
  <2>3. CASE DrawPage(p) \/ FinishPage(p) \/ KeepImage(p) \/ KeepMetadata(p) \/ BreakPage(p)
    BY <2>3 DEF DrawPage, FinishPage, KeepImage, KeepMetadata, BreakPage, onDisk
  <2> QED
    BY <1>6, <2>1, <2>2, <2>3 DEF PageNext
<1> QED
  BY <1>1, <1>2, <1>3, <1>4, <1>5, <1>6 DEF ChapterNext, pageVars, onDisk

(***************************************************************************)
(* The money.                                                              *)
(***************************************************************************)

\* The end of an attempt may pay or release, and keeps PaidInv.
LEMMA Settling ==
  ASSUME Types, PaidInv, NEW outcome \in Ended, EndAttempt(outcome)
  PROVE  PaidInv' /\ paidFor \subseteq paidFor'
<1>1. attempt'.pc \in Ended
  BY Forgetting
<1>2. CASE UNCHANGED money
  BY <1>1, <1>2 DEF PaidInv, money, Stage, Ended
<1>3. CASE Consume
  <2>1. /\ purse'.state = "consumed" /\ purse'.results = purse.results
        /\ paidFor' = paidFor \union UNION purse.results
    BY <1>3 DEF Consume, Types, PurseType
  <2> QED
    BY <1>1, <2>1 DEF PaidInv, Stage, Ended
<1>4. CASE purse.results = {} /\ purse' = [purse EXCEPT !.state = "released"] /\ UNCHANGED paidFor
  <2>1. purse'.state = "released" /\ purse'.results = {}
    BY <1>4 DEF Types, PurseType
  <2> QED
    BY <1>1, <1>4, <2>1 DEF PaidInv, Stage, Ended
<1> QED
  BY <1>2, <1>3, <1>4 DEF EndAttempt, SettleLeft

\* Steps that leave the money alone.
LEMMA NothingPaid ==
  ASSUME Types, PaidInv, UNCHANGED <<look, money>>,
         attempt'.pc \in {"precheck", "ocr", "translate", "render", "pdf", "report"},
         attempt'.pc = "render" =>
           /\ attempt.pc = "render"
           /\ \A p \in Page : page'[p].work \in {"analyzed", "writing"} =>
                                page[p].work \in {"analyzed", "writing"}
  PROVE  PaidInv'
BY DEF PaidInv, Stage, money

\* Every step keeps PaidInv, and nothing that was paid for is taken back.
LEMMA PaidStep ==
  ASSUME Types, WorkInv, PaidInv, [ChapterNext]_pageVars
  PROVE  PaidInv' /\ paidFor \subseteq paidFor'
<1>1. CASE BeginAttempt
  <2>1. /\ attempt'.pc = "precheck"
        /\ purse' = purse \/ purse' = [state |-> "none", results |-> {}]
        /\ UNCHANGED paidFor
    BY <1>1 DEF BeginAttempt
  <2> QED
    BY <2>1 DEF PaidInv, Stage
<1>2. CASE FailAttempt
  BY <1>2, Settling DEF FailAttempt, Failures, Ended
<1>3. CASE RaiseError \/ RefuseNewRequest \/ RefuseNoPages
  BY <1>2, <1>3 DEF RaiseError, RefuseNewRequest, RefuseNoPages
<1>4. CASE Die \/ FinishChapter
  BY <1>4, Settling DEF Die, FinishChapter, Ended
<1>5. CASE DiscoverJobs \/ Classify \/ MergePages \/ ExportPdf
  <2>1. UNCHANGED <<look, money>> /\ attempt'.pc \in {"ocr", "translate", "pdf", "report"}
    BY <1>5, Entering DEF DiscoverJobs, Classify, MergePages, ExportPdf
  <2> QED
    BY <2>1, NothingPaid DEF money
<1>6. CASE AskProvider
  <2>1. attempt.pc = "translate" /\ UNCHANGED <<look, page, paidFor>> /\ Targets' = Targets
    BY <1>6 DEF AskProvider, Stage, Targets, Analyzed
  <2>2. \A p \in Page : page[p].work # "writing"
    BY <2>1 DEF WorkInv, Translating
  <2>3. CASE Targets = {} /\ Enter("render") /\ UNCHANGED purse
    <3>1. attempt'.pc = "render"
      BY <2>3, Entering
    <3> QED
      BY <2>1, <2>2, <2>3, <3>1 DEF PaidInv, Stage, Targets, Analyzed
  <2>4. CASE Targets \in purse.results /\ Enter("commit") /\ UNCHANGED purse
    <3>1. attempt'.pc = "commit"
      BY <2>4, Entering
    <3> QED
      BY <2>1, <2>4, <3>1 DEF PaidInv, Stage
  <2>5. CASE /\ purse.state \in {"none", "held"}
             /\ purse' = [purse EXCEPT !.state = "held"] /\ Enter("asked")
    <3>1. attempt'.pc = "asked" /\ purse'.state = "held"
      BY <2>5, Entering DEF Types, PurseType
    <3> QED
      BY <2>1, <3>1 DEF PaidInv, Stage
  <2> QED
    BY <1>6, <2>3, <2>4, <2>5 DEF AskProvider
<1>7. CASE StoreResults
  <2>1. attempt.pc = "asked" /\ UNCHANGED <<look, page, paidFor>> /\ Targets' = Targets
    BY <1>7 DEF StoreResults, Stage, Targets, Analyzed
  <2>2. attempt'.pc = "commit"
    BY <1>7, Entering DEF StoreResults
  <2>3. purse'.state = purse.state /\ Targets \in purse'.results
    BY <1>7 DEF StoreResults, Types, PurseType
  <2> QED
    BY <2>1, <2>2, <2>3 DEF PaidInv, Stage
<1>8. CASE CommitTranslations
  <2>1. /\ attempt.pc = "commit" /\ attempt'.pc = "render" /\ UNCHANGED <<look, page>>
        /\ Targets \in purse.results
    BY <1>8, Entering DEF CommitTranslations, Stage, PaidInv
  <2>2. \A p \in Page : page[p].work # "writing"
    BY <2>1 DEF WorkInv, Translating
  <2>3. CASE purse.state = "held"
    <3>1. /\ purse'.state = "consumed" /\ purse'.results = purse.results
          /\ paidFor' = paidFor \union UNION purse.results
      BY <1>8, <2>3 DEF CommitTranslations, Consume, Types, PurseType
    <3>2. Targets \subseteq paidFor'
      BY <2>1, <3>1
    <3> QED
      BY <2>1, <2>2, <3>1, <3>2 DEF PaidInv, Stage, Targets, Analyzed
  <2>4. CASE purse.state # "held"
    <3>1. UNCHANGED money /\ purse.state = "consumed"
      BY <1>8, <2>1, <2>4 DEF CommitTranslations, PaidInv, Types, PurseType
    <3>2. Targets \subseteq paidFor
      BY <2>1, <3>1 DEF PaidInv
    <3> QED
      BY <2>1, <2>2, <3>1, <3>2 DEF PaidInv, Stage, Targets, Analyzed, money
  <2> QED
    BY <2>3, <2>4
<1>9. ASSUME NEW p \in Page, PageNext(p) PROVE PaidInv' /\ paidFor \subseteq paidFor'
  <2>1. CASE ReusePage(p) \/ NoteSkip(p) \/ QueuePage(p)
    <3>1. UNCHANGED <<look, money>> /\ attempt'.pc = "precheck"
      BY <2>1, Turning DEF ReusePage, NoteSkip, QueuePage, Prechecking, Stage
    <3> QED
      BY <3>1, NothingPaid DEF money
  <2>2. CASE SkipPage(p) \/ ReadPage(p) \/ MissPage(p)
    <3>1. UNCHANGED <<look, money>> /\ attempt'.pc \in {"precheck", "ocr"}
      BY <2>2 DEF SkipPage, ReadPage, MissPage, Prechecking, Reading, Stage
    <3> QED
      BY <3>1, NothingPaid DEF money
  <2>3. CASE LosePage(p)
    BY <1>2, <2>3 DEF LosePage
  <2>4. CASE DrawPage(p)
    <3>1. UNCHANGED <<look, money, attempt>> /\ attempt.pc = "render" /\ page[p].work = "analyzed"
      BY <2>4 DEF DrawPage, Stage
    <3> QED
      BY <2>4, <3>1, WorkingOn, NothingPaid DEF DrawPage, money
  <2>5. CASE FinishPage(p) \/ BreakPage(p)
    <3>1. UNCHANGED <<look, money, attempt>> /\ attempt.pc = "render"
      BY <2>5 DEF FinishPage, BreakPage, Stage
    <3>2. Work(p, "written") \/ Work(p, "broken")
      BY <2>5 DEF FinishPage, BreakPage
    <3> QED
      BY <3>1, <3>2, WorkingOn, NothingPaid DEF money
  <2>6. CASE KeepImage(p) \/ KeepMetadata(p)
    <3>1. UNCHANGED <<look, money, attempt>> /\ page[p].work \in {"written", "imaged"}
      BY <2>6 DEF KeepImage, KeepMetadata
    <3>2. Work(p, "imaged") \/ Work(p, "kept")
      BY <2>6 DEF KeepImage, KeepMetadata
    <3>3. attempt.pc \in {"precheck", "render"}
      BY <3>1 DEF WorkInv, Types, AttemptType, Stage, Translating, Ended
    <3> QED
      BY <3>1, <3>2, <3>3, WorkingOn, NothingPaid DEF money
  <2> QED
    BY <1>9, <2>1, <2>2, <2>3, <2>4, <2>5, <2>6 DEF PageNext
<1>10. CASE UNCHANGED pageVars
  BY <1>10 DEF pageVars, money, PaidInv, Stage, Targets, Analyzed
<1> QED
  BY <1>1, <1>3, <1>4, <1>5, <1>6, <1>7, <1>8, <1>9, <1>10 DEF ChapterNext

\* Nothing appears drawn that was not drawn before, but the page a paid thread draws.
LEMMA RenderStep ==
  ASSUME Types, Types', WorkInv, PaidInv, RenderedIsPaid, paidFor \subseteq paidFor',
         [ChapterNext]_pageVars
  PROVE  RenderedIsPaid'
<1> USE DEF Types
<1> DEFINE Drawn(p) == \/ out[p].what = "drawn" \/ pdf[p] = "drawn"
                       \/ \E c \in Code : kept[<<p, c>>].image = "drawn"
<1>1. SUFFICES /\ UNCHANGED look
               /\ \A p \in Page : Drawn(p)' => \/ Drawn(p)
                                               \/ FinishPage(p)
  <2>1. ASSUME NEW p \in Page, FinishPage(p), look[p].text PROVE p \in paidFor
    BY <2>1 DEF FinishPage, PaidInv
  <2> QED
    BY <1>1, <2>1 DEF RenderedIsPaid
<1>2. CASE BeginAttempt
  <2>1. /\ UNCHANGED <<look, kept>>
        /\ out' \in {out, NoFiles} /\ pdf' \in {pdf, NoPdf}
    BY <1>2 DEF BeginAttempt
  <2> QED
    BY <2>1 DEF NoFiles, NoPdf
<1>3. CASE \/ RaiseError \/ Die \/ RefuseNewRequest \/ RefuseNoPages \/ FinishChapter
           \/ DiscoverJobs \/ AskProvider \/ StoreResults \/ CommitTranslations
  BY <1>3
  DEF RaiseError, Die, RefuseNewRequest, RefuseNoPages, FailAttempt, FinishChapter, DiscoverJobs, AskProvider,
      StoreResults, CommitTranslations, onDisk
<1>4. CASE Classify \/ MergePages
  <2>1. UNCHANGED <<look, pdf, kept>> /\ \E S : out' = Delivered(S)
    BY <1>4 DEF Classify, MergePages
  <2>2. \A p \in Page : out'[p].what = "drawn" => out[p].what = "drawn"
    BY <2>1, Receiving
  <2> QED
    BY <2>1, <2>2
<1>5. CASE ExportPdf
  <2>1. UNCHANGED <<look, out, kept>>
    BY <1>5 DEF ExportPdf
  <2>2. \A p \in Page : pdf'[p] \in {pdf[p], out[p].what, "none"}
    BY <1>5 DEF ExportPdf
  <2> QED
    BY <2>1, <2>2
<1>6. ASSUME NEW p \in Page, PageNext(p)
      PROVE  UNCHANGED look /\ \A q \in Page : Drawn(q)' => Drawn(q) \/ FinishPage(q)
  <2>1. CASE ReusePage(p)
    <3>1. UNCHANGED <<look, pdf, kept>> /\ attempt.code \in Code
      BY <2>1 DEF ReusePage, AttemptType
    <3>2. out' = out \/ out' = [out EXCEPT ![p] = [what |-> kept[<<p, attempt.code>>].image,
                                                   code |-> attempt.code]]
      BY <2>1 DEF ReusePage, Entry
    <3>3. \A q \in Page : out'[q].what = "drawn" => Drawn(q)
      <4>1. CASE out' = [out EXCEPT ![p] = [what |-> kept[<<p, attempt.code>>].image,
                                            code |-> attempt.code]]
        <5>1. out'[p].what = kept[<<p, attempt.code>>].image
          BY <4>1 DEF OutType
        <5>2. \A q \in Page \ {p} : out'[q] = out[q]
          BY <4>1 DEF OutType
        <5> QED
          BY <3>1, <5>1, <5>2
      <4> QED
        BY <3>2, <4>1
    <3> QED
      BY <3>1, <3>3
  <2>2. CASE SkipPage(p)
    BY <2>2, Skipping DEF SkipPage
  <2>3. CASE NoteSkip(p) \/ QueuePage(p) \/ ReadPage(p) \/ MissPage(p)
    BY <2>3 DEF NoteSkip, QueuePage, ReadPage, MissPage, onDisk
  <2>4. CASE LosePage(p)
    BY <2>4 DEF LosePage, FailAttempt, onDisk
  <2>5. CASE DrawPage(p)
    BY <2>5, Drawing DEF DrawPage
  <2>6. CASE FinishPage(p)
    BY <2>6, Finishing DEF FinishPage
  <2>7. CASE KeepImage(p)
    <3>1. UNCHANGED <<look, out, pdf>> /\ attempt.code \in Code
      BY <2>7 DEF KeepImage, AttemptType
    <3>2. kept' = [kept EXCEPT ![<<p, attempt.code>>].image = out[p].what]
      BY <2>7 DEF KeepImage
    <3>3. \A q \in Page, c \in Code :
            kept'[<<q, c>>].image = "drawn" =>
              kept[<<q, c>>].image = "drawn" \/ (q = p /\ out[p].what = "drawn")
      BY <3>1, <3>2 DEF KeptType
    <3> QED
      BY <3>1, <3>3
  <2>8. CASE KeepMetadata(p)
    <3>1. UNCHANGED <<look, out, pdf>> /\ attempt.code \in Code
      BY <2>8 DEF KeepMetadata, AttemptType
    <3>2. kept' = [kept EXCEPT ![<<p, attempt.code>>].whole = TRUE]
      BY <2>8 DEF KeepMetadata
    <3>3. \A q \in Page, c \in Code : kept'[<<q, c>>].image = kept[<<q, c>>].image
      BY <3>1, <3>2 DEF KeptType
    <3> QED
      BY <3>1, <3>3
  <2>9. CASE BreakPage(p)
    BY <2>9 DEF BreakPage, onDisk
  <2> QED
    BY <1>6, <2>1, <2>2, <2>3, <2>4, <2>5, <2>6, <2>7, <2>8, <2>9 DEF PageNext
<1>7. CASE UNCHANGED pageVars
  BY <1>7 DEF pageVars, onDisk
<1> QED
  BY <1>2, <1>3, <1>4, <1>5, <1>6, <1>7 DEF ChapterNext

(***************************************************************************)
(* The pages the precheck sends to the OCR.                                *)
(***************************************************************************)

\* Such a page is never held for completed with a copy of the download, in this attempt, in
\* the records or in the cache: the copy of one that failed is delivered but not kept.
Genuine(p) ==
  /\ page[p].status = "completed" => out[p].what = "drawn"
  /\ Stage("precheck") => page[p].work = "none"
  /\ Stage("render") /\ page[p].work \in {"written", "imaged", "kept"} => out[p].what = "drawn"
  /\ \A c \in Code : kept[<<p, c>>].image # "source"
  /\ (Stage("precheck") /\ previous[p].completed) \/ progress[p].completed =>
       out[p].what # "source"
  /\ attempt.pc \in Translating \union {"render"} /\ progress[p].completed =>
       page[p].status = "completed"

\* The precheck leaves it read, for the OCR to read, or completed.
Sought(p) == p \in ocrJobs \/ page[p].lines = "read" \/ page[p].status = "completed"

GenuineInv == \A p \in Page : ~look[p].skip => Genuine(p)
SoughtInv ==
  \A p \in Page : ~look[p].skip =>
    ((Stage("precheck") /\ p < attempt.at) \/ attempt.pc \in {"ocr", "translate"} => Sought(p))

\* What a checkpoint calls completed.
LEMMA RecordsOf ==
  ASSUME NEW states, NEW S, NEW p \in Page, Records(states, S)[p].completed
  PROVE  states[p].status = "completed"
<1> SUFFICES ASSUME states[p].status # "completed" PROVE ~Records(states, S)[p].completed
  OBVIOUS
<1>1. Records(states, S)[p] \in {[key |-> attempt.code, completed |-> FALSE],
                                [key |-> 0, completed |-> FALSE]}
  <2>1. Records(states, S)[p] =
          IF p \in S THEN [key |-> attempt.code, completed |-> states[p].status = "completed"]
          ELSE [key |-> 0, completed |-> FALSE]
    BY DEF Records
  <2>2. (states[p].status = "completed") = FALSE
    OBVIOUS
  <2> QED
    BY <2>1, <2>2
<1> QED
  BY <1>1

\* A page of this kind that is taken over was drawn.
LEMMA GenuineReuse ==
  ASSUME Types, NEW p \in Page, Genuine(p), ReusePage(p)
  PROVE  out'[p].what = "drawn"
<1> USE DEF Types
<1>1. CASE Recorded(p)
  <2>1. out' = out /\ previous[p].completed /\ out[p].what \in Whole /\ Stage("precheck")
    BY <1>1 DEF ReusePage, Prechecking, Recorded, Valid
  <2> QED
    BY <2>1 DEF Genuine, Whole
<1>2. CASE ~Recorded(p)
  <2>1. out' = [out EXCEPT ![p] = [what |-> kept[<<p, attempt.code>>].image,
                                   code |-> attempt.code]]
    BY <1>2 DEF ReusePage, Entry
  <2>2. kept[<<p, attempt.code>>].image \in Whole
    BY <1>2 DEF ReusePage, Reusable, Cached, Valid, Entry
  <2>3. kept[<<p, attempt.code>>].image # "source"
    BY DEF Genuine, AttemptType
  <2>4. out'[p].what = kept[<<p, attempt.code>>].image
    BY <2>1 DEF OutType
  <2> QED
    BY <2>2, <2>3, <2>4 DEF Whole
<1> QED
  BY <1>1, <1>2

\* A step that leaves the page's file alone, and its cache entries, may enter another stage
\* or forget the attempt.
LEMMA GenuineStays ==
  ASSUME Types, WorkInv, NEW p \in Page, Genuine(p),
         out'[p].what = out[p].what, UNCHANGED kept,
         page'[p].status \in {page[p].status, "none"},
         page'[p].work = page[p].work \/ page'[p].work = "none",
         attempt'.pc = attempt.pc \/ attempt'.pc \notin {"precheck", "render"},
         previous' = previous \/ attempt'.pc # "precheck",
         progress'[p].completed =>
           progress[p].completed \/ page[p].status = "completed",
         attempt'.pc \in Translating \union {"render"} /\ progress'[p].completed =>
           page'[p].status = "completed"
  PROVE  Genuine(p)'
BY DEF Genuine, Stage

\* Every step keeps GenuineInv.
LEMMA GenuineStep ==
  ASSUME Types, WorkInv, GenuineInv, [ChapterNext]_pageVars
  PROVE  GenuineInv'
<1> USE DEF Types
<1>1. UNCHANGED look
  BY DEF ChapterNext, BeginAttempt, RaiseError, Die, FailAttempt, PageNext, ReusePage, SkipPage,
         NoteSkip, QueuePage, ReadPage, LosePage, MissPage, DrawPage, FinishPage, KeepImage,
         KeepMetadata, BreakPage, DiscoverJobs, Classify, AskProvider, RefuseNewRequest, RefuseNoPages,
         StoreResults, CommitTranslations, MergePages, ExportPdf, FinishChapter, pageVars
<1> SUFFICES ASSUME NEW q \in Page, ~look[q].skip, Genuine(q)
             PROVE  Genuine(q)'
  BY <1>1 DEF GenuineInv
<1>2. CASE BeginAttempt
  <2>1. PICK resume \in BOOLEAN, force \in BOOLEAN :
          /\ attempt'.pc = "precheck"
          /\ previous' = IF resume THEN progress ELSE NoProgress
          /\ progress' = previous'
          /\ out' = IF resume /\ ~force THEN out ELSE NoFiles
          /\ UNCHANGED <<page, kept>>
    BY <1>2 DEF BeginAttempt
  <2>2. page[q].status = "none" /\ page[q].work = "none"
    BY <1>2 DEF BeginAttempt, WorkInv
  <2>3. ~NoProgress[q].completed /\ NoFiles[q].what = "none"
    BY DEF NoProgress, NoFiles
  <2>4. progress'[q].completed => progress[q].completed
    BY <2>1, <2>3
  <2>5. out'[q].what \in {out[q].what, "none"}
    BY <2>1, <2>3
  <2> QED
    BY <2>1, <2>2, <2>4, <2>5 DEF Genuine, Stage, Translating
<1>3. ASSUME NEW outcome \in Ended, EndAttempt(outcome), UNCHANGED onDisk
      PROVE  Genuine(q)'
  BY <1>3, Forgetting, GenuineStays DEF onDisk, Ended, Translating
<1>4. CASE FailAttempt
  BY <1>3, <1>4 DEF FailAttempt, Failures, Ended
<1>5. CASE RaiseError \/ RefuseNewRequest \/ RefuseNoPages \/ Die
  BY <1>3, <1>4, <1>5 DEF RaiseError, RefuseNewRequest, RefuseNoPages, Die, Ended
<1>6. CASE FinishChapter
  <2>1. /\ attempt'.pc = "done" /\ UNCHANGED <<out, kept>>
        /\ page'[q].status = "none" /\ page'[q].work = "none"
    BY <1>6, Forgetting DEF FinishChapter, Ended
  <2>2. progress'[q].completed => page[q].status = "completed"
    BY <1>6, RecordsOf DEF FinishChapter
  <2> QED
    BY <2>1, <2>2, GenuineStays DEF Translating
<1>7. CASE DiscoverJobs
  <2>1. attempt'.pc = "ocr" /\ UNCHANGED <<out, kept, progress>>
    BY <1>7, Entering DEF DiscoverJobs, onDisk
  <2> QED
    BY <1>7, <2>1, Restarting, GenuineStays DEF Translating
<1>8. CASE Classify
  <2>1. /\ attempt'.pc = "translate" /\ UNCHANGED kept
        /\ progress' = Records(page', Page)
    BY <1>8, Entering DEF Classify
  <2>2. PICK S \in SUBSET Uncompleted :
          /\ out' = Delivered(S)
          /\ page[q].status # "completed" =>
               \/ page'[q].status \in {"error", "lost"}
               \/ page'[q].status = page[q].status
    BY <1>8, Classifying
  <2>3. progress'[q].completed => page'[q].status = "completed"
    BY <2>1, RecordsOf
  <2>4. page'[q].status = "completed" => page[q].status = "completed"
    BY <2>2
  <2>5. page[q].status = "completed" => out'[q] = out[q]
    BY <2>2, Receiving DEF Uncompleted
  <2> QED
    BY <2>1, <2>3, <2>4, <2>5 DEF Genuine, Stage
<1>9. CASE AskProvider \/ StoreResults \/ CommitTranslations
  <2>1. attempt.pc \in Translating /\ attempt'.pc \in Translating \union {"render"}
    BY <1>9, Entering DEF AskProvider, StoreResults, CommitTranslations, Stage, Translating
  <2>2. UNCHANGED <<page, previous, progress, out, kept>>
    BY <1>9 DEF AskProvider, StoreResults, CommitTranslations, onDisk
  <2>3. page[q].work \in {"none", "analyzed"}
    BY <2>1 DEF WorkInv
  <2> QED
    BY <2>1, <2>2, <2>3 DEF Genuine, Stage, Translating
<1>10. CASE MergePages
  <2>1. attempt.pc = "render" /\ attempt'.pc = "pdf" /\ UNCHANGED <<kept, progress>>
    BY <1>10, Entering DEF MergePages, Stage
  <2>2. PICK S \in SUBSET Broken :
          /\ out' = Delivered(S)
          /\ page[q].work = "kept" => page'[q].status = "completed" /\ page'[q].work = "none"
          /\ page[q].work = "broken" =>
               page'[q].status \in {"error", "lost"} /\ page'[q].work = "none"
          /\ page[q].work \notin {"kept", "broken"} => page'[q] = page[q]
          /\ page[q].work \in {"none", "kept", "broken"}
    BY <1>10, Merging
  <2>3. CASE page[q].work = "broken"
    <3>1. page[q].status = "none"
      BY <2>1, <2>3 DEF WorkInv
    <3> QED
      BY <2>1, <2>2, <2>3, <3>1 DEF Genuine, Stage, Translating
  <2>4. CASE page[q].work # "broken"
    <3>1. out'[q] = out[q]
      BY <2>2, <2>4, Receiving DEF Broken
    <3> QED
      BY <2>1, <2>2, <2>4, <3>1 DEF Genuine, Stage, Translating
  <2> QED
    BY <2>3, <2>4
<1>11. CASE ExportPdf
  <2>1. attempt'.pc = "report" /\ UNCHANGED <<page, out, kept, progress>>
    BY <1>11, Entering DEF ExportPdf
  <2> QED
    BY <2>1 DEF Genuine, Stage, Translating
<1>12. ASSUME NEW p \in Page, PageNext(p) PROVE Genuine(q)'
  <2>1. CASE ReusePage(p)
    <3>1. /\ attempt.pc = "precheck" /\ attempt'.pc = "precheck"
          /\ UNCHANGED <<previous, progress, kept>>
      BY <2>1, Turning DEF ReusePage, Prechecking, Stage
    <3>2. /\ page'[p].status = "completed" /\ page'[p].work = page[p].work
          /\ \A r \in Page \ {p} : page'[r] = page[r] /\ out'[r] = out[r]
      BY <2>1 DEF ReusePage, PageType, PageState, OutType
    <3>3. CASE p = q
      BY <2>1, <3>1, <3>2, <3>3, GenuineReuse DEF Genuine, Stage, Translating
    <3>4. CASE p # q
      BY <3>1, <3>2, <3>4 DEF Genuine, Stage
    <3> QED
      BY <3>3, <3>4
  <2>2. CASE SkipPage(p)
    <3>1. p # q
      BY <2>2 DEF SkipPage
    <3>2. out'[q] = out[q] /\ page'[q] = page[q]
      BY <2>2, <3>1, Skipping
    <3> QED
      BY <2>2, <3>2 DEF SkipPage, Genuine, Stage
  <2>3. CASE NoteSkip(p)
    <3>1. /\ attempt.pc = "precheck" /\ attempt'.pc = "precheck"
          /\ UNCHANGED <<previous, out, kept>>
      BY <2>3, Turning DEF NoteSkip, Stage
    <3>2. progress'[q].completed => page[q].status = "completed"
      BY <2>3, RecordsOf DEF NoteSkip
    <3>3. page'[q].work \in {page[q].work, "none"} /\ page'[q].status = page[q].status
      BY <2>3 DEF NoteSkip, PageType, PageState
    <3> QED
      BY <3>1, <3>2, <3>3, GenuineStays DEF Translating
  <2>4. CASE QueuePage(p)
    <3>1. /\ attempt.pc = "precheck" /\ attempt'.pc = "precheck"
          /\ UNCHANGED <<previous, progress, out, kept>>
      BY <2>4, Turning DEF QueuePage, Prechecking, Stage, onDisk
    <3> QED
      BY <2>4, <3>1, Queueing, GenuineStays DEF Translating
  <2>5. CASE ReadPage(p) \/ MissPage(p)
    <3>1. /\ attempt.pc = "ocr" /\ UNCHANGED <<attempt, out, kept>>
          /\ progress' = Records(page', Page)
      BY <2>5 DEF ReadPage, MissPage, Reading, Stage
    <3>2. progress'[q].completed => page'[q].status = "completed"
      BY <3>1, RecordsOf
    <3> QED
      BY <2>5, <3>1, <3>2, ReadingOn DEF Genuine, Stage, Translating
  <2>6. CASE LosePage(p)
    BY <1>4, <2>6 DEF LosePage
  <2>7. CASE DrawPage(p)
    <3>1. /\ attempt.pc = "render" /\ page[p].work = "analyzed" /\ Work(p, "writing")
          /\ UNCHANGED <<attempt, progress, previous, kept>>
      BY <2>7 DEF DrawPage, Stage
    <3>2. page[p].status # "completed"
      BY <3>1 DEF WorkInv
    <3>3. CASE p = q
      BY <2>7, <3>1, <3>2, <3>3, Drawing, WorkingOn DEF Genuine, Stage
    <3>4. CASE p # q
      BY <2>7, <3>1, <3>4, Drawing, WorkingOn DEF Genuine, Stage
    <3> QED
      BY <3>3, <3>4
  <2>8. CASE FinishPage(p)
    <3>1. /\ attempt.pc = "render" /\ Work(p, "written")
          /\ UNCHANGED <<attempt, progress, previous, kept>>
      BY <2>8 DEF FinishPage, Stage
    <3>2. CASE p = q
      BY <2>8, <3>1, <3>2, Finishing, WorkingOn DEF Genuine, Stage
    <3>3. CASE p # q
      BY <2>8, <3>1, <3>3, Finishing, WorkingOn DEF Genuine, Stage
    <3> QED
      BY <3>2, <3>3
  <2>9. CASE KeepImage(p)
    <3>1. /\ page[p].work = "written" /\ Work(p, "imaged") /\ attempt.code \in Code
          /\ kept' = [kept EXCEPT ![<<p, attempt.code>>].image = out[p].what]
          /\ UNCHANGED <<attempt, progress, previous, out>>
      BY <2>9 DEF KeepImage, AttemptType
    <3>2. \A c \in Code :
            kept'[<<q, c>>].image = kept[<<q, c>>].image
              \/ (q = p /\ kept'[<<q, c>>].image = out[p].what)
      BY <3>1 DEF KeptType
    <3>3. CASE p = q
      <4>1. attempt.pc = "render"
        BY <3>1, <3>3 DEF WorkInv, Genuine, Stage, AttemptType, Translating, Ended
      <4>2. out[q].what = "drawn"
        BY <3>1, <3>3, <4>1 DEF Genuine, Stage
      <4> QED
        BY <3>1, <3>2, <3>3, <4>1, <4>2, WorkingOn DEF Genuine, Stage
    <3>4. CASE p # q
      BY <3>1, <3>2, <3>4, WorkingOn DEF Genuine, Stage
    <3> QED
      BY <3>3, <3>4
  <2>10. CASE KeepMetadata(p)
    <3>1. /\ page[p].work = "imaged" /\ Work(p, "kept") /\ attempt.code \in Code
          /\ kept' = [kept EXCEPT ![<<p, attempt.code>>].whole = TRUE]
          /\ UNCHANGED <<attempt, progress, previous, out>>
      BY <2>10 DEF KeepMetadata, AttemptType
    <3>2. \A c \in Code : kept'[<<q, c>>].image = kept[<<q, c>>].image
      BY <3>1 DEF KeptType
    <3>3. CASE p = q
      BY <3>1, <3>2, <3>3, WorkingOn DEF Genuine, Stage
    <3>4. CASE p # q
      BY <3>1, <3>2, <3>4, WorkingOn DEF Genuine, Stage
    <3> QED
      BY <3>3, <3>4
  <2>11. CASE BreakPage(p)
    <3>1. /\ attempt.pc = "render" /\ Work(p, "broken")
          /\ UNCHANGED <<attempt, progress, previous, out, kept>>
      BY <2>11 DEF BreakPage, Stage, onDisk
    <3>2. /\ page'[q].status = page[q].status
          /\ page'[q].work \in {page[q].work, "broken"}
      BY <3>1, WorkingOn
    <3> QED
      BY <3>1, <3>2 DEF Genuine, Stage
  <2> QED
    BY <1>12, <2>1, <2>2, <2>3, <2>4, <2>5, <2>6, <2>7, <2>8, <2>9, <2>10, <2>11 DEF PageNext
<1>13. CASE UNCHANGED pageVars
  BY <1>13 DEF pageVars, onDisk, Genuine, Stage
<1> QED
  BY <1>2, <1>4, <1>5, <1>6, <1>7, <1>8, <1>9, <1>10, <1>11, <1>12, <1>13 DEF ChapterNext

\* Every step keeps SoughtInv.
LEMMA SoughtStep ==
  ASSUME Types, WorkInv, SoughtInv, [ChapterNext]_pageVars
  PROVE  SoughtInv'
<1> USE DEF Types
<1>1. UNCHANGED look
  BY DEF ChapterNext, BeginAttempt, RaiseError, Die, FailAttempt, PageNext, ReusePage, SkipPage,
         NoteSkip, QueuePage, ReadPage, LosePage, MissPage, DrawPage, FinishPage, KeepImage,
         KeepMetadata, BreakPage, DiscoverJobs, Classify, AskProvider, RefuseNewRequest, RefuseNoPages,
         StoreResults, CommitTranslations, MergePages, ExportPdf, FinishChapter, pageVars
<1> DEFINE Passed(q) == (Stage("precheck") /\ q < attempt.at) \/ attempt.pc \in {"ocr", "translate"}
<1> SUFFICES ASSUME NEW q \in Page, ~look[q].skip, Passed(q) => Sought(q), Passed(q)'
             PROVE  Sought(q)'
  BY <1>1 DEF SoughtInv
<1>2. CASE BeginAttempt
  BY <1>2 DEF BeginAttempt, Stage, Page
<1>3. CASE \E outcome \in Ended : EndAttempt(outcome)
  BY <1>3, Forgetting DEF Ended, Stage
<1>4. CASE FailAttempt
  BY <1>3, <1>4 DEF FailAttempt, Failures, Ended
<1>5. CASE RaiseError \/ RefuseNewRequest \/ RefuseNoPages \/ Die \/ FinishChapter
  BY <1>3, <1>4, <1>5 DEF RaiseError, RefuseNewRequest, RefuseNoPages, Die, FinishChapter, Ended
<1>6. CASE DiscoverJobs
  <2>1. CASE ocrJobs' = Page
    BY <2>1 DEF Sought
  <2>2. CASE UNCHANGED <<ocrJobs, page>>
    <3>1. attempt.pc = "precheck" /\ attempt.at = Pages + 1
      BY <1>6 DEF DiscoverJobs, Stage
    <3>2. q < Pages + 1
      BY DEF Page
    <3>3. Passed(q)
      BY <3>1, <3>2 DEF Stage
    <3> QED
      BY <2>2, <3>3 DEF Sought
  <2> QED
    BY <1>6, <2>1, <2>2 DEF DiscoverJobs
<1>7. CASE Classify
  <2>1. Passed(q) /\ UNCHANGED ocrJobs
    BY <1>7 DEF Classify, Stage
  <2>2. page'[q].lines = page[q].lines
    BY <1>7, Classifying
  <2>3. page[q].status = "completed" => page'[q].status = "completed"
    BY <1>7, Classifying
  <2> QED
    BY <2>1, <2>2, <2>3 DEF Sought
<1>8. CASE AskProvider \/ StoreResults \/ CommitTranslations \/ MergePages \/ ExportPdf
  <2>1. PICK pc \in {"render", "commit", "asked", "pdf", "report"} : Enter(pc)
    BY <1>8 DEF AskProvider, StoreResults, CommitTranslations, MergePages, ExportPdf
  <2>2. attempt'.pc = pc
    BY <2>1, Entering
  <2> QED
    BY <2>1, <2>2 DEF Stage
<1>9. ASSUME NEW p \in Page, PageNext(p) PROVE Sought(q)'
  <2>1. CASE ReusePage(p)
    <3>1. /\ attempt.pc = "precheck" /\ attempt'.pc = "precheck" /\ p = attempt.at
          /\ attempt'.at = p + 1 /\ UNCHANGED ocrJobs
      BY <2>1, Turning DEF ReusePage, Prechecking, Stage
    <3>2. page'[p].status = "completed" /\ \A r \in Page \ {p} : page'[r] = page[r]
      BY <2>1 DEF ReusePage, PageType, PageState
    <3>3. q = p \/ q < attempt.at
      BY <3>1 DEF Stage, Page
    <3> QED
      BY <3>1, <3>2, <3>3 DEF Sought, Stage
  <2>2. CASE SkipPage(p)
    <3>1. p # q /\ UNCHANGED <<attempt, ocrJobs>>
      BY <2>2 DEF SkipPage
    <3>2. page'[q] = page[q]
      BY <2>2, <3>1, Skipping
    <3> QED
      BY <3>1, <3>2 DEF Sought, Stage
  <2>3. CASE NoteSkip(p)
    <3>1. /\ attempt.pc = "precheck" /\ attempt'.pc = "precheck" /\ p = attempt.at
          /\ attempt'.at = p + 1 /\ UNCHANGED ocrJobs
      BY <2>3, Turning DEF NoteSkip, Stage
    <3>2. page'[q].lines = page[q].lines /\ page'[q].status = page[q].status
      BY <2>3 DEF NoteSkip, PageType, PageState
    <3>3. CASE q = p
      <4>1. page[p].work = "kept" /\ page[p].status = "completed"
        BY <2>3, <3>1 DEF NoteSkip, WorkInv, Stage
      <4> QED
        BY <3>2, <3>3, <4>1 DEF Sought
    <3>4. CASE q # p
      <4>1. q < attempt.at
        BY <3>1, <3>4 DEF Stage, Page
      <4> QED
        BY <3>1, <3>2, <4>1 DEF Sought, Stage
    <3> QED
      BY <3>3, <3>4
  <2>4. CASE QueuePage(p)
    <3>1. /\ attempt.pc = "precheck" /\ attempt'.pc = "precheck" /\ p = attempt.at
          /\ attempt'.at = p + 1 /\ ocrJobs \subseteq ocrJobs'
      BY <2>4, Turning DEF QueuePage, Prechecking, Stage
    <3>2. \A r \in Page \ {p} : page'[r] = page[r]
      BY <2>4 DEF QueuePage, PageType
    <3>3. p \in ocrJobs' \/ page'[p].lines = "read"
      <4>1. CASE page' = [page EXCEPT ![p] = [@ EXCEPT !.keyed = TRUE, !.lines = "read"]]
        BY <4>1 DEF PageType, PageState
      <4> QED
        BY <2>4, <4>1 DEF QueuePage
    <3>4. q = p \/ q < attempt.at
      BY <3>1 DEF Stage, Page
    <3> QED
      BY <3>1, <3>2, <3>3, <3>4 DEF Sought, Stage
  <2>5. CASE ReadPage(p) \/ MissPage(p)
    <3>1. p \in ocrJobs /\ UNCHANGED <<attempt, ocrJobs>>
      BY <2>5 DEF ReadPage, MissPage, Reading
    <3>2. \A r \in Page \ {p} : page'[r] = page[r]
      BY <2>5 DEF ReadPage, MissPage, PageType
    <3> QED
      BY <3>1, <3>2 DEF Sought, Stage
  <2>6. CASE LosePage(p)
    BY <1>4, <2>6 DEF LosePage
  <2>7. CASE DrawPage(p) \/ FinishPage(p) \/ KeepImage(p) \/ KeepMetadata(p) \/ BreakPage(p)
    <3>1. /\ \E work : Work(p, work)
          /\ UNCHANGED <<attempt, ocrJobs>>
      BY <2>7 DEF DrawPage, FinishPage, KeepImage, KeepMetadata, BreakPage
    <3>2. page'[q].lines = page[q].lines /\ page'[q].status = page[q].status
      BY <3>1 DEF Work, PageType, PageState
    <3> QED
      BY <3>1, <3>2 DEF Sought, Stage
  <2> QED
    BY <1>9, <2>1, <2>2, <2>3, <2>4, <2>5, <2>6, <2>7 DEF PageNext
<1>10. CASE UNCHANGED pageVars
  BY <1>10 DEF pageVars, Sought, Stage
<1> QED
  BY <1>2, <1>4, <1>5, <1>6, <1>7, <1>8, <1>9, <1>10 DEF ChapterNext

(***************************************************************************)
(* The theorems.                                                           *)
(***************************************************************************)

\* The first state.
LEMMA Beginning == ChapterInit => ChapterInv
<1> SUFFICES ASSUME ChapterInit PROVE ChapterInv
  OBVIOUS
<1> USE DEF ChapterInit
<1>1. Types
  <2>1. attempt \in AttemptType
    BY DEF AttemptType, Ended, Code
  <2>2. page \in PageType
    BY DEF PageType, PageState, Unread
  <2>3. out \in OutType /\ pdf \in PdfType
    BY DEF OutType, NoFiles, NoPdf, PdfType
  <2>4. kept \in KeptType
    BY DEF KeptType
  <2>5. purse \in PurseType
    BY DEF PurseType
  <2> QED
    BY <2>1, <2>2, <2>3, <2>4, <2>5, NothingNoted DEF Types
<1>2. WorkInv /\ FileInv
  BY DEF WorkInv, FileInv, Unread, Ended, Translating, Stage
<1>3. RecordInv
  BY DEF RecordInv, NotOlder, NoProgress, NoFiles
<1>4. PaidInv
  BY DEF PaidInv, Stage
<1>5. RenderedIsPaid
  BY DEF RenderedIsPaid, NoFiles, NoPdf
<1> QED
  BY <1>1, <1>2, <1>3, <1>4, <1>5, TypesSplit DEF ChapterInv

\* Every step keeps the inductive invariant.
LEMMA ChapterStep == ChapterInv /\ [ChapterNext]_pageVars => ChapterInv'
<1> SUFFICES ASSUME ChapterInv, [ChapterNext]_pageVars PROVE ChapterInv'
  OBVIOUS
<1> USE DEF ChapterInv
<1>1. Types /\ Types'
  BY TypesSplit, TypesStep
<1>2. WorkInv' /\ FileInv'
  BY <1>1, WorkStep, FileStep
<1>3. RecordInv'
  BY <1>1, <1>2, RecordStep
<1>4. PaidInv' /\ RenderedIsPaid'
  BY <1>1, PaidStep, RenderStep
<1> QED
  BY <1>1, <1>2, <1>3, <1>4, TypesSplit

\* The inductive invariant holds.
LEMMA ChapterInvariant == ChapterSpec => []ChapterInv
BY Beginning, ChapterStep, PTL DEF ChapterSpec

\* Every state of a chapter is of its types.
THEOREM ChapterTypes == ChapterSpec => []ChapterTypeOK
<1>1. ChapterInv => ChapterTypeOK
  BY DEF ChapterInv
<1> QED
  BY <1>1, ChapterInvariant, PTL

\* A page held for completed is a whole file made by the attempt's own code.
THEOREM CompletedStaysCurrent == ChapterSpec => []CompletedIsCurrent
<1>1. ChapterInv => CompletedIsCurrent
  BY DEF ChapterInv, FileInv, Current, CompletedIsCurrent
<1> QED
  BY <1>1, ChapterInvariant, PTL

\* A PDF holds no half written page and leaves out only pages that cannot be read, or were
\* gone when they failed.
THEOREM PdfStaysWhole == ChapterSpec => PdfIsWhole
<1>1. ChapterInv /\ [ChapterNext]_pageVars => [NewPdfIsWhole]_pageVars
  BY TypesSplit, PdfStep DEF ChapterInv
<1> QED
  BY <1>1, ChapterInvariant, PTL DEF ChapterSpec, PdfIsWhole

\* A translated page is nowhere to be had before it is paid for.
THEOREM RenderingIsPaid == ChapterSpec => []RenderedIsPaid
<1>1. ChapterInv => RenderedIsPaid
  BY DEF ChapterInv
<1> QED
  BY <1>1, ChapterInvariant, PTL

\* A chapter with a page the precheck does not take for blank never reaches translation with
\* nothing to read and nothing read or drawn: the empty OCR stage of ClaimFailOpen (copies of
\* skipped pages taken over from the processed cache by the next attempt) needs a chapter
\* whose every page the precheck took for blank.
THEOREM OnlyBlankChaptersGoUnread ==
  ChapterSpec => []((\E p \in Page : ~look[p].skip) => NeverEmptyOcr)
<1> DEFINE Inv == ChapterInv /\ GenuineInv /\ SoughtInv
<1>1. ChapterInit => Inv
  <2> SUFFICES ASSUME ChapterInit PROVE GenuineInv /\ SoughtInv
    BY Beginning
  <2>1. GenuineInv
    BY DEF ChapterInit, GenuineInv, Genuine, Unread, NoProgress, NoFiles, Stage, Translating
  <2>2. SoughtInv
    BY DEF ChapterInit, SoughtInv, Stage
  <2> QED
    BY <2>1, <2>2
<1>2. Inv /\ [ChapterNext]_pageVars => Inv'
  <2> SUFFICES ASSUME Inv, [ChapterNext]_pageVars PROVE Inv'
    OBVIOUS
  <2>1. Types /\ WorkInv
    BY TypesSplit DEF ChapterInv
  <2> QED
    BY <2>1, ChapterStep, GenuineStep, SoughtStep
<1>3. Inv => ((\E p \in Page : ~look[p].skip) => NeverEmptyOcr)
  <2> SUFFICES ASSUME Inv, NEW p \in Page, ~look[p].skip, Stage("translate"), ocrJobs = {}
               PROVE  page[p].lines = "read" \/ out[p].what = "drawn"
    BY DEF NeverEmptyOcr
  <2>1. page[p].lines = "read" \/ page[p].status = "completed"
    BY DEF SoughtInv, Sought, Stage
  <2> QED
    BY <2>1 DEF GenuineInv, Genuine
<1> HIDE DEF Inv
<1> QED
  BY <1>1, <1>2, <1>3, PTL DEF ChapterSpec

===============================================================================
