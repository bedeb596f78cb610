------------------------ MODULE ChapterRevision_proofs ------------------------
(***************************************************************************)
(* What is proved of ChapterRevision for any regions, any answers of the   *)
(* provider, any concurrency and any number of revisions and restarts:     *)
(* types, that an ended revision is complete and names the PDF with its    *)
(* own corrections, that a recorded PDF is whole, and that a poll beside   *)
(* which nothing happens leaves no revision in flight.                     *)
(***************************************************************************)
EXTENDS ChapterRevision, FiniteSetTheorems, SequenceTheorems, TLAPS

(***************************************************************************)
(* The inductive invariant.                                                *)
(***************************************************************************)

Answers == [Regions -> Answer \union {"none"}]
RevOrNone == {None} \union Revision
ReviserPc == {"none", "begin", "point", "plan", "review", "reviewed", "stop", "apply", "pdf",
              "generate", "record", "finish"}
ReviserType ==
  [rev : RevOrNone, pc : ReviserPc, limit : Nat, stopped : BOOLEAN,
   todo : SUBSET Regions, flight : SUBSET Regions, answers : Answers, carried : Answers,
   pdf : RevOrNone]
PressType == [pc : {"none", "mark", "settle", "marking"}, rev : RevOrNone, pdf : RevOrNone]
PollType ==
  [pc : {"none", "alive", "mark", "marking", "sweep"}, rev : RevOrNone, pdf : RevOrNone,
   lost : BOOLEAN, todo : SUBSET Revision, quiet : BOOLEAN]
PdfType == [by : RevOrNone, whole : BOOLEAN, changes : SUBSET Regions]

\* The types of the files.
FilesOk ==
  /\ manifest \in [Revision -> ManifestRecord] /\ newest \in RevOrNone
  /\ checkpoint \in Answers /\ contextual \in [Revision -> Answers]
  /\ cache \in [Regions -> Cacheable \union {"none"}]
  /\ pdfs \in [Revision -> PdfType]
  /\ versions \in Seq([pdf : Revision, rev : Revision])
  /\ cancels \subseteq Revision /\ restarts \in 0 .. MaxRestarts

\* The thread has a revision while it lives, and asks about no region twice at once.
ReviserOk ==
  /\ reviser \in ReviserType
  /\ reviser.pc = "none" <=> reviser.rev = None
  /\ reviser.limit > 0
  /\ reviser.todo \intersect reviser.flight = {}
  /\ Cardinality(reviser.flight) <= reviser.limit
  /\ reviser.pc # "review" => reviser.flight = {}

\* A request that writes a manifest has read which one, and it was a started one.
RequestsOk ==
  /\ press \in PressType /\ poll \in PollType
  /\ press.pc \in {"mark", "settle"} => newest # None
  /\ poll.pc \in {"alive", "mark"} => newest # None
  /\ press.pc = "marking" => press.rev # None /\ manifest[press.rev].status # "none"
  /\ poll.pc = "marking" => poll.rev # None /\ manifest[poll.rev].status # "none"

Types == FilesOk /\ ReviserOk /\ RequestsOk

Started(r) == manifest[r].status # "none"

\* Revisions start one after the other, and only a started one has a PDF.
StartedInv ==
  /\ \A r, q \in Revision : q < r /\ Started(r) => Started(q)
  /\ \A r \in Revision : r < reviser.rev => Started(r)
  /\ Alive => \A r \in Revision : reviser.rev < r => ~Started(r)
  /\ reviser.pc = "begin" => ~Started(reviser.rev)
  /\ Alive /\ reviser.pc # "begin" => Started(reviser.rev)
  /\ \A n \in Revision : pdfs[n].by # None => Started(pdfs[n].by)

Writing == {"generate", "record"}
BeforePdf == ReviserPc \ ({"none", "finish"} \union Writing)

\* The PDFs have the first names, in the order of their revisions, and a name is at
\* most its revision: so there always is a free one.
NamesInv ==
  /\ \E k \in 0 .. MaxRevisions : \A n \in Revision : pdfs[n].by # None <=> n <= k
  /\ \A n, m \in Revision : m < n /\ pdfs[n].by # None => pdfs[m].by < pdfs[n].by
  /\ \A n \in Revision : pdfs[n].by # None => n <= pdfs[n].by
  /\ reviser.pc \in BeforePdf => \A n \in Revision : pdfs[n].by < reviser.rev

\* What is recorded is complete, and what is being written is not recorded.
VersionsInv ==
  /\ \A i \in DOMAIN versions :
       /\ pdfs[versions[i].pdf].whole /\ pdfs[versions[i].pdf].by = versions[i].rev
       /\ \A j \in DOMAIN versions : versions[j].pdf = versions[i].pdf => i = j
  /\ reviser.pc \in Writing =>
       /\ reviser.pdf # None /\ pdfs[reviser.pdf].by = reviser.rev
       /\ \A i \in DOMAIN versions : versions[i].pdf # reviser.pdf
  /\ reviser.pc = "record" => pdfs[reviser.pdf].whole
  /\ \A n \in Revision : pdfs[n].whole => pdfs[n].by # None

Reviewed == {"apply", "pdf", "generate", "record", "finish"}

\* While a revision reviews, every region is to do, under way or answered; once it has
\* reviewed, its file has all answers, unless it was cancelled.
ReviewInv ==
  /\ Alive => manifest[reviser.rev].status \notin Settled
  /\ reviser.pc = "review" =>
       Regions \subseteq reviser.todo \union reviser.flight \union Answered(reviser.answers)
                         \union Answered(reviser.carried)
  /\ reviser.pc = "reviewed" /\ ~Cancelled =>
       Regions \subseteq Answered(reviser.answers) \union Answered(reviser.carried)
  /\ reviser.pc \in Reviewed /\ ~Cancelled => Answered(contextual[reviser.rev]) = Regions
  /\ EndedIsComplete

\* The PDF at hand is the one with the corrections of the revision.
PdfInv ==
  /\ reviser.pc \in Writing => pdfs[reviser.pdf].changes = Changes
  /\ reviser.pc = "finish" /\ Changes # {} =>
       /\ reviser.pdf # None /\ pdfs[reviser.pdf].whole
       /\ pdfs[reviser.pdf].changes = Changes
  /\ NamedPdfMatches

\* While nobody else is there, the sweep has yet to look at whatever is in flight.
SweepInv ==
  poll.quiet =>
    /\ ~Alive /\ press.pc = "none"
    /\ \A r \in Revision : manifest[r].status \in RevisionInFlight =>
         r \in poll.todo \/ (poll.pc = "marking" /\ poll.rev = r)

RevInv ==
  /\ Types /\ StartedInv /\ NamesInv /\ VersionsInv /\ ReviewInv /\ PdfInv /\ SweepInv

(***************************************************************************)
(* Which variables a group of steps leaves alone.                          *)
(***************************************************************************)

\* The requests of the page touch manifests and cancel events only.
LEMMA RequestFrame ==
  PressNext \/ PollNext \/ RestartUi =>
    UNCHANGED <<newest, checkpoint, contextual, cache, pdfs, versions>>
  BY DEF PressNext, CancelRequest, MarkReads, MarkWrites, SettleLost, StartRequest, PollNext,
         PollReads, PollChecks, PollMarks, PollWrites, PollAnswers, SweepReads, PollOnly, RestartUi

\* The thread touches no request.
LEMMA ReviserFrame ==
  ReviserNext => UNCHANGED <<press, poll, cancels, restarts>>
  BY DEF ReviserNext, BeginRevision, PointLatest, PlanReview, TakeCached, AskProvider, TakeAnswer,
         EndReview, WriteContextual, EndWith, StopRevision, ApplyChanges, KeepPdf, CreatePdf,
         CompletePdf, RecordVersion, FinishRevision, FailRevision

\* Only a poll's write and the page's requests change what a poll works on, and no poll
\* touches the thread, a request or an event.
LEMMA PollFrame ==
  PollNext => /\ UNCHANGED <<reviser, press, cancels, restarts>>
              /\ UNCHANGED manifest \/ PollWrites
  BY DEF PollNext, PollReads, PollChecks, PollMarks, PollWrites, PollAnswers, SweepReads, PollOnly

\* The latest pointer and its checkpoint.
LEMMA PointerFrame ==
  ReviserNext => /\ UNCHANGED newest \/ PointLatest
                 /\ \/ UNCHANGED checkpoint
                    \/ PointLatest
                    \/ \E x \in Regions, answer \in Answer : TakeAnswer(x, answer)
<1> SUFFICES ASSUME ReviserNext
             PROVE  /\ UNCHANGED newest \/ PointLatest
                    /\ \/ UNCHANGED checkpoint
                       \/ PointLatest
                       \/ \E x \in Regions, answer \in Answer : TakeAnswer(x, answer)
  OBVIOUS
<1>1. CASE \E x \in Regions, answer \in Answer : TakeAnswer(x, answer)
  BY <1>1 DEF TakeAnswer
<1>2. CASE \E x \in Regions : TakeCached(x) \/ AskProvider(x)
  BY <1>2 DEF TakeCached, AskProvider
<1>3. CASE \E status \in Settled : FinishRevision(status)
  BY <1>3 DEF FinishRevision
<1>4. CASE \/ BeginRevision \/ PlanReview \/ EndReview \/ WriteContextual \/ StopRevision
           \/ ApplyChanges \/ KeepPdf \/ CreatePdf \/ CompletePdf \/ RecordVersion \/ FailRevision
  BY <1>4 DEF BeginRevision, PlanReview, EndReview, WriteContextual, EndWith, StopRevision,
         ApplyChanges, KeepPdf, CreatePdf, CompletePdf, RecordVersion, FailRevision
<1> QED BY <1>1, <1>2, <1>3, <1>4 DEF ReviserNext

\* The reviews, the cache, the PDFs and their versions.
LEMMA ResultFrame ==
  ReviserNext => /\ UNCHANGED contextual \/ WriteContextual
                 /\ \/ UNCHANGED cache
                    \/ \E x \in Regions, answer \in Answer : TakeAnswer(x, answer)
                 /\ UNCHANGED pdfs \/ CreatePdf \/ CompletePdf
                 /\ UNCHANGED versions \/ RecordVersion
<1> SUFFICES ASSUME ReviserNext
             PROVE  /\ UNCHANGED contextual \/ WriteContextual
                    /\ \/ UNCHANGED cache
                       \/ \E x \in Regions, answer \in Answer : TakeAnswer(x, answer)
                    /\ UNCHANGED pdfs \/ CreatePdf \/ CompletePdf
                    /\ UNCHANGED versions \/ RecordVersion
  OBVIOUS
<1>1. CASE \E x \in Regions, answer \in Answer : TakeAnswer(x, answer)
  BY <1>1 DEF TakeAnswer
<1>2. CASE \E x \in Regions : TakeCached(x) \/ AskProvider(x)
  BY <1>2 DEF TakeCached, AskProvider
<1>3. CASE \E status \in Settled : FinishRevision(status)
  BY <1>3 DEF FinishRevision
<1>4. CASE WriteContextual \/ CreatePdf \/ CompletePdf \/ RecordVersion
  BY <1>4 DEF WriteContextual, CreatePdf, CompletePdf, RecordVersion
<1>5. CASE \/ BeginRevision \/ PointLatest \/ PlanReview \/ EndReview \/ StopRevision
           \/ ApplyChanges \/ KeepPdf \/ FailRevision
  BY <1>5 DEF BeginRevision, PointLatest, PlanReview, EndReview, EndWith, StopRevision,
         ApplyChanges, KeepPdf, FailRevision
<1> QED BY <1>1, <1>2, <1>3, <1>4, <1>5 DEF ReviserNext

(***************************************************************************)
(* The manifests.                                                          *)
(***************************************************************************)

Statuses == RevisionInFlight \union Resumable \union Settled

\* A status is written into the manifest of the thread's revision.
LEMMA StatusWritten ==
  ASSUME Types, Alive, NEW status \in Statuses, WriteStatus(status)
  PROVE  \E m \in ManifestRecord : manifest' = [manifest EXCEPT ![reviser.rev] = m]
                                   /\ m.status = status
<1> DEFINE m == [manifest[reviser.rev] EXCEPT !.status = status]
<1>1. reviser.rev \in Revision /\ manifest[reviser.rev] \in ManifestRecord
  BY DEF Types, FilesOk, ReviserOk, ReviserType, RevOrNone, Alive
<1>2. m \in ManifestRecord /\ m.status = status
  BY <1>1 DEF ManifestRecord, Statuses
<1>3. manifest' = [manifest EXCEPT ![reviser.rev] = m]
  BY DEF WriteStatus
<1> HIDE DEF m
<1> QED BY <1>2, <1>3

\* The thread writes the manifest of its own revision, which it starts first, and ends
\* it as finished only at its end.
OwnWrite ==
  \E m \in ManifestRecord :
    /\ manifest' = [manifest EXCEPT ![reviser.rev] = m] /\ m.status # "none"
    /\ m.status \in Settled => FinishRevision(m.status) /\ m.pdf = reviser.pdf

\* What the thread does to the manifests.
LEMMA ReviserWrites ==
  ASSUME Types, ReviserNext
  PROVE  /\ UNCHANGED manifest \/ (Alive /\ OwnWrite)
         /\ BeginRevision => OwnWrite /\ manifest'[reviser.rev].status # "none"
<1> USE DEF OwnWrite
<1>0. /\ manifest \in [Revision -> ManifestRecord] /\ (reviser.pc = "none" <=> reviser.rev = None)
      /\ reviser.pdf \in RevOrNone /\ (Alive => reviser.rev \in Revision)
  BY DEF Types, FilesOk, ReviserOk, ReviserType, RevOrNone, Alive
<1>1. ASSUME NEW status \in Statuses \ Settled, Alive, WriteStatus(status)
      PROVE  OwnWrite /\ manifest'[reviser.rev].status # "none"
  <2>1. PICK m \in ManifestRecord : manifest' = [manifest EXCEPT ![reviser.rev] = m]
                                    /\ m.status = status
    BY <1>1, StatusWritten
  <2>2. status # "none" /\ status \notin Settled
    BY DEF Statuses, RevisionInFlight, Resumable, Settled
  <2> QED BY <1>0, <1>1, <2>1, <2>2
<1>2. CASE BeginRevision \/ PlanReview \/ ApplyChanges
  <2>1. Alive /\ WriteStatus("running")
    BY <1>0, <1>2 DEF BeginRevision, PlanReview, ApplyChanges, ReviserAt, Alive
  <2>2. "running" \in Statuses \ Settled
    BY DEF Statuses, RevisionInFlight, Resumable, Settled
  <2> QED BY <1>1, <2>1, <2>2
<1>3. CASE StopRevision \/ FailRevision
  <2>1. Alive /\ \E status \in {"cancelled", "failed"} : WriteStatus(status)
    BY <1>0, <1>3 DEF StopRevision, FailRevision, EndWith, ReviserAt, Alive
  <2>2. {"cancelled", "failed"} \subseteq Statuses \ Settled
    BY DEF Statuses, RevisionInFlight, Resumable, Settled
  <2>3. ~BeginRevision
    BY <1>3 DEF StopRevision, FailRevision, BeginRevision, ReviserAt
  <2> QED BY <1>1, <2>1, <2>2, <2>3
<1>4. CASE RecordVersion
  <2>1. Alive /\ ~BeginRevision
    BY <1>0, <1>4 DEF RecordVersion, RecordFrom, BeginRevision, ReviserAt, Alive
  <2> DEFINE m == [status |-> "running", pdf |-> reviser.pdf]
  <2>2. m \in ManifestRecord /\ m.status # "none" /\ m.status \notin Settled
    BY <1>0 DEF ManifestRecord, RevOrNone, RevisionInFlight, Settled
  <2>3. manifest' = [manifest EXCEPT ![reviser.rev] = m]
    BY <1>4 DEF RecordVersion
  <2> HIDE DEF m
  <2> QED BY <2>1, <2>2, <2>3
<1>5. ASSUME NEW status \in Settled, FinishRevision(status)
      PROVE  Alive /\ OwnWrite /\ ~BeginRevision
  <2>1. Alive /\ ~BeginRevision
    BY <1>0, <1>5 DEF FinishRevision, BeginRevision, ReviserAt, Alive
  <2> DEFINE m == [status |-> status, pdf |-> reviser.pdf]
  <2>2. m \in ManifestRecord /\ m.status # "none" /\ m.status = status /\ m.pdf = reviser.pdf
    BY <1>0 DEF ManifestRecord, RevOrNone, Settled
  <2>3. manifest' = [manifest EXCEPT ![reviser.rev] = m]
    BY <1>5 DEF FinishRevision
  <2> HIDE DEF m
  <2> QED BY <1>5, <2>1, <2>2, <2>3
<1>6. CASE UNCHANGED manifest /\ ~BeginRevision
  BY <1>6
<1>7. \/ BeginRevision \/ PlanReview \/ ApplyChanges \/ StopRevision \/ FailRevision
      \/ RecordVersion \/ (\E status \in Settled : FinishRevision(status))
      \/ (UNCHANGED manifest /\ ~BeginRevision)
  BY DEF ReviserNext, PointLatest, TakeCached, AskProvider, TakeAnswer, EndReview,
         WriteContextual, KeepPdf, CreatePdf, CompletePdf, BeginRevision, ReviserAt
<1> QED BY <1>2, <1>3, <1>4, <1>5, <1>6, <1>7

\* A request writes that a started revision is being cancelled or was interrupted.
RequestWrite ==
  \E r \in Revision, m \in ManifestRecord :
    /\ manifest' = [manifest EXCEPT ![r] = m] /\ Started(r)
    /\ m.status \in {"cancelling", "interrupted"}

\* What the requests do to the manifests.
LEMMA RequestWrites ==
  ASSUME Types, PressNext \/ PollNext \/ RestartUi
  PROVE  UNCHANGED manifest \/ RequestWrite
<1> USE DEF RequestWrite
<1>0. /\ manifest \in [Revision -> ManifestRecord] /\ newest \in RevOrNone
      /\ press.rev \in RevOrNone /\ press.pdf \in RevOrNone
      /\ poll.rev \in RevOrNone /\ poll.pdf \in RevOrNone
      /\ (press.pc = "settle" => newest # None)
      /\ (press.pc = "marking" => press.rev # None /\ Started(press.rev))
      /\ (poll.pc = "marking" => poll.rev # None /\ Started(poll.rev))
  BY DEF Types, FilesOk, RequestsOk, PressType, PollType, Started
<1>1. ASSUME NEW status \in {"cancelling", "interrupted"}, NEW pdf \in RevOrNone
      PROVE  [status |-> status, pdf |-> pdf] \in ManifestRecord
  BY DEF ManifestRecord, RevOrNone, RevisionInFlight, Resumable
<1>2. CASE MarkWrites
  BY <1>0, <1>1, <1>2 DEF MarkWrites, RevOrNone
<1>3. CASE PollWrites
  BY <1>0, <1>1, <1>3 DEF PollWrites, RevOrNone
<1>4. CASE SettleLost
  <2>1. newest \in Revision /\ manifest[newest] \in ManifestRecord
    BY <1>0, <1>4 DEF SettleLost, RevOrNone
  <2>2. CASE manifest[newest].status \in RevisionInFlight
    <3> DEFINE m == [manifest[newest] EXCEPT !.status = "interrupted"]
    <3>1. m \in ManifestRecord /\ m.status = "interrupted"
      BY <2>1 DEF ManifestRecord, Resumable
    <3>2. manifest' = [manifest EXCEPT ![newest] = m]
      BY <1>4, <2>2 DEF SettleLost
    <3>3. Started(newest)
      BY <2>2 DEF Started, RevisionInFlight
    <3> HIDE DEF m
    <3> QED BY <2>1, <3>1, <3>2, <3>3
  <2>3. CASE manifest[newest].status \notin RevisionInFlight
    BY <1>4, <2>3 DEF SettleLost
  <2> QED BY <2>2, <2>3
<1>5. CASE UNCHANGED manifest
  BY <1>5
<1> QED BY <1>2, <1>3, <1>4, <1>5, PollFrame
        DEF PressNext, CancelRequest, MarkReads, StartRequest, RestartUi

\* No step takes the start of a revision back, and only a thread starts one.
LEMMA StartedStays ==
  ASSUME Types, [RevisionNext]_revisionVars
  PROVE  /\ manifest' \in [Revision -> ManifestRecord]
         /\ \A r \in Revision : Started(r) => Started(r)'
         /\ \A r \in Revision : Started(r)' /\ ~Started(r) => Alive /\ r = reviser.rev /\ ReviserNext
<1>0. manifest \in [Revision -> ManifestRecord]
  BY DEF Types, FilesOk
<1>1. CASE UNCHANGED manifest
  BY <1>0, <1>1 DEF Started
<1>2. CASE ReviserNext /\ Alive /\ OwnWrite
  BY <1>0, <1>2 DEF OwnWrite, Started
<1>3. CASE RequestWrite
  BY <1>0, <1>3 DEF RequestWrite, Started
<1> QED BY <1>1, <1>2, <1>3, ReviserWrites, RequestWrites DEF RevisionNext, revisionVars

(***************************************************************************)
(* The thread.                                                             *)
(***************************************************************************)

\* There is a free name for a PDF, and it is the first one.
LEMMA FreeName ==
  ASSUME Types, NamesInv, ReviserAt("pdf")
  PROVE  /\ NextPath \in Revision
         /\ \A n \in Revision : pdfs[n].by # None <=> n < NextPath
<1> USE RevisionAssumption
<1>0. /\ pdfs \in [Revision -> PdfType] /\ reviser.rev \in RevOrNone
      /\ \A n \in Revision : pdfs[n].by \in RevOrNone
  BY DEF Types, FilesOk, ReviserOk, ReviserType, PdfType
<1>1. PICK k \in 0 .. MaxRevisions : \A n \in Revision : pdfs[n].by # None <=> n <= k
  BY DEF NamesInv
<1>2. k + 1 \in Revision
  <2>1. reviser.pc \in BeforePdf
    BY DEF ReviserAt, BeforePdf, ReviserPc, Writing
  <2>2. CASE k = 0
    <3>1. reviser.rev # None
      BY DEF Types, ReviserOk, ReviserAt
    <3> QED BY <1>0, <2>2, <3>1 DEF RevOrNone, Revision, None
  <2>3. CASE k # 0
    <3>1. k \in Revision /\ pdfs[k].by # None
      BY <1>1, <2>3 DEF Revision
    <3>2. k <= pdfs[k].by /\ pdfs[k].by < reviser.rev
      BY <2>1, <3>1 DEF NamesInv
    <3> QED BY <1>0, <3>1, <3>2 DEF RevOrNone, Revision, None
  <2> QED BY <2>2, <2>3
<1>3. \A n \in Revision :
        pdfs[n].by = None /\ (\A m \in 1 .. (n - 1) : pdfs[m].by # None) <=> n = k + 1
  <2> SUFFICES ASSUME NEW n \in Revision
               PROVE  pdfs[n].by = None /\ (\A m \in 1 .. (n - 1) : pdfs[m].by # None) <=> n = k + 1
    OBVIOUS
  <2>1. ASSUME n = k + 1
        PROVE  pdfs[n].by = None /\ \A m \in 1 .. (n - 1) : pdfs[m].by # None
    <3>1. \A m \in 1 .. (n - 1) : m \in Revision /\ m <= k
      BY <2>1 DEF Revision
    <3> QED BY <1>1, <2>1, <3>1 DEF Revision
  <2>2. ASSUME pdfs[n].by = None, \A m \in 1 .. (n - 1) : pdfs[m].by # None, n # k + 1
        PROVE  FALSE
    <3>1. n > k + 1
      BY <1>1, <2>2 DEF Revision
    <3>2. k + 1 \in 1 .. (n - 1)
      BY <3>1 DEF Revision
    <3>3. pdfs[k + 1].by # None
      BY <2>2, <3>2
    <3> QED BY <1>1, <1>2, <3>3
  <2> QED BY <2>1, <2>2
<1>4. NextPath = k + 1
  BY <1>2, <1>3 DEF NextPath
<1>5. \A n \in Revision : n <= k <=> n < k + 1
  BY DEF Revision
<1> QED BY <1>1, <1>2, <1>4, <1>5

\* Where the thread may go on to.
Steps == {<<"begin", "point">>, <<"point", "plan">>, <<"plan", "review">>,
          <<"review", "review">>, <<"review", "reviewed">>, <<"reviewed", "stop">>,
          <<"reviewed", "apply">>, <<"apply", "pdf">>, <<"pdf", "finish">>,
          <<"pdf", "generate">>, <<"generate", "record">>, <<"record", "finish">>}

Moves == reviser'.rev = reviser.rev /\ <<reviser.pc, reviser'.pc>> \in Steps

\* A thread that has nothing under way keeps its types as its fields do.
LEMMA QuietMove ==
  ASSUME ReviserOk, Alive, reviser' \in ReviserType, reviser'.rev = reviser.rev,
         reviser'.pc # "none", reviser'.flight = {}, reviser'.limit > 0
  PROVE  ReviserOk'
  BY FS_EmptySet DEF ReviserOk, ReviserType, Alive

\* No thread has the types of one.
LEMMA NoReviserOk == NoReviser \in ReviserType /\ (reviser' = NoReviser => ReviserOk')
<1>1. Unanswered \in Answers
  BY DEF Unanswered, Answers
<1>2. NoReviser \in ReviserType
  BY <1>1 DEF NoReviser, ReviserType, RevOrNone, ReviserPc
<1>3. /\ NoReviser.pc = "none" /\ NoReviser.rev = None /\ NoReviser.limit > 0
      /\ NoReviser.todo = {} /\ NoReviser.flight = {}
  BY DEF NoReviser
<1>4. Cardinality(NoReviser.flight) <= NoReviser.limit
  BY <1>3, FS_EmptySet DEF NoReviser
<1> QED BY <1>2, <1>3, <1>4 DEF ReviserOk

\* Every step of the thread ends it or keeps its types and goes on.
LEMMA ReviserStep ==
  ASSUME Types, NamesInv, ReviserNext
  PROVE  ReviserOk' /\ (reviser' = NoReviser \/ Moves)
<1> USE RevisionAssumption DEF Moves, Steps
<1>0. /\ reviser \in ReviserType /\ (reviser.pc = "none" <=> reviser.rev = None)
      /\ reviser.limit > 0 /\ reviser.limit \in Nat
      /\ (reviser.pc # "review" => reviser.flight = {})
      /\ reviser.todo \subseteq Regions /\ reviser.flight \subseteq Regions
      /\ reviser.todo \intersect reviser.flight = {}
      /\ Cardinality(reviser.flight) <= reviser.limit
      /\ reviser.answers \in Answers /\ reviser.carried \in Answers
  BY DEF Types, ReviserOk, ReviserType
<1>a. /\ cache \in [Regions -> Cacheable \union {"none"}] /\ checkpoint \in Answers
      /\ versions \in Seq([pdf : Revision, rev : Revision])
      /\ contextual \in [Revision -> Answers] /\ ReviserOk
      /\ \A x \in Regions : cache[x] \in Answer \union {"none"}
  BY DEF Types, FilesOk, Cacheable, Answer
<1>b. Unanswered \in Answers
  BY DEF Unanswered, Answers
<1>1. CASE BeginRevision
  <2> DEFINE c == IF newest # None /\ manifest[newest].status \in Resumable
                  THEN checkpoint ELSE Unanswered
  <2>1. c \in Answers
    BY <1>a, <1>b
  <2>2. reviser' = [reviser EXCEPT !.pc = "point", !.carried = c] /\ reviser.pc = "begin"
    BY <1>1 DEF BeginRevision, ReviserAt
  <2> HIDE DEF c
  <2>3. reviser' \in ReviserType
    BY <1>0, <2>1, <2>2 DEF ReviserType, ReviserPc
  <2>4. /\ reviser'.pc = "point" /\ reviser'.rev = reviser.rev /\ reviser'.flight = {}
        /\ reviser'.limit > 0 /\ Alive
    BY <1>0, <2>2 DEF ReviserType, Alive
  <2> QED BY <1>a, <2>2, <2>3, <2>4, QuietMove
<1>2. CASE PointLatest \/ ApplyChanges
  <2>1. PICK pc \in {"plan", "pdf"} : /\ reviser' = [reviser EXCEPT !.pc = pc]
                                      /\ <<reviser.pc, pc>> \in Steps /\ reviser.pc # "review"
    BY <1>2 DEF PointLatest, ApplyChanges, ReviserAt
  <2>2. reviser' \in ReviserType
    BY <1>0, <2>1 DEF ReviserType, ReviserPc
  <2>3. /\ reviser'.pc = pc /\ reviser'.rev = reviser.rev /\ reviser'.flight = {}
        /\ reviser'.limit > 0 /\ reviser.pc # "none"
    BY <1>0, <2>1 DEF ReviserType
  <2> QED BY <1>0, <1>a, <2>1, <2>2, <2>3, QuietMove DEF Alive
<1>3. CASE PlanReview
  <2> DEFINE open == Regions \ Answered(reviser.carried)
             serial(l) == l = 1 \/ Cardinality(open) <= 1
             hits(l) == IF serial(l) THEN {} ELSE open \intersect Answered(cache)
             todo(l) == open \ hits(l)
             limit(l) == IF serial(l) THEN 1 ELSE l
             answers(l) == [x \in Regions |-> IF x \in hits(l) THEN cache[x] ELSE "none"]
  <2>1. PICK l \in Concurrency :
          reviser' = [reviser EXCEPT !.pc = "review", !.todo = todo(l), !.limit = limit(l),
                                     !.answers = answers(l)]
    BY <1>3 DEF PlanReview
  <2>2. /\ todo(l) \subseteq Regions /\ limit(l) \in Nat \ {0}
        /\ answers(l) \in Answers
    <3>1. todo(l) \subseteq Regions
      OBVIOUS
    <3>2. limit(l) \in Nat \ {0}
      <4>1. l \in Nat \ {0}
        OBVIOUS
      <4>2. CASE serial(l)
        BY <4>2
      <4>3. CASE ~serial(l)
        BY <4>1, <4>3
      <4> QED BY <4>2, <4>3
    <3>3. answers(l) \in Answers
      BY <1>a DEF Answers
    <3> QED BY <3>1, <3>2, <3>3
  <2>3. reviser.pc = "plan"
    BY <1>3 DEF PlanReview, ReviserAt
  <2> HIDE DEF todo, limit, answers
  <2>4. reviser' \in ReviserType
    BY <1>0, <2>1, <2>2 DEF ReviserType, ReviserPc
  <2>5. /\ reviser'.pc = "review" /\ reviser'.rev = reviser.rev /\ reviser'.flight = {}
        /\ reviser'.limit > 0 /\ Alive
    BY <1>0, <2>1, <2>2, <2>3 DEF ReviserType, Alive
  <2> QED BY <1>a, <2>3, <2>4, <2>5, QuietMove
<1>4. ASSUME NEW x \in Regions, TakeCached(x)
      PROVE  ReviserOk' /\ Moves
  <2> DEFINE a == [reviser.answers EXCEPT ![x] = cache[x]]
             t == reviser.todo \ {x}
  <2>1. reviser' = [reviser EXCEPT !.answers = a, !.todo = t] /\ reviser.pc = "review"
        /\ reviser.flight = {}
    BY <1>4 DEF TakeCached, ReviserAt
  <2>2. a \in Answers /\ t \subseteq Regions
    BY <1>0, <1>a DEF Answers
  <2> HIDE DEF a, t
  <2>3. reviser' \in ReviserType
    BY <1>0, <2>1, <2>2 DEF ReviserType
  <2>4. /\ reviser'.pc = "review" /\ reviser'.rev = reviser.rev /\ reviser'.flight = {}
        /\ reviser'.limit > 0 /\ Alive
    BY <1>0, <2>1 DEF ReviserType, Alive
  <2> QED BY <1>a, <2>1, <2>3, <2>4, QuietMove
<1>5. ASSUME NEW x \in Regions, AskProvider(x)
      PROVE  ReviserOk' /\ Moves
  <2> DEFINE t == reviser.todo \ {x}
             f == reviser.flight \union {x}
  <2>1. reviser' = [reviser EXCEPT !.todo = t, !.flight = f] /\ reviser.pc = "review"
        /\ x \in reviser.todo /\ Cardinality(reviser.flight) < reviser.limit
    BY <1>5 DEF AskProvider, ReviserAt, NextRegion, HasSlot
  <2>2. IsFiniteSet(reviser.flight)
    BY <1>0, FS_Subset
  <2>3. Cardinality(reviser.flight) \in Nat
    BY <2>2, FS_CardinalityType
  <2>4. Cardinality(f) <= reviser.limit
    <3>1. x \notin reviser.flight
      BY <1>0, <2>1
    <3>2. Cardinality(f) = Cardinality(reviser.flight) + 1
      BY <2>2, <3>1, FS_AddElement
    <3> HIDE DEF f
    <3> QED BY <1>0, <2>1, <2>3, <3>2
  <2>5. t \subseteq Regions /\ f \subseteq Regions /\ t \intersect f = {}
    BY <1>0
  <2> HIDE DEF t, f
  <2>6. reviser' \in ReviserType
    BY <1>0, <2>1, <2>5 DEF ReviserType
  <2>7. /\ reviser'.pc = "review" /\ reviser'.rev = reviser.rev /\ reviser'.flight = f
        /\ reviser'.todo = t /\ reviser'.limit = reviser.limit
    BY <1>0, <2>1 DEF ReviserType
  <2> QED BY <1>0, <2>1, <2>4, <2>5, <2>6, <2>7 DEF ReviserOk
<1>6. ASSUME NEW x \in Regions, NEW answer \in Answer, TakeAnswer(x, answer)
      PROVE  ReviserOk' /\ Moves
  <2> DEFINE a == [reviser.answers EXCEPT ![x] = answer]
             f == reviser.flight \ {x}
  <2>1. reviser' = [reviser EXCEPT !.answers = a, !.flight = f] /\ reviser.pc = "review"
    BY <1>6 DEF TakeAnswer, ReviserAt
  <2>2. a \in Answers /\ f \subseteq Regions /\ reviser.todo \intersect f = {}
    BY <1>0 DEF Answers
  <2>3. Cardinality(f) <= reviser.limit
    <3>1. IsFiniteSet(reviser.flight)
      BY <1>0, FS_Subset
    <3>2. Cardinality(f) <= Cardinality(reviser.flight) /\ IsFiniteSet(f)
      BY <3>1, FS_Subset
    <3>3. Cardinality(f) \in Nat /\ Cardinality(reviser.flight) \in Nat
      BY <3>1, <3>2, FS_CardinalityType
    <3> HIDE DEF f
    <3> QED BY <1>0, <3>2, <3>3
  <2> HIDE DEF a, f
  <2>4. reviser' \in ReviserType
    BY <1>0, <2>1, <2>2 DEF ReviserType
  <2>5. /\ reviser'.pc = "review" /\ reviser'.rev = reviser.rev /\ reviser'.flight = f
        /\ reviser'.todo = reviser.todo /\ reviser'.limit = reviser.limit
    BY <1>0, <2>1 DEF ReviserType
  <2> QED BY <1>0, <2>1, <2>2, <2>3, <2>4, <2>5 DEF ReviserOk
<1>7. CASE EndReview
  <2> DEFINE s == Serial /\ reviser.todo # {}
  <2>1. /\ reviser' = [reviser EXCEPT !.pc = "reviewed", !.stopped = s, !.todo = {}]
        /\ reviser.pc = "review" /\ reviser.flight = {}
    BY <1>7 DEF EndReview, ReviserAt
  <2>2. s \in BOOLEAN
    BY DEF Serial
  <2> HIDE DEF s
  <2>3. reviser' \in ReviserType
    BY <1>0, <2>1, <2>2 DEF ReviserType, ReviserPc
  <2>4. /\ reviser'.pc = "reviewed" /\ reviser'.rev = reviser.rev /\ reviser'.flight = {}
        /\ reviser'.limit > 0 /\ Alive
    BY <1>0, <2>1 DEF ReviserType, Alive
  <2> QED BY <1>a, <2>1, <2>3, <2>4, QuietMove
<1>8. CASE WriteContextual
  <2>1. PICK pc \in {"stop", "apply"} :
          reviser' = [NoReviser EXCEPT !.rev = reviser.rev, !.pc = pc]
    BY <1>8 DEF WriteContextual
  <2>2. reviser.pc = "reviewed" /\ reviser.rev \in RevOrNone
    BY <1>0, <1>8 DEF WriteContextual, ReviserAt, ReviserType
  <2>3. reviser' \in ReviserType
    BY <2>1, <2>2, NoReviserOk DEF ReviserType, ReviserPc
  <2>4. /\ reviser'.pc = pc /\ reviser'.rev = reviser.rev /\ reviser'.flight = {}
        /\ reviser'.limit > 0 /\ Alive
    BY <1>0, <2>1, <2>2 DEF NoReviser, Alive
  <2> QED BY <1>a, <2>2, <2>3, <2>4, QuietMove
<1>9. CASE KeepPdf \/ CreatePdf
  <2>1. PICK pc \in {"finish", "generate"}, d \in RevOrNone :
          reviser' = [reviser EXCEPT !.pc = pc, !.pdf = d]
    <3>1. CASE KeepPdf
      <4> DEFINE d == IF Changes = {} THEN None ELSE versions[Len(versions)].pdf
      <4>1. reviser' = [reviser EXCEPT !.pc = "finish", !.pdf = d]
        BY <3>1 DEF KeepPdf
      <4>2. d \in RevOrNone
        <5>1. CASE Changes = {}
          BY <5>1 DEF RevOrNone
        <5>2. CASE Changes # {}
          <6>1. versions # <<>>
            BY <3>1, <5>2 DEF KeepPdf, Equivalent
          <6>2. Len(versions) \in 1 .. Len(versions)
            BY <1>a, <6>1
          <6>3. versions[Len(versions)] \in [pdf : Revision, rev : Revision]
            BY <1>a, <6>2, ElementOfSeq
          <6> QED BY <5>2, <6>3 DEF RevOrNone
        <5> QED BY <5>1, <5>2
      <4> QED BY <4>1, <4>2
    <3>2. CASE CreatePdf
      <4>1. NextPath \in Revision
        BY <3>2, FreeName DEF CreatePdf
      <4> QED BY <3>2, <4>1 DEF CreatePdf, RevOrNone
    <3> QED BY <1>9, <3>1, <3>2
  <2>2. reviser.pc = "pdf"
    BY <1>9 DEF KeepPdf, CreatePdf, ReviserAt
  <2>3. reviser' \in ReviserType
    BY <1>0, <2>1 DEF ReviserType, ReviserPc
  <2>4. /\ reviser'.pc = pc /\ reviser'.rev = reviser.rev /\ reviser'.flight = {}
        /\ reviser'.limit > 0 /\ Alive
    BY <1>0, <2>1, <2>2 DEF ReviserType, Alive
  <2> QED BY <1>a, <2>2, <2>3, <2>4, QuietMove
<1>10. CASE CompletePdf \/ RecordVersion
  <2>1. PICK pc \in {"record", "finish"} : /\ reviser' = [reviser EXCEPT !.pc = pc]
                                           /\ <<reviser.pc, pc>> \in Steps /\ reviser.pc # "review"
    BY <1>10 DEF CompletePdf, RecordVersion, RecordFrom, ReviserAt
  <2>2. reviser' \in ReviserType
    BY <1>0, <2>1 DEF ReviserType, ReviserPc
  <2>3. /\ reviser'.pc = pc /\ reviser'.rev = reviser.rev /\ reviser'.flight = {}
        /\ reviser'.limit > 0 /\ reviser.pc # "none"
    BY <1>0, <2>1 DEF ReviserType
  <2> QED BY <1>0, <1>a, <2>1, <2>2, <2>3, QuietMove DEF Alive
<1>11. CASE StopRevision \/ FailRevision \/ \E status \in Settled : FinishRevision(status)
  BY <1>11, NoReviserOk DEF StopRevision, FailRevision, FinishRevision, EndWith
<1> QED BY <1>1, <1>2, <1>3, <1>4, <1>5, <1>6, <1>7, <1>8, <1>9, <1>10, <1>11 DEF ReviserNext

(***************************************************************************)
(* Types.                                                                  *)
(***************************************************************************)

\* A new PDF.
LEMMA Created ==
  ASSUME Types, NamesInv, CreatePdf
  PROVE  /\ NextPath \in Revision /\ reviser.pc = "pdf" /\ reviser.rev \in Revision
         /\ pdfs' \in [Revision -> PdfType]
         /\ pdfs'[NextPath] = [by |-> reviser.rev, whole |-> FALSE, changes |-> Changes]
         /\ \A n \in Revision : n # NextPath => pdfs'[n] = pdfs[n]
         /\ reviser'.pc = "generate" /\ reviser'.rev = reviser.rev /\ reviser'.pdf = NextPath
<1>0. /\ pdfs \in [Revision -> PdfType] /\ reviser \in ReviserType
      /\ contextual \in [Revision -> Answers]
      /\ (reviser.pc = "none" <=> reviser.rev = None)
  BY DEF Types, FilesOk, ReviserOk
<1>1. NextPath \in Revision /\ reviser.pc = "pdf"
  BY FreeName DEF CreatePdf, ReviserAt
<1>2. reviser.rev \in Revision
  BY <1>0, <1>1 DEF ReviserType, RevOrNone
<1> DEFINE c == [by |-> reviser.rev, whole |-> FALSE, changes |-> Changes]
<1>3. c \in PdfType
  BY <1>2 DEF PdfType, RevOrNone, Changes, Rewritten
<1>4. pdfs' = [pdfs EXCEPT ![NextPath] = c]
  BY DEF CreatePdf
<1>5. reviser' = [reviser EXCEPT !.pc = "generate", !.pdf = NextPath]
  BY DEF CreatePdf
<1>6. reviser'.pc = "generate" /\ reviser'.rev = reviser.rev /\ reviser'.pdf = NextPath
  BY <1>0, <1>5 DEF ReviserType
<1>7. /\ pdfs' \in [Revision -> PdfType] /\ pdfs'[NextPath] = c
      /\ \A n \in Revision : n # NextPath => pdfs'[n] = pdfs[n]
  <2> HIDE DEF c
  <2> QED BY <1>0, <1>1, <1>3, <1>4
<1> QED BY <1>1, <1>2, <1>6, <1>7

\* A PDF is complete: nothing else of it changes.
LEMMA Completed ==
  ASSUME Types, VersionsInv, CompletePdf
  PROVE  /\ reviser.pdf \in Revision /\ reviser.pc = "generate"
         /\ pdfs' \in [Revision -> PdfType] /\ pdfs'[reviser.pdf].whole
         /\ \A n \in Revision : pdfs'[n].by = pdfs[n].by /\ pdfs'[n].changes = pdfs[n].changes
         /\ \A n \in Revision : n # reviser.pdf => pdfs'[n] = pdfs[n]
         /\ reviser'.pc = "record" /\ reviser'.rev = reviser.rev /\ reviser'.pdf = reviser.pdf
<1>0. pdfs \in [Revision -> PdfType] /\ reviser \in ReviserType
  BY DEF Types, FilesOk, ReviserOk
<1>1. reviser.pdf \in Revision /\ reviser.pc = "generate"
  BY <1>0 DEF CompletePdf, ReviserAt, VersionsInv, Writing, ReviserType, RevOrNone
<1> DEFINE c == [pdfs[reviser.pdf] EXCEPT !.whole = TRUE]
<1>2. /\ c \in PdfType /\ c.whole /\ c.by = pdfs[reviser.pdf].by
      /\ c.changes = pdfs[reviser.pdf].changes
  BY <1>0, <1>1 DEF PdfType
<1>3. pdfs' = [pdfs EXCEPT ![reviser.pdf] = c]
  BY DEF CompletePdf
<1>4. reviser' = [reviser EXCEPT !.pc = "record"]
  BY DEF CompletePdf
<1>5. reviser'.pc = "record" /\ reviser'.rev = reviser.rev /\ reviser'.pdf = reviser.pdf
  BY <1>0, <1>4 DEF ReviserType
<1> HIDE DEF c
<1> QED BY <1>0, <1>1, <1>2, <1>3, <1>5

\* A version is recorded at the end of the list.
LEMMA Recorded ==
  ASSUME Types, VersionsInv, RecordVersion
  PROVE  /\ reviser.pdf \in Revision /\ reviser.rev \in Revision /\ reviser.pc = "record"
         /\ versions' \in Seq([pdf : Revision, rev : Revision])
         /\ DOMAIN versions' = DOMAIN versions \union {Len(versions) + 1}
         /\ \A i \in DOMAIN versions : versions'[i] = versions[i]
         /\ Len(versions) + 1 \notin DOMAIN versions
         /\ versions'[Len(versions) + 1] = [pdf |-> reviser.pdf, rev |-> reviser.rev]
<1>0. /\ versions \in Seq([pdf : Revision, rev : Revision]) /\ reviser \in ReviserType
      /\ (reviser.pc = "none" <=> reviser.rev = None)
  BY DEF Types, FilesOk, ReviserOk
<1>1. reviser.pc = "record"
  BY DEF RecordVersion, RecordFrom
<1>2. reviser.pdf \in Revision /\ reviser.rev \in Revision
  BY <1>0, <1>1 DEF VersionsInv, Writing, ReviserType, RevOrNone
<1> DEFINE v == [pdf |-> reviser.pdf, rev |-> reviser.rev]
<1>3. v \in [pdf : Revision, rev : Revision] /\ versions' = Append(versions, v)
  BY <1>2 DEF RecordVersion
<1>4. versions'[Len(versions) + 1] = v
  BY <1>0, <1>3
<1> HIDE DEF v
<1>5. /\ versions' \in Seq([pdf : Revision, rev : Revision])
      /\ Len(versions') = Len(versions) + 1
      /\ \A i \in 1 .. Len(versions) : versions'[i] = versions[i]
  BY <1>0, <1>3
<1>6. /\ DOMAIN versions = 1 .. Len(versions) /\ DOMAIN versions' = 1 .. Len(versions) + 1
      /\ Len(versions) \in Nat
  BY <1>0, <1>5
<1>7. v = [pdf |-> reviser.pdf, rev |-> reviser.rev]
  BY DEF v
<1> QED BY <1>1, <1>2, <1>4, <1>5, <1>6, <1>7

\* The thread keeps the types of the files.
LEMMA FilesStep ==
  ASSUME Types, NamesInv, VersionsInv, [RevisionNext]_revisionVars
  PROVE  FilesOk'
<1>0. /\ FilesOk /\ reviser \in ReviserType /\ (reviser.pc = "none" <=> reviser.rev = None)
      /\ reviser.answers \in Answers /\ reviser.carried \in Answers
  BY DEF Types, ReviserOk, ReviserType
<1>1. manifest' \in [Revision -> ManifestRecord]
  BY StartedStays
<1>2. CASE ReviserNext
  <2>1. newest' \in RevOrNone
    BY <1>0, <1>2, PointerFrame DEF PointLatest, ReviserType, FilesOk
  <2>2. ASSUME NEW x \in Regions, NEW answer \in Answer, TakeAnswer(x, answer)
        PROVE  checkpoint' \in Answers /\ cache' \in [Regions -> Cacheable \union {"none"}]
    <3>1. cache' \in [Regions -> Cacheable \union {"none"}]
      BY <1>0, <2>2 DEF TakeAnswer, FilesOk
    <3>2. reviser'.answers \in Answers
      BY <1>2, ReviserStep, NoReviserOk DEF ReviserOk, ReviserType
    <3> QED BY <1>0, <2>2, <3>1, <3>2 DEF TakeAnswer, FilesOk
  <2>3. checkpoint' \in Answers /\ cache' \in [Regions -> Cacheable \union {"none"}]
    <3>1. Unanswered \in Answers
      BY DEF Unanswered, Answers
    <3>2. CASE PointLatest
      BY <1>0, <3>1, <3>2 DEF PointLatest, FilesOk
    <3> QED BY <1>0, <1>2, <2>2, <3>2, PointerFrame, ResultFrame DEF FilesOk
  <2>4. contextual' \in [Revision -> Answers]
    <3>1. AllReviews \in Answers
      BY <1>0 DEF AllReviews, Answers
    <3>2. CASE WriteContextual
      BY <1>0, <3>1, <3>2 DEF WriteContextual, FilesOk
    <3> QED BY <1>0, <1>2, <3>2, ResultFrame DEF FilesOk
  <2>5. pdfs' \in [Revision -> PdfType]
    BY <1>0, <1>2, ResultFrame, Created, Completed DEF FilesOk
  <2>6. versions' \in Seq([pdf : Revision, rev : Revision])
    BY <1>0, <1>2, ResultFrame, Recorded DEF FilesOk
  <2>7. cancels' \subseteq Revision /\ restarts' \in 0 .. MaxRestarts
    BY <1>0, <1>2, ReviserFrame DEF FilesOk
  <2> QED BY <1>1, <2>1, <2>3, <2>4, <2>5, <2>6, <2>7 DEF FilesOk
<1>3. CASE PressNext \/ PollNext \/ RestartUi
  <2>1. UNCHANGED <<newest, checkpoint, contextual, cache, pdfs, versions>>
    BY <1>3, RequestFrame
  <2>2. cancels' \subseteq Revision
    <3>1. CASE CancelRequest
      <4>1. Alive => reviser.rev \in Revision
        BY <1>0 DEF Alive, ReviserType, RevOrNone
      <4> QED BY <1>0, <3>1, <4>1 DEF CancelRequest, FilesOk
    <3>2. CASE UNCHANGED cancels
      BY <1>0, <3>2 DEF FilesOk
    <3> QED BY <1>3, <3>1, <3>2, PollFrame
            DEF PressNext, MarkReads, MarkWrites, SettleLost, StartRequest, RestartUi
  <2>3. restarts' \in 0 .. MaxRestarts
    <3>1. CASE RestartUi
      BY <1>0, <3>1, RevisionAssumption DEF RestartUi, FilesOk
    <3>2. CASE UNCHANGED restarts
      BY <1>0, <3>2 DEF FilesOk
    <3> QED BY <1>3, <3>1, <3>2, PollFrame
            DEF PressNext, CancelRequest, MarkReads, MarkWrites, SettleLost, StartRequest
  <2> QED BY <1>0, <1>1, <2>1, <2>2, <2>3 DEF FilesOk
<1>4. CASE UNCHANGED revisionVars
  BY <1>0, <1>4 DEF FilesOk, revisionVars
<1> QED BY <1>2, <1>3, <1>4 DEF RevisionNext

\* Every step keeps what is known of the thread.
LEMMA ReviserOkStep ==
  ASSUME Types, NamesInv, [RevisionNext]_revisionVars
  PROVE  ReviserOk'
<1>0. ReviserOk
  BY DEF Types
<1>1. CASE ReviserNext
  BY <1>1, ReviserStep
<1>2. ASSUME NEW r \in Revision, StartRequest(r)
      PROVE  ReviserOk'
  <2>1. reviser' = [NoReviser EXCEPT !.rev = r, !.pc = "begin"]
    BY <1>2 DEF StartRequest
  <2>2. reviser' \in ReviserType
    BY <2>1, NoReviserOk DEF ReviserType, ReviserPc, RevOrNone
  <2>3. /\ reviser'.pc = "begin" /\ reviser'.rev = r /\ reviser'.limit = 1
        /\ reviser'.todo = {} /\ reviser'.flight = {}
    BY <2>1 DEF NoReviser
  <2>4. r # None
    BY DEF Revision, None
  <2> QED BY <2>2, <2>3, <2>4, FS_EmptySet DEF ReviserOk
<1>3. CASE UNCHANGED reviser
  BY <1>0, <1>3 DEF ReviserOk
<1>4. CASE RestartUi
  BY <1>4, NoReviserOk DEF RestartUi
<1> QED BY <1>1, <1>2, <1>3, <1>4, PollFrame
        DEF RevisionNext, PressNext, CancelRequest, MarkReads, MarkWrites, SettleLost, revisionVars

\* Every step keeps what is known of the requests.
LEMMA RequestsStep ==
  ASSUME Types, [RevisionNext]_revisionVars
  PROVE  RequestsOk'
<1>0. /\ press \in PressType /\ poll \in PollType
      /\ (press.pc \in {"mark", "settle"} => newest # None)
      /\ (poll.pc \in {"alive", "mark"} => newest # None)
      /\ (press.pc = "marking" => press.rev # None /\ Started(press.rev))
      /\ (poll.pc = "marking" => poll.rev # None /\ Started(poll.rev))
      /\ newest \in RevOrNone /\ manifest \in [Revision -> ManifestRecord]
      /\ (reviser.pc = "none" <=> reviser.rev = None)
  BY DEF Types, FilesOk, ReviserOk, RequestsOk, Started
<1>a. \A r \in Revision : Started(r) => Started(r)'
  BY StartedStays
<1>b. NoPress \in PressType /\ NoPress.pc = "none" /\ NoPoll \in PollType /\ NoPoll.pc = "none"
  BY DEF NoPress, NoPoll, PressType, PollType, RevOrNone
<1>c. \A r \in Revision : r # None
  BY DEF Revision, None
<1> DEFINE PressOk == /\ press \in PressType
                      /\ (press.pc \in {"mark", "settle"} => newest # None)
                      /\ (press.pc = "marking" => press.rev # None /\ Started(press.rev))
           PollOk == /\ poll \in PollType
                     /\ (poll.pc \in {"alive", "mark"} => newest # None)
                     /\ (poll.pc = "marking" => poll.rev # None /\ Started(poll.rev))
<1>1. ASSUME UNCHANGED press, UNCHANGED newest \/ newest' # None
      PROVE  PressOk'
  <2>1. press.pc = "marking" => press.rev \in Revision
    BY <1>0 DEF PressType, RevOrNone
  <2> QED BY <1>0, <1>a, <1>1, <2>1 DEF Started
<1>2. ASSUME UNCHANGED poll, UNCHANGED newest \/ newest' # None
      PROVE  PollOk'
  <2>1. poll.pc = "marking" => poll.rev \in Revision
    BY <1>0 DEF PollType, RevOrNone
  <2> QED BY <1>0, <1>a, <1>2, <2>1 DEF Started
<1>3. ASSUME NEW q \in BOOLEAN, poll' = [poll EXCEPT !.quiet = q], UNCHANGED newest
      PROVE  PollOk'
  <2>1. poll' \in PollType /\ poll'.pc = poll.pc /\ poll'.rev = poll.rev
    BY <1>0, <1>3 DEF PollType
  <2>2. poll.pc = "marking" => poll.rev \in Revision
    BY <1>0 DEF PollType, RevOrNone
  <2> QED BY <1>0, <1>a, <1>3, <2>1, <2>2 DEF Started
<1>4. press' = NoPress => PressOk'
  BY <1>b
<1>5. poll' = NoPoll => PollOk'
  BY <1>b
<1>6. CASE ReviserNext
  <2>1. UNCHANGED newest \/ newest' # None
    <3>1. PointLatest => newest' # None
      BY <1>0 DEF PointLatest, ReviserAt
    <3> QED BY <1>6, <3>1, PointerFrame
  <2> QED BY <1>1, <1>2, <1>6, <2>1, ReviserFrame DEF RequestsOk, Started
<1>7. CASE PressNext
  <2>1. UNCHANGED newest
    BY <1>7, RequestFrame
  <2>2. PollOk'
    <3>1. UNCHANGED poll \/ poll' = [poll EXCEPT !.quiet = FALSE]
      BY <1>7 DEF PressNext, CancelRequest, MarkReads, MarkWrites, SettleLost, StartRequest
    <3> QED BY <1>2, <1>3, <2>1, <3>1
  <2>3. CASE CancelRequest
    <3>1. PICK pc \in {"mark", "settle"} : press' = [press EXCEPT !.pc = pc] /\ newest # None
      BY <2>3 DEF CancelRequest
    <3>2. press' \in PressType /\ press'.pc = pc
      BY <1>0, <3>1 DEF PressType
    <3>3. PressOk'
      BY <2>1, <3>1, <3>2
    <3> QED BY <2>2, <3>3 DEF RequestsOk, Started
  <2>4. CASE MarkReads
    <3>1. CASE manifest[newest].status = "running"
      <4>1. newest \in Revision /\ manifest[newest].pdf \in RevOrNone /\ Started(newest)
        BY <1>0, <2>4, <3>1 DEF MarkReads, RevOrNone, ManifestRecord, Started
      <4>2. press' = [pc |-> "marking", rev |-> newest, pdf |-> manifest[newest].pdf]
        BY <2>4, <3>1 DEF MarkReads
      <4>3. press' \in PressType /\ press'.pc = "marking" /\ press'.rev = newest
        BY <4>1, <4>2 DEF PressType, RevOrNone
      <4>4. Started(newest)'
        BY <1>a, <2>1, <4>1 DEF Started
      <4>5. PressOk'
        BY <1>c, <2>1, <4>1, <4>3, <4>4 DEF Started
      <4> QED BY <2>2, <4>5 DEF RequestsOk, Started
    <3>2. CASE manifest[newest].status # "running"
      BY <1>4, <2>2, <2>4, <3>2 DEF MarkReads, RequestsOk, Started
    <3> QED BY <3>1, <3>2
  <2>5. CASE MarkWrites \/ SettleLost
    BY <1>4, <2>2, <2>5 DEF MarkWrites, SettleLost, RequestsOk, Started
  <2>6. CASE \E r \in Revision : StartRequest(r)
    <3>1. UNCHANGED press
      BY <2>6 DEF StartRequest
    <3> QED BY <1>1, <2>1, <2>2, <3>1 DEF RequestsOk, Started
  <2> QED BY <1>7, <2>3, <2>4, <2>5, <2>6 DEF PressNext
<1>8. CASE PollNext
  <2>1. UNCHANGED newest /\ UNCHANGED press
    BY <1>8, RequestFrame, PollFrame
  <2>2. PressOk'
    BY <1>1, <2>1
  <2>3. newest # None => newest \in Revision /\ manifest[newest].pdf \in RevOrNone
    BY <1>0 DEF RevOrNone, ManifestRecord
  <2>4. PollOk'
    <3>1. CASE PollReads
      <4> DEFINE b == manifest[newest].status \in RevisionInFlight
      <4>1. poll' = [NoPoll EXCEPT !.pc = "alive", !.rev = newest, !.lost = b] /\ b \in BOOLEAN
        BY <3>1 DEF PollReads
      <4> HIDE DEF b
      <4>2. poll' \in PollType /\ poll'.pc = "alive"
        BY <1>0, <1>b, <4>1 DEF PollType
      <4>3. newest # None
        BY <3>1 DEF PollReads
      <4> QED BY <2>1, <4>2, <4>3
    <3>2. CASE PollChecks
      <4> DEFINE pc == IF ~Alive /\ poll.lost THEN "mark" ELSE "sweep"
                 todo == SweepOf(IF Alive THEN poll.rev ELSE None)
                 quiet == ~Alive /\ press.pc = "none"
      <4>1. poll' = [poll EXCEPT !.pc = pc, !.rev = None, !.lost = FALSE, !.todo = todo,
                                 !.quiet = quiet]
        BY <3>2 DEF PollChecks
      <4>2. pc \in {"mark", "sweep"} /\ todo \subseteq Revision /\ quiet \in BOOLEAN
        BY DEF SweepOf, Alive
      <4> HIDE DEF pc, todo, quiet
      <4>3. poll' \in PollType /\ poll'.pc = pc
        BY <1>0, <4>1, <4>2 DEF PollType, RevOrNone
      <4>4. poll.pc = "alive"
        BY <3>2 DEF PollChecks
      <4> QED BY <1>0, <2>1, <4>2, <4>3, <4>4
    <3>3. CASE PollMarks
      <4>1. newest # None
        BY <1>0, <3>3 DEF PollMarks
      <4>2. CASE manifest[newest].status \in RevisionInFlight
        <5>1. poll' = [poll EXCEPT !.pc = "marking", !.rev = newest, !.pdf = manifest[newest].pdf]
          BY <3>3, <4>2 DEF PollMarks
        <5>2. poll' \in PollType /\ poll'.pc = "marking" /\ poll'.rev = newest
          BY <1>0, <2>3, <4>1, <5>1 DEF PollType
        <5>3. Started(newest)'
          BY <1>a, <2>1, <2>3, <4>1, <4>2 DEF Started, RevisionInFlight
        <5> QED BY <2>1, <4>1, <5>2, <5>3 DEF Started
      <4>3. CASE manifest[newest].status \notin RevisionInFlight
        <5>1. poll' = [poll EXCEPT !.pc = "sweep"]
          BY <3>3, <4>3 DEF PollMarks
        <5>2. poll' \in PollType /\ poll'.pc = "sweep"
          BY <1>0, <5>1 DEF PollType
        <5> QED BY <5>2
      <4> QED BY <4>2, <4>3
    <3>4. ASSUME NEW r \in Revision, SweepReads(r)
          PROVE  PollOk'
      <4>0. manifest[r].pdf \in RevOrNone
        BY <1>0 DEF ManifestRecord, RevOrNone
      <4> DEFINE todo == poll.todo \ {r}
      <4>a. todo \subseteq Revision
        BY <1>0 DEF PollType
      <4>1. CASE manifest[r].status \in RevisionInFlight
        <5>1. poll' = [poll EXCEPT !.pc = "marking", !.rev = r, !.pdf = manifest[r].pdf,
                                   !.todo = todo]
          BY <3>4, <4>1 DEF SweepReads
        <5> HIDE DEF todo
        <5>2. poll' \in PollType /\ poll'.pc = "marking" /\ poll'.rev = r
          BY <1>0, <4>0, <4>a, <5>1 DEF PollType, RevOrNone
        <5>3. Started(r)'
          BY <1>a, <4>1 DEF Started, RevisionInFlight
        <5> QED BY <1>c, <5>2, <5>3 DEF Started
      <4>2. CASE manifest[r].status \notin RevisionInFlight
        <5>1. poll' = [poll EXCEPT !.todo = todo] /\ poll.pc = "sweep"
          BY <3>4, <4>2 DEF SweepReads
        <5> HIDE DEF todo
        <5>2. poll' \in PollType /\ poll'.pc = "sweep"
          BY <1>0, <4>a, <5>1 DEF PollType
        <5> QED BY <5>2
      <4> QED BY <4>1, <4>2
    <3>5. CASE PollWrites
      <4>1. poll' = [poll EXCEPT !.pc = "sweep", !.rev = None, !.pdf = None]
        BY <3>5 DEF PollWrites
      <4>2. poll' \in PollType /\ poll'.pc = "sweep"
        BY <1>0, <4>1 DEF PollType, RevOrNone
      <4> QED BY <4>2
    <3>6. CASE PollAnswers
      BY <1>5, <3>6 DEF PollAnswers
    <3> QED BY <1>8, <3>1, <3>2, <3>3, <3>4, <3>5, <3>6 DEF PollNext
  <2> QED BY <2>2, <2>4 DEF RequestsOk, Started
<1>9. CASE RestartUi
  BY <1>4, <1>5, <1>9 DEF RestartUi, RequestsOk, Started
<1>10. CASE UNCHANGED revisionVars
  <2>1. UNCHANGED <<press, poll, newest>>
    BY <1>10 DEF revisionVars
  <2> QED BY <1>1, <1>2, <2>1 DEF RequestsOk, Started
<1> QED BY <1>6, <1>7, <1>8, <1>9, <1>10 DEF RevisionNext

\* Every step keeps the types.
LEMMA TypesStep ==
  ASSUME Types, NamesInv, VersionsInv, [RevisionNext]_revisionVars
  PROVE  Types'
  BY FilesStep, ReviserOkStep, RequestsStep DEF Types

(***************************************************************************)
(* Revisions and their PDFs.                                               *)
(***************************************************************************)

\* The requests of the page start no revision and leave the thread's alone, unless
\* they start or stop the thread itself.
LEMMA RequestReviser ==
  ASSUME Types, PressNext \/ PollNext \/ RestartUi
  PROVE  /\ \A r \in Revision : Started(r)' <=> Started(r)
         /\ \/ UNCHANGED reviser
            \/ reviser' = NoReviser
            \/ /\ ~Alive /\ reviser'.pc = "begin" /\ reviser'.rev \in Revision
               /\ ~Started(reviser'.rev)
               /\ \A q \in Revision : q < reviser'.rev => Started(q)
<1>0. manifest \in [Revision -> ManifestRecord]
  BY DEF Types, FilesOk
<1>1. \A r \in Revision : Started(r)' <=> Started(r)
  <2>1. CASE UNCHANGED manifest
    BY <2>1 DEF Started
  <2>2. CASE RequestWrite
    BY <1>0, <2>2 DEF RequestWrite, Started
  <2> QED BY <2>1, <2>2, RequestWrites
<1>2. ASSUME NEW r \in Revision, StartRequest(r)
      PROVE  /\ ~Alive /\ reviser'.pc = "begin" /\ reviser'.rev = r /\ ~Started(r)
             /\ \A q \in Revision : q < r => Started(q)
  <2>1. reviser' = [NoReviser EXCEPT !.rev = r, !.pc = "begin"]
    BY <1>2 DEF StartRequest
  <2>2. reviser'.pc = "begin" /\ reviser'.rev = r
    BY <2>1 DEF NoReviser
  <2>3. \A q \in 1 .. (r - 1) : Started(q)
    BY <1>2 DEF StartRequest, Started
  <2>4. \A q \in Revision : q < r => q \in 1 .. (r - 1)
    BY RevisionAssumption DEF Revision
  <2> QED BY <1>2, <2>2, <2>3, <2>4 DEF StartRequest, Started
<1>3. \/ UNCHANGED reviser \/ reviser' = NoReviser \/ \E r \in Revision : StartRequest(r)
  BY PollFrame DEF PressNext, CancelRequest, MarkReads, MarkWrites, SettleLost, RestartUi
<1> QED BY <1>1, <1>2, <1>3

\* A thread that begins does nothing else.
LEMMA BeginsFirst ==
  ASSUME ReviserNext, reviser.pc = "begin"
  PROVE  BeginRevision
  BY DEF ReviserNext, PointLatest, PlanReview, TakeCached, AskProvider, TakeAnswer, EndReview,
         WriteContextual, StopRevision, ApplyChanges, KeepPdf, CreatePdf, CompletePdf,
         RecordVersion, RecordFrom, FinishRevision, FailRevision, ReviserAt

\* Every step keeps the order of the revisions.
LEMMA StartedStep ==
  ASSUME Types, StartedInv, NamesInv, VersionsInv, [RevisionNext]_revisionVars
  PROVE  StartedInv'
<1>0. /\ reviser.rev \in RevOrNone /\ (reviser.pc = "none" <=> reviser.rev = None)
      /\ pdfs \in [Revision -> PdfType] /\ \A n \in Revision : pdfs[n].by \in RevOrNone
      /\ manifest \in [Revision -> ManifestRecord]
  BY DEF Types, FilesOk, ReviserOk, ReviserType, PdfType
<1>a. \A r \in Revision : Started(r) => Started(r)'
  BY StartedStays
<1>b. \A r \in Revision : r \in Nat /\ ~(r < None) /\ r # None
  BY DEF Revision, None
<1>c. /\ \A r, q \in Revision : q < r /\ Started(r) => Started(q)
      /\ \A r \in Revision : r < reviser.rev => Started(r)
      /\ Alive => \A r \in Revision : reviser.rev < r => ~Started(r)
      /\ reviser.pc = "begin" => ~Started(reviser.rev)
      /\ Alive /\ reviser.pc # "begin" => Started(reviser.rev)
      /\ \A n \in Revision : pdfs[n].by # None => Started(pdfs[n].by)
  BY DEF StartedInv
<1>1. CASE ReviserNext
  <2>1. \A r \in Revision : Started(r)' => Started(r) \/ (Alive /\ r = reviser.rev)
    BY <1>0, <1>1, ReviserWrites DEF OwnWrite, Started
  <2>2. \A r, q \in Revision : q < r /\ Started(r)' => Started(q)'
    BY <1>a, <1>c, <2>1
  <2>3. \/ reviser'.rev = None /\ reviser'.pc = "none"
        \/ Alive /\ reviser'.rev = reviser.rev /\ reviser'.pc # "begin"
    <3>1. CASE reviser' = NoReviser
      BY <3>1 DEF NoReviser
    <3>2. CASE Moves
      BY <1>0, <3>2 DEF Moves, Steps, Alive
    <3> QED BY <1>1, <3>1, <3>2, ReviserStep
  <2>4. \A r \in Revision : r < reviser'.rev => Started(r)'
    BY <1>a, <1>b, <1>c, <2>3
  <2>5. Alive' => \A r \in Revision : reviser'.rev < r => ~Started(r)'
    <3>1. Alive' => Alive /\ reviser'.rev = reviser.rev
      BY <2>3 DEF Alive
    <3>2. \A r \in Revision : reviser.rev < r => r # reviser.rev
      BY <1>0 DEF RevOrNone, Revision, None
    <3> QED BY <1>c, <2>1, <3>1, <3>2
  <2>6. Alive' => manifest'[reviser'.rev].status # "none"
    <3> SUFFICES ASSUME Alive' PROVE manifest'[reviser'.rev].status # "none"
      OBVIOUS
    <3>1. Alive /\ reviser'.rev = reviser.rev /\ reviser.rev \in Revision
      BY <1>0, <2>3 DEF Alive, RevOrNone
    <3>2. CASE reviser.pc = "begin"
      <4>1. manifest'[reviser.rev].status # "none"
        BY <1>1, <3>2, BeginsFirst, ReviserWrites
      <4> QED BY <3>1, <4>1 DEF Started
    <3>3. CASE reviser.pc # "begin"
      <4>1. Started(reviser.rev)
        BY <1>c, <3>1, <3>3
      <4>2. \A r \in Revision : Started(r) => manifest'[r].status # "none"
        BY <1>a DEF Started
      <4> QED BY <3>1, <4>1, <4>2 DEF Started
    <3> QED BY <3>2, <3>3
  <2>7. \A n \in Revision : pdfs'[n].by # None => manifest'[pdfs'[n].by].status # "none"
    <3>1. \A r \in Revision : Started(r) => manifest'[r].status # "none"
      BY <1>a DEF Started
    <3>2. \A n \in Revision : pdfs[n].by # None => manifest'[pdfs[n].by].status # "none"
      <4> SUFFICES ASSUME NEW n \in Revision, pdfs[n].by # None
                   PROVE  manifest'[pdfs[n].by].status # "none"
        OBVIOUS
      <4>1. pdfs[n].by \in Revision /\ Started(pdfs[n].by)
        BY <1>0, <1>c DEF RevOrNone
      <4> QED BY <3>1, <4>1
    <3>3. CASE UNCHANGED pdfs
      BY <3>2, <3>3 DEF Started
    <3>4. CASE CreatePdf
      <4>1. /\ reviser.pc = "pdf" /\ reviser.rev \in Revision
            /\ pdfs'[NextPath].by = reviser.rev
            /\ \A n \in Revision : n # NextPath => pdfs'[n] = pdfs[n]
        BY <3>4, Created
      <4>2. Started(reviser.rev)
        BY <1>b, <1>c, <4>1 DEF Alive
      <4>3. manifest'[reviser.rev].status # "none"
        BY <3>1, <4>1, <4>2
      <4> QED BY <3>2, <4>1, <4>3 DEF Started
    <3>5. CASE CompletePdf
      <4>1. \A n \in Revision : pdfs'[n].by = pdfs[n].by
        BY <3>5, Completed
      <4> QED BY <3>2, <4>1 DEF Started
    <3> QED BY <1>1, <3>3, <3>4, <3>5, ResultFrame
  <2>8. reviser'.pc # "begin"
    BY <2>3
  <2> QED BY <2>2, <2>4, <2>5, <2>6, <2>7, <2>8 DEF StartedInv, Started
<1>2. CASE PressNext \/ PollNext \/ RestartUi
  <2>1. UNCHANGED pdfs
    BY <1>2, RequestFrame
  <2>2. \A r \in Revision : manifest'[r].status # "none" <=> Started(r)
    BY <1>2, RequestReviser DEF Started
  <2>3. \A n \in Revision : pdfs[n].by # None => pdfs[n].by \in Revision
    BY <1>0 DEF RevOrNone
  <2>4. \A r, q \in Revision : q < r /\ manifest'[r].status # "none" => manifest'[q].status # "none"
    BY <1>c, <2>2
  <2>5. \A n \in Revision : pdfs'[n].by # None => manifest'[pdfs'[n].by].status # "none"
    BY <1>c, <2>1, <2>2, <2>3
  <2>6. /\ \A r \in Revision : r < reviser'.rev => manifest'[r].status # "none"
        /\ Alive' => \A r \in Revision : reviser'.rev < r => ~(manifest'[r].status # "none")
        /\ reviser'.pc = "begin" => ~(manifest'[reviser'.rev].status # "none")
        /\ Alive' /\ reviser'.pc # "begin" => manifest'[reviser'.rev].status # "none"
    <3>1. CASE UNCHANGED reviser
      <4>1. Alive => reviser.rev \in Revision
        BY <1>0 DEF Alive, RevOrNone
      <4>2. reviser.pc = "begin" => Alive
        BY <1>0 DEF Alive
      <4> QED BY <1>c, <2>2, <3>1, <4>1, <4>2 DEF Alive
    <3>2. CASE reviser' = NoReviser
      BY <1>b, <3>2 DEF NoReviser, Alive
    <3>3. CASE /\ reviser'.pc = "begin" /\ reviser'.rev \in Revision /\ ~Started(reviser'.rev)
               /\ \A q \in Revision : q < reviser'.rev => Started(q)
      BY <1>c, <2>2, <3>3
    <3> QED BY <1>2, <3>1, <3>2, <3>3, RequestReviser
  <2> QED BY <2>4, <2>5, <2>6 DEF StartedInv, Started
<1>3. CASE UNCHANGED revisionVars
  BY <1>3 DEF StartedInv, Started, Alive, revisionVars
<1> QED BY <1>1, <1>2, <1>3 DEF RevisionNext

\* Every step keeps the order of the names.
LEMMA NamesStep ==
  ASSUME Types, StartedInv, NamesInv, VersionsInv, [RevisionNext]_revisionVars
  PROVE  NamesInv'
<1>0. /\ reviser.rev \in RevOrNone /\ (reviser.pc = "none" <=> reviser.rev = None)
      /\ \A n \in Revision : pdfs[n].by \in RevOrNone
  BY DEF Types, FilesOk, ReviserOk, ReviserType, PdfType
<1>b. /\ \A r \in Revision : r \in Nat /\ r > 0
      /\ \A r \in RevOrNone : r \in Nat /\ (r # None => r > 0)
      /\ None = 0
  BY DEF Revision, None, RevOrNone
<1> DEFINE Names(p) ==
      /\ \E k \in 0 .. MaxRevisions : \A n \in Revision : p[n].by # None <=> n <= k
      /\ \A n, m \in Revision : m < n /\ p[n].by # None => p[m].by < p[n].by
      /\ \A n \in Revision : p[n].by # None => n <= p[n].by
<1>1. Names(pdfs)
  BY DEF NamesInv
<1>2. ASSUME \A n \in Revision : pdfs'[n].by = pdfs[n].by
      PROVE  Names(pdfs')
  BY <1>1, <1>2
<1>3. ASSUME CreatePdf
      PROVE  Names(pdfs')
  <2>1. /\ NextPath \in Revision /\ reviser.pc = "pdf" /\ reviser.rev \in Revision
        /\ pdfs'[NextPath].by = reviser.rev
        /\ \A n \in Revision : n # NextPath => pdfs'[n].by = pdfs[n].by
    BY <1>3, Created
  <2>2. \A n \in Revision : pdfs[n].by # None <=> n < NextPath
    BY <1>3, FreeName DEF CreatePdf
  <2>3. \A n \in Revision : pdfs[n].by < reviser.rev
    BY <2>1 DEF NamesInv, BeforePdf, ReviserPc, Writing
  <2>4. \A n \in Revision : pdfs'[n].by # None <=> n <= NextPath
    BY <1>b, <2>1, <2>2
  <2>5. \A n, m \in Revision : m < n /\ pdfs'[n].by # None => pdfs'[m].by < pdfs'[n].by
    <3> SUFFICES ASSUME NEW n \in Revision, NEW m \in Revision, m < n, pdfs'[n].by # None
                 PROVE  pdfs'[m].by < pdfs'[n].by
      OBVIOUS
    <3>1. m < NextPath /\ n <= NextPath
      BY <1>b, <2>1, <2>4
    <3>2. m # NextPath
      BY <1>b, <2>1, <3>1
    <3>3. CASE n = NextPath
      BY <2>1, <2>3, <3>2, <3>3
    <3>4. CASE n # NextPath
      BY <1>1, <2>1, <3>2, <3>4
    <3> QED BY <3>3, <3>4
  <2>6. \A n \in Revision : pdfs'[n].by # None => n <= pdfs'[n].by
    <3>1. NextPath <= reviser.rev
      <4>1. CASE NextPath = 1
        <5>1. reviser.rev \in Nat /\ reviser.rev > 0
          BY <1>b, <2>1
        <5> QED BY <4>1, <5>1
      <4>2. CASE NextPath # 1
        <5>1. NextPath - 1 \in Revision /\ NextPath - 1 < NextPath
          BY <2>1, <4>2, RevisionAssumption DEF Revision
        <5>2. NextPath - 1 <= pdfs[NextPath - 1].by
          BY <1>1, <2>2, <5>1
        <5>3. pdfs[NextPath - 1].by < reviser.rev /\ pdfs[NextPath - 1].by \in Nat
          BY <1>0, <1>b, <2>3, <5>1
        <5> QED BY <1>b, <2>1, <5>1, <5>2, <5>3
      <4> QED BY <4>1, <4>2
    <3> QED BY <1>1, <2>1, <3>1
  <2>7. NextPath \in 0 .. MaxRevisions
    BY <2>1, RevisionAssumption DEF Revision
  <2> QED BY <2>4, <2>5, <2>6, <2>7
<1>4. Names(pdfs')
  <2>1. CASE UNCHANGED pdfs
    BY <1>2, <2>1
  <2>2. CASE CompletePdf
    BY <1>2, <2>2, Completed
  <2> QED BY <1>3, <2>1, <2>2, ResultFrame, RequestFrame DEF RevisionNext, revisionVars
<1>5. reviser'.pc \in BeforePdf => \A n \in Revision : pdfs'[n].by < reviser'.rev
  <2> SUFFICES ASSUME reviser'.pc \in BeforePdf PROVE \A n \in Revision : pdfs'[n].by < reviser'.rev
    OBVIOUS
  <2>1. CASE ReviserNext
    <3>1. reviser' # NoReviser
      BY DEF NoReviser, BeforePdf
    <3>2. reviser'.rev = reviser.rev /\ reviser.pc \in BeforePdf
      BY <2>1, <3>1, ReviserStep DEF Moves, Steps, BeforePdf, ReviserPc, Writing
    <3>3. ~CreatePdf /\ ~CompletePdf
      BY Created, Completed DEF BeforePdf, ReviserPc, Writing
    <3> QED BY <2>1, <3>2, <3>3, ResultFrame DEF NamesInv
  <2>2. CASE PressNext \/ PollNext \/ RestartUi
    <3>1. UNCHANGED pdfs
      BY <2>2, RequestFrame
    <3>2. CASE UNCHANGED reviser
      BY <3>1, <3>2 DEF NamesInv
    <3>3. CASE reviser' = NoReviser
      BY <3>3 DEF NoReviser, BeforePdf
    <3>4. CASE reviser'.rev \in Revision /\ ~Started(reviser'.rev)
      <4> SUFFICES ASSUME NEW n \in Revision PROVE pdfs[n].by < reviser'.rev
        BY <3>1
      <4>1. CASE pdfs[n].by = None
        BY <1>b, <3>4, <4>1
      <4>2. CASE pdfs[n].by # None
        <5>1. pdfs[n].by \in Revision /\ Started(pdfs[n].by)
          BY <1>0, <4>2 DEF StartedInv, RevOrNone
        <5>2. ~(reviser'.rev < pdfs[n].by) /\ reviser'.rev # pdfs[n].by
          BY <3>4, <5>1 DEF StartedInv
        <5> QED BY <1>b, <3>4, <5>1, <5>2
      <4> QED BY <4>1, <4>2
    <3> QED BY <2>2, <3>2, <3>3, <3>4, RequestReviser
  <2>3. CASE UNCHANGED revisionVars
    BY <2>3 DEF revisionVars, NamesInv
  <2> QED BY <2>1, <2>2, <2>3 DEF RevisionNext
<1> QED BY <1>4, <1>5 DEF NamesInv

\* What the thread may do next.
LEMMA Turns ==
  ASSUME Types, ReviserNext
  PROVE  /\ reviser.pc # "none" /\ Alive
         /\ reviser.pc = "plan" => PlanReview \/ FailRevision
         /\ reviser.pc = "review" =>
              \/ EndReview \/ FailRevision
              \/ \E x \in Regions : TakeCached(x) \/ AskProvider(x)
              \/ \E x \in Regions, answer \in Answer : TakeAnswer(x, answer)
         /\ reviser.pc = "reviewed" => WriteContextual \/ FailRevision
         /\ reviser.pc = "pdf" => KeepPdf \/ CreatePdf \/ FailRevision
         /\ reviser.pc = "generate" => CompletePdf \/ FailRevision
         /\ reviser.pc = "record" => RecordVersion \/ FailRevision
<1>0. reviser.pc = "none" <=> reviser.rev = None
  BY DEF Types, ReviserOk
<1>1. CASE BeginRevision \/ PointLatest \/ StopRevision \/ ApplyChanges
  BY <1>0, <1>1 DEF BeginRevision, PointLatest, StopRevision, ApplyChanges, ReviserAt, Alive
<1>2. CASE PlanReview \/ EndReview \/ WriteContextual \/ KeepPdf \/ CreatePdf \/ CompletePdf
           \/ RecordVersion
  BY <1>0, <1>2 DEF PlanReview, EndReview, WriteContextual, KeepPdf, CreatePdf, CompletePdf,
                    RecordVersion, RecordFrom, ReviserAt, Alive
<1>3. CASE FailRevision
  BY <1>0, <1>3 DEF FailRevision, Alive
<1>4. CASE \E x \in Regions : TakeCached(x) \/ AskProvider(x)
  <2>1. reviser.pc = "review"
    BY <1>4 DEF TakeCached, AskProvider, ReviserAt
  <2> QED BY <1>0, <1>4, <2>1 DEF Alive
<1>5. CASE \E x \in Regions, answer \in Answer : TakeAnswer(x, answer)
  <2>1. reviser.pc = "review"
    BY <1>5 DEF TakeAnswer, ReviserAt
  <2> QED BY <1>0, <1>5, <2>1 DEF Alive
<1>6. CASE \E status \in Settled : FinishRevision(status)
  <2>1. reviser.pc = "finish"
    BY <1>6 DEF FinishRevision, ReviserAt
  <2> QED BY <1>0, <2>1 DEF Alive
<1> QED BY <1>1, <1>2, <1>3, <1>4, <1>5, <1>6 DEF ReviserNext

\* A thread that fails is gone.
LEMMA Fails == FailRevision => reviser' = NoReviser /\ UNCHANGED <<contextual, pdfs, versions>>
  BY DEF FailRevision, EndWith

\* Only a PDF that is being written is being written.
LEMMA OtherMoves ==
  ASSUME Types, NamesInv, ReviserNext, ~CreatePdf, ~CompletePdf
  PROVE  reviser'.pc \notin Writing
<1>0. reviser \in ReviserType
  BY DEF Types, ReviserOk
<1>1. CASE reviser' = NoReviser
  BY <1>1 DEF NoReviser, Writing
<1>2. CASE reviser.pc = "pdf"
  <2>1. CASE KeepPdf
    <3> DEFINE d == IF Changes = {} THEN None ELSE versions[Len(versions)].pdf
    <3>1. reviser' = [reviser EXCEPT !.pc = "finish", !.pdf = d]
      BY <2>1 DEF KeepPdf
    <3> HIDE DEF d
    <3>2. reviser'.pc = "finish"
      BY <1>0, <3>1 DEF ReviserType
    <3> QED BY <3>2 DEF Writing
  <2> QED BY <1>1, <1>2, <2>1, Turns, Fails
<1>3. CASE reviser.pc = "generate"
  BY <1>1, <1>3, Turns, Fails
<1>4. CASE Moves /\ reviser.pc \notin {"pdf", "generate"}
  BY <1>4 DEF Moves, Steps, Writing
<1> QED BY <1>1, <1>2, <1>3, <1>4, ReviserStep

\* The versions that are recorded stay whole.
LEMMA VersionsStep ==
  ASSUME Types, NamesInv, VersionsInv, [RevisionNext]_revisionVars
  PROVE  VersionsInv'
<1>0. /\ pdfs \in [Revision -> PdfType] /\ versions \in Seq([pdf : Revision, rev : Revision])
      /\ \A n \in Revision : pdfs[n].by \in RevOrNone
  BY DEF Types, FilesOk, PdfType
<1>a. \A i \in DOMAIN versions : versions[i].pdf \in Revision /\ versions[i].rev \in Revision
  <2>1. \A i \in 1 .. Len(versions) : versions[i] \in [pdf : Revision, rev : Revision]
    BY <1>0, ElementOfSeq
  <2>2. DOMAIN versions = 1 .. Len(versions)
    BY <1>0
  <2> QED BY <2>1, <2>2
<1>b. \A r \in Revision : r # None
  BY DEF Revision, None
<1>c. /\ \A i \in DOMAIN versions :
           /\ pdfs[versions[i].pdf].whole /\ pdfs[versions[i].pdf].by = versions[i].rev
           /\ \A j \in DOMAIN versions : versions[j].pdf = versions[i].pdf => i = j
      /\ \A n \in Revision : pdfs[n].whole => pdfs[n].by # None
  BY DEF VersionsInv
<1>1. CASE CreatePdf
  <2>1. /\ NextPath \in Revision /\ reviser.rev \in Revision
        /\ pdfs'[NextPath].by = reviser.rev /\ ~pdfs'[NextPath].whole
        /\ \A n \in Revision : n # NextPath => pdfs'[n] = pdfs[n]
        /\ reviser'.pc = "generate" /\ reviser'.rev = reviser.rev /\ reviser'.pdf = NextPath
    BY <1>1, Created
  <2>2. pdfs[NextPath].by = None
    <3>1. ~(NextPath < NextPath)
      BY <2>1 DEF Revision
    <3> QED BY <1>1, <2>1, <3>1, FreeName DEF CreatePdf
  <2>3. UNCHANGED versions
    BY <1>1 DEF CreatePdf
  <2>4. \A i \in DOMAIN versions : versions[i].pdf # NextPath
    BY <1>a, <1>b, <1>c, <2>2
  <2>5. \A i \in DOMAIN versions : pdfs'[versions[i].pdf] = pdfs[versions[i].pdf]
    BY <1>a, <2>1, <2>4
  <2>6. \A n \in Revision : pdfs'[n].whole => pdfs'[n].by # None
    BY <1>c, <2>1
  <2>7. NextPath # None
    BY <1>b, <2>1
  <2> QED BY <1>c, <2>1, <2>3, <2>4, <2>5, <2>6, <2>7 DEF VersionsInv
<1>2. CASE CompletePdf
  <2>1. /\ reviser.pdf \in Revision /\ reviser.pc = "generate"
        /\ pdfs'[reviser.pdf].whole
        /\ \A n \in Revision : pdfs'[n].by = pdfs[n].by
        /\ \A n \in Revision : n # reviser.pdf => pdfs'[n] = pdfs[n]
        /\ reviser'.pc = "record" /\ reviser'.rev = reviser.rev /\ reviser'.pdf = reviser.pdf
    BY <1>2, Completed
  <2>2. /\ pdfs[reviser.pdf].by = reviser.rev /\ reviser.pdf # None
        /\ \A i \in DOMAIN versions : versions[i].pdf # reviser.pdf
    BY <2>1 DEF VersionsInv, Writing
  <2>3. UNCHANGED versions
    BY <1>2 DEF CompletePdf
  <2>4. \A i \in DOMAIN versions : pdfs'[versions[i].pdf] = pdfs[versions[i].pdf]
    BY <1>a, <2>1, <2>2
  <2>5. reviser.rev # None
    BY <2>1 DEF Types, ReviserOk
  <2>6. \A n \in Revision : pdfs'[n].whole => pdfs'[n].by # None
    BY <1>c, <2>1, <2>2, <2>5
  <2> QED BY <1>c, <2>1, <2>2, <2>3, <2>4, <2>6 DEF VersionsInv
<1>3. CASE RecordVersion
  <2>1. /\ reviser.pdf \in Revision /\ reviser.pc = "record"
        /\ DOMAIN versions' = DOMAIN versions \union {Len(versions) + 1}
        /\ \A i \in DOMAIN versions : versions'[i] = versions[i]
        /\ Len(versions) + 1 \notin DOMAIN versions
        /\ versions'[Len(versions) + 1] = [pdf |-> reviser.pdf, rev |-> reviser.rev]
    BY <1>3, Recorded
  <2>2. /\ pdfs[reviser.pdf].by = reviser.rev /\ pdfs[reviser.pdf].whole
        /\ \A i \in DOMAIN versions : versions[i].pdf # reviser.pdf
    BY <2>1 DEF VersionsInv, Writing
  <2>3. UNCHANGED pdfs
    BY <1>3 DEF RecordVersion
  <2>4. ~CreatePdf /\ ~CompletePdf
    BY <2>1 DEF CreatePdf, CompletePdf, ReviserAt
  <2>5. ReviserNext
    BY <1>3 DEF ReviserNext
  <2>6. reviser'.pc \notin Writing
    BY <2>4, <2>5, OtherMoves
  <2> DEFINE last == Len(versions) + 1
  <2>7. versions'[last].pdf = reviser.pdf /\ versions'[last].rev = reviser.rev
    BY <2>1
  <2> HIDE DEF last
  <2>8. DOMAIN versions' = DOMAIN versions \union {last} /\ last \notin DOMAIN versions
    BY <2>1 DEF last
  <2>9. \A i \in DOMAIN versions' :
          /\ pdfs[versions'[i].pdf].whole /\ pdfs[versions'[i].pdf].by = versions'[i].rev
          /\ \A j \in DOMAIN versions' : versions'[j].pdf = versions'[i].pdf => i = j
    BY <1>c, <2>1, <2>2, <2>7, <2>8
  <2>10. reviser'.pc # "record"
    BY <2>6 DEF Writing
  <2> QED BY <1>c, <2>3, <2>6, <2>9, <2>10 DEF VersionsInv
<1>4. ASSUME UNCHANGED <<pdfs, versions>>, UNCHANGED reviser \/ reviser'.pc \notin Writing
      PROVE  VersionsInv'
  <2>1. CASE UNCHANGED reviser
    BY <1>4, <2>1 DEF VersionsInv
  <2>2. CASE reviser'.pc \notin Writing
    <3>1. reviser'.pc # "record"
      BY <2>2 DEF Writing
    <3> QED BY <1>c, <1>4, <2>2, <3>1 DEF VersionsInv
  <2> QED BY <1>4, <2>1, <2>2
<1>5. CASE ReviserNext /\ ~CreatePdf /\ ~CompletePdf /\ ~RecordVersion
  BY <1>4, <1>5, OtherMoves, ResultFrame
<1>6. CASE PressNext \/ PollNext \/ RestartUi
  <2>1. UNCHANGED <<pdfs, versions>>
    BY <1>6, RequestFrame
  <2>2. UNCHANGED reviser \/ reviser'.pc \notin Writing
    <3>1. reviser' = NoReviser => reviser'.pc \notin Writing
      BY DEF NoReviser, Writing
    <3>2. reviser'.pc = "begin" => reviser'.pc \notin Writing
      BY DEF Writing
    <3> QED BY <1>6, <3>1, <3>2, RequestReviser
  <2> QED BY <1>4, <2>1, <2>2
<1>7. CASE UNCHANGED revisionVars
  BY <1>4, <1>7 DEF revisionVars
<1> QED BY <1>1, <1>2, <1>3, <1>5, <1>6, <1>7 DEF RevisionNext

(***************************************************************************)
(* The review.                                                             *)
(***************************************************************************)

\* A region that is to do, under way or answered.
Covered == reviser.todo \union reviser.flight \union Answered(reviser.answers)
           \union Answered(reviser.carried)

\* No region is lost while the thread plans and reviews.
LEMMA CoveredStep ==
  ASSUME Types, ReviserNext,
         reviser.pc = "plan" \/ (reviser.pc = "review" /\ Regions \subseteq Covered)
  PROVE  /\ reviser' = NoReviser \/ Regions \subseteq Covered' \/ (EndReview /\ Cancelled)
         /\ reviser'.pc = "reviewed" /\ ~Cancelled =>
              Regions \subseteq Answered(reviser'.answers) \union Answered(reviser'.carried)
<1>0. /\ reviser \in ReviserType /\ cache \in [Regions -> Cacheable \union {"none"}]
      /\ reviser.answers \in Answers /\ (reviser.pc # "review" => reviser.flight = {})
  BY DEF Types, FilesOk, ReviserOk, ReviserType
<1>1. CASE reviser' = NoReviser
  BY <1>1 DEF NoReviser
<1>2. CASE PlanReview
  <2> DEFINE open == Regions \ Answered(reviser.carried)
             serial(l) == l = 1 \/ Cardinality(open) <= 1
             hits(l) == IF serial(l) THEN {} ELSE open \intersect Answered(cache)
             todo(l) == open \ hits(l)
             limit(l) == IF serial(l) THEN 1 ELSE l
             answers(l) == [x \in Regions |-> IF x \in hits(l) THEN cache[x] ELSE "none"]
  <2>1. PICK l \in Concurrency :
          reviser' = [reviser EXCEPT !.pc = "review", !.todo = todo(l), !.limit = limit(l),
                                     !.answers = answers(l)]
    BY <1>2 DEF PlanReview
  <2>2. \A x \in Regions : x \in todo(l) \union Answered(answers(l)) \union Answered(reviser.carried)
    <3> SUFFICES ASSUME NEW x \in Regions, x \notin todo(l), x \notin Answered(reviser.carried)
                 PROVE  x \in Answered(answers(l))
      OBVIOUS
    <3>1. x \in hits(l) /\ cache[x] # "none"
      BY DEF Answered
    <3>2. answers(l)[x] = cache[x]
      BY <3>1
    <3> HIDE DEF answers, hits, todo
    <3> QED BY <3>1, <3>2 DEF Answered
  <2> HIDE DEF todo, limit, answers
  <2>3. /\ reviser'.pc = "review" /\ reviser'.todo = todo(l) /\ reviser'.answers = answers(l)
        /\ reviser'.carried = reviser.carried
    BY <1>0, <2>1 DEF ReviserType
  <2> QED BY <2>2, <2>3 DEF Covered, Answered
<1>3. ASSUME NEW x \in Regions, TakeCached(x)
      PROVE  Regions \subseteq Covered' /\ reviser'.pc # "reviewed"
  <2> DEFINE a == [reviser.answers EXCEPT ![x] = cache[x]]
             t == reviser.todo \ {x}
  <2>1. /\ reviser' = [reviser EXCEPT !.answers = a, !.todo = t] /\ reviser.pc = "review"
        /\ cache[x] # "none"
    BY <1>3 DEF TakeCached, ReviserAt
  <2>2. Answered(a) = Answered(reviser.answers) \union {x} /\ t = reviser.todo \ {x}
    BY <1>0, <2>1 DEF Answered, Answers
  <2> HIDE DEF a, t
  <2>3. /\ reviser'.pc = "review" /\ reviser'.todo = t /\ reviser'.answers = a
        /\ reviser'.carried = reviser.carried /\ reviser'.flight = reviser.flight
    BY <1>0, <2>1 DEF ReviserType
  <2>4. Answered(reviser'.answers) = Answered(a) /\ Answered(reviser'.carried) = Answered(reviser.carried)
    BY <2>3
  <2> QED BY <2>1, <2>2, <2>3, <2>4 DEF Covered, Answered
<1>4. ASSUME NEW x \in Regions, AskProvider(x)
      PROVE  Regions \subseteq Covered' /\ reviser'.pc # "reviewed"
  <2> DEFINE t == reviser.todo \ {x}
             f == reviser.flight \union {x}
  <2>1. reviser' = [reviser EXCEPT !.todo = t, !.flight = f] /\ reviser.pc = "review"
    BY <1>4 DEF AskProvider, ReviserAt
  <2>2. t \union f = reviser.todo \union reviser.flight \union {x}
    OBVIOUS
  <2> HIDE DEF t, f
  <2>3. /\ reviser'.pc = "review" /\ reviser'.todo = t /\ reviser'.answers = reviser.answers
        /\ reviser'.carried = reviser.carried /\ reviser'.flight = f
    BY <1>0, <2>1 DEF ReviserType
  <2> QED BY <2>1, <2>2, <2>3 DEF Covered, Answered
<1>5. ASSUME NEW x \in Regions, NEW answer \in Answer, TakeAnswer(x, answer)
      PROVE  Regions \subseteq Covered' /\ reviser'.pc # "reviewed"
  <2> DEFINE a == [reviser.answers EXCEPT ![x] = answer]
             f == reviser.flight \ {x}
  <2>1. reviser' = [reviser EXCEPT !.answers = a, !.flight = f] /\ reviser.pc = "review"
    BY <1>5 DEF TakeAnswer, ReviserAt
  <2>2. answer # "none"
    BY DEF Answer
  <2>3. Answered(a) = Answered(reviser.answers) \union {x} /\ f = reviser.flight \ {x}
    BY <1>0, <2>2 DEF Answered, Answers
  <2> HIDE DEF a, f
  <2>4. /\ reviser'.pc = "review" /\ reviser'.todo = reviser.todo /\ reviser'.answers = a
        /\ reviser'.carried = reviser.carried /\ reviser'.flight = f
    BY <1>0, <2>1 DEF ReviserType
  <2>5. Answered(reviser'.answers) = Answered(a) /\ Answered(reviser'.carried) = Answered(reviser.carried)
    BY <2>4
  <2> QED BY <2>1, <2>3, <2>4, <2>5 DEF Covered, Answered
<1>6. CASE EndReview
  <2> DEFINE b == Serial /\ reviser.todo # {}
  <2>1. /\ reviser' = [reviser EXCEPT !.pc = "reviewed", !.stopped = b, !.todo = {}]
        /\ reviser.flight = {} /\ (reviser.todo = {} \/ Cancelled) /\ reviser.pc = "review"
    BY <1>6 DEF EndReview, ReviserAt
  <2> HIDE DEF b
  <2>2. /\ reviser'.todo = {} /\ reviser'.flight = {} /\ reviser'.answers = reviser.answers
        /\ reviser'.carried = reviser.carried
    BY <1>0, <2>1 DEF ReviserType
  <2>3. CASE Cancelled
    BY <1>6, <2>3
  <2>4. CASE reviser.todo = {}
    BY <2>1, <2>2, <2>4 DEF Covered, Answered
  <2> QED BY <2>1, <2>3, <2>4
<1>7. CASE FailRevision
  BY <1>1, <1>7, Fails
<1>8. reviser.pc = "plan" => PlanReview \/ FailRevision
  BY Turns
<1>9. reviser.pc = "review" => \/ EndReview \/ FailRevision
                               \/ \E x \in Regions : TakeCached(x) \/ AskProvider(x)
                               \/ \E x \in Regions, answer \in Answer : TakeAnswer(x, answer)
  BY Turns
<1> QED BY <1>2, <1>3, <1>4, <1>5, <1>6, <1>7, <1>8, <1>9

\* Every step keeps what is known of the answers.
LEMMA ReviewStep ==
  ASSUME Types, StartedInv, NamesInv, ReviewInv, [RevisionNext]_revisionVars
  PROVE  ReviewInv'
<1>0. /\ manifest \in [Revision -> ManifestRecord] /\ contextual \in [Revision -> Answers]
      /\ (Alive => reviser.rev \in Revision) /\ (reviser.pc = "none" <=> reviser.rev = None)
      /\ reviser.answers \in Answers /\ reviser.carried \in Answers
  BY DEF Types, FilesOk, ReviserOk, ReviserType, Alive, RevOrNone
<1>a. /\ (Alive => manifest[reviser.rev].status \notin Settled)
      /\ (reviser.pc = "review" => Regions \subseteq Covered)
      /\ (reviser.pc = "reviewed" /\ ~Cancelled =>
            Regions \subseteq Answered(reviser.answers) \union Answered(reviser.carried))
      /\ (reviser.pc \in Reviewed /\ ~Cancelled => Answered(contextual[reviser.rev]) = Regions)
      /\ EndedIsComplete
  BY DEF ReviewInv, Covered
<1>1. CASE ReviserNext
  <2>0. UNCHANGED cancels
    BY <1>1, ReviserFrame
  <2>1. Alive
    BY <1>1, Turns
  <2>2. reviser' = NoReviser \/ (reviser' # NoReviser /\ Moves)
    BY <1>1, ReviserStep
  <2>3. Alive' => manifest'[reviser'.rev].status \notin Settled
    <3>1. CASE reviser' = NoReviser
      BY <3>1 DEF NoReviser, Alive
    <3>2. CASE Moves /\ reviser' # NoReviser
      <4>1. CASE UNCHANGED manifest
        BY <1>a, <2>1, <3>2, <4>1 DEF Moves
      <4>2. CASE OwnWrite
        <5>1. PICK m \in ManifestRecord :
                /\ manifest' = [manifest EXCEPT ![reviser.rev] = m]
                /\ m.status \in Settled => FinishRevision(m.status)
          BY <4>2 DEF OwnWrite
        <5>2. m.status \notin Settled
          BY <3>2, <5>1 DEF FinishRevision
        <5> QED BY <1>0, <2>1, <3>2, <5>1, <5>2 DEF Moves
      <4> QED BY <1>1, <4>1, <4>2, ReviserWrites
    <3> QED BY <2>2, <3>1, <3>2
  <2>4. reviser'.pc = "review" => Regions \subseteq Covered'
    <3> SUFFICES ASSUME reviser'.pc = "review" PROVE Regions \subseteq Covered'
      OBVIOUS
    <3>1. reviser' # NoReviser
      BY DEF NoReviser
    <3>2. reviser.pc \in {"plan", "review"}
      BY <2>2, <3>1 DEF Moves, Steps
    <3>3. ~EndReview
      <4>1. reviser \in ReviserType
        BY DEF Types, ReviserOk
      <4> SUFFICES ASSUME EndReview PROVE FALSE
        OBVIOUS
      <4> DEFINE b == Serial /\ reviser.todo # {}
      <4>2. reviser' = [reviser EXCEPT !.pc = "reviewed", !.stopped = b, !.todo = {}]
        BY DEF EndReview
      <4> HIDE DEF b
      <4> QED BY <4>1, <4>2 DEF ReviserType
    <3> QED BY <1>1, <1>a, <3>1, <3>2, <3>3, CoveredStep
  <2>5. reviser'.pc = "reviewed" /\ ~Cancelled' =>
          Regions \subseteq Answered(reviser'.answers) \union Answered(reviser'.carried)
    <3> SUFFICES ASSUME reviser'.pc = "reviewed", ~Cancelled'
                 PROVE  Regions \subseteq Answered(reviser'.answers) \union Answered(reviser'.carried)
      OBVIOUS
    <3>1. reviser' # NoReviser
      BY DEF NoReviser
    <3>2. reviser.pc = "review" /\ ~Cancelled
      BY <2>0, <2>2, <3>1 DEF Moves, Steps, Cancelled
    <3> QED BY <1>1, <1>a, <3>2, CoveredStep
  <2>6. reviser'.pc \in Reviewed /\ ~Cancelled' => Answered(contextual'[reviser'.rev]) = Regions
    <3> SUFFICES ASSUME reviser'.pc \in Reviewed, ~Cancelled'
                 PROVE  Answered(contextual'[reviser'.rev]) = Regions
      OBVIOUS
    <3>1. reviser' # NoReviser
      BY DEF NoReviser, Reviewed
    <3>2. /\ reviser'.rev = reviser.rev /\ ~Cancelled
          /\ reviser.pc \in Reviewed \union {"reviewed"}
      BY <2>0, <2>2, <3>1 DEF Moves, Steps, Cancelled, Reviewed
    <3>3. CASE WriteContextual
      <4>1. contextual'[reviser.rev] = AllReviews /\ reviser.pc = "reviewed"
        BY <1>0, <2>1, <3>3 DEF WriteContextual, ReviserAt
      <4>2. Regions \subseteq Answered(reviser.answers) \union Answered(reviser.carried)
        BY <1>a, <3>2, <4>1
      <4>3. Answered(AllReviews) = Regions
        BY <4>2 DEF AllReviews, Answered
      <4> QED BY <3>2, <4>1, <4>3
    <3>4. CASE ~WriteContextual
      <4>1. reviser.pc \in Reviewed
        BY <1>1, <3>1, <3>2, <3>4, Turns, Fails
      <4> QED BY <1>1, <1>a, <3>2, <3>4, <4>1, ResultFrame
    <3> QED BY <3>3, <3>4
  <2>7. EndedIsComplete'
    <3> SUFFICES ASSUME NEW r \in Revision, r \notin cancels', manifest'[r].status \in Settled
                 PROVE  Answered(contextual'[r]) = Regions
      BY DEF EndedIsComplete
    <3>1. CASE r # reviser.rev
      <4>1. manifest'[r] = manifest[r]
        BY <1>0, <1>1, <2>1, <3>1, ReviserWrites DEF OwnWrite
      <4>2. contextual'[r] = contextual[r]
        BY <1>0, <1>1, <3>1, ResultFrame DEF WriteContextual
      <4> QED BY <1>a, <2>0, <4>1, <4>2 DEF EndedIsComplete
    <3>2. CASE r = reviser.rev
      <4>1. manifest[r].status \notin Settled
        BY <1>a, <2>1, <3>2
      <4>2. OwnWrite
        BY <1>1, <4>1, ReviserWrites
      <4>3. PICK m \in ManifestRecord :
              /\ manifest' = [manifest EXCEPT ![reviser.rev] = m]
              /\ m.status \in Settled => FinishRevision(m.status)
        BY <4>2 DEF OwnWrite
      <4>4. FinishRevision(m.status)
        BY <1>0, <3>2, <4>3
      <4>5. reviser.pc = "finish" /\ UNCHANGED contextual
        BY <4>4 DEF FinishRevision, ReviserAt
      <4> QED BY <1>a, <2>0, <3>2, <4>5 DEF Reviewed, Cancelled
    <3> QED BY <3>1, <3>2
  <2> QED BY <2>3, <2>4, <2>5, <2>6, <2>7 DEF ReviewInv, Covered
<1>2. CASE PressNext \/ PollNext \/ RestartUi
  <2>1. UNCHANGED contextual
    BY <1>2, RequestFrame
  <2>2. cancels \subseteq cancels'
    BY <1>2, PollFrame
       DEF PressNext, CancelRequest, MarkReads, MarkWrites, SettleLost, StartRequest, RestartUi
  <2>3. \A r \in Revision : manifest'[r].status \in Settled => manifest[r].status \in Settled
    <3>1. CASE RequestWrite
      <4>1. PICK q \in Revision, m \in ManifestRecord :
              manifest' = [manifest EXCEPT ![q] = m] /\ m.status \in {"cancelling", "interrupted"}
        BY <3>1 DEF RequestWrite
      <4>2. m.status \notin Settled
        BY <4>1 DEF Settled
      <4> QED BY <1>0, <4>1, <4>2
    <3> QED BY <1>2, <3>1, RequestWrites
  <2>4. EndedIsComplete'
    BY <1>a, <2>1, <2>2, <2>3 DEF EndedIsComplete
  <2>5. CASE UNCHANGED reviser
    <3>1. ~Cancelled' => ~Cancelled
      BY <2>2, <2>5 DEF Cancelled
    <3>2. Alive' => manifest'[reviser'.rev].status \notin Settled
      BY <1>0, <1>a, <2>3, <2>5 DEF Alive
    <3> QED BY <1>a, <2>1, <2>4, <2>5, <3>1, <3>2 DEF ReviewInv, Covered, Answered
  <2>6. CASE reviser' = NoReviser
    <3>1. reviser'.pc = "none" /\ reviser'.rev = None
      BY <2>6 DEF NoReviser
    <3> QED BY <2>4, <3>1 DEF ReviewInv, Alive, Reviewed
  <2>7. CASE reviser'.pc = "begin" /\ reviser'.rev \in Revision /\ ~Started(reviser'.rev)
    <3>1. manifest[reviser'.rev].status \notin Settled
      BY <2>7 DEF Started, Settled
    <3>2. manifest'[reviser'.rev].status \notin Settled
      BY <2>3, <2>7, <3>1
    <3> QED BY <2>4, <2>7, <3>2 DEF ReviewInv, Reviewed
  <2> QED BY <1>2, <2>5, <2>6, <2>7, RequestReviser
<1>3. CASE UNCHANGED revisionVars
  <2>1. UNCHANGED <<manifest, contextual, cancels, reviser>>
    BY <1>3 DEF revisionVars
  <2> QED BY <1>a, <2>1 DEF ReviewInv, Covered, Answered, Cancelled, Alive, EndedIsComplete
<1> QED BY <1>1, <1>2, <1>3 DEF RevisionNext

(***************************************************************************)
(* The PDF an ended revision names.                                        *)
(***************************************************************************)

\* A whole PDF stays as it is.
LEMMA WholeStays ==
  ASSUME Types, NamesInv, VersionsInv, [RevisionNext]_revisionVars,
         NEW n \in Revision, pdfs[n].whole
  PROVE  pdfs'[n].whole /\ pdfs'[n].changes = pdfs[n].changes
<1>1. CASE CreatePdf
  <2>1. NextPath \in Revision /\ \A m \in Revision : m # NextPath => pdfs'[m] = pdfs[m]
    BY <1>1, Created
  <2>2. n # NextPath
    <3>1. pdfs[n].by # None
      BY DEF VersionsInv
    <3>2. n < NextPath
      BY <1>1, <3>1, FreeName DEF CreatePdf
    <3> QED BY <3>2 DEF Revision
  <2> QED BY <2>1, <2>2
<1>2. CASE CompletePdf
  <2>1. /\ pdfs'[reviser.pdf].whole /\ \A m \in Revision : pdfs'[m].changes = pdfs[m].changes
        /\ \A m \in Revision : m # reviser.pdf => pdfs'[m] = pdfs[m]
    BY <1>2, Completed
  <2> QED BY <2>1
<1>3. CASE UNCHANGED pdfs
  BY <1>3
<1> QED BY <1>1, <1>2, <1>3, ResultFrame, RequestFrame DEF RevisionNext, revisionVars

\* Every step keeps the PDF at hand and the ones that are named.
LEMMA PdfStep ==
  ASSUME Types, StartedInv, NamesInv, VersionsInv, ReviewInv, PdfInv, [RevisionNext]_revisionVars
  PROVE  PdfInv'
<1>0. /\ manifest \in [Revision -> ManifestRecord] /\ contextual \in [Revision -> Answers]
      /\ reviser \in ReviserType /\ (Alive => reviser.rev \in Revision)
      /\ versions \in Seq([pdf : Revision, rev : Revision])
  BY DEF Types, FilesOk, ReviserOk, ReviserType, Alive, RevOrNone
<1>a. \A r \in Revision : r # None
  BY DEF Revision, None
<1>b. \A n \in Revision : pdfs[n].whole =>
        pdfs'[n].whole /\ pdfs'[n].changes = pdfs[n].changes
  BY WholeStays
<1>c. /\ (reviser.pc \in Writing => pdfs[reviser.pdf].changes = Changes)
      /\ (reviser.pc = "finish" /\ Changes # {} =>
            /\ reviser.pdf # None /\ pdfs[reviser.pdf].whole
            /\ pdfs[reviser.pdf].changes = Changes)
      /\ NamedPdfMatches
  BY DEF PdfInv
<1>d. \A r \in Revision : manifest[r].pdf # None => manifest[r].pdf \in Revision
  BY <1>0 DEF ManifestRecord
<1>1. ASSUME NEW r \in Revision, manifest'[r] = manifest[r], contextual'[r] = contextual[r],
             manifest'[r].status \in Settled, Rewritten(contextual'[r]) # {}
      PROVE  LET n == manifest'[r].pdf IN
             n # None /\ pdfs'[n].whole /\ pdfs'[n].changes = Rewritten(contextual'[r])
  <2> DEFINE n == manifest[r].pdf
  <2>1. n # None /\ pdfs[n].whole /\ pdfs[n].changes = Rewritten(contextual[r])
    BY <1>c, <1>1 DEF NamedPdfMatches, Rewritten
  <2>2. n \in Revision
    BY <1>d, <2>1
  <2>3. pdfs'[n].whole /\ pdfs'[n].changes = pdfs[n].changes
    BY <1>b, <2>1, <2>2
  <2> QED BY <1>1, <2>1, <2>3 DEF Rewritten
<1>2. CASE ReviserNext
  <2>1. Alive /\ reviser.rev \in Revision
    BY <1>0, <1>2, Turns
  <2>2. reviser.pc # "reviewed" => UNCHANGED contextual
    BY <1>2, ResultFrame DEF WriteContextual, ReviserAt
  <2>3. reviser'.pc \in Writing => pdfs'[reviser'.pdf].changes = Changes'
    <3> SUFFICES ASSUME reviser'.pc \in Writing PROVE pdfs'[reviser'.pdf].changes = Changes'
      OBVIOUS
    <3>1. CASE CreatePdf
      <4>1. /\ pdfs'[NextPath] = [by |-> reviser.rev, whole |-> FALSE, changes |-> Changes]
            /\ reviser'.pdf = NextPath /\ reviser'.rev = reviser.rev
        BY <3>1, Created
      <4>2. UNCHANGED contextual
        BY <3>1 DEF CreatePdf
      <4>3. pdfs'[NextPath].changes = Changes
        BY <4>1
      <4> QED BY <4>1, <4>2, <4>3 DEF Changes, Rewritten
    <3>2. CASE CompletePdf
      <4>1. /\ reviser.pdf \in Revision /\ reviser.pc = "generate"
            /\ \A n \in Revision : pdfs'[n].changes = pdfs[n].changes
            /\ reviser'.pdf = reviser.pdf /\ reviser'.rev = reviser.rev
        BY <3>2, Completed
      <4>2. UNCHANGED contextual
        BY <3>2 DEF CompletePdf
      <4> QED BY <1>c, <4>1, <4>2 DEF Changes, Rewritten, Writing
    <3> QED BY <1>2, <3>1, <3>2, OtherMoves
  <2>4. reviser'.pc = "finish" /\ Changes' # {} =>
          /\ reviser'.pdf # None /\ pdfs'[reviser'.pdf].whole
          /\ pdfs'[reviser'.pdf].changes = Changes'
    <3> SUFFICES ASSUME reviser'.pc = "finish", Changes' # {}
                 PROVE  /\ reviser'.pdf # None /\ pdfs'[reviser'.pdf].whole
                        /\ pdfs'[reviser'.pdf].changes = Changes'
      OBVIOUS
    <3>1. reviser' # NoReviser
      BY DEF NoReviser
    <3>2. reviser.pc \in {"pdf", "record"} /\ reviser'.rev = reviser.rev
      BY <1>2, <3>1, ReviserStep DEF Moves, Steps
    <3>3. UNCHANGED contextual
      BY <2>2, <3>2
    <3>4. Changes' = Changes /\ Changes # {}
      BY <3>2, <3>3 DEF Changes, Rewritten
    <3>5. CASE reviser.pc = "pdf"
      <4>1. KeepPdf
        <5>1. ~CreatePdf
          BY Created
        <5> QED BY <1>2, <3>1, <3>5, <5>1, Turns, Fails
      <4>2. Equivalent /\ UNCHANGED pdfs
        BY <3>4, <4>1 DEF KeepPdf
      <4> DEFINE d == versions[Len(versions)].pdf
      <4>3. reviser' = [reviser EXCEPT !.pc = "finish", !.pdf = d]
        BY <3>4, <4>1 DEF KeepPdf
      <4>4. Len(versions) \in 1 .. Len(versions) /\ DOMAIN versions = 1 .. Len(versions)
        BY <1>0, <4>2 DEF Equivalent
      <4>5. d \in Revision
        <5>1. versions[Len(versions)] \in [pdf : Revision, rev : Revision]
          BY <1>0, <4>4, ElementOfSeq
        <5> QED BY <5>1
      <4>6. pdfs[d].whole /\ pdfs[d].changes = Changes
        BY <4>2, <4>4 DEF VersionsInv, Equivalent
      <4> HIDE DEF d
      <4>7. reviser'.pdf = d
        BY <1>0, <4>3 DEF ReviserType
      <4> QED BY <1>a, <3>4, <4>2, <4>5, <4>6, <4>7
    <3>6. CASE reviser.pc = "record"
      <4>1. RecordVersion
        BY <1>2, <3>1, <3>6, Turns, Fails
      <4>2. reviser' = [reviser EXCEPT !.pc = "finish"] /\ UNCHANGED pdfs
        BY <4>1 DEF RecordVersion
      <4>3. reviser'.pdf = reviser.pdf
        BY <1>0, <4>2 DEF ReviserType
      <4>4. reviser.pdf # None /\ pdfs[reviser.pdf].whole /\ pdfs[reviser.pdf].changes = Changes
        BY <1>c, <3>6 DEF VersionsInv, Writing
      <4> QED BY <3>4, <4>2, <4>3, <4>4
    <3> QED BY <3>2, <3>5, <3>6
  <2>5. NamedPdfMatches'
    <3> SUFFICES ASSUME NEW r \in Revision, manifest'[r].status \in Settled,
                        Rewritten(contextual'[r]) # {}
                 PROVE  LET n == manifest'[r].pdf IN
                        n # None /\ pdfs'[n].whole /\ pdfs'[n].changes = Rewritten(contextual'[r])
      BY DEF NamedPdfMatches, Rewritten
    <3>1. CASE r # reviser.rev
      <4>1. manifest'[r] = manifest[r]
        BY <1>0, <1>2, <2>1, <3>1, ReviserWrites DEF OwnWrite
      <4>2. contextual'[r] = contextual[r]
        BY <1>0, <1>2, <3>1, ResultFrame DEF WriteContextual
      <4> QED BY <1>1, <4>1, <4>2
    <3>2. CASE r = reviser.rev
      <4>1. manifest[r].status \notin Settled
        BY <2>1, <3>2 DEF ReviewInv
      <4>2. OwnWrite
        BY <1>2, <4>1, ReviserWrites
      <4>3. PICK m \in ManifestRecord :
              /\ manifest' = [manifest EXCEPT ![reviser.rev] = m]
              /\ m.status \in Settled => FinishRevision(m.status) /\ m.pdf = reviser.pdf
        BY <4>2 DEF OwnWrite
      <4>4. manifest'[r] = m /\ FinishRevision(m.status) /\ m.pdf = reviser.pdf
        BY <1>0, <3>2, <4>3
      <4>5. reviser.pc = "finish" /\ UNCHANGED contextual /\ UNCHANGED pdfs
        BY <4>4 DEF FinishRevision, ReviserAt
      <4>6. Rewritten(contextual'[r]) = Changes
        BY <3>2, <4>5 DEF Changes, Rewritten
      <4> QED BY <1>c, <4>4, <4>5, <4>6
    <3> QED BY <3>1, <3>2
  <2> QED BY <2>3, <2>4, <2>5 DEF PdfInv
<1>3. CASE PressNext \/ PollNext \/ RestartUi
  <2>1. UNCHANGED contextual /\ UNCHANGED pdfs
    BY <1>3, RequestFrame
  <2>2. \A r \in Revision : manifest'[r].status \in Settled => manifest'[r] = manifest[r]
    <3>1. CASE RequestWrite
      <4>1. PICK q \in Revision, m \in ManifestRecord :
              manifest' = [manifest EXCEPT ![q] = m] /\ m.status \in {"cancelling", "interrupted"}
        BY <3>1 DEF RequestWrite
      <4>2. m.status \notin Settled
        BY <4>1 DEF Settled
      <4> QED BY <1>0, <4>1, <4>2
    <3> QED BY <1>3, <3>1, RequestWrites
  <2>3. NamedPdfMatches'
    <3> SUFFICES ASSUME NEW r \in Revision, manifest'[r].status \in Settled,
                        Rewritten(contextual'[r]) # {}
                 PROVE  LET n == manifest'[r].pdf IN
                        n # None /\ pdfs'[n].whole /\ pdfs'[n].changes = Rewritten(contextual'[r])
      BY DEF NamedPdfMatches, Rewritten
    <3> QED BY <1>1, <2>1, <2>2
  <2>4. UNCHANGED reviser \/ reviser'.pc \in {"none", "begin"}
    BY <1>3, RequestReviser DEF NoReviser
  <2>5. CASE UNCHANGED reviser
    BY <1>c, <2>1, <2>3, <2>5 DEF PdfInv, Changes, Rewritten
  <2>6. CASE reviser'.pc \in {"none", "begin"}
    BY <2>3, <2>6 DEF PdfInv, Writing
  <2> QED BY <2>4, <2>5, <2>6
<1>4. CASE UNCHANGED revisionVars
  <2>1. UNCHANGED <<manifest, contextual, pdfs, reviser>>
    BY <1>4 DEF revisionVars
  <2> QED BY <1>c, <2>1 DEF PdfInv, NamedPdfMatches, Changes, Rewritten
<1> QED BY <1>2, <1>3, <1>4 DEF RevisionNext

(***************************************************************************)
(* The poll.                                                               *)
(***************************************************************************)

\* Every step keeps what a quiet poll has yet to look at.
LEMMA SweepStep ==
  ASSUME Types, SweepInv, [RevisionNext]_revisionVars
  PROVE  SweepInv'
<1>0. /\ manifest \in [Revision -> ManifestRecord] /\ poll \in PollType /\ press \in PressType
      /\ (reviser.pc = "none" <=> reviser.rev = None)
      /\ (poll.pc = "marking" => poll.rev \in Revision)
  BY DEF Types, FilesOk, RequestsOk, ReviserOk, PollType, RevOrNone
<1>1. poll'.quiet = FALSE => SweepInv'
  BY DEF SweepInv
<1>2. poll.quiet =>
        /\ ~Alive /\ press.pc = "none"
        /\ \A r \in Revision : manifest[r].status \in RevisionInFlight =>
             r \in poll.todo \/ (poll.pc = "marking" /\ poll.rev = r)
  BY DEF SweepInv
<1>3. CASE ReviserNext
  <2>1. UNCHANGED poll /\ Alive
    BY <1>3, ReviserFrame, Turns
  <2> QED BY <1>2, <2>1 DEF SweepInv
<1>4. CASE PressNext
  <2>1. CASE MarkReads \/ MarkWrites \/ SettleLost
    <3>1. UNCHANGED poll /\ press.pc # "none"
      BY <2>1 DEF MarkReads, MarkWrites, SettleLost
    <3> QED BY <1>2, <3>1 DEF SweepInv
  <2>2. CASE CancelRequest \/ \E r \in Revision : StartRequest(r)
    <3>1. poll' = [poll EXCEPT !.quiet = FALSE]
      BY <2>2 DEF CancelRequest, StartRequest
    <3>2. poll'.quiet = FALSE
      BY <1>0, <3>1 DEF PollType
    <3> QED BY <1>1, <3>2
  <2> QED BY <1>4, <2>1, <2>2 DEF PressNext
<1>5. CASE PollNext
  <2>0. UNCHANGED reviser /\ UNCHANGED press
    BY <1>5, PollFrame
  <2>1. CASE PollReads
    <3>1. poll' = [NoPoll EXCEPT !.pc = "alive", !.rev = newest,
                                 !.lost = manifest[newest].status \in RevisionInFlight]
      BY <2>1 DEF PollReads
    <3>2. poll'.quiet = FALSE
      BY <3>1 DEF NoPoll
    <3> QED BY <1>1, <3>2
  <2>2. CASE PollChecks
    <3> DEFINE pc == IF ~Alive /\ poll.lost THEN "mark" ELSE "sweep"
               todo == SweepOf(IF Alive THEN poll.rev ELSE None)
               quiet == ~Alive /\ press.pc = "none"
    <3>1. poll' = [poll EXCEPT !.pc = pc, !.rev = None, !.lost = FALSE, !.todo = todo,
                               !.quiet = quiet]
      BY <2>2 DEF PollChecks
    <3>2. quiet => todo = Revision
      BY DEF SweepOf, Revision, None
    <3>3. quiet <=> ~Alive /\ press.pc = "none"
      OBVIOUS
    <3> HIDE DEF pc, todo, quiet
    <3>4. poll'.todo = todo /\ poll'.quiet = quiet
      BY <1>0, <3>1 DEF PollType
    <3> QED BY <2>0, <3>2, <3>3, <3>4 DEF SweepInv, Alive
  <2>3. CASE PollMarks
    <3>1. UNCHANGED manifest /\ poll.pc = "mark"
      BY <2>3 DEF PollMarks, PollOnly
    <3>2. poll'.todo = poll.todo /\ poll'.quiet = poll.quiet
      <4>1. CASE manifest[newest].status \in RevisionInFlight
        <5>1. poll' = [poll EXCEPT !.pc = "marking", !.rev = newest, !.pdf = manifest[newest].pdf]
          BY <2>3, <4>1 DEF PollMarks
        <5> QED BY <1>0, <5>1 DEF PollType
      <4>2. CASE manifest[newest].status \notin RevisionInFlight
        <5>1. poll' = [poll EXCEPT !.pc = "sweep"]
          BY <2>3, <4>2 DEF PollMarks
        <5> QED BY <1>0, <5>1 DEF PollType
      <4> QED BY <4>1, <4>2
    <3> QED BY <1>2, <2>0, <3>1, <3>2 DEF SweepInv, Alive
  <2>4. ASSUME NEW r \in Revision, SweepReads(r)
        PROVE  SweepInv'
    <3> DEFINE todo == poll.todo \ {r}
    <3>1. UNCHANGED manifest /\ poll.pc = "sweep"
      BY <2>4 DEF SweepReads, PollOnly
    <3>2. CASE manifest[r].status \in RevisionInFlight
      <4>1. poll' = [poll EXCEPT !.pc = "marking", !.rev = r, !.pdf = manifest[r].pdf,
                                 !.todo = todo]
        BY <2>4, <3>2 DEF SweepReads
      <4>2. todo = poll.todo \ {r}
        OBVIOUS
      <4> HIDE DEF todo
      <4>3. /\ poll'.pc = "marking" /\ poll'.rev = r /\ poll'.todo = todo
            /\ poll'.quiet = poll.quiet
        BY <1>0, <4>1 DEF PollType
      <4> QED BY <1>2, <2>0, <3>1, <4>2, <4>3 DEF SweepInv, Alive
    <3>3. CASE manifest[r].status \notin RevisionInFlight
      <4>1. poll' = [poll EXCEPT !.todo = todo]
        BY <2>4, <3>3 DEF SweepReads
      <4>2. todo = poll.todo \ {r}
        OBVIOUS
      <4> HIDE DEF todo
      <4>3. poll'.pc = "sweep" /\ poll'.todo = todo /\ poll'.quiet = poll.quiet
        BY <1>0, <3>1, <4>1 DEF PollType
      <4> QED BY <1>2, <2>0, <3>1, <3>3, <4>2, <4>3 DEF SweepInv, Alive
    <3> QED BY <3>2, <3>3
  <2>5. CASE PollWrites
    <3>1. poll' = [poll EXCEPT !.pc = "sweep", !.rev = None, !.pdf = None]
          /\ poll.pc = "marking"
      BY <2>5 DEF PollWrites
    <3>2. poll'.pc = "sweep" /\ poll'.todo = poll.todo /\ poll'.quiet = poll.quiet
      BY <1>0, <3>1 DEF PollType
    <3> DEFINE m == [status |-> "interrupted", pdf |-> poll.pdf]
    <3>3. manifest' = [manifest EXCEPT ![poll.rev] = m] /\ m.status \notin RevisionInFlight
      BY <2>5 DEF PollWrites, RevisionInFlight
    <3> HIDE DEF m
    <3>4. \A r \in Revision : manifest'[r].status \in RevisionInFlight =>
            r # poll.rev /\ manifest'[r] = manifest[r]
      BY <1>0, <3>1, <3>3
    <3> QED BY <1>2, <2>0, <3>2, <3>4 DEF SweepInv, Alive
  <2>6. CASE PollAnswers
    BY <1>1, <2>6 DEF PollAnswers, NoPoll
  <2> QED BY <1>5, <2>1, <2>2, <2>3, <2>4, <2>5, <2>6 DEF PollNext
<1>6. CASE RestartUi
  BY <1>1, <1>6 DEF RestartUi, NoPoll
<1>7. CASE UNCHANGED revisionVars
  <2>1. UNCHANGED <<manifest, reviser, press, poll>>
    BY <1>7 DEF revisionVars
  <2> QED BY <1>2, <2>1 DEF SweepInv, Alive
<1> QED BY <1>3, <1>4, <1>5, <1>6, <1>7 DEF RevisionNext

(***************************************************************************)
(* The theorems.                                                           *)
(***************************************************************************)

\* There is no revision at first.
LEMMA RevInit == RevisionInit => RevInv
<1> SUFFICES ASSUME RevisionInit PROVE RevInv
  OBVIOUS
<1> USE RevisionAssumption
<1>1. Unanswered \in Answers
  BY DEF Unanswered, Answers
<1>2. NoManifest \in ManifestRecord /\ NoManifest.status = "none"
  BY DEF NoManifest, ManifestRecord
<1>3. NoPdf \in PdfType /\ NoPdf.by = None /\ NoPdf.whole = FALSE
  BY DEF NoPdf, PdfType, RevOrNone
<1>4. /\ manifest \in [Revision -> ManifestRecord]
      /\ \A r \in Revision : manifest[r].status = "none"
  BY <1>2 DEF RevisionInit
<1>5. pdfs \in [Revision -> PdfType] /\ \A n \in Revision : pdfs[n].by = None /\ ~pdfs[n].whole
  BY <1>3 DEF RevisionInit
<1>6. FilesOk
  <2>1. /\ newest \in RevOrNone /\ checkpoint \in Answers /\ contextual \in [Revision -> Answers]
        /\ versions \in Seq([pdf : Revision, rev : Revision])
        /\ cancels \subseteq Revision /\ restarts \in 0 .. MaxRestarts
    BY <1>1 DEF RevisionInit, RevOrNone
  <2>2. cache \in [Regions -> Cacheable \union {"none"}]
    BY DEF RevisionInit, Unanswered
  <2> QED BY <1>4, <1>5, <2>1, <2>2 DEF FilesOk
<1>7. /\ reviser = NoReviser /\ reviser.pc = "none" /\ reviser.rev = None
      /\ reviser \in ReviserType /\ reviser.limit = 1 /\ reviser.flight = {} /\ reviser.todo = {}
  BY NoReviserOk DEF RevisionInit, NoReviser
<1>8. ReviserOk
  BY <1>7, FS_EmptySet DEF ReviserOk
<1>9. RequestsOk
  <2>1. NoPress \in PressType /\ NoPress.pc = "none" /\ NoPoll \in PollType /\ NoPoll.pc = "none"
    BY DEF NoPress, NoPoll, PressType, PollType, RevOrNone
  <2> QED BY <2>1 DEF RevisionInit, RequestsOk
<1>10. \A r \in Revision : r > 0
  BY DEF Revision
<1>11. StartedInv
  <2>1. \A r \in Revision : ~Started(r)
    BY <1>4 DEF Started
  <2>2. ~Alive
    BY <1>7 DEF Alive
  <2>3. \A r \in Revision : ~(r < reviser.rev)
    <3>1. SUFFICES ASSUME NEW r \in Revision PROVE ~(r < 0)
      BY <1>7 DEF None
    <3> QED BY <1>10 DEF Revision
  <2>4. reviser.pc # "begin"
    BY <1>7
  <2>5. \A n \in Revision : ~(pdfs[n].by # None)
    BY <1>5
  <2> QED BY <2>1, <2>2, <2>3, <2>4, <2>5 DEF StartedInv
<1>12. NamesInv
  <2>1. 0 \in 0 .. MaxRevisions /\ \A n \in Revision : ~(n <= 0)
    BY <1>10 DEF Revision
  <2>2. reviser.pc \notin BeforePdf
    BY <1>7 DEF BeforePdf
  <2> QED BY <1>5, <2>1, <2>2 DEF NamesInv
<1>13. VersionsInv
  BY <1>5, <1>7 DEF RevisionInit, VersionsInv, Writing
<1>14. "none" \notin Settled
  BY DEF Settled
<1>15. ReviewInv
  BY <1>4, <1>7, <1>14 DEF ReviewInv, EndedIsComplete, Alive, Reviewed
<1>16. PdfInv
  BY <1>4, <1>7, <1>14 DEF PdfInv, NamedPdfMatches, Writing
<1>17. SweepInv
  BY DEF RevisionInit, NoPoll, SweepInv
<1> QED BY <1>6, <1>8, <1>9, <1>11, <1>12, <1>13, <1>15, <1>16, <1>17 DEF RevInv, Types

\* Every step keeps the invariant.
LEMMA RevStep == RevInv /\ [RevisionNext]_revisionVars => RevInv'
<1> SUFFICES ASSUME RevInv, [RevisionNext]_revisionVars PROVE RevInv'
  OBVIOUS
<1>1. Types /\ StartedInv /\ NamesInv /\ VersionsInv /\ ReviewInv /\ PdfInv /\ SweepInv
  BY DEF RevInv
<1> QED BY <1>1, TypesStep, StartedStep, NamesStep, VersionsStep, ReviewStep, PdfStep, SweepStep
        DEF RevInv

\* Every variable keeps its type, and no more requests than allowed are under way.
THEOREM RevisionTypes == RevisionSpec => []RevisionTypeOK
<1>1. RevInv => RevisionTypeOK
  <2> SUFFICES ASSUME RevInv PROVE RevisionTypeOK
    OBVIOUS
  <2>1. FilesOk /\ ReviserOk /\ RequestsOk
    BY DEF RevInv, Types
  <2>2. \A i \in DOMAIN versions : versions[i] \in [pdf : Revision, rev : Revision]
    <3>1. versions \in Seq([pdf : Revision, rev : Revision])
      BY <2>1 DEF FilesOk
    <3>2. DOMAIN versions = 1 .. Len(versions)
      BY <3>1
    <3> QED BY <3>1, <3>2, ElementOfSeq
  <2>3. reviser.rev \in {None} \union Revision /\ reviser.answers \in Answers
    BY <2>1 DEF ReviserOk, ReviserType, RevOrNone
  <2>4. press.pdf \in {None} \union Revision /\ poll.pdf \in {None} \union Revision
    BY <2>1 DEF RequestsOk, PressType, PollType, RevOrNone
  <2>5. \A r \in Revision : contextual[r] \in Answers
    BY <2>1 DEF FilesOk
  <2> QED BY <2>1, <2>2, <2>3, <2>4, <2>5
          DEF RevisionTypeOK, FilesOk, ReviserOk, RevOrNone, PdfType, Answers
<1> QED BY <1>1, RevInit, RevStep, PTL DEF RevisionSpec

\* A revision that nobody cancelled and that came to an end has an answer for every
\* suspicious region.
THEOREM EndedComplete == RevisionSpec => []EndedIsComplete
<1>1. RevInv => EndedIsComplete
  BY DEF RevInv, ReviewInv
<1> QED BY <1>1, RevInit, RevStep, PTL DEF RevisionSpec

\* The PDF an ended revision names is whole and shows its own corrections.
THEOREM NamedMatches == RevisionSpec => []NamedPdfMatches
<1>1. RevInv => NamedPdfMatches
  BY DEF RevInv, PdfInv
<1> QED BY <1>1, RevInit, RevStep, PTL DEF RevisionSpec

\* What the version records name is whole and one revision's own.
THEOREM RecordedWhole == RevisionSpec => []RecordedPdfIsWhole
<1>1. RevInv => RecordedPdfIsWhole
  BY DEF RevInv, VersionsInv, RecordedPdfIsWhole
<1> QED BY <1>1, RevInit, RevStep, PTL DEF RevisionSpec

\* A poll beside which nothing happens leaves no revision in flight.
THEOREM PollSettlesAll == RevisionSpec => []PollSettles
<1>1. RevInv => PollSettles
  BY DEF RevInv, SweepInv, PollSettles
<1> QED BY <1>1, RevInit, RevStep, PTL DEF RevisionSpec

===============================================================================
