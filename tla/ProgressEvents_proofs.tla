------------------------- MODULE ProgressEvents_proofs -------------------------
(***************************************************************************)
(* What is proved of ProgressEvents for any stages, any counts, any size   *)
(* of the pump's queue and of the pipe, and any number of lines: types,    *)
(* the monotony of the progress shown, and the two facts that keep an      *)
(* event from being lost, the numbers without a gap and the last drain.    *)
(***************************************************************************)
EXTENDS ProgressEvents, FiniteSetTheorems, SequenceTheorems, TLAPS

(***************************************************************************)
(* Types.                                                                  *)
(***************************************************************************)

PagesType == [lines : 0 .. MaxLines, events : 0 .. MaxLines, exited : BOOLEAN, eof : BOOLEAN]
PumpType == [last : Nat, canonical : BOOLEAN, dirty : BOOLEAN,
             snapshot : Stage \union {Created}, alive : BOOLEAN]
LoopType == [pc : {"poll", "apply", "legacy", "last", "closed"},
             batch : Seq(Numbered), legacy : Stage \union {Created}, joining : BOOLEAN]
RowType == [received : Nat, stage : Stage \union {Created}, ended : {"no", "closed", "taken"},
            current : [Stage -> 0 .. MaxCount], closed : SUBSET Stage]

\* ProgressTypeOK, and no more events than lines: what the step of a type check
\* needs to stay within the bound on lines.
ProgressBase ==
  /\ pages \in PagesType /\ pages.events <= pages.lines
  /\ stdout \in Seq(Line) /\ Len(stdout) <= PipeSize
  /\ pump \in PumpType
  /\ pending \in Seq(Numbered) /\ Len(pending) <= MaxPending
  /\ loop \in LoopType
  /\ prow \in RowType

\* The invariant gives the type invariant.
LEMMA BaseGivesTypes == ProgressBase => ProgressTypeOK
  BY DEF ProgressBase, ProgressTypeOK, PagesType, PumpType, LoopType, RowType

\* The base in the next state, once every variable has its type there.
LEMMA BaseNext ==
  ASSUME pages' \in PagesType, pages'.events <= pages'.lines,
         stdout' \in Seq(Line), Len(stdout') <= PipeSize, pump' \in PumpType,
         pending' \in Seq(Numbered), Len(pending') <= MaxPending,
         loop' \in LoopType, prow' \in RowType
  PROVE  ProgressBase'
  BY DEF ProgressBase

\* An event of a line is one of the events the row knows.
LEMMA EventLine ==
  ASSUME NEW line \in Line, line.kind = "event"
  PROVE  line \in ProgressEvent
  BY DEF Line, ProgressEvent

\* A text of a line names a stage.
LEMMA TextLine ==
  ASSUME NEW line \in Line, line.kind = "text"
  PROVE  line.stage \in Stage
  BY DEF Line, ProgressEvent

\* The first element and the rest of a batch.
LEMMA BatchHead ==
  ASSUME NEW b \in Seq(Numbered), b # <<>>
  PROVE  /\ Head(b).seq \in Nat /\ Head(b).event \in ProgressEvent
         /\ Tail(b) \in Seq(Numbered)
<1>1. Head(b) \in Numbered /\ Tail(b) \in Seq(Numbered)
  BY HeadTailProperties
<1> QED BY <1>1 DEF Numbered

\* The fields of a row that shows an event.
LEMMA ShownFields ==
  ASSUME prow \in RowType, NEW event \in ProgressEvent
  PROVE  /\ Shown(event) \in RowType
         /\ Shown(event).received = prow.received + 1
         /\ Shown(event).ended = prow.ended
         /\ Shown(event).current = [prow.current EXCEPT ![event.stage] = event.current]
         /\ Shown(event).closed = IF event.status = "running" THEN prow.closed \ {event.stage}
                                  ELSE prow.closed \union {event.stage}
         /\ Shown(event).stage = IF event.stage >= prow.stage THEN event.stage ELSE prow.stage
<1> DEFINE current == [prow.current EXCEPT ![event.stage] = event.current]
           closed == IF event.status = "running" THEN prow.closed \ {event.stage}
                     ELSE prow.closed \union {event.stage}
           stage == IF event.stage >= prow.stage THEN event.stage ELSE prow.stage
<1>1. event.stage \in Stage /\ event.current \in 0 .. MaxCount
  BY DEF ProgressEvent
<1>2. current \in [Stage -> 0 .. MaxCount] /\ closed \in SUBSET Stage
      /\ stage \in Stage \union {Created}
  BY <1>1 DEF RowType
<1>3. Shown(event) = [prow EXCEPT !.current = current, !.received = @ + 1,
                                  !.closed = closed, !.stage = stage]
  BY DEF Shown
<1> HIDE DEF current, closed, stage
<1>4. /\ Shown(event).received = prow.received + 1 /\ Shown(event).ended = prow.ended
      /\ Shown(event).current = current /\ Shown(event).closed = closed
      /\ Shown(event).stage = stage
  BY <1>3 DEF RowType
<1>5. prow.received + 1 \in Nat
  BY DEF RowType
<1>6. Shown(event) \in RowType
  BY <1>2, <1>3, <1>5 DEF RowType
<1> QED BY <1>4, <1>6 DEF current, closed, stage

\* An event, whatever is done with it, leaves a row.
LEMMA AppliedTypes ==
  ASSUME prow \in RowType, NEW seq \in Nat, NEW event \in ProgressEvent
  PROVE  Applied(seq, event) \in RowType
<1>1. [prow EXCEPT !.received = seq] \in RowType
  BY DEF RowType
<1>2. Shown(event) \in RowType
  BY ShownFields
<1> QED BY <1>1, <1>2 DEF Applied

\* A text that arrives too late, or on a row that is over, leaves a row as well.
LEMMA LegacyTypes ==
  ASSUME prow \in RowType, NEW stage \in Stage
  PROVE  LegacyUpdate(stage) \in RowType
<1>1. [prow EXCEPT !.stage = stage] \in RowType
  BY DEF RowType
<1> QED BY <1>1 DEF LegacyUpdate

\* The first state has the types.
LEMMA BaseInit == ProgressInit => ProgressBase
<1> SUFFICES ASSUME ProgressInit PROVE ProgressBase
  OBVIOUS
<1> USE ProgressAssumption
<1>1. pages \in PagesType /\ pages.events <= pages.lines
  BY DEF ProgressInit, PagesType
<1>2. stdout \in Seq(Line) /\ Len(stdout) <= PipeSize
      /\ pending \in Seq(Numbered) /\ Len(pending) <= MaxPending
  BY EmptySeq DEF ProgressInit
<1>3. pump \in PumpType
  BY DEF ProgressInit, PumpType
<1>4. loop \in LoopType
  BY EmptySeq DEF ProgressInit, LoopType
<1>5. [s \in Stage |-> 0] \in [Stage -> 0 .. MaxCount]
  OBVIOUS
<1>6. prow \in RowType
  BY <1>5 DEF ProgressInit, RowType
<1> QED BY <1>1, <1>2, <1>3, <1>4, <1>6 DEF ProgressBase

\* A line the pipeline writes keeps the bounds on lines, events and the pipe.
LEMMA WriteTypes ==
  ASSUME ProgressBase, WriteLine
  PROVE  ProgressBase'
<1> USE ProgressAssumption
<1>1. PICK line \in Line :
        /\ stdout' = Append(stdout, line)
        /\ pages' = [pages EXCEPT !.lines = @ + 1,
                                  !.events = IF line.kind = "event" THEN @ + 1 ELSE @]
  BY DEF WriteLine
<1>2. stdout' \in Seq(Line) /\ Len(stdout') = Len(stdout) + 1 /\ Len(stdout) \in Nat
  BY <1>1, LenProperties DEF ProgressBase
<1>3. Len(stdout') <= PipeSize
  BY <1>2 DEF WriteLine
<1>4. pages' \in PagesType /\ pages'.events <= pages'.lines
  <2> DEFINE events == IF line.kind = "event" THEN pages.events + 1 ELSE pages.events
  <2>1. pages.lines + 1 \in 0 .. MaxLines /\ events \in 0 .. MaxLines /\ events <= pages.lines + 1
    BY DEF WriteLine, ProgressBase, PagesType
  <2>2. pages' = [pages EXCEPT !.lines = @ + 1, !.events = events]
    BY <1>1 DEF ProgressBase, PagesType
  <2> HIDE DEF events
  <2> QED BY <2>1, <2>2 DEF ProgressBase, PagesType
<1> QED BY <1>2, <1>3, <1>4, BaseNext DEF WriteLine, ProgressBase

\* Numbering an event keeps the bound on the queue.
LEMMA ReadTypes ==
  ASSUME ProgressBase, ReadLine
  PROVE  ProgressBase'
<1> USE ProgressAssumption
<1> DEFINE line == Head(stdout)
<1>1. line \in Line /\ Tail(stdout) \in Seq(Line) /\ Len(Tail(stdout)) = Len(stdout) - 1
      /\ Len(stdout) \in Nat
  BY HeadTailProperties, LenProperties DEF ReadLine, ProgressBase
<1>2. stdout' \in Seq(Line) /\ Len(stdout') <= PipeSize
  BY <1>1 DEF ReadLine, ProgressBase
<1>3. pump' \in PumpType /\ pending' \in Seq(Numbered) /\ Len(pending') <= MaxPending
  <2>1. CASE /\ line.kind = "event" /\ HasRoom
             /\ pending' = Append(pending, [seq |-> pump.last + 1, event |-> line])
             /\ pump' = [pump EXCEPT !.last = @ + 1, !.canonical = TRUE]
    <3>1. [seq |-> pump.last + 1, event |-> line] \in Numbered
      BY <1>1, <2>1, EventLine DEF Numbered, ProgressBase, PumpType
    <3> DEFINE new == [seq |-> pump.last + 1, event |-> line]
    <3> HIDE DEF new
    <3>2. pending' \in Seq(Numbered) /\ Len(pending') = Len(pending) + 1 /\ Len(pending) \in Nat
      <4>1. new \in Numbered /\ pending' = Append(pending, new) /\ pending \in Seq(Numbered)
        BY <2>1, <3>1 DEF new, ProgressBase
      <4> QED BY <4>1, LenProperties
    <3>3. Len(pending') <= MaxPending
      <4>1. Len(pending) < MaxPending
        BY <2>1 DEF HasRoom
      <4> QED BY <3>2, <4>1
    <3>4. pump' \in PumpType
      <4> DEFINE number == pump.last + 1
      <4>1. pump' = [pump EXCEPT !.last = number, !.canonical = TRUE]
        BY <2>1
      <4>2. number \in Nat
        BY DEF ProgressBase, PumpType
      <4> HIDE DEF number
      <4> QED BY <4>1, <4>2 DEF ProgressBase, PumpType
    <3> QED BY <3>2, <3>3, <3>4
  <2>2. CASE /\ line.kind = "text" /\ ~pump.canonical
             /\ pump' = [pump EXCEPT !.dirty = TRUE, !.snapshot = line.stage]
             /\ UNCHANGED pending
    <3>1. line.stage \in Stage
      BY <1>1, <2>2, TextLine
    <3>2. pump' \in PumpType
      BY <2>2, <3>1 DEF ProgressBase, PumpType
    <3> QED BY <2>2, <3>2 DEF ProgressBase
  <2>3. CASE UNCHANGED <<pump, pending>>
    BY <2>3 DEF ProgressBase
  <2> QED BY <2>1, <2>2, <2>3 DEF ReadLine
<1>4. UNCHANGED <<pages, loop, prow>>
  BY DEF ReadLine
<1> QED BY <1>2, <1>3, <1>4, BaseNext DEF ProgressBase

\* Applying the first event of a batch keeps the row and the batch.
LEMMA ApplyTypes ==
  ASSUME ProgressBase, loop.batch # <<>>,
         prow' = Applied(Head(loop.batch).seq, Head(loop.batch).event),
         loop' = [loop EXCEPT !.batch = Tail(@)],
         UNCHANGED <<pages, stdout, pump, pending>>
  PROVE  ProgressBase'
<1>1. loop.batch \in Seq(Numbered)
  BY DEF ProgressBase, LoopType
<1>2. prow' \in RowType
  BY <1>1, BatchHead, AppliedTypes DEF ProgressBase
<1>3. Tail(loop.batch) \in Seq(Numbered)
  BY <1>1, BatchHead
<1>4. loop' \in LoopType
  BY <1>3 DEF ProgressBase, LoopType
<1> QED BY <1>2, <1>4, BaseNext DEF ProgressBase

\* Every step keeps the types.
LEMMA BaseStep ==
  ASSUME ProgressBase, ProgressNext \/ UNCHANGED progressVars
  PROVE  ProgressBase'
<1> USE ProgressAssumption
<1>0. <<>> \in Seq(Numbered) /\ Len(<<>>) <= MaxPending
  BY EmptySeq
<1>1. CASE WriteLine
  BY <1>1, WriteTypes
<1>2. CASE PipelineExits \/ PipeCloses
  <2>1. pages' \in PagesType /\ pages'.events <= pages'.lines
    BY <1>2 DEF PipelineExits, PipeCloses, ProgressBase, PagesType
  <2> QED BY <1>2, <2>1, BaseNext DEF PipelineExits, PipeCloses, ProgressBase
<1>3. CASE ReadLine
  BY <1>3, ReadTypes
<1>4. CASE PumpEnds
  <2>1. pump' \in PumpType
    BY <1>4 DEF PumpEnds, ProgressBase, PumpType
  <2> QED BY <1>4, <2>1, BaseNext DEF PumpEnds, ProgressBase
<1>5. CASE DrainEvents \/ JoinPump
  <2>1. loop' \in LoopType
    BY <1>5 DEF DrainEvents, JoinPump, ProgressBase, LoopType
  <2> QED BY <1>0, <1>5, <2>1, BaseNext DEF DrainEvents, JoinPump, ProgressBase
<1>6. CASE ApplyEvent \/ ApplyLast
  BY <1>6, ApplyTypes DEF ApplyEvent, ApplyLast
<1>7. CASE DrainProgress
  <2>1. loop' \in LoopType
    BY <1>7 DEF DrainProgress, ProgressBase, LoopType, PumpType
  <2>2. pump' \in PumpType
    BY <1>7 DEF DrainProgress, ProgressBase, PumpType
  <2> QED BY <1>7, <2>1, <2>2, BaseNext DEF DrainProgress, ProgressBase
<1>8. CASE UpdateProgress
  <2>1. loop' \in LoopType
    BY <1>8 DEF UpdateProgress, ProgressBase, LoopType, PagesType
  <2>2. loop.legacy # Created => loop.legacy \in Stage
    BY DEF ProgressBase, LoopType
  <2>3. prow' \in RowType
    BY <1>8, <2>2, LegacyTypes DEF UpdateProgress, ProgressBase
  <2> QED BY <1>8, <2>1, <2>3, BaseNext DEF UpdateProgress, ProgressBase
<1>9. CASE DrainWhileJoining
  <2>1. loop' \in LoopType
    BY <1>9 DEF DrainWhileJoining, ProgressBase, LoopType
  <2> QED BY <1>9, <2>1, BaseNext DEF DrainWhileJoining, ProgressBase
<1>10. CASE CloseRow
  <2>1. loop' \in LoopType
    BY <1>10 DEF CloseRow, ProgressBase, LoopType
  <2>2. prow' \in RowType
    BY <1>10 DEF CloseRow, ProgressBase, RowType
  <2> QED BY <1>10, <2>1, <2>2, BaseNext DEF CloseRow, ProgressBase
<1>11. CASE TakeRow
  <2>1. prow' \in RowType
    BY <1>11 DEF TakeRow, ProgressBase, RowType
  <2> QED BY <1>11, <2>1, BaseNext DEF TakeRow, ProgressBase
<1>12. CASE UNCHANGED progressVars
  BY <1>12 DEF progressVars, ProgressBase
<1> QED BY <1>1, <1>2, <1>3, <1>4, <1>5, <1>6, <1>7, <1>8, <1>9, <1>10, <1>11, <1>12
        DEF ProgressNext, PumpNext, LoopNext

\* Every variable keeps its type, the queue and the pipe their bounds.
THEOREM ProgressTypes == ProgressSpec => []ProgressTypeOK
<1>1. ProgressInit => ProgressBase
  BY BaseInit
<1>2. ProgressBase /\ [ProgressNext]_progressVars => ProgressBase'
  BY BaseStep
<1> QED BY <1>1, <1>2, BaseGivesTypes, PTL DEF ProgressSpec

(***************************************************************************)
(* The progress shown never goes back.                                     *)
(***************************************************************************)

NotBack ==
  /\ \A s \in Stage : prow'.current[s] >= prow.current[s]
  /\ prow.closed \subseteq prow'.closed
  /\ prow.received > 0 => prow'.stage >= prow.stage
  /\ RowOver => prow' = prow

\* A row that shows the same as before did not go back.
LEMMA SameShown ==
  ASSUME prow \in RowType, prow'.current = prow.current, prow'.closed = prow.closed,
         prow.received > 0 => prow'.stage = prow.stage, RowOver => prow' = prow
  PROVE  NotBack
<1> USE ProgressAssumption
<1>1. \A s \in Stage : prow.current[s] \in 0 .. MaxCount
  BY DEF RowType
<1>2. prow.stage \in Nat
  BY DEF RowType, Stage, Created
<1> QED BY <1>1, <1>2 DEF NotBack

\* Of the events, only those that do not go back are shown.
LEMMA AppliedNotBack ==
  ASSUME prow \in RowType, NEW seq \in Nat, NEW event \in ProgressEvent,
         prow' = Applied(seq, event)
  PROVE  NotBack
<1> USE ProgressAssumption
<1>1. CASE RowOver \/ seq # prow.received + 1
  BY <1>1, SameShown DEF Applied
<1>2. CASE ~RowOver /\ seq = prow.received + 1 /\ GoesBack(event)
  <2>1. prow' = [prow EXCEPT !.received = seq]
    BY <1>2 DEF Applied
  <2>2. prow'.current = prow.current /\ prow'.closed = prow.closed /\ prow'.stage = prow.stage
    BY <2>1 DEF RowType
  <2> QED BY <1>2, <2>2, SameShown
<1>3. CASE ~RowOver /\ ~GoesBack(event) /\ prow' = Shown(event)
  <2>1. event.stage \in Stage /\ event.current \in 0 .. MaxCount
    BY DEF ProgressEvent
  <2>2. \A s \in Stage : prow.current[s] \in 0 .. MaxCount
    BY DEF RowType
  <2>3. prow'.current = [prow.current EXCEPT ![event.stage] = event.current]
    BY <1>3, ShownFields
  <2>4. event.current >= prow.current[event.stage]
    BY <1>3, <2>1, <2>2 DEF GoesBack
  <2>5. \A s \in Stage : prow'.current[s] >= prow.current[s]
    BY <2>1, <2>2, <2>3, <2>4 DEF RowType
  <2>6. prow.closed \subseteq prow'.closed
    <3>1. event.status = "running" => event.stage \notin prow.closed
      BY <1>3 DEF GoesBack
    <3>2. prow'.closed = IF event.status = "running" THEN prow.closed \ {event.stage}
                         ELSE prow.closed \union {event.stage}
      BY <1>3, ShownFields
    <3> QED BY <3>1, <3>2
  <2>7. prow'.stage >= prow.stage
    <3>1. event.stage \in Nat /\ prow.stage \in Nat
      BY <2>1 DEF RowType, Stage, Created
    <3>2. prow'.stage = IF event.stage >= prow.stage THEN event.stage ELSE prow.stage
      BY <1>3, ShownFields
    <3> QED BY <3>1, <3>2
  <2> QED BY <1>3, <2>5, <2>6, <2>7 DEF NotBack
<1> QED BY <1>1, <1>2, <1>3 DEF Applied

\* No step of any thread turns the row back.
LEMMA StepNotBack ==
  ASSUME ProgressBase, ProgressNext
  PROVE  NotBack
<1> USE ProgressAssumption
<1>0. prow \in RowType
  BY DEF ProgressBase
<1>1. CASE ApplyEvent \/ ApplyLast
  <2>1. loop.batch \in Seq(Numbered)
    BY DEF ProgressBase, LoopType
  <2> QED BY <1>0, <1>1, <2>1, BatchHead, AppliedNotBack DEF ApplyEvent, ApplyLast
<1>2. CASE UpdateProgress
  <2>1. CASE RowOver \/ prow.received # 0 \/ loop.legacy = Created
    BY <1>0, <1>2, <2>1, SameShown DEF UpdateProgress, LegacyUpdate
  <2>2. CASE ~RowOver /\ prow.received = 0 /\ loop.legacy # Created
    <3>1. prow' = [prow EXCEPT !.stage = loop.legacy]
      BY <1>2, <2>2 DEF UpdateProgress, LegacyUpdate
    <3>2. prow'.current = prow.current /\ prow'.closed = prow.closed
      BY <1>0, <3>1 DEF RowType
    <3> QED BY <1>0, <2>2, <3>2, SameShown
  <2> QED BY <2>1, <2>2
<1>3. CASE CloseRow \/ TakeRow
  <2>1. prow'.current = prow.current /\ prow'.closed = prow.closed /\ prow'.stage = prow.stage
    BY <1>0, <1>3 DEF CloseRow, TakeRow, RowType
  <2>2. RowOver => prow' = prow
    BY <1>3 DEF CloseRow, TakeRow
  <2> QED BY <1>0, <2>1, <2>2, SameShown
<1>4. CASE prow' = prow
  BY <1>0, <1>4, SameShown
<1> QED BY <1>1, <1>2, <1>3, <1>4
        DEF ProgressNext, PumpNext, LoopNext, WriteLine, PipelineExits, PipeCloses, ReadLine,
            PumpEnds, DrainEvents, DrainProgress, JoinPump, DrainWhileJoining

\* In whatever order events and legacy texts reach it, the row never shows less
\* than it did, and a row that is over stays as it was.
THEOREM NeverBack == ProgressSpec => ProgressNeverGoesBack
<1>1. ProgressInit => ProgressBase
  BY BaseInit
<1>2. ProgressBase /\ [ProgressNext]_progressVars => ProgressBase'
  BY BaseStep
<1>3. ProgressBase /\ [ProgressNext]_progressVars => [NotBack]_progressVars
  BY StepNotBack
<1>4. ProgressNeverGoesBack <=> [][NotBack]_progressVars
  BY DEF ProgressNeverGoesBack, NotBack
<1> QED BY <1>1, <1>2, <1>3, <1>4, PTL DEF ProgressSpec

(***************************************************************************)
(* The numbers have no gap.                                                *)
(***************************************************************************)

\* What waits for the row carries the numbers that follow the row's, first the
\* batch the loop applies, then the queue, up to the last number given.
Chained ==
  /\ prow.received + Len(loop.batch) + Len(pending) = pump.last
  /\ \A i \in 1 .. Len(loop.batch) : loop.batch[i].seq = prow.received + i
  /\ \A i \in 1 .. Len(pending) : pending[i].seq = prow.received + Len(loop.batch) + i

Gapless ==
  /\ LoopAt("poll") \/ LoopAt("legacy") \/ LoopAt("closed") => loop.batch = <<>>
  /\ ~RowOver => Chained

\* The invariant gives the property.
LEMMA GaplessGivesNoGap ==
  ASSUME ProgressBase, Gapless
  PROVE  NoSequenceGap
<1> DEFINE waiting == loop.batch \o pending
<1> SUFFICES ASSUME ~RowOver, NEW i \in 1 .. Len(waiting)
             PROVE  waiting[i].seq = prow.received + i
  BY DEF NoSequenceGap
<1>1. loop.batch \in Seq(Numbered) /\ pending \in Seq(Numbered) /\ prow.received \in Nat
  BY DEF ProgressBase, LoopType, RowType
<1>2. /\ Len(waiting) = Len(loop.batch) + Len(pending)
      /\ waiting[i] = IF i <= Len(loop.batch) THEN loop.batch[i] ELSE pending[i - Len(loop.batch)]
      /\ Len(loop.batch) \in Nat /\ Len(pending) \in Nat
  BY <1>1, ConcatProperties, LenProperties
<1> HIDE DEF waiting
<1>3. Chained
  BY DEF Gapless
<1>4. CASE i <= Len(loop.batch)
  BY <1>2, <1>3, <1>4 DEF Chained
<1>5. CASE ~(i <= Len(loop.batch))
  <2>1. i - Len(loop.batch) \in 1 .. Len(pending)
    BY <1>2, <1>5
  <2>2. pending[i - Len(loop.batch)].seq = prow.received + Len(loop.batch) + (i - Len(loop.batch))
    BY <1>3, <2>1 DEF Chained
  <2> QED BY <1>1, <1>2, <1>5, <2>1, <2>2
<1> QED BY <1>4, <1>5

\* Both sequences keep their lengths and elements while nothing about them changes.
LEMMA ChainedStays ==
  ASSUME Chained, UNCHANGED pending, loop'.batch = loop.batch, pump'.last = pump.last,
         prow'.received = prow.received
  PROVE  Chained'
  BY DEF Chained

\* An event that is read gets the number after the last.
LEMMA ReadChained ==
  ASSUME ProgressBase, ReadLine, Chained
  PROVE  Chained'
<1> DEFINE line == Head(stdout)
           new == [seq |-> pump.last + 1, event |-> line]
<1>1. line \in Line
  BY HeadTailProperties DEF ReadLine, ProgressBase
<1>2. UNCHANGED <<loop, prow>>
  BY DEF ReadLine
<1>3. CASE /\ line.kind = "event" /\ pending' = Append(pending, new)
           /\ pump' = [pump EXCEPT !.last = @ + 1, !.canonical = TRUE]
  <2>1. new \in Numbered
    BY <1>1, <1>3, EventLine DEF Numbered, ProgressBase, PumpType
  <2>2. new.seq = pump.last + 1 /\ pump'.last = pump.last + 1
    BY <1>3 DEF ProgressBase, PumpType
  <2>3. pending' = Append(pending, new) /\ pending \in Seq(Numbered)
    BY <1>3 DEF ProgressBase
  <2> HIDE DEF new
  <2>4. /\ Len(pending') = Len(pending) + 1 /\ Len(pending) \in Nat
        /\ pending'[Len(pending) + 1] = new
        /\ \A i \in 1 .. Len(pending) : pending'[i] = pending[i]
    BY <2>1, <2>3, LenProperties
  <2>5. Len(loop.batch) \in Nat /\ prow.received \in Nat /\ pump.last \in Nat
    BY LenProperties DEF ProgressBase, LoopType, RowType, PumpType
  <2>6. prow.received + Len(loop.batch) + Len(pending') = pump'.last
    <3> DEFINE r == prow.received
               b == Len(loop.batch)
               q == Len(pending)
               q1 == Len(pending')
    <3>1. r + b + q = pump.last /\ r \in Nat /\ b \in Nat /\ q \in Nat /\ q1 = q + 1
          /\ pump'.last = pump.last + 1
      BY <2>2, <2>4, <2>5 DEF Chained
    <3> HIDE DEF r, b, q, q1
    <3>2. r + b + q1 = pump'.last
      BY <3>1
    <3> QED BY <3>2 DEF r, b, q, q1
  <2>7. ASSUME NEW i \in 1 .. Len(pending')
        PROVE  pending'[i].seq = prow.received + Len(loop.batch) + i
    <3>1. CASE i \in 1 .. Len(pending)
      <4>1. pending[i].seq = prow.received + Len(loop.batch) + i
        BY <3>1 DEF Chained
      <4> QED BY <2>4, <3>1, <4>1
    <3>2. CASE i = Len(pending) + 1
      <4>1. pending'[i].seq = pump.last + 1
        BY <2>2, <2>4, <3>2
      <4>2. prow.received + Len(loop.batch) + Len(pending) = pump.last
        BY DEF Chained
      <4>3. i = Len(pending) + 1 /\ Len(pending) \in Nat
        BY <2>4, <3>2
      <4> DEFINE r == prow.received
                 b == Len(loop.batch)
                 q == Len(pending)
      <4>4. r + b + q = pump.last /\ r \in Nat /\ b \in Nat /\ q \in Nat /\ i = q + 1
        BY <2>5, <4>2, <4>3
      <4> HIDE DEF r, b, q
      <4>5. r + b + i = pump.last + 1
        BY <4>4
      <4> QED BY <4>1, <4>5 DEF r, b
    <3> QED BY <2>4, <3>1, <3>2
  <2> QED BY <1>2, <2>6, <2>7 DEF Chained
<1>4. CASE /\ pump' = [pump EXCEPT !.dirty = TRUE, !.snapshot = line.stage]
           /\ UNCHANGED pending
  <2>1. pump'.last = pump.last
    BY <1>4 DEF ProgressBase, PumpType
  <2> QED BY <1>2, <1>4, <2>1, ChainedStays
<1>5. CASE UNCHANGED <<pump, pending>>
  BY <1>2, <1>5, ChainedStays
<1> QED BY <1>3, <1>4, <1>5 DEF ReadLine

\* The loop takes the whole queue as its batch.
LEMMA DrainChained ==
  ASSUME ProgressBase, Chained, loop.batch = <<>>, pending' = <<>>, loop'.batch = pending,
         UNCHANGED <<pump, prow>>
  PROVE  Chained'
<1>1. Len(<<>>) = 0 /\ Len(pending) \in Nat /\ prow.received \in Nat
  BY LenProperties, EmptySeq DEF ProgressBase, RowType
<1> QED BY <1>1 DEF Chained

\* The event at the head of the batch is the one the row expects.
LEMMA ApplyChained ==
  ASSUME ProgressBase, loop.batch # <<>>, ~RowOver => Chained,
         prow' = Applied(Head(loop.batch).seq, Head(loop.batch).event),
         loop' = [loop EXCEPT !.batch = Tail(@)],
         UNCHANGED <<pump, pending>>
  PROVE  prow'.ended = prow.ended /\ (~RowOver => Chained')
<1> DEFINE b == loop.batch
<1>1. b \in Seq(Numbered) /\ loop'.batch = Tail(b) /\ prow \in RowType /\ prow.received \in Nat
  BY DEF ProgressBase, LoopType, RowType
<1>2. Head(b).event \in ProgressEvent
  BY <1>1, BatchHead
<1>3. CASE RowOver
  BY <1>3 DEF Applied
<1>4. CASE ~RowOver
  <2>1. Head(b) = b[1] /\ Len(b) \in Nat /\ Len(b) >= 1
    BY <1>1, LenProperties, EmptySeq
  <2>2. Head(b).seq = prow.received + 1
    BY <1>4, <2>1 DEF Chained
  <2>3. prow'.received = prow.received + 1 /\ prow'.ended = prow.ended
    <3>1. CASE GoesBack(Head(b).event)
      <4>1. prow' = [prow EXCEPT !.received = Head(b).seq]
        BY <1>4, <2>2, <3>1 DEF Applied
      <4> QED BY <1>1, <2>2, <4>1 DEF RowType
    <3>2. CASE ~GoesBack(Head(b).event)
      <4>1. prow' = Shown(Head(b).event)
        BY <1>4, <2>2, <3>2 DEF Applied
      <4> QED BY <1>1, <1>2, <4>1, ShownFields
    <3> QED BY <3>1, <3>2
  <2>4. Len(Tail(b)) = Len(b) - 1 /\ \A i \in 1 .. Len(Tail(b)) : Tail(b)[i] = b[i + 1]
    BY <1>1, HeadTailProperties
  <2>5. ASSUME NEW i \in 1 .. Len(Tail(b))
        PROVE  Tail(b)[i].seq = prow'.received + i
    <3>1. i + 1 \in 1 .. Len(b)
      BY <2>1, <2>4
    <3>2. b[i + 1].seq = prow.received + (i + 1)
      BY <1>4, <3>1 DEF Chained
    <3>3. prow.received + (i + 1) = (prow.received + 1) + i
      BY <1>1, <2>1, <2>4
    <3> QED BY <2>3, <2>4, <3>2, <3>3
  <2>6. Len(pending) \in Nat /\ Len(Tail(b)) = Len(b) - 1
    BY <2>4, LenProperties DEF ProgressBase
  <2>7. prow'.received + Len(Tail(b)) + Len(pending) = pump.last
    BY <1>1, <1>4, <2>1, <2>3, <2>6 DEF Chained
  <2>8. ASSUME NEW i \in 1 .. Len(pending)
        PROVE  pending[i].seq = prow'.received + Len(Tail(b)) + i
    <3>1. pending[i].seq = prow.received + Len(b) + i
      BY <1>4 DEF Chained
    <3>2. prow.received + Len(b) + i = (prow.received + 1) + (Len(b) - 1) + i
      BY <1>1, <2>1, <2>6
    <3> QED BY <2>3, <2>6, <3>1, <3>2
  <2> QED BY <1>1, <2>3, <2>5, <2>7, <2>8 DEF Chained
<1> QED BY <1>3, <1>4

\* The numbers are without a gap at the start and stay so.
LEMMA GaplessInit == ProgressInit => Gapless
  BY EmptySeq DEF ProgressInit, Gapless, Chained

\* Every step leaves the numbers without a gap.
LEMMA GaplessStep ==
  ASSUME ProgressBase, Gapless, ProgressNext \/ UNCHANGED progressVars
  PROVE  Gapless'
<1>0. loop \in LoopType /\ pump \in PumpType /\ prow \in RowType
  BY DEF ProgressBase
<1>1. CASE ReadLine
  <2>1. UNCHANGED <<loop, prow>>
    BY <1>1 DEF ReadLine
  <2>2. ~RowOver => Chained'
    BY <1>1, ReadChained DEF Gapless
  <2> QED BY <2>1, <2>2 DEF Gapless, LoopAt, RowOver
<1>2. CASE DrainEvents \/ JoinPump
  <2>1. loop.batch = <<>> /\ pending' = <<>> /\ UNCHANGED <<pump, prow>>
    BY <1>2 DEF DrainEvents, JoinPump, Gapless
  <2>2. loop'.batch = pending /\ loop'.pc \in {"apply", "last"}
    BY <1>0, <1>2 DEF DrainEvents, JoinPump, LoopType
  <2>3. ~RowOver => Chained'
    BY <2>1, <2>2, DrainChained DEF Gapless
  <2> QED BY <2>1, <2>2, <2>3 DEF Gapless, LoopAt, RowOver
<1>3. CASE ApplyEvent \/ ApplyLast
  <2>1. prow'.ended = prow.ended /\ (~RowOver => Chained')
    BY <1>3, ApplyChained DEF ApplyEvent, ApplyLast, Gapless
  <2>2. loop'.pc = loop.pc /\ loop.pc \in {"apply", "last"}
    BY <1>0, <1>3 DEF ApplyEvent, ApplyLast, LoopAt, LoopType
  <2> QED BY <2>1, <2>2 DEF Gapless, LoopAt, RowOver
<1>4. CASE DrainProgress
  <2>1. pump'.last = pump.last
    BY <1>0, <1>4 DEF DrainProgress, PumpType
  <2>2. loop'.batch = loop.batch /\ loop.batch = <<>> /\ UNCHANGED <<pending, prow>>
    BY <1>0, <1>4 DEF DrainProgress, LoopType
  <2>3. ~RowOver => Chained'
    BY <2>1, <2>2, ChainedStays DEF Gapless
  <2> QED BY <2>2, <2>3 DEF Gapless, RowOver
<1>5. CASE UpdateProgress
  <2>1. prow'.received = prow.received /\ prow'.ended = prow.ended
    BY <1>0, <1>5 DEF UpdateProgress, LegacyUpdate, RowType
  <2>2. loop'.batch = loop.batch /\ loop.batch = <<>> /\ UNCHANGED <<pending, pump>>
    BY <1>0, <1>5 DEF UpdateProgress, LoopType, Gapless
  <2>3. ~RowOver => Chained'
    BY <2>1, <2>2, ChainedStays DEF Gapless
  <2> QED BY <2>1, <2>2, <2>3 DEF Gapless, RowOver
<1>6. CASE DrainWhileJoining
  <2>1. loop'.batch = loop.batch /\ loop.batch = <<>> /\ UNCHANGED <<pending, pump, prow>>
    BY <1>0, <1>6 DEF DrainWhileJoining, LoopType
  <2>2. ~RowOver => Chained'
    BY <2>1, ChainedStays DEF Gapless
  <2> QED BY <2>1, <2>2 DEF Gapless, RowOver
<1>7. CASE CloseRow
  <2>1. loop'.batch = loop.batch /\ loop.batch = <<>>
    BY <1>0, <1>7 DEF CloseRow, LoopType
  <2>2. RowOver'
    BY <1>0, <1>7 DEF CloseRow, RowOver, RowType
  <2> QED BY <2>1, <2>2 DEF Gapless
<1>8. CASE TakeRow
  <2>1. RowOver' /\ UNCHANGED loop
    BY <1>0, <1>8 DEF TakeRow, RowOver, RowType
  <2> QED BY <2>1 DEF Gapless, LoopAt
<1>9. CASE PumpEnds
  <2>1. pump'.last = pump.last /\ UNCHANGED <<pending, loop, prow>>
    BY <1>0, <1>9 DEF PumpEnds, PumpType
  <2>2. ~RowOver => Chained'
    BY <2>1, ChainedStays DEF Gapless
  <2> QED BY <2>1, <2>2 DEF Gapless, LoopAt, RowOver
<1>10. CASE UNCHANGED <<pump, pending, loop, prow>>
  BY <1>10 DEF Gapless, LoopAt, RowOver, Chained
<1> QED BY <1>1, <1>2, <1>3, <1>4, <1>5, <1>6, <1>7, <1>8, <1>9, <1>10
        DEF ProgressNext, PumpNext, LoopNext, WriteLine, PipelineExits, PipeCloses, progressVars

\* No event is ever refused because one before it is missing: the pump's numbers
\* and the row's stay one chain, through every drain of the queue.
THEOREM NumbersAgree == ProgressSpec => []NoSequenceGap
<1>1. ProgressInit => ProgressBase /\ Gapless
  BY BaseInit, GaplessInit
<1>2. ProgressBase /\ Gapless /\ [ProgressNext]_progressVars => (ProgressBase /\ Gapless)'
  BY BaseStep, GaplessStep
<1>3. ProgressBase /\ Gapless => NoSequenceGap
  BY GaplessGivesNoGap
<1> QED BY <1>1, <1>2, <1>3, PTL DEF ProgressSpec

(***************************************************************************)
(* No event is missed.                                                     *)
(***************************************************************************)

\* The places of the events among the lines of a sequence.
EventsIn(lines) == {i \in 1 .. Len(lines) : lines[i].kind = "event"}

\* The events of finitely many lines are finitely many.
LEMMA EventsFinite ==
  ASSUME NEW lines \in Seq(Line)
  PROVE  IsFiniteSet(EventsIn(lines)) /\ Cardinality(EventsIn(lines)) \in Nat
<1>1. IsFiniteSet(1 .. Len(lines))
  BY LenProperties, FS_Interval
<1>2. EventsIn(lines) \in SUBSET (1 .. Len(lines))
  BY DEF EventsIn
<1> QED BY <1>1, <1>2, FS_Subset, FS_CardinalityType

\* A line at the end is one event more, or none.
LEMMA EventsAppend ==
  ASSUME NEW lines \in Seq(Line), NEW line \in Line
  PROVE  Cardinality(EventsIn(Append(lines, line))) =
           Cardinality(EventsIn(lines)) + (IF line.kind = "event" THEN 1 ELSE 0)
<1> DEFINE n == Len(lines)
           longer == Append(lines, line)
<1>1. /\ n \in Nat /\ Len(longer) = n + 1 /\ longer[n + 1] = line
      /\ \A i \in 1 .. n : longer[i] = lines[i]
  BY LenProperties
<1>2. n + 1 \notin EventsIn(lines)
  BY <1>1 DEF EventsIn
<1> HIDE DEF longer
<1>3. CASE line.kind = "event"
  <2>1. EventsIn(longer) = EventsIn(lines) \union {n + 1}
    BY <1>1, <1>3 DEF EventsIn
  <2>2. Cardinality(EventsIn(longer)) = Cardinality(EventsIn(lines)) + 1
    BY <1>2, <2>1, EventsFinite, FS_AddElement
  <2> QED BY <1>3, <2>2 DEF longer
<1>4. CASE line.kind # "event"
  <2>1. EventsIn(longer) = EventsIn(lines)
    BY <1>1, <1>4 DEF EventsIn
  <2> QED BY <1>4, <2>1, EventsFinite DEF longer
<1> QED BY <1>3, <1>4

\* Without its first line a sequence has one event less, or as many.
LEMMA EventsTail ==
  ASSUME NEW lines \in Seq(Line), lines # <<>>
  PROVE  Cardinality(EventsIn(lines)) =
           Cardinality(EventsIn(Tail(lines))) + (IF Head(lines).kind = "event" THEN 1 ELSE 0)
<1> DEFINE rest == Tail(lines)
           later == EventsIn(lines) \ {1}
           f == [i \in EventsIn(rest) |-> i + 1]
<1>1. /\ rest \in Seq(Line) /\ Len(lines) \in Nat \ {0} /\ Len(rest) = Len(lines) - 1
      /\ Head(lines) = lines[1]
      /\ \A i \in 1 .. Len(rest) : rest[i] = lines[i + 1]
  BY HeadTailProperties, LenProperties, EmptySeq
<1> HIDE DEF rest
<1>2. f \in Bijection(EventsIn(rest), later)
  <2>1. ASSUME NEW i \in EventsIn(rest)
        PROVE  i + 1 \in later /\ i \in Nat
    BY <1>1 DEF EventsIn
  <2>2. ASSUME NEW k \in later
        PROVE  \E i \in EventsIn(rest) : i + 1 = k
    <3>1. k \in 2 .. Len(lines) /\ lines[k].kind = "event"
      BY <1>1 DEF EventsIn
    <3>2. k - 1 \in 1 .. Len(rest) /\ (k - 1) + 1 = k
      BY <1>1, <3>1
    <3>3. rest[k - 1] = lines[k]
      BY <1>1, <3>2
    <3>4. k - 1 \in EventsIn(rest)
      BY <3>1, <3>2, <3>3 DEF EventsIn
    <3> QED BY <3>2, <3>4
  <2> HIDE DEF later
  <2>3. f \in [EventsIn(rest) -> later] /\ \A i \in EventsIn(rest) : f[i] = i + 1
    BY <2>1
  <2>4. \A i, k \in EventsIn(rest) : f[i] = f[k] => i = k
    BY <2>1, <2>3
  <2> HIDE DEF f
  <2>5. f \in Injection(EventsIn(rest), later)
    BY <2>3, <2>4 DEF Injection, IsInjective
  <2>6. f \in Surjection(EventsIn(rest), later)
    BY <2>2, <2>3 DEF Surjection
  <2> QED BY <2>5, <2>6 DEF Bijection
<1>3. Cardinality(later) = Cardinality(EventsIn(rest))
  <2>1. ExistsBijection(EventsIn(rest), later)
    BY <1>2 DEF ExistsBijection
  <2> QED BY <1>1, <2>1, EventsFinite, FS_Bijection
<1>4. 1 \in EventsIn(lines) <=> Head(lines).kind = "event"
  BY <1>1 DEF EventsIn
<1>5. Cardinality(later) = IF 1 \in EventsIn(lines) THEN Cardinality(EventsIn(lines)) - 1
                           ELSE Cardinality(EventsIn(lines))
  BY EventsFinite, FS_RemoveElement
<1>6. Cardinality(EventsIn(lines)) \in Nat
  BY EventsFinite
<1> QED BY <1>3, <1>4, <1>5, <1>6 DEF rest

\* Every event written is numbered or still in the pipe.
Counted == pages.events = pump.last + Cardinality(EventsIn(stdout))

\* The pump ends after the last line, the loop drains the queue after the pump, and
\* the runner closes the row after both.
Drained ==
  /\ ~pump.alive => pages.eof /\ stdout = <<>>
  /\ LoopAt("last") \/ LoopAt("closed") => ~pump.alive /\ pending = <<>>
  /\ prow.ended = "closed" => LoopAt("closed") /\ prow.received = pump.last

\* Nothing is written or numbered at the start.
LEMMA CompleteInit == ProgressInit => Counted /\ Drained
<1> SUFFICES ASSUME ProgressInit PROVE Counted /\ Drained
  OBVIOUS
<1>1. EventsIn(stdout) = {}
  <2>1. Len(stdout) = 0
    BY EmptySeq DEF ProgressInit
  <2> QED BY <2>1 DEF EventsIn
<1>2. pages.events = 0 /\ pump.last = 0
  BY DEF ProgressInit
<1>3. Counted
  BY <1>1, <1>2, FS_EmptySet DEF Counted
<1> QED BY <1>3 DEF ProgressInit, Drained, LoopAt

\* Writing adds what it writes, reading takes out of the pipe what it numbers.
LEMMA CountedStep ==
  ASSUME ProgressBase, Counted, ProgressNext \/ UNCHANGED progressVars
  PROVE  Counted'
<1>0. /\ pages \in PagesType /\ pump \in PumpType /\ stdout \in Seq(Line)
      /\ pump.last \in Nat /\ pages.events \in Nat
  BY ProgressAssumption DEF ProgressBase, PagesType, PumpType
<1>1. CASE WriteLine
  <2>1. PICK line \in Line :
          /\ stdout' = Append(stdout, line)
          /\ pages' = [pages EXCEPT !.lines = @ + 1,
                                    !.events = IF line.kind = "event" THEN @ + 1 ELSE @]
    BY <1>1 DEF WriteLine
  <2> DEFINE more == IF line.kind = "event" THEN 1 ELSE 0
             counted == Cardinality(EventsIn(stdout))
  <2>2. pages'.events = pages.events + more
    BY <1>0, <2>1 DEF PagesType
  <2>3. Cardinality(EventsIn(stdout')) = counted + more
    BY <1>0, <2>1, EventsAppend
  <2>4. counted \in Nat /\ more \in Nat
    BY <1>0, EventsFinite
  <2>5. pages.events = pump.last + counted /\ pump'.last = pump.last
    BY <1>1 DEF Counted, WriteLine
  <2> HIDE DEF more, counted
  <2> QED BY <1>0, <2>2, <2>3, <2>4, <2>5 DEF Counted
<1>2. CASE ReadLine
  <2> DEFINE line == Head(stdout)
             more == IF line.kind = "event" THEN 1 ELSE 0
             rest == Cardinality(EventsIn(Tail(stdout)))
  <2>1. stdout # <<>> /\ stdout' = Tail(stdout) /\ UNCHANGED pages
    BY <1>2 DEF ReadLine
  <2>2. Cardinality(EventsIn(stdout)) = rest + more
    BY <1>0, <2>1, EventsTail
  <2>3. Tail(stdout) \in Seq(Line) /\ rest \in Nat /\ more \in Nat
    BY <1>0, <2>1, HeadTailProperties, EventsFinite
  <2>4. pump'.last = pump.last + more
    <3>1. CASE /\ line.kind = "event" /\ pump' = [pump EXCEPT !.last = @ + 1, !.canonical = TRUE]
      BY <1>0, <3>1 DEF PumpType
    <3>2. CASE line.kind # "event" /\ pump' = [pump EXCEPT !.dirty = TRUE, !.snapshot = line.stage]
      BY <1>0, <3>2 DEF PumpType
    <3>3. CASE line.kind # "event" /\ UNCHANGED pump
      BY <1>0, <3>3
    <3> QED BY <1>2, <3>1, <3>2, <3>3 DEF ReadLine
  <2>5. pages.events = pump.last + (rest + more)
    BY <2>2 DEF Counted
  <2> HIDE DEF more, rest
  <2>6. pages.events = pump'.last + rest
    BY <1>0, <2>3, <2>4, <2>5
  <2> QED BY <2>1, <2>6 DEF Counted, rest
<1>3. CASE pump'.last = pump.last /\ pages'.events = pages.events /\ UNCHANGED stdout
  BY <1>3 DEF Counted
<1>4. CASE PipelineExits \/ PipeCloses
  BY <1>0, <1>3, <1>4 DEF PipelineExits, PipeCloses, PagesType
<1>5. CASE PumpEnds \/ DrainProgress
  BY <1>0, <1>3, <1>5 DEF PumpEnds, DrainProgress, PumpType
<1> QED BY <1>1, <1>2, <1>3, <1>4, <1>5
        DEF ProgressNext, PumpNext, LoopNext, DrainEvents, ApplyEvent, UpdateProgress, JoinPump,
            DrainWhileJoining, ApplyLast, CloseRow, TakeRow, progressVars

\* A row that is over stays, so a row the runner closed has what it had then.
LEMMA ClosedStays ==
  ASSUME ProgressBase, Drained, ProgressNext, prow.ended = "closed"
  PROVE  prow' = prow /\ LoopAt("closed")' /\ pump'.last = pump.last
<1>1. LoopAt("closed") /\ ~pump.alive /\ stdout = <<>> /\ RowOver /\ pump \in PumpType
  BY DEF Drained, RowOver, ProgressBase
<1>2. ~ReadLine /\ ~DrainEvents /\ ~ApplyEvent /\ ~DrainProgress /\ ~UpdateProgress /\ ~JoinPump
      /\ ~DrainWhileJoining /\ ~ApplyLast /\ ~CloseRow /\ ~TakeRow /\ ~PumpEnds
  BY <1>1 DEF ReadLine, DrainEvents, ApplyEvent, DrainProgress, UpdateProgress, JoinPump,
              DrainWhileJoining, ApplyLast, CloseRow, TakeRow, PumpEnds, LoopAt
<1>3. UNCHANGED <<pump, loop, prow>>
  BY <1>2 DEF ProgressNext, PumpNext, LoopNext, WriteLine, PipelineExits, PipeCloses
<1> QED BY <1>1, <1>3 DEF LoopAt

\* The order of the three ends is kept by every step.
LEMMA DrainedStep ==
  ASSUME ProgressBase, Gapless, Drained, ProgressNext \/ UNCHANGED progressVars
  PROVE  Drained'
<1>0. pages \in PagesType /\ pump \in PumpType /\ loop \in LoopType /\ prow \in RowType
  BY DEF ProgressBase
<1>1. CASE UNCHANGED progressVars
  BY <1>1 DEF progressVars, Drained, LoopAt
<1>2. CASE prow.ended = "closed" /\ ProgressNext
  <2>1. prow' = prow /\ LoopAt("closed")' /\ pump'.last = pump.last
    BY <1>2, ClosedStays
  <2>2. ~pump'.alive /\ pages'.eof /\ stdout' = <<>> /\ pending' = <<>>
    <3>1. LoopAt("closed") /\ ~pump.alive /\ pages.eof /\ stdout = <<>> /\ pending = <<>>
          /\ RowOver
      BY <1>2 DEF Drained, RowOver
    <3>2. UNCHANGED <<pump, stdout, pending>> /\ pages'.eof
      BY <1>0, <1>2, <3>1
         DEF ProgressNext, PumpNext, LoopNext, WriteLine, PipelineExits, PipeCloses, ReadLine,
             PumpEnds, DrainEvents, ApplyEvent, DrainProgress, UpdateProgress, JoinPump,
             DrainWhileJoining, ApplyLast, CloseRow, TakeRow, LoopAt, PagesType
    <3> QED BY <3>1, <3>2
  <2> QED BY <1>2, <2>1, <2>2 DEF Drained
<1>3. CASE prow.ended # "closed" /\ ProgressNext
  <2>1. ~pump'.alive => pages'.eof /\ stdout' = <<>>
    BY <1>0, <1>3
       DEF Drained, ProgressNext, PumpNext, LoopNext, WriteLine, PipelineExits, PipeCloses,
           ReadLine, PumpEnds, DrainEvents, ApplyEvent, DrainProgress, UpdateProgress, JoinPump,
           DrainWhileJoining, ApplyLast, CloseRow, TakeRow, PagesType, PumpType
  <2>2. LoopAt("last")' \/ LoopAt("closed")' => ~pump'.alive /\ pending' = <<>>
    <3> SUFFICES ASSUME LoopAt("last")' \/ LoopAt("closed")'
                 PROVE  ~pump'.alive /\ pending' = <<>>
      OBVIOUS
    <3>1. JoinPump \/ ApplyLast \/ CloseRow
          \/ (UNCHANGED loop /\ (LoopAt("last") \/ LoopAt("closed")))
      BY <1>0, <1>3
         DEF ProgressNext, PumpNext, LoopNext, WriteLine, PipelineExits, PipeCloses, ReadLine,
             PumpEnds, DrainEvents, ApplyEvent, DrainProgress, UpdateProgress,
             DrainWhileJoining, TakeRow, LoopAt, LoopType
    <3>2. CASE JoinPump
      BY <3>2 DEF JoinPump
    <3>3. CASE ApplyLast \/ CloseRow
      BY <3>3 DEF ApplyLast, CloseRow, Drained
    <3>4. CASE UNCHANGED loop /\ (LoopAt("last") \/ LoopAt("closed"))
      <4>1. ~pump.alive /\ pending = <<>> /\ stdout = <<>>
        BY <3>4 DEF Drained
      <4>2. ~ReadLine /\ ~PumpEnds /\ ~DrainEvents /\ ~DrainProgress
        BY <3>4, <4>1 DEF ReadLine, PumpEnds, DrainEvents, DrainProgress, LoopAt
      <4>3. UNCHANGED pump /\ (UNCHANGED pending \/ pending' = <<>>)
        BY <1>3, <4>2
           DEF ProgressNext, PumpNext, LoopNext, WriteLine, PipelineExits, PipeCloses,
               ApplyEvent, UpdateProgress, JoinPump, DrainWhileJoining, ApplyLast, CloseRow,
               TakeRow
      <4> QED BY <4>1, <4>3
    <3> QED BY <3>1, <3>2, <3>3, <3>4
  <2>3. prow'.ended = "closed" => LoopAt("closed")' /\ prow'.received = pump'.last
    <3> SUFFICES ASSUME prow'.ended = "closed" PROVE LoopAt("closed")' /\ prow'.received = pump'.last
      OBVIOUS
    <3>1. ~ApplyEvent /\ ~ApplyLast
      BY <1>3, ApplyChained DEF ApplyEvent, ApplyLast, Gapless
    <3>2. ~UpdateProgress
      BY <1>0, <1>3 DEF UpdateProgress, LegacyUpdate, RowType
    <3>3. ~TakeRow
      BY <1>0, <1>3 DEF TakeRow, RowType
    <3>4. prow' # prow
      BY <1>3
    <3>5. CloseRow /\ ~RowOver
      BY <1>3, <3>1, <3>2, <3>3, <3>4
         DEF ProgressNext, PumpNext, LoopNext, WriteLine, PipelineExits, PipeCloses, ReadLine,
             PumpEnds, DrainEvents, DrainProgress, JoinPump, DrainWhileJoining, CloseRow
    <3>6. prow.received + Len(loop.batch) + Len(pending) = pump.last
      BY <3>5 DEF Gapless, Chained
    <3>7. loop.batch = <<>> /\ pending = <<>>
      BY <3>5 DEF CloseRow, Drained
    <3>8. prow.received = pump.last
      BY <1>0, <3>6, <3>7, EmptySeq DEF RowType
    <3>9. prow'.received = prow.received /\ pump' = pump
      BY <1>0, <3>5 DEF CloseRow, RowType
    <3>10. LoopAt("closed")'
      BY <1>0, <3>5 DEF CloseRow, LoopAt, LoopType
    <3> QED BY <3>8, <3>9, <3>10
  <2> QED BY <2>1, <2>2, <2>3 DEF Drained
<1> QED BY <1>1, <1>2, <1>3

\* The row that the runner closes has every event the pipeline wrote, although the
\* last ones were in the pipe when the pipeline exited.
THEOREM EverythingArrives == ProgressSpec => []NoEventMissed
<1> DEFINE Inv == ProgressBase /\ Gapless /\ Counted /\ Drained
<1>1. ProgressInit => Inv
  BY BaseInit, GaplessInit, CompleteInit
<1>2. Inv /\ [ProgressNext]_progressVars => Inv'
  BY BaseStep, GaplessStep, CountedStep, DrainedStep
<1>3. Inv => NoEventMissed
  <2> SUFFICES ASSUME Inv, prow.ended = "closed" PROVE prow.received = pages.events
    BY DEF NoEventMissed
  <2>1. prow.received = pump.last /\ stdout = <<>>
    BY DEF Drained
  <2>2. Len(stdout) = 0
    BY <2>1, EmptySeq
  <2>3. EventsIn(stdout) = {}
    BY <2>2 DEF EventsIn
  <2>4. pages.events = pump.last + 0 /\ pump.last \in Nat
    BY <2>3, FS_EmptySet DEF Counted, ProgressBase, PumpType
  <2> QED BY <2>1, <2>4
<1> HIDE DEF Inv
<1> QED BY <1>1, <1>2, <1>3, PTL DEF ProgressSpec

================================================================================
