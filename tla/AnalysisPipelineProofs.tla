----------------------- MODULE AnalysisPipelineProofs -----------------------
(***************************************************************************)
(* Proofs about AnalysisPipeline, for every set of Analyses, CVs, offers,   *)
(* workers, requests and message slots, and every combination of faults.    *)
(***************************************************************************)
EXTENDS AnalysisPipeline, TLAPS, FiniteSetTheorems

\* A commit of a well-typed record over a well-typed row is a well-typed row.
LEMMA FlushType ==
  ASSUME NEW now \in Row, NEW seen \in Row, NEW new \in Row
  PROVE  Flush(now, seen, new) \in Row
BY DEF Flush, Row

\* The absent row, and an idle worker's copy, is a row.
LEMMA NoRowType == NoRow \in Row
BY DEF NoRow, Row, Status, Reason

\* The roll-up counts are numbers, the rows being finitely many.
LEMMA CountType == ASSUME NEW s PROVE CountOf(s) \in Nat
<1>1. IsFiniteSet({a \in Analyses : row[a].status = s})
  BY PipelineAssumption, FS_Subset
<1>2. QED
  BY <1>1, FS_CardinalityType DEF CountOf

\* Every API step keeps the types.
LEMMA ApiType ==
  ASSUME TypeOK, NEW r \in Requests, ApiStep(r)
  PROVE  TypeOK'
<1> USE PipelineAssumption DEF TypeOK
<1>1. ASSUME NEW a \in Analyses, CreateAnalysis(r, a) PROVE TypeOK'
  <2>1. [row[a] EXCEPT !.status = "PENDING"] \in Row
    BY DEF Row, Status, NonTerminal
  <2>2. row' \in [Analyses -> Row]
    BY <1>1, <2>1 DEF CreateAnalysis
  <2>3. request' \in [Requests -> RequestState]
    BY <1>1, NoRowType DEF CreateAnalysis, Accept, RequestState, RequestPc, Body
  <2>4. QED
    BY <1>1, <2>2, <2>3 DEF CreateAnalysis, Accept
<1>2. ASSUME NEW a \in Analyses, RequeueRead(r, a) PROVE TypeOK'
  BY <1>2 DEF RequeueRead, Accept, RequestState, RequestPc, Body
<1>3. CASE RequeueCommit(r)
  <2> DEFINE seen == request[r].seen
             new == WithStatus(seen, "PENDING", "none")
  <2>1. seen \in Row
    BY DEF RequestState
  <2>2. new \in Row
    BY <2>1 DEF WithStatus, Row, Status, NonTerminal, Reason
  <2>3. \A a \in Analyses : Flush(row[a], seen, new) \in Row
    BY <2>1, <2>2, FlushType
  <2>4. row' \in [Analyses -> Row]
    BY <1>3, <2>3 DEF RequeueCommit
  <2>5. QED
    BY <1>3, <2>4 DEF RequeueCommit, RequestState, RequestPc
<1>4. ASSUME NEW c \in CVs, ConvertRead(r, c) PROVE TypeOK'
  BY <1>4 DEF ConvertRead, Accept, RequestState, RequestPc, Body, NoRow, Row, Status, Reason
<1>5. CASE ConvertCommit(r)
  <2>1. cv' \in [CVs -> Conversion]
    BY <1>5 DEF ConvertCommit, Conversion
  <2>2. request' \in [Requests -> RequestState]
    <3>1. "send" \in RequestPc
      BY DEF RequestPc
    <3>2. request[r] \in RequestState
      OBVIOUS
    <3>3. [request[r] EXCEPT !.pc = "send"] \in RequestState
      BY <3>1, <3>2 DEF RequestState
    <3>4. QED
      BY <1>5, <3>3 DEF ConvertCommit
  <2>3. QED
    BY <1>5, <2>1, <2>2 DEF ConvertCommit
<1>6. CASE Send(r)
  BY <1>6 DEF Send, FreeSlots, Slot, IdleRequest, RequestState, RequestPc, NoRow, Row,
              Status, Reason
<1>7. CASE SendFails(r)
  BY <1>7 DEF SendFails, IdleRequest, RequestState, RequestPc, NoRow, Row, Status, Reason
<1>8. QED
  BY <1>1, <1>2, <1>3, <1>4, <1>5, <1>6, <1>7 DEF ApiStep
-----------------------------------------------------------------------------
(* The forms a worker's step takes *)

\* Going on, raising and ending a record keep the workers' type.
LEMMA GotoType ==
  ASSUME TypeOK, NEW w \in Workers, NEW pc \in WorkerPc, Goto(w, pc)
  PROVE  worker' \in [Workers -> WorkerState]
BY DEF TypeOK, Goto, WorkerState

LEMMA RaiseType ==
  ASSUME TypeOK, NEW w \in Workers, Raise(w)
  PROVE  worker' \in [Workers -> WorkerState]
<1>1. "catch" \in WorkerPc
  BY DEF WorkerPc
<1>2. QED
  BY <1>1, NoRowType DEF TypeOK, Raise, WorkerState

LEMMA EndRecordType ==
  ASSUME TypeOK, NEW w \in Workers, EndRecord(w)
  PROVE  worker' \in [Workers -> WorkerState]
<1>1. "next" \in WorkerPc
  BY DEF WorkerPc
<1> DEFINE after == [worker[w] EXCEPT !.pc = "next", !.body = NoOne, !.seen = NoRow]
<1>2. after \in WorkerState
  BY <1>1, NoRowType DEF TypeOK, WorkerState
<1>3. worker' = [worker EXCEPT ![w] = after]
  BY DEF EndRecord, TypeOK
<1>4. QED
  BY <1>2, <1>3 DEF TypeOK

\* A save of a well-typed record keeps the types of the rows and the workers.
LEMMA SaveType ==
  ASSUME TypeOK, NEW w \in Workers, NEW new \in Row, NEW pc \in WorkerPc, Save(w, new, pc)
  PROVE  row' \in [Analyses -> Row] /\ worker' \in [Workers -> WorkerState]
<1>1. worker[w].seen \in Row
  BY DEF TypeOK, WorkerState
<1>2. \A a \in Analyses : Flush(row[a], worker[w].seen, new) \in Row
  BY <1>1, FlushType DEF TypeOK
<1>3. row' \in [Analyses -> Row]
  BY <1>2 DEF Save, TypeOK
<1>4. worker' \in [Workers -> WorkerState]
  BY DEF Save, TypeOK, WorkerState
<1>5. QED
  BY <1>3, <1>4

\* So does a recorded crew failure.
LEMMA FailCrewType ==
  ASSUME TypeOK, NEW w \in Workers, NEW reason \in Reason, FailCrew(w, reason)
  PROVE  row' \in [Analyses -> Row] /\ worker' \in [Workers -> WorkerState]
<1> DEFINE seen == worker[w].seen
           new == WithStatus(seen, "FAILED", reason)
<1>1. seen \in Row /\ new \in Row
  BY DEF TypeOK, WorkerState, WithStatus, Row, Status, Terminal
<1>2. \A a \in Analyses : Flush(row[a], seen, new) \in Row
  BY <1>1, FlushType DEF TypeOK
<1>3. row' \in [Analyses -> Row]
  BY <1>2 DEF FailCrew, TypeOK
<1>4. worker' \in [Workers -> WorkerState]
  BY RaiseType DEF FailCrew
<1>5. QED
  BY <1>3, <1>4

\* Every step of a record's handling keeps the types.
LEMMA HandlerType ==
  ASSUME TypeOK, NEW w \in Workers, WorkerBacked(w), HandlerStep(w)
  PROVE  TypeOK'
<1>0. worker[w].seen \in Row
  BY DEF TypeOK, WorkerState
<1>1. CASE EnsureCv(w)
  <2>1. worker' \in [Workers -> WorkerState]
    BY <1>1, GotoType DEF EnsureCv, WorkerPc
  <2>2. QED
    BY <1>1, <2>1 DEF EnsureCv, TypeOK, Conversion
<1>2. CASE Convert(w)
  <2>1. worker' \in [Workers -> WorkerState]
    BY <1>2, GotoType, RaiseType DEF Convert, WorkerPc
  <2>2. cv' \in [CVs -> Conversion]
    BY <1>2 DEF Convert, ConversionEnds, TypeOK
  <2>3. QED
    BY <1>2, <2>1, <2>2 DEF Convert, TypeOK
<1>3. CASE EnsureOffer(w)
  <2>1. worker' \in [Workers -> WorkerState]
    BY <1>3, GotoType, RaiseType DEF EnsureOffer, WorkerPc
  <2>2. QED
    BY <1>3, <2>1 DEF EnsureOffer, TypeOK, Extraction
<1>4. CASE Extract(w)
  <2>1. worker' \in [Workers -> WorkerState]
    BY <1>4, GotoType, RaiseType DEF Extract, WorkerPc
  <2>2. offer' \in [Offers -> Extraction]
    BY <1>4 DEF Extract, TypeOK, Extraction
  <2>3. QED
    BY <1>4, <2>1, <2>2 DEF Extract, TypeOK
<1>5. CASE SkipCrew(w)
  <2>1. worker' \in [Workers -> WorkerState]
    BY <1>5, GotoType DEF SkipCrew, WorkerPc
  <2>2. QED
    BY <1>5, <2>1 DEF SkipCrew, TypeOK
<1>6. CASE StartCrew(w)
  <2>1. [worker[w].seen EXCEPT !.status = "RUNNING_CREW"] \in Row
    BY <1>0 DEF Row, Status, NonTerminal
  <2>2. row' \in [Analyses -> Row] /\ worker' \in [Workers -> WorkerState]
    BY <1>6, <2>1, SaveType DEF StartCrew, WorkerPc
  <2>3. QED
    BY <1>6, <2>2 DEF StartCrew, TypeOK
<1>7. CASE ReadInputs(w)
  <2>1. row' \in [Analyses -> Row] /\ worker' \in [Workers -> WorkerState]
    BY <1>7, FailCrewType, GotoType DEF ReadInputs, WorkerPc, Reason, TypeOK
  <2>2. QED
    BY <1>7, <2>1 DEF ReadInputs, TypeOK
<1>8. CASE RunCrew(w)
  <2>1. row' \in [Analyses -> Row] /\ worker' \in [Workers -> WorkerState]
    BY <1>8, FailCrewType, GotoType, RaiseType DEF RunCrew, WorkerPc, Reason, TypeOK
  <2>2. worker[w].body \in Analyses
    BY <1>8 DEF RunCrew, WorkerBacked, InPipeline
  <2>3. stored' \subseteq stored \cup {worker[w].body}
    BY <1>8 DEF RunCrew
  <2>4. QED
    BY <1>8, <2>1, <2>2, <2>3 DEF RunCrew, TypeOK
<1>9. CASE AwaitResult(w)
  <2>1. [worker[w].seen EXCEPT !.status = "AWAITING_RESULT", !.key = TRUE, !.error = "none"] \in Row
    BY <1>0 DEF Row, Status, NonTerminal, Reason
  <2>2. row' \in [Analyses -> Row] /\ worker' \in [Workers -> WorkerState]
    BY <1>9, <2>1, SaveType DEF AwaitResult, WorkerPc
  <2>3. QED
    BY <1>9, <2>2 DEF AwaitResult, TypeOK
<1>10. CASE Persist(w)
  <2> DEFINE seen == worker[w].seen
  <2>1. /\ [WithStatus(seen, "COMPLETED", "none") EXCEPT !.result = TRUE] \in Row
        /\ WithStatus(seen, "FAILED", "result") \in Row
    BY <1>0 DEF WithStatus, Row, Status, Terminal, Reason
  <2>2. row' \in [Analyses -> Row] /\ worker' \in [Workers -> WorkerState]
    BY <1>10, <2>1, SaveType, RaiseType DEF Persist, WorkerPc, TypeOK
  <2>3. QED
    BY <1>10, <2>2 DEF Persist, TypeOK
<1>11. CASE MarkFailed(w)
  <2>1. \A a \in Analyses : WithStatus(row[a], "FAILED", "caught") \in Row
    BY DEF TypeOK, WithStatus, Row, Status, Terminal, Reason
  <2>2. row' \in [Analyses -> Row]
    BY <1>11, <2>1 DEF MarkFailed, TypeOK
  <2>3. worker' \in [Workers -> WorkerState]
    BY <1>11, GotoType, EndRecordType DEF MarkFailed, WorkerPc
  <2>4. QED
    BY <1>11, <2>2, <2>3 DEF MarkFailed, TypeOK
<1>12. CASE RollUp(w)
  <2>1. worker' \in [Workers -> WorkerState]
    BY <1>12, EndRecordType, RaiseType DEF RollUp
  <2>2. CountOf("COMPLETED") \in Nat /\ CountOf("FAILED") \in Nat
    BY CountType
  <2>3. run' \in [analysed : Nat, failed : Nat]
    BY <1>12, <2>2 DEF RollUp
  <2>4. QED
    BY <1>12, <2>1, <2>3 DEF RollUp, TypeOK
<1>13. CASE ConvertMessage(w)
  <2>1. IdleWorker \in WorkerState
    BY NoRowType DEF IdleWorker, WorkerState, WorkerPc
  <2>2. worker' \in [Workers -> WorkerState]
    BY <1>13, <2>1, EndRecordType DEF ConvertMessage, TypeOK
  <2>3. cv' \in [CVs -> Conversion]
    BY <1>13 DEF ConvertMessage, ConversionEnds, TypeOK
  <2>4. QED
    BY <1>13, <2>2, <2>3 DEF ConvertMessage, TypeOK
<1>14. QED
  BY <1>1, <1>2, <1>3, <1>4, <1>5, <1>6, <1>7, <1>8, <1>9, <1>10, <1>11, <1>12, <1>13
  DEF HandlerStep
\* And so do the queue's steps and the rest of a worker's.
LEMMA QueueType ==
  ASSUME TypeOK,
         \/ \E w \in Workers :
              \/ \E batch \in SUBSET MsgIds : Receive(w, batch)
              \/ LoadNext(w) \/ DeleteBatch(w) \/ WorkerCrash(w)
         \/ \E m \in MsgIds : BecomeVisible(m)
         \/ BrokerRestart
         \/ \E a \in Analyses : Age(a)
  PROVE  TypeOK'
<1>0. IdleWorker \in WorkerState /\ FreeSlot \in Slot
  BY NoRowType DEF IdleWorker, WorkerState, WorkerPc, FreeSlot, Slot
<1>1. ASSUME NEW w \in Workers, NEW batch \in SUBSET MsgIds, Receive(w, batch)
      PROVE  TypeOK'
  <2>1. [IdleWorker EXCEPT !.pc = "next", !.batch = batch, !.todo = batch] \in WorkerState
    BY NoRowType DEF IdleWorker, WorkerState, WorkerPc
  <2>2. queue' \in [MsgIds -> Slot]
    BY <1>1 DEF Receive, TypeOK, Slot
  <2>3. QED
    BY <1>1, <2>1, <2>2 DEF Receive, TypeOK
<1>2. ASSUME NEW w \in Workers, NEW m \in MsgIds, LoadAnalysis(w, m)
      PROVE  TypeOK'
  <2>1. "cv" \in WorkerPc /\ queue[m].body \in Body /\ row[queue[m].body] \in Row
    BY <1>2 DEF LoadAnalysis, WorkerPc, Body, TypeOK
  <2>2. [worker[w] EXCEPT !.pc = "cv", !.todo = @ \ {m},
                          !.body = queue[m].body, !.seen = row[queue[m].body]] \in WorkerState
    BY <2>1 DEF TypeOK, WorkerState
  <2>3. QED
    BY <1>2, <2>2 DEF LoadAnalysis, TypeOK
<1>3. ASSUME NEW w \in Workers, NEW m \in MsgIds, LoadConversion(w, m)
      PROVE  TypeOK'
  <2>1. "convert_message" \in WorkerPc /\ queue[m].body \in Body
    BY <1>3 DEF LoadConversion, WorkerPc, Body
  <2>2. [worker[w] EXCEPT !.pc = "convert_message", !.todo = @ \ {m},
                          !.body = queue[m].body] \in WorkerState
    BY <2>1 DEF TypeOK, WorkerState
  <2>3. QED
    BY <1>3, <2>2 DEF LoadConversion, TypeOK, Conversion
<1>4. ASSUME NEW w \in Workers, DeleteBatch(w) PROVE TypeOK'
  BY <1>0, <1>4 DEF DeleteBatch, TypeOK, Slot
<1>5. ASSUME NEW w \in Workers, WorkerCrash(w) PROVE TypeOK'
  BY <1>0, <1>5, PipelineAssumption DEF WorkerCrash, TypeOK
<1>6. ASSUME NEW m \in MsgIds, BecomeVisible(m) PROVE TypeOK'
  BY <1>6 DEF BecomeVisible, TypeOK, Slot
<1>7. CASE BrokerRestart
  BY <1>0, <1>7, PipelineAssumption DEF BrokerRestart, TypeOK, Slot
<1>8. ASSUME NEW a \in Analyses, Age(a) PROVE TypeOK'
  BY <1>8 DEF Age, TypeOK
<1>9. QED
  BY <1>1, <1>2, <1>3, <1>4, <1>5, <1>6, <1>7, <1>8 DEF LoadNext
-----------------------------------------------------------------------------
(* CompletedInv is inductive *)

\* A step that takes no result, key or object away.
Kept ==
  /\ stored \subseteq stored'
  /\ \A a \in Analyses : (row[a].result => row'[a].result) /\ (row[a].key => row'[a].key)

\* Such a step leaves a worker that does not take part backed.
LEMMA OthersBacked ==
  ASSUME NEW v \in Workers, WorkerBacked(v), worker'[v] = worker[v], Kept
  PROVE  WorkerBacked(v)'
BY DEF WorkerBacked, InPipeline, Kept

\* Going on backs every worker, if the hand-over steps find what they need.
LEMMA GotoBacked ==
  ASSUME CompletedInv, NEW w \in Workers, NEW pc \in WorkerPc, Goto(w, pc), Kept,
         InPipeline(w),
         pc \in {"await", "persist"} => worker[w].body \in stored',
         pc = "persist" => worker[w].seen.key
  PROVE  \A v \in Workers : WorkerBacked(v)'
<1>1. TypeOK /\ \A v \in Workers : WorkerBacked(v)
  BY DEF CompletedInv
<1>2. worker'[w] = [worker[w] EXCEPT !.pc = pc]
  BY <1>1 DEF Goto, TypeOK
<1>3. \A v \in Workers \ {w} : WorkerBacked(v)'
  BY <1>1, OthersBacked DEF Goto, TypeOK
<1>4. worker'[w].pc = pc /\ worker'[w].body = worker[w].body /\ worker'[w].seen = worker[w].seen
  BY <1>1, <1>2 DEF TypeOK, WorkerState
<1>5. WorkerBacked(w)'
  BY <1>1, <1>4 DEF WorkerBacked, InPipeline, Kept
<1>6. QED
  BY <1>3, <1>5

\* Raising and ending a record drop the copy.
LEMMA DropBacked ==
  ASSUME CompletedInv, NEW w \in Workers, InPipeline(w) \/ EndRecord(w),
         Raise(w) \/ EndRecord(w), Kept
  PROVE  \A v \in Workers : WorkerBacked(v)'
<1>1. TypeOK /\ \A v \in Workers : WorkerBacked(v)
  BY DEF CompletedInv
<1>2. \A v \in Workers \ {w} : WorkerBacked(v)'
  BY <1>1, OthersBacked DEF Raise, EndRecord, TypeOK
<1>3. worker'[w].seen = NoRow
  BY <1>1 DEF Raise, EndRecord, TypeOK, WorkerState
<1>4. ~NoRow.result /\ ~NoRow.key /\ NoRow.status # "COMPLETED"
  BY DEF NoRow
<1>5. worker'[w].pc \in {"catch", "next"}
  BY <1>1 DEF Raise, EndRecord, TypeOK, WorkerState
<1>6. InPipeline(w)' => worker'[w].body \in Analyses
  BY <1>1 DEF Raise, EndRecord, TypeOK, WorkerState, InPipeline, WorkerBacked
<1>7. WorkerBacked(w)'
  BY <1>3, <1>4, <1>5, <1>6 DEF WorkerBacked
<1>8. QED
  BY <1>2, <1>7

\* An idle worker claims nothing.
LEMMA IdleBacked ==
  ASSUME CompletedInv, NEW w \in Workers, worker' = [worker EXCEPT ![w] = IdleWorker], Kept
  PROVE  \A v \in Workers : WorkerBacked(v)'
<1>1. TypeOK /\ \A v \in Workers : WorkerBacked(v)
  BY DEF CompletedInv
<1>2. \A v \in Workers \ {w} : WorkerBacked(v)'
  BY <1>1, OthersBacked DEF TypeOK
<1>3. worker'[w] = IdleWorker
  BY <1>1 DEF TypeOK
<1>4. WorkerBacked(w)'
  BY <1>3 DEF WorkerBacked, InPipeline, IdleWorker, NoRow
<1>5. QED
  BY <1>2, <1>4

\* A commit through a truthful copy loses no result or key, and gains the new ones.
LEMMA FlushKeeps ==
  ASSUME NEW now \in Row, NEW seen \in Row, NEW new \in Row,
         seen.result => new.result /\ now.result,
         seen.key => new.key /\ now.key
  PROVE  LET after == Flush(now, seen, new) IN
         /\ now.result => after.result
         /\ now.key => after.key
         /\ new.result => after.result
         /\ new.key => after.key
BY DEF Flush, Row
\* Committing such a record to a row keeps the rows' claims true.
LEMMA CommitBacked ==
  ASSUME CompletedInv, NEW a \in Analyses, NEW seen \in Row, NEW new \in Row,
         row' = [row EXCEPT ![a] = Flush(@, seen, new)], UNCHANGED stored,
         seen.result => new.result /\ row[a].result,
         seen.key => new.key /\ row[a].key,
         new.status = "COMPLETED" => new.result /\ new.key /\ a \in stored
  PROVE  /\ Kept
         /\ CompletedHasResult'
         /\ new.result => row'[a].result
         /\ new.key => row'[a].key
<1> DEFINE after == Flush(row[a], seen, new)
<1>1. row[a] \in Row /\ row'[a] = after /\ \A b \in Analyses \ {a} : row'[b] = row[b]
  BY DEF CompletedInv, TypeOK
<1>2. /\ row[a].result => after.result
      /\ row[a].key => after.key
      /\ new.result => after.result
      /\ new.key => after.key
  BY <1>1, FlushKeeps
<1>3. Kept
  BY <1>1, <1>2 DEF Kept
<1>4. after.status = "COMPLETED" => new.status = "COMPLETED" \/ row[a].status = "COMPLETED"
  BY DEF Flush
<1>5. CompletedHasResult'
  BY <1>1, <1>2, <1>4 DEF CompletedInv, CompletedHasResult
<1>6. QED
  BY <1>1, <1>2, <1>3, <1>5

\* A worker's save keeps everything backed, if what it saves is.
LEMMA SaveBacked ==
  ASSUME CompletedInv, NEW w \in Workers, NEW new \in Row, NEW pc \in WorkerPc,
         Save(w, new, pc), UNCHANGED stored, InPipeline(w),
         worker[w].seen.result => new.result,
         worker[w].seen.key => new.key,
         new.status = "COMPLETED" => new.result /\ new.key /\ worker[w].body \in stored,
         pc \in {"await", "persist"} => worker[w].body \in stored,
         pc = "persist" => new.key
  PROVE  CompletedHasResult' /\ \A v \in Workers : WorkerBacked(v)'
<1> DEFINE a == worker[w].body
           seen == worker[w].seen
<1>1. TypeOK /\ \A v \in Workers : WorkerBacked(v)
  BY DEF CompletedInv
<1>2. /\ seen \in Row
      /\ a \in Analyses
      /\ seen.result => new.result /\ row[a].result
      /\ seen.key => new.key /\ row[a].key
  BY <1>1 DEF TypeOK, WorkerState, WorkerBacked
<1>3. row' = [row EXCEPT ![a] = Flush(@, seen, new)]
  BY DEF Save
<1>4. /\ Kept
      /\ CompletedHasResult'
      /\ new.result => row'[a].result
      /\ new.key => row'[a].key
  BY <1>2, <1>3, CommitBacked
<1>5. \A v \in Workers \ {w} : WorkerBacked(v)'
  BY <1>1, <1>4, OthersBacked DEF Save, TypeOK
<1>6. worker'[w].pc = pc /\ worker'[w].body = a /\ worker'[w].seen = new
  BY <1>1 DEF Save, TypeOK, WorkerState
<1>7. WorkerBacked(w)'
  BY <1>2, <1>4, <1>6 DEF WorkerBacked
<1>8. QED
  BY <1>4, <1>5, <1>7

\* So does a recorded crew failure.
LEMMA FailCrewBacked ==
  ASSUME CompletedInv, NEW w \in Workers, NEW reason \in Reason, FailCrew(w, reason),
         UNCHANGED stored, InPipeline(w)
  PROVE  CompletedHasResult' /\ \A v \in Workers : WorkerBacked(v)'
<1> DEFINE a == worker[w].body
           seen == worker[w].seen
           new == WithStatus(seen, "FAILED", reason)
<1>1. TypeOK /\ WorkerBacked(w)
  BY DEF CompletedInv
<1>2. seen \in Row /\ new \in Row /\ a \in Analyses
  BY <1>1 DEF TypeOK, WorkerState, WorkerBacked, WithStatus, Row, Status, Terminal
<1>3. new.result = seen.result /\ new.key = seen.key /\ new.status = "FAILED"
  BY <1>2 DEF WithStatus, Row
<1>4. /\ seen.result => new.result /\ row[a].result
      /\ seen.key => new.key /\ row[a].key
  BY <1>1, <1>2, <1>3 DEF WorkerBacked
<1>5. row' = [row EXCEPT ![a] = Flush(@, seen, new)]
  BY DEF FailCrew
<1>6. Kept /\ CompletedHasResult'
  BY <1>2, <1>3, <1>4, <1>5, CommitBacked
<1>7. \A v \in Workers : WorkerBacked(v)'
  BY <1>6, DropBacked DEF FailCrew
<1>8. QED
  BY <1>6, <1>7

\* A step that leaves the rows and the store alone keeps what they claim.
LEMMA RowsUnchanged ==
  ASSUME CompletedInv, UNCHANGED <<row, stored>>
  PROVE  Kept /\ CompletedHasResult'
BY DEF CompletedInv, Kept, CompletedHasResult
\* Every step of a record's handling keeps the rows and the workers backed.
LEMMA HandlerBacked ==
  ASSUME CompletedInv, NEW w \in Workers, HandlerStep(w)
  PROVE  CompletedHasResult' /\ \A v \in Workers : WorkerBacked(v)'
<1> DEFINE a == worker[w].body
           seen == worker[w].seen
<1>0. TypeOK /\ WorkerBacked(w) /\ seen \in Row
  BY DEF CompletedInv, TypeOK, WorkerState
<1>1. CASE EnsureCv(w)
  <2>1. Kept /\ CompletedHasResult'
    BY <1>1, RowsUnchanged DEF EnsureCv
  <2>2. QED
    BY <1>1, <2>1, GotoBacked DEF EnsureCv, WorkerPc, InPipeline
<1>2. CASE Convert(w)
  <2>1. Kept /\ CompletedHasResult'
    BY <1>2, RowsUnchanged DEF Convert
  <2>2. QED
    BY <1>2, <2>1, GotoBacked, DropBacked DEF Convert, WorkerPc, InPipeline
<1>3. CASE EnsureOffer(w)
  <2>1. Kept /\ CompletedHasResult'
    BY <1>3, RowsUnchanged DEF EnsureOffer
  <2>2. QED
    BY <1>3, <2>1, GotoBacked, DropBacked DEF EnsureOffer, WorkerPc, InPipeline
<1>4. CASE Extract(w)
  <2>1. Kept /\ CompletedHasResult'
    BY <1>4, RowsUnchanged DEF Extract
  <2>2. QED
    BY <1>4, <2>1, GotoBacked, DropBacked DEF Extract, WorkerPc, InPipeline
<1>5. CASE SkipCrew(w)
  <2>1. Kept /\ CompletedHasResult'
    BY <1>5, RowsUnchanged DEF SkipCrew
  <2>2. InPipeline(w) /\ seen.key /\ a \in stored
    BY <1>0, <1>5 DEF SkipCrew, InPipeline, WorkerBacked
  <2>3. QED
    BY <1>5, <2>1, <2>2, GotoBacked DEF SkipCrew, WorkerPc
<1>6. CASE StartCrew(w)
  <2> DEFINE new == [seen EXCEPT !.status = "RUNNING_CREW"]
  <2>1. new \in Row /\ new.result = seen.result /\ new.key = seen.key
        /\ new.status = "RUNNING_CREW"
    BY <1>0 DEF Row, Status, NonTerminal
  <2>2. Save(w, new, "inputs") /\ UNCHANGED stored /\ InPipeline(w)
    BY <1>6 DEF StartCrew, InPipeline
  <2>3. QED
    BY <2>1, <2>2, SaveBacked DEF WorkerPc
<1>7. CASE ReadInputs(w)
  <2>1. InPipeline(w) /\ UNCHANGED stored
    BY <1>7 DEF ReadInputs, InPipeline
  <2>2. ASSUME NEW reason \in Reason, FailCrew(w, reason)
        PROVE  CompletedHasResult' /\ \A v \in Workers : WorkerBacked(v)'
    BY <2>1, <2>2, FailCrewBacked
  <2>3. CASE Goto(w, "llm") /\ UNCHANGED row
    BY <2>1, <2>3, RowsUnchanged, GotoBacked DEF WorkerPc
  <2>4. QED
    BY <1>7, <2>2, <2>3 DEF ReadInputs, Reason
<1>8. CASE RunCrew(w)
  <2>1. InPipeline(w)
    BY <1>8 DEF RunCrew, InPipeline
  <2>2. CASE stored' = stored \cup {a} /\ Goto(w, "await") /\ UNCHANGED row
    <3>1. Kept /\ CompletedHasResult' /\ a \in stored'
      BY <2>2 DEF Kept, CompletedInv, CompletedHasResult
    <3>2. QED
      BY <2>1, <2>2, <3>1, GotoBacked DEF WorkerPc
  <2>3. CASE FailCrew(w, "crew") /\ UNCHANGED stored
    BY <2>1, <2>3, FailCrewBacked DEF Reason
  <2>4. CASE Raise(w) /\ UNCHANGED <<row, stored>>
    BY <2>1, <2>4, RowsUnchanged, DropBacked
  <2>5. QED
    BY <1>8, <2>2, <2>3, <2>4 DEF RunCrew
<1>9. CASE AwaitResult(w)
  <2> DEFINE new == [seen EXCEPT !.status = "AWAITING_RESULT", !.key = TRUE, !.error = "none"]
  <2>1. new \in Row /\ new.result = seen.result /\ new.key
        /\ new.status = "AWAITING_RESULT"
    BY <1>0 DEF Row, Status, NonTerminal, Reason
  <2>2. Save(w, new, "persist") /\ UNCHANGED stored /\ InPipeline(w) /\ a \in stored
    BY <1>0, <1>9 DEF AwaitResult, InPipeline, WorkerBacked
  <2>3. QED
    BY <2>1, <2>2, SaveBacked DEF WorkerPc
<1>10. CASE Persist(w)
  <2>1. InPipeline(w) /\ UNCHANGED stored /\ seen.key
    BY <1>0, <1>10 DEF Persist, InPipeline, WorkerBacked
  <2>2. ASSUME a \in stored,
               Save(w, [WithStatus(seen, "COMPLETED", "none") EXCEPT !.result = TRUE], "rollup")
        PROVE  CompletedHasResult' /\ \A v \in Workers : WorkerBacked(v)'
    <3> DEFINE new == [WithStatus(seen, "COMPLETED", "none") EXCEPT !.result = TRUE]
    <3>1. new \in Row /\ new.result /\ new.key = seen.key
      BY <1>0 DEF WithStatus, Row, Status, Terminal, Reason
    <3>2. QED
      BY <2>1, <2>2, <3>1, SaveBacked DEF WorkerPc
  <2>3. ASSUME Save(w, WithStatus(seen, "FAILED", "result"), "rollup_failed")
        PROVE  CompletedHasResult' /\ \A v \in Workers : WorkerBacked(v)'
    <3> DEFINE new == WithStatus(seen, "FAILED", "result")
    <3>1. new \in Row /\ new.result = seen.result /\ new.key = seen.key /\ new.status = "FAILED"
      BY <1>0 DEF WithStatus, Row, Status, Terminal, Reason
    <3>2. QED
      BY <2>1, <2>3, <3>1, SaveBacked DEF WorkerPc
  <2>4. CASE Raise(w) /\ UNCHANGED row
    BY <2>1, <2>4, RowsUnchanged, DropBacked
  <2>5. QED
    BY <1>10, <2>2, <2>3, <2>4 DEF Persist
<1>11. CASE MarkFailed(w)
  <2>1. InPipeline(w) /\ UNCHANGED stored /\ a \in Analyses
    BY <1>0, <1>11 DEF MarkFailed, InPipeline, WorkerBacked
  <2>2. CASE EndRecord(w) /\ UNCHANGED row
    BY <2>1, <2>2, RowsUnchanged, DropBacked
  <2>3. CASE row' = [row EXCEPT ![a] = WithStatus(@, "FAILED", "caught")] /\ Goto(w, "rollup")
    <3>1. Kept /\ CompletedHasResult'
      BY <1>0, <2>1, <2>3 DEF Kept, CompletedInv, CompletedHasResult, WithStatus, TypeOK, Row
    <3>2. QED
      BY <2>1, <2>3, <3>1, GotoBacked DEF WorkerPc
  <2>4. QED
    BY <1>11, <2>2, <2>3 DEF MarkFailed
<1>12. CASE RollUp(w)
  <2>1. Kept /\ CompletedHasResult' /\ InPipeline(w)
    BY <1>12, RowsUnchanged DEF RollUp, InPipeline
  <2>2. QED
    BY <1>12, <2>1, DropBacked DEF RollUp
<1>13. CASE ConvertMessage(w)
  <2>1. Kept /\ CompletedHasResult'
    BY <1>13, RowsUnchanged DEF ConvertMessage
  <2>2. CASE worker' = [worker EXCEPT ![w] = IdleWorker]
    BY <2>1, <2>2, IdleBacked
  <2>3. CASE EndRecord(w)
    BY <2>1, <2>3, DropBacked
  <2>4. QED
    BY <1>13, <2>1, <2>2, <2>3 DEF ConvertMessage
<1>14. QED
  BY <1>1, <1>2, <1>3, <1>4, <1>5, <1>6, <1>7, <1>8, <1>9, <1>10, <1>11, <1>12, <1>13
  DEF HandlerStep

\* Every API step does.
LEMMA ApiBacked ==
  ASSUME CompletedInv, NEW r \in Requests, ApiStep(r)
  PROVE  CompletedHasResult' /\ \A v \in Workers : WorkerBacked(v)'
<1>0. TypeOK /\ (\A v \in Workers : WorkerBacked(v)) /\ UNCHANGED worker
  BY DEF CompletedInv, ApiStep, CreateAnalysis, RequeueRead, RequeueCommit, ConvertRead,
         ConvertCommit, Send, SendFails
<1>1. ASSUME NEW a \in Analyses, CreateAnalysis(r, a) PROVE Kept /\ CompletedHasResult'
  BY <1>0, <1>1 DEF CreateAnalysis, CompletedInv, CompletedHasResult, Kept, TypeOK, Row
<1>2. ASSUME RequeueCommit(r) PROVE Kept /\ CompletedHasResult'
  <2> DEFINE a == request[r].body
             seen == request[r].seen
             new == WithStatus(seen, "PENDING", "none")
  <2>1. seen \in Row /\ new.result = seen.result /\ new.key = seen.key /\ new.status = "PENDING"
    BY <1>0 DEF TypeOK, RequestState, WithStatus, Row
  <2>2. ASSUME NEW b \in Analyses
        PROVE  /\ row'[b].result = row[b].result
               /\ row'[b].key = row[b].key
               /\ row'[b].status \in {row[b].status, "PENDING"}
    BY <1>0, <1>2, <2>1 DEF RequeueCommit, Flush, TypeOK, Row
  <2>3. QED
    BY <1>0, <1>2, <2>2 DEF RequeueCommit, CompletedInv, CompletedHasResult, Kept
<1>3. ASSUME UNCHANGED <<row, stored>> PROVE Kept /\ CompletedHasResult'
  BY <1>3, RowsUnchanged
<1>4. Kept /\ CompletedHasResult'
  BY <1>1, <1>2, <1>3
  DEF ApiStep, RequeueRead, ConvertRead, ConvertCommit, Send, SendFails
<1>5. QED
  BY <1>0, <1>4, OthersBacked
\* And the queue's steps and the rest of a worker's.
LEMMA QueueBacked ==
  ASSUME CompletedInv,
         \/ \E w \in Workers :
              \/ \E batch \in SUBSET MsgIds : Receive(w, batch)
              \/ LoadNext(w) \/ DeleteBatch(w) \/ WorkerCrash(w)
         \/ \E m \in MsgIds : BecomeVisible(m)
         \/ BrokerRestart
         \/ \E a \in Analyses : Age(a)
  PROVE  CompletedHasResult' /\ \A v \in Workers : WorkerBacked(v)'
<1>0. TypeOK /\ CompletedHasResult /\ \A v \in Workers : WorkerBacked(v)
  BY DEF CompletedInv
<1>1. UNCHANGED <<row, stored>>
  BY DEF Receive, LoadNext, LoadAnalysis, LoadConversion, DeleteBatch, WorkerCrash,
         BecomeVisible, BrokerRestart, Age
<1>2. Kept /\ CompletedHasResult'
  BY <1>1, RowsUnchanged
<1>3. ASSUME NEW w \in Workers, NEW batch \in SUBSET MsgIds, Receive(w, batch)
      PROVE  \A v \in Workers : WorkerBacked(v)'
  <2>1. worker'[w] = [IdleWorker EXCEPT !.pc = "next", !.batch = batch, !.todo = batch]
    BY <1>0, <1>3 DEF Receive, TypeOK
  <2>2. WorkerBacked(w)'
    BY <2>1 DEF IdleWorker, NoRow, WorkerBacked, InPipeline
  <2>3. QED
    BY <1>0, <1>2, <1>3, <2>2, OthersBacked DEF Receive, TypeOK
<1>4. ASSUME NEW w \in Workers, NEW m \in MsgIds, LoadAnalysis(w, m)
      PROVE  \A v \in Workers : WorkerBacked(v)'
  <2> DEFINE a == queue[m].body
  <2>1. a \in Analyses
    BY <1>4 DEF LoadAnalysis
  <2>2. worker'[w] = [worker[w] EXCEPT !.pc = "cv", !.todo = @ \ {m},
                                       !.body = a, !.seen = row[a]]
    BY <1>0, <1>4 DEF LoadAnalysis, TypeOK
  <2>3. worker'[w].pc = "cv" /\ worker'[w].body = a /\ worker'[w].seen = row[a]
    BY <1>0, <2>2 DEF TypeOK, WorkerState
  <2>4. WorkerBacked(w)'
    BY <1>0, <1>1, <2>1, <2>3 DEF WorkerBacked, CompletedHasResult
  <2>5. QED
    BY <1>0, <1>2, <1>4, <2>4, OthersBacked DEF LoadAnalysis, TypeOK
<1>5. ASSUME NEW w \in Workers, NEW m \in MsgIds, LoadConversion(w, m)
      PROVE  \A v \in Workers : WorkerBacked(v)'
  <2>1. worker'[w].pc = "convert_message" /\ worker'[w].body \in CVs
    BY <1>0, <1>5 DEF LoadConversion, TypeOK, WorkerState
  <2>2. worker'[w].body \notin Analyses
    BY <2>1, PipelineAssumption
  <2>3. WorkerBacked(w)'
    BY <2>1, <2>2 DEF WorkerBacked, InPipeline
  <2>4. QED
    BY <1>0, <1>2, <1>5, <2>3, OthersBacked DEF LoadConversion, TypeOK
<1>6. ASSUME NEW w \in Workers, DeleteBatch(w) \/ WorkerCrash(w)
      PROVE  \A v \in Workers : WorkerBacked(v)'
  BY <1>2, <1>6, IdleBacked DEF DeleteBatch, WorkerCrash
<1>7. CASE UNCHANGED worker
  BY <1>0, <1>2, <1>7, OthersBacked
<1>8. QED
  BY <1>2, <1>3, <1>4, <1>5, <1>6, <1>7 DEF LoadNext, BecomeVisible, BrokerRestart, Age

-----------------------------------------------------------------------------
(* The theorems *)

LEMMA InitCompletedInv == Init => CompletedInv
<1> SUFFICES ASSUME Init PROVE CompletedInv
  OBVIOUS
<1>1. IdleWorker \in WorkerState /\ FreeSlot \in Slot
  BY NoRowType DEF IdleWorker, WorkerState, WorkerPc, FreeSlot, Slot
<1>2. IdleRequest \in RequestState
  BY NoRowType DEF IdleRequest, RequestState, RequestPc
<1>3. TypeOK
  BY <1>1, <1>2, NoRowType, PipelineAssumption DEF Init, TypeOK
<1>4. CompletedHasResult
  BY DEF Init, CompletedHasResult, NoRow
<1>5. \A w \in Workers : WorkerBacked(w)
  BY DEF Init, WorkerBacked, InPipeline, IdleWorker, NoRow
<1>6. QED
  BY <1>3, <1>4, <1>5 DEF CompletedInv

LEMMA NextCompletedInv == CompletedInv /\ [Next]_vars => CompletedInv'
<1> SUFFICES ASSUME CompletedInv, [Next]_vars PROVE CompletedInv'
  OBVIOUS
<1>0. TypeOK /\ \A w \in Workers : WorkerBacked(w)
  BY DEF CompletedInv
<1>1. ASSUME NEW r \in Requests, ApiStep(r) PROVE CompletedInv'
  BY <1>0, <1>1, ApiType, ApiBacked DEF CompletedInv
<1>2. ASSUME NEW w \in Workers, HandlerStep(w) PROVE CompletedInv'
  BY <1>0, <1>2, HandlerType, HandlerBacked DEF CompletedInv
<1>3. CASE \/ \E w \in Workers :
                \/ \E batch \in SUBSET MsgIds : Receive(w, batch)
                \/ LoadNext(w) \/ DeleteBatch(w) \/ WorkerCrash(w)
           \/ \E m \in MsgIds : BecomeVisible(m)
           \/ BrokerRestart
           \/ \E a \in Analyses : Age(a)
  BY <1>0, <1>3, QueueType, QueueBacked DEF CompletedInv
<1>4. CASE UNCHANGED vars
  BY <1>4 DEF vars, CompletedInv, TypeOK, CompletedHasResult, WorkerBacked, InPipeline
<1>5. QED
  BY <1>1, <1>2, <1>3, <1>4 DEF Next

\* The inductive invariant holds of every behaviour.
THEOREM CompletedInvariant == Spec => []CompletedInv
BY InitCompletedInv, NextCompletedInv, PTL DEF Spec

\* Every variable keeps its type in every deployment.
THEOREM TypeCorrect == Spec => []TypeOK
<1>1. CompletedInv => TypeOK
  BY DEF CompletedInv
<1>2. QED
  BY <1>1, CompletedInvariant, PTL

\* A COMPLETED Analysis has its result, its key and its object, whatever
\* duplicates, crashes, restarts, requeues and stale copies the run contains.
THEOREM CompletedCorrect == Spec => []CompletedHasResult
<1>1. CompletedInv => CompletedHasResult
  BY DEF CompletedInv
<1>2. QED
  BY <1>1, CompletedInvariant, PTL
-----------------------------------------------------------------------------
(* What the forms of a worker's step change *)

\* The other workers, and the batch of w, are as they were.
SameBatch(w) ==
  /\ \A v \in Workers \ {w} : worker'[v] = worker[v]
  /\ worker'[w].batch = worker[w].batch
  /\ worker'[w].todo = worker[w].todo

LEMMA GotoEffect ==
  ASSUME TypeOK, NEW w \in Workers, NEW pc, Goto(w, pc)
  PROVE  /\ SameBatch(w)
         /\ worker'[w].pc = pc
         /\ worker'[w].body = worker[w].body
         /\ worker'[w].seen = worker[w].seen
<1>1. worker'[w] = [worker[w] EXCEPT !.pc = pc]
  BY DEF Goto, TypeOK
<1>2. \A v \in Workers \ {w} : worker'[v] = worker[v]
  BY DEF Goto, TypeOK
<1>3. QED
  BY <1>1, <1>2 DEF TypeOK, WorkerState, SameBatch

LEMMA RaiseEffect ==
  ASSUME TypeOK, NEW w \in Workers, Raise(w)
  PROVE  /\ SameBatch(w)
         /\ worker'[w].pc = "catch"
         /\ worker'[w].body = worker[w].body
         /\ worker'[w].seen = NoRow
<1>1. worker'[w] = [worker[w] EXCEPT !.pc = "catch", !.seen = NoRow]
  BY DEF Raise, TypeOK
<1>2. \A v \in Workers \ {w} : worker'[v] = worker[v]
  BY DEF Raise, TypeOK
<1>3. QED
  BY <1>1, <1>2 DEF TypeOK, WorkerState, SameBatch

LEMMA EndRecordEffect ==
  ASSUME TypeOK, NEW w \in Workers, EndRecord(w)
  PROVE  /\ SameBatch(w)
         /\ worker'[w].pc = "next"
         /\ worker'[w].body = NoOne
         /\ worker'[w].seen = NoRow
<1>1. worker'[w] = [worker[w] EXCEPT !.pc = "next", !.body = NoOne, !.seen = NoRow]
  BY DEF EndRecord, TypeOK
<1>2. \A v \in Workers \ {w} : worker'[v] = worker[v]
  BY DEF EndRecord, TypeOK
<1>3. QED
  BY <1>1, <1>2 DEF TypeOK, WorkerState, SameBatch

\* A commit touches the row in hand only.
LEMMA CommitEffect ==
  ASSUME TypeOK, NEW a \in Analyses, NEW new,
         row' = [row EXCEPT ![a] = new]
  PROVE  row'[a] = new /\ \A b \in Analyses \ {a} : row'[b] = row[b]
BY DEF TypeOK

LEMMA SaveEffect ==
  ASSUME TypeOK, NEW w \in Workers, NEW new \in Row, NEW pc, Save(w, new, pc),
         worker[w].body \in Analyses
  PROVE  LET a == worker[w].body IN
         /\ SameBatch(w)
         /\ worker'[w].pc = pc
         /\ worker'[w].body = a
         /\ worker'[w].seen = new
         /\ row'[a] = Flush(row[a], worker[w].seen, new)
         /\ \A b \in Analyses \ {a} : row'[b] = row[b]
<1>1. worker'[w] = [worker[w] EXCEPT !.seen = new, !.pc = pc]
  BY DEF Save, TypeOK
<1>2. \A v \in Workers \ {w} : worker'[v] = worker[v]
  BY DEF Save, TypeOK
<1>3. row' = [row EXCEPT ![worker[w].body] =
                Flush(row[worker[w].body], worker[w].seen, new)]
  BY DEF Save
<1>4. QED
  BY <1>1, <1>2, <1>3 DEF TypeOK, WorkerState, SameBatch

\* The records the steps save: the copy, with a few columns changed.
Started(seen) == [seen EXCEPT !.status = "RUNNING_CREW"]
HandedOver(seen) == [seen EXCEPT !.status = "AWAITING_RESULT", !.key = TRUE, !.error = "none"]
Completed(seen) == [WithStatus(seen, "COMPLETED", "none") EXCEPT !.result = TRUE]

LEMMA SavedRecords ==
  ASSUME NEW seen \in Row
  PROVE  /\ /\ Started(seen) \in Row
            /\ Started(seen).status = "RUNNING_CREW"
            /\ Started(seen).error = seen.error
            /\ Started(seen).result = seen.result
         /\ /\ HandedOver(seen) \in Row
            /\ HandedOver(seen).status = "AWAITING_RESULT"
            /\ HandedOver(seen).error = "none"
            /\ HandedOver(seen).result = seen.result
         /\ /\ Completed(seen) \in Row
            /\ Completed(seen).status = "COMPLETED"
            /\ Completed(seen).error = "none"
            /\ Completed(seen).result
<1>1. WithStatus(seen, "COMPLETED", "none") \in Row
  BY DEF WithStatus, Row, Status, Terminal, Reason
<1>2. WithStatus(seen, "COMPLETED", "none").status = "COMPLETED"
  BY DEF WithStatus, Row
<1>3. WithStatus(seen, "COMPLETED", "none").error = "none"
  BY DEF WithStatus, Row
<1>4. QED
  BY <1>1, <1>2, <1>3 DEF Started, HandedOver, Completed, Row, Status, NonTerminal, Reason

LEMMA StatusRecord ==
  \A seen \in Row : \A s \in Status : \A e \in Reason :
    /\ WithStatus(seen, s, e) \in Row
    /\ WithStatus(seen, s, e).status = s
    /\ WithStatus(seen, s, e).error = e
    /\ WithStatus(seen, s, e).result = seen.result
BY DEF WithStatus, Row

LEMMA StatusNames ==
  /\ "COMPLETED" \in Status /\ "FAILED" \in Status /\ "PENDING" \in Status
  /\ "none" \in Reason /\ "offer" \in Reason /\ "cv" \in Reason /\ "crew" \in Reason
  /\ "result" \in Reason /\ "caught" \in Reason
BY DEF Status, NonTerminal, Terminal, Reason

-----------------------------------------------------------------------------
(* No Analysis is stranded: as long as messages are neither lost nor handed  *)
(* out twice, an unfinished row has a message that is not only on the queue   *)
(* but still ahead of its receiver, or the work of the one that holds it.     *)

\* A request has committed the row and is about to send its id.
Promised(a) == \E r \in Requests : request[r].pc = "send" /\ request[r].body = a

\* w is at work on a and will not leave it unfinished: a copy that is already
\* COMPLETED would write no status.
Driving(w, a) ==
  /\ InPipeline(w) /\ worker[w].pc # "rollup"
  /\ worker[w].body = a /\ worker[w].seen.status # "COMPLETED"

\* m will still have a driven: it waits, or its receiver has it ahead or in hand.
Ahead(m, a) ==
  /\ queue[m].state # "free" /\ queue[m].body = a
  /\ \A w \in Workers :
       m \in worker[w].batch => m \in worker[w].todo \/ Driving(w, a)

\* What w holds is in flight, and held by w only.
BatchOwned(w) ==
  /\ worker[w].todo \subseteq worker[w].batch
  /\ \A m \in worker[w].batch : queue[m].state = "inflight"
  /\ \A v \in Workers \ {w} : worker[v].batch \cap worker[w].batch = {}
  /\ InPipeline(w) => \E m \in worker[w].batch : queue[m].body = worker[w].body

DrivenOn ==
  /\ \A w \in Workers : BatchOwned(w)
  /\ \A a \in Analyses : Nonterminal(a) => Promised(a) \/ \E m \in MsgIds : Ahead(m, a)

DrivenInv == CompletedInv /\ DrivenOn

\* A step of w within its batch, which lets go of no row it leaves unfinished.
WithinBatch(w) ==
  /\ UNCHANGED <<queue, request>>
  /\ SameBatch(w)
  /\ InPipeline(w)' => InPipeline(w) /\ worker'[w].body = worker[w].body
  /\ \A a \in Analyses :
       Nonterminal(a)' /\ ~Driving(w, a)' => Nonterminal(a) /\ ~Driving(w, a)

LEMMA WithinBatchDriven ==
  ASSUME DrivenInv, NEW w \in Workers, WithinBatch(w)
  PROVE  DrivenOn'
<1>0. TypeOK /\ DrivenOn
  BY DEF DrivenInv, CompletedInv
<1>1. ASSUME NEW v \in Workers PROVE BatchOwned(v)'
  <2>1. \A u \in Workers : worker'[u].batch = worker[u].batch /\ worker'[u].todo = worker[u].todo
    BY DEF WithinBatch, SameBatch
  <2>2. InPipeline(v)' => InPipeline(v) /\ worker'[v].body = worker[v].body
    BY DEF WithinBatch, SameBatch, InPipeline
  <2>3. BatchOwned(v)
    BY <1>0 DEF DrivenOn
  <2>4. queue' = queue
    BY DEF WithinBatch
  <2>5. QED
    BY <2>1, <2>2, <2>3, <2>4 DEF BatchOwned
<1>2. ASSUME NEW a \in Analyses, Nonterminal(a)'
      PROVE  Promised(a)' \/ \E m \in MsgIds : Ahead(m, a)'
  <2>1. CASE Driving(w, a)'
    <3>1. InPipeline(w) /\ worker[w].body = a
      BY <2>1 DEF Driving, WithinBatch
    <3>2. PICK m \in worker[w].batch : queue[m].body = a
      BY <1>0, <3>1 DEF DrivenOn, BatchOwned
    <3>3. m \in MsgIds /\ queue[m].state = "inflight"
      BY <1>0, <3>2 DEF TypeOK, WorkerState, DrivenOn, BatchOwned
    <3>4. \A v \in Workers \ {w} : m \notin worker'[v].batch
      BY <1>0, <3>2 DEF DrivenOn, BatchOwned, WithinBatch, SameBatch
    <3>5. Ahead(m, a)'
      BY <2>1, <3>2, <3>3, <3>4 DEF Ahead, WithinBatch
    <3>6. QED
      BY <3>3, <3>5
  <2>2. CASE ~Driving(w, a)'
    <3>1. Nonterminal(a) /\ ~Driving(w, a)
      BY <1>2, <2>2 DEF WithinBatch
    <3>2. CASE Promised(a)
      BY <3>2 DEF Promised, WithinBatch
    <3>3. ASSUME NEW m \in MsgIds, Ahead(m, a) PROVE Ahead(m, a)'
      <4>1. \A v \in Workers \ {w} : Driving(v, a)' <=> Driving(v, a)
        BY DEF Driving, InPipeline, WithinBatch, SameBatch
      <4>2. QED
        BY <3>1, <3>3, <4>1 DEF Ahead, WithinBatch, SameBatch
    <3>4. QED
      BY <1>0, <3>1, <3>2, <3>3 DEF DrivenOn
  <2>3. QED
    BY <2>1, <2>2
<1>3. QED
  BY <1>1, <1>2 DEF DrivenOn

\* Going on between the steps of the pipeline lets go of no row.
LEMMA GotoWithinBatch ==
  ASSUME TypeOK, NEW w \in Workers, NEW pc, Goto(w, pc), UNCHANGED <<row, queue, request>>,
         InPipeline(w), pc \notin {"idle", "next", "convert_message", "rollup"}
  PROVE  WithinBatch(w)
<1>1. /\ SameBatch(w) /\ worker'[w].pc = pc
      /\ worker'[w].body = worker[w].body /\ worker'[w].seen = worker[w].seen
  BY GotoEffect
<1>2. \A a \in Analyses : Nonterminal(a)' <=> Nonterminal(a)
  BY DEF Nonterminal
<1>3. \A a \in Analyses : Driving(w, a) => Driving(w, a)'
  BY <1>1 DEF Driving, InPipeline
<1>4. QED
  BY <1>1, <1>2, <1>3 DEF WithinBatch

\* Nor does raising: the except clause is still to come.
LEMMA RaiseWithinBatch ==
  ASSUME TypeOK, NEW w \in Workers, Raise(w), UNCHANGED <<queue, request>>,
         InPipeline(w), \A b \in Analyses : row'[b] = row[b] \/ b = worker[w].body
  PROVE  WithinBatch(w)
<1>1. /\ SameBatch(w) /\ worker'[w].pc = "catch"
      /\ worker'[w].body = worker[w].body /\ worker'[w].seen = NoRow
  BY RaiseEffect
<1>2. Driving(w, worker[w].body)'
  BY <1>1 DEF Driving, InPipeline, NoRow
<1>3. \A a \in Analyses : a # worker[w].body => (Nonterminal(a)' <=> Nonterminal(a)) /\ ~Driving(w, a)
  BY DEF Nonterminal, Driving
<1>4. QED
  BY <1>1, <1>2, <1>3 DEF WithinBatch

\* Nor does a save that leaves w at work, or finishes what it had in hand.
LEMMA SaveWithinBatch ==
  ASSUME TypeOK, NEW w \in Workers, NEW new \in Row, NEW pc, Save(w, new, pc),
         UNCHANGED <<queue, request>>, InPipeline(w), worker[w].body \in Analyses,
         pc \notin {"idle", "next", "convert_message"},
         \/ pc # "rollup" /\ new.status # "COMPLETED"
         \/ new.status = "COMPLETED"
  PROVE  WithinBatch(w)
<1> DEFINE a == worker[w].body
<1>1. /\ SameBatch(w) /\ worker'[w].pc = pc
      /\ worker'[w].body = a /\ worker'[w].seen = new
      /\ row'[a] = Flush(row[a], worker[w].seen, new)
      /\ \A b \in Analyses \ {a} : row'[b] = row[b]
  BY SaveEffect
<1>2. \A b \in Analyses \ {a} : (Nonterminal(b)' <=> Nonterminal(b)) /\ ~Driving(w, b)
  BY <1>1 DEF Nonterminal, Driving
<1>3. CASE pc # "rollup" /\ new.status # "COMPLETED"
  <2>1. Driving(w, a)'
    BY <1>1, <1>3 DEF Driving, InPipeline
  <2>2. QED
    BY <1>1, <1>2, <2>1 DEF WithinBatch, InPipeline
<1>4. CASE new.status = "COMPLETED" /\ worker[w].seen.status # "COMPLETED"
  <2>1. ~Nonterminal(a)'
    BY <1>1, <1>4 DEF Nonterminal, NonTerminal, Flush
  <2>2. QED
    BY <1>1, <1>2, <2>1 DEF WithinBatch, InPipeline
<1>5. CASE new.status = "COMPLETED" /\ worker[w].seen.status = "COMPLETED"
  <2>1. ~Driving(w, a) /\ row'[a].status = row[a].status
    BY <1>1, <1>5 DEF Driving, Flush
  <2>2. QED
    BY <1>1, <1>2, <2>1 DEF WithinBatch, InPipeline, Nonterminal
<1>6. QED
  BY <1>3, <1>4, <1>5

LEMMA HandlerWithinBatch ==
  ASSUME DrivenInv, NEW w \in Workers, HandlerStep(w)
  PROVE  \/ WithinBatch(w)
         \/ worker' = [worker EXCEPT ![w] = IdleWorker] /\ UNCHANGED <<row, queue, request>>
<1> DEFINE a == worker[w].body
           seen == worker[w].seen
<1>0. TypeOK /\ WorkerBacked(w) /\ seen \in Row
  BY DEF DrivenInv, CompletedInv, TypeOK, WorkerState
<1>00. UNCHANGED <<queue, request>>
  BY DEF HandlerStep, EnsureCv, Convert, EnsureOffer, Extract, SkipCrew, StartCrew, ReadInputs,
         RunCrew, AwaitResult, Persist, MarkFailed, RollUp, ConvertMessage
<1>000. InPipeline(w) => a \in Analyses
  BY <1>0 DEF WorkerBacked
<1>1. CASE EnsureCv(w)
  BY <1>0, <1>00, <1>1, GotoWithinBatch DEF EnsureCv, InPipeline
<1>2. CASE Convert(w)
  BY <1>0, <1>00, <1>2, GotoWithinBatch, RaiseWithinBatch DEF Convert, InPipeline
<1>3. CASE EnsureOffer(w)
  BY <1>0, <1>00, <1>3, GotoWithinBatch, RaiseWithinBatch DEF EnsureOffer, InPipeline
<1>4. CASE Extract(w)
  BY <1>0, <1>00, <1>4, GotoWithinBatch, RaiseWithinBatch DEF Extract, InPipeline
<1>5. CASE SkipCrew(w)
  BY <1>0, <1>00, <1>5, GotoWithinBatch DEF SkipCrew, InPipeline
<1>6. CASE StartCrew(w)
  <2>1. Started(seen) \in Row /\ Started(seen).status = "RUNNING_CREW"
    BY <1>0, SavedRecords
  <2>2. Save(w, Started(seen), "inputs") /\ InPipeline(w)
    BY <1>6 DEF StartCrew, InPipeline, Started
  <2>3. QED
    BY <1>0, <1>00, <1>000, <2>1, <2>2, SaveWithinBatch
<1>7. ASSUME NEW reason \in Reason, FailCrew(w, reason), InPipeline(w)
      PROVE  WithinBatch(w)
  <2>1. \A b \in Analyses : row'[b] = row[b] \/ b = a
    BY <1>0, <1>000, <1>7, CommitEffect DEF FailCrew
  <2>2. QED
    BY <1>0, <1>00, <1>7, <2>1, RaiseWithinBatch DEF FailCrew
<1>8. CASE ReadInputs(w)
  BY <1>0, <1>00, <1>7, <1>8, GotoWithinBatch DEF ReadInputs, InPipeline, Reason
<1>9. CASE RunCrew(w)
  BY <1>0, <1>00, <1>7, <1>9, GotoWithinBatch, RaiseWithinBatch DEF RunCrew, InPipeline, Reason
<1>10. CASE AwaitResult(w)
  <2>1. HandedOver(seen) \in Row /\ HandedOver(seen).status = "AWAITING_RESULT"
    BY <1>0, SavedRecords
  <2>2. Save(w, HandedOver(seen), "persist") /\ InPipeline(w)
    BY <1>10 DEF AwaitResult, InPipeline, HandedOver
  <2>3. QED
    BY <1>0, <1>00, <1>000, <2>1, <2>2, SaveWithinBatch
<1>11. CASE Persist(w)
  <2>1. InPipeline(w)
    BY <1>11 DEF Persist, InPipeline
  <2>2. CASE Save(w, Completed(seen), "rollup")
    <3>1. Completed(seen) \in Row /\ Completed(seen).status = "COMPLETED"
      BY <1>0, SavedRecords
    <3>2. QED
      BY <1>0, <1>00, <1>000, <2>1, <2>2, <3>1, SaveWithinBatch
  <2>3. CASE Save(w, WithStatus(seen, "FAILED", "result"), "rollup_failed")
    <3>0. "FAILED" \in Status /\ "result" \in Reason /\ seen \in Row
      BY <1>0, StatusNames
    <3> HIDE DEF seen
    <3>1. /\ WithStatus(seen, "FAILED", "result") \in Row
          /\ WithStatus(seen, "FAILED", "result").status = "FAILED"
      BY <3>0, StatusRecord
    <3> USE DEF seen
    <3>2. QED
      BY <1>0, <1>00, <1>000, <2>1, <2>3, <3>1, SaveWithinBatch
  <2>4. CASE Raise(w) /\ UNCHANGED row
    BY <1>0, <1>00, <2>1, <2>4, RaiseWithinBatch
  <2>5. QED
    BY <1>11, <2>2, <2>3, <2>4 DEF Persist, Completed
<1>12. CASE MarkFailed(w)
  <2>1. InPipeline(w) /\ a \in Analyses
    BY <1>000, <1>12 DEF MarkFailed, InPipeline
  <2>2. CASE row[a].status = "FAILED" /\ EndRecord(w) /\ UNCHANGED row
    <3>1. SameBatch(w) /\ ~InPipeline(w)'
      BY <1>0, <2>2, EndRecordEffect DEF InPipeline
    <3>2. ~Nonterminal(a) /\ \A b \in Analyses : Nonterminal(b)' <=> Nonterminal(b)
      BY <2>2 DEF Nonterminal, NonTerminal
    <3>3. \A b \in Analyses \ {a} : ~Driving(w, b)
      BY DEF Driving
    <3>4. QED
      BY <1>00, <3>1, <3>2, <3>3 DEF WithinBatch
  <2>3. CASE row' = [row EXCEPT ![a] = WithStatus(@, "FAILED", "caught")] /\ Goto(w, "rollup")
    <3>1. SameBatch(w) /\ worker'[w].body = a
      BY <1>0, <2>3, GotoEffect
    <3>2. \A b \in Analyses \ {a} : row'[b] = row[b] /\ ~Driving(w, b)
      BY <1>0, <2>1, <2>3 DEF TypeOK, Driving
    <3>3. row'[a].status = "FAILED"
      BY <1>0, <2>1, <2>3 DEF TypeOK, WithStatus, Row
    <3>4. QED
      BY <1>00, <2>1, <3>1, <3>2, <3>3 DEF WithinBatch, Nonterminal, NonTerminal
  <2>4. QED
    BY <1>12, <2>2, <2>3 DEF MarkFailed
<1>13. CASE RollUp(w)
  <2>1. InPipeline(w) /\ UNCHANGED row
    BY <1>13 DEF RollUp, InPipeline
  <2>2. CASE worker[w].pc = "rollup" /\ EndRecord(w)
    <3>1. SameBatch(w) /\ ~InPipeline(w)' /\ \A b \in Analyses : ~Driving(w, b)
      BY <1>0, <2>2, EndRecordEffect DEF InPipeline, Driving
    <3>2. QED
      BY <1>00, <2>1, <3>1 DEF WithinBatch, Nonterminal
  <2>3. CASE Raise(w)
    BY <1>0, <1>00, <2>1, <2>3, RaiseWithinBatch
  <2>4. QED
    BY <1>13, <2>2, <2>3 DEF RollUp
<1>14. ASSUME ConvertMessage(w), EndRecord(w) PROVE WithinBatch(w)
  <2>1. SameBatch(w) /\ ~InPipeline(w)' /\ \A b \in Analyses : ~Driving(w, b)
    BY <1>0, <1>14, EndRecordEffect DEF ConvertMessage, InPipeline, Driving
  <2>2. QED
    BY <1>00, <1>14, <2>1 DEF ConvertMessage, WithinBatch, Nonterminal
<1>15. CASE ConvertMessage(w)
  BY <1>00, <1>14, <1>15 DEF ConvertMessage
<1>16. QED
  BY <1>1, <1>2, <1>3, <1>4, <1>5, <1>6, <1>8, <1>9, <1>10, <1>11, <1>12, <1>13, <1>15
  DEF HandlerStep

\* Messages are neither dropped nor handed out while they are held, and a
\* committed id is always sent.
Quiet == Faults \cap {"expiry", "broker_restart", "send_failure"} = {}

\* A worker that turns idle keeps its batch on the queue, for another to receive.
LEMMA TurnsIdleDriven ==
  ASSUME DrivenInv, NEW w \in Workers, worker' = [worker EXCEPT ![w] = IdleWorker],
         UNCHANGED <<row, queue, request>>
  PROVE  DrivenOn'
<1>0. TypeOK /\ DrivenOn
  BY DEF DrivenInv, CompletedInv
<1>1. /\ worker'[w] = IdleWorker
      /\ \A v \in Workers \ {w} : worker'[v] = worker[v]
  BY <1>0 DEF TypeOK
<1>2. /\ worker'[w].batch = {} /\ worker'[w].todo = {} /\ ~InPipeline(w)'
      /\ \A a \in Analyses : ~Driving(w, a)'
  BY <1>1 DEF IdleWorker, InPipeline, Driving
<1>3. ASSUME NEW v \in Workers PROVE BatchOwned(v)'
  <2>1. BatchOwned(v) /\ queue' = queue
    BY <1>0 DEF DrivenOn
  <2>2. InPipeline(v)' => InPipeline(v) /\ worker'[v] = worker[v]
    BY <1>1, <1>2 DEF InPipeline
  <2>3. v = w \/ worker'[v] = worker[v]
    BY <1>1
  <2>4. QED
    BY <1>1, <1>2, <2>1, <2>2, <2>3 DEF BatchOwned
<1>4. ASSUME NEW a \in Analyses, NEW m \in MsgIds, Ahead(m, a) PROVE Ahead(m, a)'
  <2>1. \A v \in Workers \ {w} : Driving(v, a)' <=> Driving(v, a)
    BY <1>1 DEF Driving, InPipeline
  <2>2. QED
    BY <1>1, <1>2, <1>4, <2>1 DEF Ahead
<1>5. \A a \in Analyses : (Nonterminal(a)' <=> Nonterminal(a)) /\ (Promised(a)' <=> Promised(a))
  BY DEF Nonterminal, Promised
<1>6. QED
  BY <1>0, <1>3, <1>4, <1>5 DEF DrivenOn

\* The other steps of the worker loop: receiving, taking the next record, deleting.
LEMMA ReceiveDriven ==
  ASSUME DrivenInv, NEW w \in Workers, NEW batch \in SUBSET MsgIds, Receive(w, batch)
  PROVE  DrivenOn'
<1>0. TypeOK /\ DrivenOn
  BY DEF DrivenInv, CompletedInv
<1>1. /\ worker'[w] = [IdleWorker EXCEPT !.pc = "next", !.batch = batch, !.todo = batch]
      /\ \A v \in Workers \ {w} : worker'[v] = worker[v]
  BY <1>0 DEF Receive, TypeOK
<1>2. worker'[w].batch = batch /\ worker'[w].todo = batch /\ ~InPipeline(w)'
  BY <1>1 DEF IdleWorker, InPipeline
<1>3. \A m \in MsgIds : /\ queue'[m].body = queue[m].body
                        /\ queue'[m].state = IF m \in batch THEN "inflight" ELSE queue[m].state
  BY <1>0 DEF Receive, TypeOK, Slot
<1>4. \A m \in batch : queue[m].state = "visible"
  BY DEF Receive
<1>5. \A v \in Workers : worker[v].batch \cap batch = {}
  BY <1>0, <1>4 DEF DrivenOn, BatchOwned
<1>6. ASSUME NEW v \in Workers PROVE BatchOwned(v)'
  <2>1. CASE v = w
    BY <1>1, <1>2, <1>3, <1>5, <2>1 DEF BatchOwned
  <2>2. CASE v # w
    <3>1. worker'[v] = worker[v] /\ BatchOwned(v) /\ worker[v].batch \subseteq MsgIds
      BY <1>0, <1>1, <2>2 DEF DrivenOn, TypeOK, WorkerState
    <3>2. InPipeline(v)' <=> InPipeline(v)
      BY <3>1 DEF InPipeline
    <3>3. \A u \in Workers \ {v} : worker'[u].batch \cap worker'[v].batch = {}
      BY <1>1, <1>2, <1>5, <3>1 DEF BatchOwned
    <3>4. \A m \in worker'[v].batch : queue'[m].state = "inflight"
      BY <1>3, <3>1 DEF BatchOwned
    <3>5. InPipeline(v)' => \E m \in worker'[v].batch : queue'[m].body = worker'[v].body
      BY <1>3, <3>1, <3>2 DEF BatchOwned
    <3>6. QED
      BY <3>1, <3>3, <3>4, <3>5 DEF BatchOwned
  <2>3. QED
    BY <2>1, <2>2
<1>7. ASSUME NEW a \in Analyses, NEW m \in MsgIds, Ahead(m, a) PROVE Ahead(m, a)'
  <2>1. \A v \in Workers \ {w} : Driving(v, a)' <=> Driving(v, a)
    BY <1>1 DEF Driving, InPipeline
  <2>2. \A v \in Workers \ {w} : worker'[v] = worker[v]
    BY <1>1
  <2>3. queue'[m].body = a /\ queue'[m].state # "free"
    BY <1>3, <1>7 DEF Ahead
  <2>4. QED
    BY <1>2, <1>7, <2>1, <2>2, <2>3 DEF Ahead
<1>8. \A a \in Analyses : (Nonterminal(a)' <=> Nonterminal(a)) /\ (Promised(a)' <=> Promised(a))
  BY DEF Receive, Nonterminal, Promised
<1>9. QED
  BY <1>0, <1>6, <1>7, <1>8 DEF DrivenOn

LEMMA LoadDriven ==
  ASSUME DrivenInv, NEW w \in Workers, NEW n \in MsgIds,
         LoadAnalysis(w, n) \/ LoadConversion(w, n)
  PROVE  DrivenOn'
<1> DEFINE b == queue[n].body
<1>0. TypeOK /\ DrivenOn
  BY DEF DrivenInv, CompletedInv
<1>1. /\ worker[w].pc = "next" /\ n \in worker[w].todo
      /\ UNCHANGED <<row, queue, request>>
  BY DEF LoadAnalysis, LoadConversion
<1>2. /\ \A v \in Workers \ {w} : worker'[v] = worker[v]
      /\ worker'[w].batch = worker[w].batch
      /\ worker'[w].todo = worker[w].todo \ {n}
      /\ worker'[w].body = b
  BY <1>0 DEF LoadAnalysis, LoadConversion, TypeOK, WorkerState
<1>3. \A v \in Workers \ {w} : /\ InPipeline(v)' <=> InPipeline(v)
                               /\ \A a \in Analyses : Driving(v, a)' <=> Driving(v, a)
  BY <1>2 DEF InPipeline, Driving
<1>4. ASSUME NEW v \in Workers PROVE BatchOwned(v)'
  <2>1. BatchOwned(v) /\ BatchOwned(w)
    BY <1>0 DEF DrivenOn
  <2>2. CASE v = w
    BY <1>1, <1>2, <2>1, <2>2 DEF BatchOwned
  <2>3. CASE v # w
    BY <1>1, <1>2, <1>3, <2>1, <2>3 DEF BatchOwned
  <2>4. QED
    BY <2>2, <2>3
<1>5. ASSUME NEW a \in Analyses, Nonterminal(a), b = a PROVE Driving(w, a)'
  <2>1. LoadAnalysis(w, n)
    BY <1>5, PipelineAssumption DEF LoadConversion
  <2>2. worker'[w].pc = "cv" /\ worker'[w].seen = row[a]
    BY <1>0, <1>5, <2>1 DEF LoadAnalysis, TypeOK, WorkerState
  <2>3. QED
    BY <1>2, <1>5, <2>2 DEF Driving, InPipeline, Nonterminal, NonTerminal
<1>6. ASSUME NEW a \in Analyses, NEW m \in MsgIds, Nonterminal(a), Ahead(m, a) PROVE Ahead(m, a)'
  <2>1. m \in worker[w].batch => m \in worker[w].todo
    BY <1>1, <1>6 DEF Ahead, Driving, InPipeline
  <2>2. m = n => Driving(w, a)'
    BY <1>5, <1>6 DEF Ahead
  <2>3. QED
    BY <1>1, <1>2, <1>3, <1>6, <2>1, <2>2 DEF Ahead
<1>7. \A a \in Analyses : (Nonterminal(a)' <=> Nonterminal(a)) /\ (Promised(a)' <=> Promised(a))
  BY <1>1 DEF Nonterminal, Promised
<1>8. QED
  BY <1>0, <1>4, <1>6, <1>7 DEF DrivenOn

LEMMA DeleteDriven ==
  ASSUME DrivenInv, NEW w \in Workers, DeleteBatch(w)
  PROVE  DrivenOn'
<1>0. TypeOK /\ DrivenOn
  BY DEF DrivenInv, CompletedInv
<1>1. /\ worker'[w] = IdleWorker
      /\ \A v \in Workers \ {w} : worker'[v] = worker[v]
  BY <1>0 DEF DeleteBatch, TypeOK
<1>2. worker'[w].batch = {} /\ worker'[w].todo = {} /\ ~InPipeline(w)'
  BY <1>1 DEF IdleWorker, InPipeline
<1>3. \A m \in MsgIds \ worker[w].batch : queue'[m] = queue[m]
  BY DEF DeleteBatch
<1>4. ASSUME NEW v \in Workers PROVE BatchOwned(v)'
  <2>1. CASE v = w
    BY <1>1, <1>2, <2>1 DEF BatchOwned
  <2>2. CASE v # w
    <3>1. worker'[v] = worker[v] /\ BatchOwned(v) /\ worker[v].batch \subseteq MsgIds
      BY <1>0, <1>1, <2>2 DEF DrivenOn, TypeOK, WorkerState
    <3>2. \A m \in worker[v].batch : queue'[m] = queue[m]
      BY <1>3, <2>2, <3>1 DEF BatchOwned
    <3>3. \A u \in Workers \ {v} : worker'[u].batch \cap worker'[v].batch = {}
      BY <1>1, <1>2, <3>1 DEF BatchOwned
    <3>4. InPipeline(v)' <=> InPipeline(v)
      BY <3>1 DEF InPipeline
    <3>5. QED
      BY <3>1, <3>2, <3>3, <3>4 DEF BatchOwned
  <2>3. QED
    BY <2>1, <2>2
<1>5. ASSUME NEW a \in Analyses, NEW m \in MsgIds, Ahead(m, a) PROVE Ahead(m, a)'
  <2>1. m \notin worker[w].batch
    BY <1>5 DEF Ahead, DeleteBatch, Driving, InPipeline
  <2>2. \A v \in Workers \ {w} : Driving(v, a)' <=> Driving(v, a)
    BY <1>1 DEF Driving, InPipeline
  <2>3. QED
    BY <1>1, <1>2, <1>3, <1>5, <2>1, <2>2 DEF Ahead
<1>6. \A a \in Analyses : (Nonterminal(a)' <=> Nonterminal(a)) /\ (Promised(a)' <=> Promised(a))
  BY DEF DeleteBatch, Nonterminal, Promised
<1>7. QED
  BY <1>0, <1>4, <1>5, <1>6 DEF DrivenOn

\* The queue's own step: only a message nobody holds comes back.
LEMMA VisibleDriven ==
  ASSUME Quiet, DrivenInv, NEW n \in MsgIds, BecomeVisible(n)
  PROVE  DrivenOn'
<1>0. TypeOK /\ DrivenOn
  BY DEF DrivenInv, CompletedInv
<1>1. ~Held(n) /\ UNCHANGED <<row, worker, request>>
  BY DEF BecomeVisible, Quiet
<1>2. \A m \in MsgIds : /\ queue'[m].body = queue[m].body
                        /\ m # n => queue'[m] = queue[m]
                        /\ queue[m].state # "free" => queue'[m].state # "free"
  BY <1>0 DEF BecomeVisible, TypeOK, Slot
<1>3. ASSUME NEW v \in Workers PROVE BatchOwned(v)'
  <2>1. BatchOwned(v) /\ worker[v].batch \subseteq MsgIds
    BY <1>0 DEF DrivenOn, TypeOK, WorkerState
  <2>2. \A m \in worker[v].batch : queue'[m] = queue[m]
    BY <1>1, <1>2, <2>1 DEF Held
  <2>3. QED
    BY <1>1, <2>1, <2>2 DEF BatchOwned, InPipeline
<1>4. ASSUME NEW a \in Analyses, NEW m \in MsgIds, Ahead(m, a) PROVE Ahead(m, a)'
  BY <1>1, <1>2, <1>4 DEF Ahead, Driving, InPipeline
<1>5. \A a \in Analyses : (Nonterminal(a)' <=> Nonterminal(a)) /\ (Promised(a)' <=> Promised(a))
  BY <1>1 DEF Nonterminal, Promised
<1>6. QED
  BY <1>0, <1>3, <1>4, <1>5 DEF DrivenOn

\* The API: a row is opened with a promise, and the promise kept by the send.
LEMMA ApiDriven ==
  ASSUME Quiet, DrivenInv, NEW r \in Requests, ApiStep(r)
  PROVE  DrivenOn'
<1>0. TypeOK /\ DrivenOn
  BY DEF DrivenInv, CompletedInv
<1>1. CASE Send(r)
  <2>1. PICK n \in FreeSlots :
          queue' = [queue EXCEPT ![n] = [state |-> "visible", body |-> request[r].body]]
    BY <1>1 DEF Send
  <2>2. n \in MsgIds /\ queue[n].state = "free" /\ ~Held(n)
    BY <2>1 DEF FreeSlots
  <2>3. /\ queue'[n].state = "visible" /\ queue'[n].body = request[r].body
        /\ \A m \in MsgIds \ {n} : queue'[m] = queue[m]
    BY <1>0, <2>1, <2>2 DEF TypeOK
  <2>4. /\ UNCHANGED <<row, worker>>
        /\ \A q \in Requests \ {r} : request'[q] = request[q]
    BY <1>0, <1>1 DEF Send, TypeOK
  <2>5. ASSUME NEW v \in Workers PROVE BatchOwned(v)'
    <3>1. BatchOwned(v) /\ worker[v].batch \subseteq MsgIds
      BY <1>0 DEF DrivenOn, TypeOK, WorkerState
    <3>2. \A m \in worker[v].batch : queue'[m] = queue[m]
      BY <2>2, <2>3, <3>1 DEF Held
    <3>3. QED
      BY <2>4, <3>1, <3>2 DEF BatchOwned, InPipeline
  <2>6. ASSUME NEW a \in Analyses, NEW m \in MsgIds, Ahead(m, a) PROVE Ahead(m, a)'
    <3>1. m # n
      BY <2>2, <2>6 DEF Ahead
    <3>2. QED
      BY <2>3, <2>4, <2>6, <3>1 DEF Ahead, Driving, InPipeline
  <2>7. ASSUME NEW a \in Analyses, Promised(a) PROVE Promised(a)' \/ Ahead(n, a)'
    <3>1. CASE request[r].body = a
      BY <2>2, <2>3, <2>4, <3>1 DEF Ahead, Held
    <3>2. CASE request[r].body # a
      BY <2>4, <2>7, <3>2 DEF Promised
    <3>3. QED
      BY <3>1, <3>2
  <2>8. \A a \in Analyses : Nonterminal(a)' <=> Nonterminal(a)
    BY <2>4 DEF Nonterminal
  <2>9. QED
    BY <1>0, <2>2, <2>5, <2>6, <2>7, <2>8 DEF DrivenOn
<1>2. ASSUME UNCHANGED <<queue, worker>>,
             \A a \in Analyses : Promised(a) => Promised(a)',
             \A a \in Analyses : Nonterminal(a)' => Nonterminal(a) \/ Promised(a)'
      PROVE  DrivenOn'
  <2>1. \A w \in Workers : BatchOwned(w)'
    BY <1>0, <1>2 DEF DrivenOn, BatchOwned, InPipeline
  <2>2. \A a \in Analyses, m \in MsgIds : Ahead(m, a)' <=> Ahead(m, a)
    BY <1>2 DEF Ahead, Driving, InPipeline
  <2>3. QED
    BY <1>0, <1>2, <2>1, <2>2 DEF DrivenOn
<1>3. ASSUME NEW pc, NEW body, NEW seen, Accept(r, pc, body, seen)
      PROVE  /\ \A a : Promised(a) => Promised(a)'
             /\ pc = "send" => Promised(body)'
  <2>1. /\ request[r].pc = "idle"
        /\ request'[r] = [pc |-> pc, body |-> body, seen |-> seen]
        /\ \A q \in Requests \ {r} : request'[q] = request[q]
    BY <1>0, <1>3 DEF Accept, TypeOK
  <2>2. QED
    BY <2>1 DEF Promised
<1>4. ASSUME request' = [request EXCEPT ![r].pc = "send"]
      PROVE  (\A a : Promised(a) => Promised(a)') /\ Promised(request[r].body)'
  <2>1. /\ request'[r].pc = "send" /\ request'[r].body = request[r].body
        /\ \A q \in Requests \ {r} : request'[q] = request[q]
    BY <1>0, <1>4 DEF TypeOK, RequestState
  <2>2. QED
    BY <2>1 DEF Promised
<1>5. ASSUME NEW a \in Analyses, CreateAnalysis(r, a) PROVE DrivenOn'
  <2>1. \A b \in Analyses \ {a} : Nonterminal(b)' <=> Nonterminal(b)
    BY <1>0, <1>5 DEF CreateAnalysis, Nonterminal, TypeOK
  <2>2. Accept(r, "send", a, NoRow) /\ UNCHANGED <<queue, worker>>
    BY <1>5 DEF CreateAnalysis
  <2>3. QED
    BY <1>2, <1>3, <2>1, <2>2
<1>6. ASSUME NEW a \in Analyses, RequeueRead(r, a) PROVE DrivenOn'
  <2>1. Accept(r, "requeue", a, row[a]) /\ UNCHANGED <<row, queue, worker>>
    BY <1>6 DEF RequeueRead
  <2>2. \A b \in Analyses : Nonterminal(b)' <=> Nonterminal(b)
    BY <2>1 DEF Nonterminal
  <2>3. QED
    BY <1>2, <1>3, <2>1, <2>2
<1>7. CASE RequeueCommit(r)
  <2>1. request' = [request EXCEPT ![r].pc = "send"] /\ UNCHANGED <<queue, worker>>
    BY <1>7 DEF RequeueCommit
  <2>2. \A b \in Analyses \ {request[r].body} : Nonterminal(b)' <=> Nonterminal(b)
    BY <1>0, <1>7 DEF RequeueCommit, Nonterminal, TypeOK
  <2>3. QED
    BY <1>2, <1>4, <2>1, <2>2
<1>8. ASSUME NEW c \in CVs, ConvertRead(r, c) PROVE DrivenOn'
  <2>1. PICK pc \in {"send", "convert"} : Accept(r, pc, c, NoRow)
    BY <1>8 DEF ConvertRead
  <2>2. UNCHANGED <<row, queue, worker>>
    BY <1>8 DEF ConvertRead
  <2>3. \A b \in Analyses : Nonterminal(b)' <=> Nonterminal(b)
    BY <2>2 DEF Nonterminal
  <2>4. QED
    BY <1>2, <1>3, <2>1, <2>2, <2>3
<1>9. CASE ConvertCommit(r)
  <2>1. request' = [request EXCEPT ![r].pc = "send"] /\ UNCHANGED <<row, queue, worker>>
    BY <1>9 DEF ConvertCommit
  <2>2. \A b \in Analyses : Nonterminal(b)' <=> Nonterminal(b)
    BY <2>1 DEF Nonterminal
  <2>3. QED
    BY <1>2, <1>4, <2>1, <2>2
<1>10. ~SendFails(r)
  BY DEF Quiet, SendFails
<1>11. QED
  BY <1>1, <1>5, <1>6, <1>7, <1>8, <1>9, <1>10 DEF ApiStep

LEMMA InitDriven == Init => DrivenOn
<1> SUFFICES ASSUME Init PROVE DrivenOn
  OBVIOUS
<1>1. \A w \in Workers : worker[w] = IdleWorker
  BY DEF Init
<1>2. \A w \in Workers : BatchOwned(w)
  BY <1>1 DEF BatchOwned, IdleWorker, InPipeline
<1>3. \A a \in Analyses : ~Nonterminal(a)
  BY DEF Init, Nonterminal, NonTerminal, NoRow
<1>4. QED
  BY <1>2, <1>3 DEF DrivenOn

LEMMA NextDriven == ASSUME Quiet, DrivenInv, [Next]_vars PROVE DrivenOn'
<1>1. ASSUME NEW r \in Requests, ApiStep(r) PROVE DrivenOn'
  BY <1>1, ApiDriven
<1>2. ASSUME UNCHANGED <<row, queue, worker, request>> PROVE DrivenOn'
  <2>1. DrivenOn
    BY DEF DrivenInv
  <2>2. QED
    BY <1>2, <2>1 DEF DrivenOn, BatchOwned, InPipeline, Nonterminal, Promised, Ahead, Driving
<1>3. ASSUME NEW a \in Analyses, Age(a) PROVE DrivenOn'
  BY <1>2, <1>3 DEF Age
<1>4. ASSUME NEW w \in Workers, NEW batch \in SUBSET MsgIds, Receive(w, batch) PROVE DrivenOn'
  BY <1>4, ReceiveDriven
<1>5. ASSUME NEW w \in Workers, LoadNext(w) PROVE DrivenOn'
  BY <1>5, LoadDriven DEF LoadNext
<1>6. ASSUME NEW w \in Workers, HandlerStep(w) PROVE DrivenOn'
  BY <1>6, HandlerWithinBatch, WithinBatchDriven, TurnsIdleDriven
<1>7. ASSUME NEW w \in Workers, DeleteBatch(w) PROVE DrivenOn'
  BY <1>7, DeleteDriven
<1>8. ASSUME NEW w \in Workers, WorkerCrash(w) PROVE DrivenOn'
  BY <1>8, TurnsIdleDriven DEF WorkerCrash
<1>9. ASSUME NEW m \in MsgIds, BecomeVisible(m) PROVE DrivenOn'
  BY <1>9, VisibleDriven
<1>10. ~BrokerRestart
  BY DEF Quiet, BrokerRestart
<1>11. CASE UNCHANGED vars
  BY <1>2, <1>11 DEF vars
<1>12. QED
  BY <1>1, <1>3, <1>4, <1>5, <1>6, <1>7, <1>8, <1>9, <1>10, <1>11 DEF Next

\* An unfinished Analysis always has a message or a request that will drive it,
\* whatever workers crash, however many share the queue and however often it is
\* requeued, provided messages are neither lost nor handed out twice.
THEOREM NoneStranded == ASSUME Quiet PROVE Spec => []NothingStranded
<1>1. Init => DrivenInv
  BY InitCompletedInv, InitDriven DEF DrivenInv
<1>2. DrivenInv /\ [Next]_vars => DrivenInv'
  BY NextCompletedInv, NextDriven DEF DrivenInv
<1>3. DrivenInv => NothingStranded
  BY DEF DrivenInv, DrivenOn, NothingStranded, Promised, Ahead
<1>4. QED
  BY <1>1, <1>2, <1>3, PTL DEF Spec
-----------------------------------------------------------------------------
(* One worker process, the default deployment.  What it holds of a row may   *)
(* then be overtaken by a requeue only, so a COMPLETED row shows no error,    *)
(* and every commit moves the row along the life cycle the candidate sees.    *)

OneWorker == \A v, w \in Workers : v = w

\* Where the crew is at work the copy says so, and where its result is awaited.
CopyStep(w) ==
  LET seen == worker[w].seen IN
  /\ worker[w].pc \in {"inputs", "llm", "await"} => seen.status = "RUNNING_CREW"
  /\ worker[w].pc = "persist" => seen.status \in {"AWAITING_RESULT", "COMPLETED"}

\* The error of a row is the one its worker read, unless a requeue cleared it.
CopyKeepsError(w) ==
  InPipeline(w) /\ worker[w].pc \notin {"catch", "rollup", "rollup_failed"} =>
    row[worker[w].body].error \in {worker[w].seen.error, "none"}

ErrorOn == CompletedHasNoError /\ \A w \in Workers : CopyStep(w) /\ CopyKeepsError(w)

ErrorInv == CompletedInv /\ ErrorOn

\* A step that completes no row, and at most clears errors.
Eases ==
  \A b \in Analyses :
    /\ row'[b].error \in {row[b].error, "none"}
    /\ row'[b].status = "COMPLETED" => row[b].status = "COMPLETED"

LEMMA EasesError ==
  ASSUME ErrorInv, Eases, UNCHANGED worker
  PROVE  ErrorOn'
<1>1. TypeOK /\ ErrorOn /\ \A w \in Workers : WorkerBacked(w)
  BY DEF ErrorInv, CompletedInv
<1>2. CompletedHasNoError'
  BY <1>1 DEF ErrorOn, CompletedHasNoError, Eases
<1>3. ASSUME NEW w \in Workers PROVE CopyStep(w)' /\ CopyKeepsError(w)'
  <2>1. CopyStep(w) /\ CopyKeepsError(w) /\ WorkerBacked(w)
    BY <1>1 DEF ErrorOn
  <2>2. InPipeline(w)' <=> InPipeline(w)
    BY DEF InPipeline
  <2>3. InPipeline(w) => worker[w].body \in Analyses
    BY <2>1 DEF WorkerBacked
  <2>4. QED
    BY <2>1, <2>2, <2>3 DEF CopyStep, CopyKeepsError, Eases
<1>4. QED
  BY <1>2, <1>3 DEF ErrorOn

\* The worker moves on with the copy it has.
LEMMA MovesOnError ==
  ASSUME OneWorker, ErrorInv, NEW w \in Workers, UNCHANGED row,
         worker'[w].body = worker[w].body, worker'[w].seen = worker[w].seen,
         InPipeline(w), CopyStep(w)',
         \/ worker[w].pc \notin {"catch", "rollup", "rollup_failed"}
         \/ worker'[w].pc \in {"catch", "rollup", "rollup_failed"}
  PROVE  ErrorOn'
<1>1. ErrorOn
  BY DEF ErrorInv
<1>2. CopyKeepsError(w)'
  BY <1>1 DEF ErrorOn, CopyKeepsError
<1>3. QED
  BY <1>1, <1>2 DEF ErrorOn, OneWorker, CompletedHasNoError

\* The worker drops its copy.
LEMMA DropsError ==
  ASSUME OneWorker, NEW w \in Workers, CompletedHasNoError',
         worker'[w].pc \in {"idle", "next", "catch", "convert_message", "rollup", "rollup_failed"}
  PROVE  ErrorOn'
BY DEF OneWorker, ErrorOn, CopyStep, CopyKeepsError, InPipeline

\* The worker saves a record.
LEMMA SaveError ==
  ASSUME OneWorker, ErrorInv, NEW w \in Workers, NEW new \in Row, NEW pc, Save(w, new, pc),
         InPipeline(w), worker[w].pc \notin {"catch", "rollup", "rollup_failed"},
         pc \in {"inputs", "llm", "await"} => new.status = "RUNNING_CREW",
         pc = "persist" => new.status \in {"AWAITING_RESULT", "COMPLETED"},
         new.status = "COMPLETED" => new.error = "none",
         \/ new.error = "none" \/ new.error = worker[w].seen.error
         \/ new.status = "FAILED" /\ worker[w].seen.status # "FAILED"
  PROVE  ErrorOn'
<1> DEFINE a == worker[w].body
           seen == worker[w].seen
<1>1. TypeOK /\ ErrorOn /\ WorkerBacked(w)
  BY DEF ErrorInv, CompletedInv
<1>2. a \in Analyses
  BY <1>1 DEF WorkerBacked
<1>3. /\ worker'[w].pc = pc /\ worker'[w].body = a /\ worker'[w].seen = new
      /\ row'[a] = Flush(row[a], seen, new)
      /\ \A b \in Analyses \ {a} : row'[b] = row[b]
  BY <1>1, <1>2, SaveEffect
<1>4. row[a].error \in {seen.error, "none"}
  BY <1>1 DEF ErrorOn, CopyKeepsError
<1>5. row'[a].error \in {new.error, "none"}
  BY <1>3, <1>4 DEF Flush
<1>6. row'[a].status = "COMPLETED" => row'[a].error = "none"
  <2>1. row[a].status = "COMPLETED" => row[a].error = "none"
    BY <1>1, <1>2 DEF ErrorOn, CompletedHasNoError
  <2>2. CASE new.error = "none"
    BY <1>5, <2>2
  <2>3. CASE new.error = seen.error /\ new.error # "none"
    <3>1. row'[a].error = row[a].error
      BY <1>3, <2>3 DEF Flush
    <3>2. new.status = "COMPLETED" => FALSE
      BY <2>3
    <3>3. QED
      BY <1>3, <2>1, <3>1, <3>2 DEF Flush
  <2>4. CASE new.status = "FAILED" /\ seen.status # "FAILED"
    BY <1>3, <2>4 DEF Flush
  <2>5. QED
    BY <2>2, <2>3, <2>4
<1>7. CompletedHasNoError'
  BY <1>1, <1>3, <1>6 DEF ErrorOn, CompletedHasNoError
<1>8. CopyStep(w)' /\ CopyKeepsError(w)'
  BY <1>3, <1>5 DEF CopyStep, CopyKeepsError
<1>9. QED
  BY <1>7, <1>8 DEF ErrorOn, OneWorker

LEMMA HandlerError ==
  ASSUME OneWorker, ErrorInv, NEW w \in Workers, HandlerStep(w)
  PROVE  ErrorOn'
<1> DEFINE a == worker[w].body
           seen == worker[w].seen
<1>0. TypeOK /\ ErrorOn /\ CompletedHasNoError /\ CopyStep(w) /\ WorkerBacked(w) /\ seen \in Row
  BY DEF ErrorInv, ErrorOn, CompletedInv, TypeOK, WorkerState
<1>00. InPipeline(w) => a \in Analyses
  BY <1>0 DEF WorkerBacked
<1>1. ASSUME NEW pc, Goto(w, pc), UNCHANGED row, InPipeline(w),
             worker[w].pc \notin {"catch", "rollup", "rollup_failed"},
             pc \in {"inputs", "llm", "await"} => seen.status = "RUNNING_CREW",
             pc = "persist" => seen.status \in {"AWAITING_RESULT", "COMPLETED"}
      PROVE  ErrorOn'
  <2>1. /\ worker'[w].pc = pc /\ worker'[w].body = worker[w].body
        /\ worker'[w].seen = worker[w].seen
    BY <1>0, <1>1, GotoEffect
  <2>2. CopyStep(w)'
    BY <1>1, <2>1 DEF CopyStep
  <2>3. QED
    BY <1>1, <2>1, <2>2, MovesOnError
<1>2. ASSUME CompletedHasNoError', Raise(w) \/ EndRecord(w) PROVE ErrorOn'
  <2>1. worker'[w].pc \in {"catch", "next"}
    BY <1>0, <1>2, RaiseEffect, EndRecordEffect
  <2>2. QED
    BY <1>2, <2>1, DropsError
<1>3. ASSUME UNCHANGED row PROVE CompletedHasNoError'
  BY <1>0, <1>3 DEF CompletedHasNoError
<1>4. ASSUME NEW reason \in Reason, FailCrew(w, reason), worker[w].pc \in {"inputs", "llm"}
      PROVE  ErrorOn'
  <2>1. a \in Analyses /\ seen.status = "RUNNING_CREW"
    BY <1>0, <1>00, <1>4 DEF InPipeline, CopyStep
  <2>2. /\ row'[a] = Flush(row[a], seen, WithStatus(seen, "FAILED", reason))
        /\ \A b \in Analyses \ {a} : row'[b] = row[b]
    BY <1>0, <1>4, <2>1 DEF FailCrew, TypeOK
  <2>3. WithStatus(seen, "FAILED", reason).status = "FAILED"
    BY <1>0 DEF WithStatus, Row
  <2>4. row'[a].status = "FAILED"
    BY <2>1, <2>2, <2>3 DEF Flush
  <2>5. CompletedHasNoError'
    BY <1>0, <2>2, <2>4 DEF CompletedHasNoError
  <2>6. QED
    BY <1>2, <1>4, <2>5 DEF FailCrew
<1>5. CASE EnsureCv(w)
  BY <1>1, <1>5 DEF EnsureCv, InPipeline
<1>6. CASE Convert(w)
  BY <1>1, <1>2, <1>3, <1>6 DEF Convert, InPipeline
<1>7. CASE EnsureOffer(w)
  BY <1>1, <1>2, <1>3, <1>7 DEF EnsureOffer, InPipeline
<1>8. CASE Extract(w)
  BY <1>1, <1>2, <1>3, <1>8 DEF Extract, InPipeline
<1>9. CASE SkipCrew(w)
  BY <1>1, <1>9 DEF SkipCrew, InPipeline
<1>10. CASE StartCrew(w)
  <2>1. /\ Started(seen) \in Row
        /\ Started(seen).status = "RUNNING_CREW"
        /\ Started(seen).error = seen.error
    BY <1>0, SavedRecords
  <2>2. Save(w, Started(seen), "inputs") /\ InPipeline(w) /\ worker[w].pc = "crew"
    BY <1>10 DEF StartCrew, InPipeline, Started
  <2>3. QED
    BY <2>1, <2>2, SaveError
<1>11. CASE ReadInputs(w)
  <2>1. worker[w].pc = "inputs" /\ seen.status = "RUNNING_CREW" /\ InPipeline(w)
    BY <1>0, <1>11 DEF ReadInputs, CopyStep, InPipeline
  <2>2. QED
    BY <1>1, <1>4, <1>11, <2>1 DEF ReadInputs, Reason
<1>12. CASE RunCrew(w)
  <2>1. worker[w].pc = "llm" /\ seen.status = "RUNNING_CREW" /\ InPipeline(w)
    BY <1>0, <1>12 DEF RunCrew, CopyStep, InPipeline
  <2>2. QED
    BY <1>1, <1>2, <1>3, <1>4, <1>12, <2>1 DEF RunCrew, Reason
<1>13. CASE AwaitResult(w)
  <2>1. /\ HandedOver(seen) \in Row
        /\ HandedOver(seen).status = "AWAITING_RESULT"
        /\ HandedOver(seen).error = "none"
    BY <1>0, SavedRecords
  <2>2. Save(w, HandedOver(seen), "persist") /\ InPipeline(w) /\ worker[w].pc = "await"
    BY <1>13 DEF AwaitResult, InPipeline, HandedOver
  <2>3. QED
    BY <2>1, <2>2, SaveError
<1>14. CASE Persist(w)
  <2>1. worker[w].pc = "persist" /\ InPipeline(w) /\ seen.status # "FAILED"
    BY <1>0, <1>14 DEF Persist, InPipeline, CopyStep
  <2>2. CASE Save(w, Completed(seen), "rollup")
    <3>1. /\ Completed(seen) \in Row
          /\ Completed(seen).status = "COMPLETED"
          /\ Completed(seen).error = "none"
      BY <1>0, SavedRecords
    <3>2. QED
      BY <2>1, <2>2, <3>1, SaveError
  <2>3. CASE Save(w, WithStatus(seen, "FAILED", "result"), "rollup_failed")
    <3>1. WithStatus(seen, "FAILED", "result").status = "FAILED"
      BY <1>0 DEF WithStatus, Row
    <3>2. WithStatus(seen, "FAILED", "result") \in Row
      BY <1>0 DEF WithStatus, Row, Status, Terminal, Reason
    <3>3. QED
      BY <2>1, <2>3, <3>1, <3>2, SaveError
  <2>4. CASE Raise(w) /\ UNCHANGED row
    BY <1>2, <1>3, <2>4
  <2>5. QED
    BY <1>14, <2>2, <2>3, <2>4 DEF Persist, Completed
<1>15. CASE MarkFailed(w)
  <2>1. InPipeline(w) /\ a \in Analyses
    BY <1>00, <1>15 DEF MarkFailed, InPipeline
  <2>2. CASE EndRecord(w) /\ UNCHANGED row
    BY <1>2, <1>3, <2>2
  <2>3. CASE row' = [row EXCEPT ![a] = WithStatus(@, "FAILED", "caught")] /\ Goto(w, "rollup")
    <3>1. \A b \in Analyses \ {a} : row'[b] = row[b]
      BY <1>0, <2>1, <2>3 DEF TypeOK
    <3>2. row'[a].status = "FAILED"
      BY <1>0, <2>1, <2>3 DEF TypeOK, WithStatus, Row
    <3>3. CompletedHasNoError'
      BY <1>0, <3>1, <3>2 DEF CompletedHasNoError
    <3>4. worker'[w].pc = "rollup"
      BY <1>0, <2>3, GotoEffect
    <3>5. QED
      BY <3>3, <3>4, DropsError
  <2>4. QED
    BY <1>15, <2>2, <2>3 DEF MarkFailed
<1>16. CASE RollUp(w)
  BY <1>2, <1>3, <1>16 DEF RollUp
<1>17. CASE ConvertMessage(w)
  <2>1. UNCHANGED row
    BY <1>17 DEF ConvertMessage
  <2>2. CASE worker' = [worker EXCEPT ![w] = IdleWorker]
    <3>1. worker'[w].pc = "idle"
      BY <1>0, <2>2 DEF TypeOK, IdleWorker
    <3>2. QED
      BY <1>3, <2>1, <3>1, DropsError
  <2>3. CASE EndRecord(w)
    BY <1>2, <1>3, <2>1, <2>3
  <2>4. QED
    BY <1>17, <2>2, <2>3 DEF ConvertMessage
<1>18. QED
  BY <1>5, <1>6, <1>7, <1>8, <1>9, <1>10, <1>11, <1>12, <1>13, <1>14, <1>15, <1>16, <1>17
  DEF HandlerStep

\* What the API does to the rows: a row is opened, or a requeue puts it back.
LEMMA ApiRows ==
  ASSUME TypeOK, NEW r \in Requests, ApiStep(r)
  PROVE  /\ UNCHANGED <<worker, offer, stored>>
         /\ \/ UNCHANGED row
            \/ \E a \in Analyses :
                 /\ CreateAnalysis(r, a)
                 /\ row'[a].status = "PENDING" /\ row'[a].error = row[a].error
                 /\ row'[a].result = row[a].result
                 /\ \A b \in Analyses \ {a} : row'[b] = row[b]
            \/ /\ RequeueCommit(r)
               /\ \A b \in Analyses :
                    /\ row'[b].status \in {row[b].status, "PENDING"}
                    /\ row'[b].error \in {row[b].error, "none"}
                    /\ row'[b].result = row[b].result
                    /\ b # request[r].body => row'[b] = row[b]
<1>1. ASSUME NEW a \in Analyses, CreateAnalysis(r, a)
      PROVE  /\ row'[a].status = "PENDING" /\ row'[a].error = row[a].error
             /\ row'[a].result = row[a].result
             /\ \A b \in Analyses \ {a} : row'[b] = row[b]
  BY <1>1 DEF CreateAnalysis, TypeOK, Row
<1>2. ASSUME RequeueCommit(r), NEW b \in Analyses
      PROVE  /\ row'[b].status \in {row[b].status, "PENDING"}
             /\ row'[b].error \in {row[b].error, "none"}
             /\ row'[b].result = row[b].result
             /\ b # request[r].body => row'[b] = row[b]
  <2> DEFINE seen == request[r].seen
             new == WithStatus(seen, "PENDING", "none")
  <2>1. new.status = "PENDING" /\ new.error = "none" /\ new.result = seen.result
    BY DEF TypeOK, RequestState, WithStatus, Row
  <2>2. row' = [row EXCEPT ![request[r].body] = Flush(@, seen, new)]
    BY <1>2 DEF RequeueCommit
  <2>3. CASE b = request[r].body
    <3>1. row'[b] = Flush(row[b], seen, new)
      BY <2>2, <2>3 DEF TypeOK
    <3>2. QED
      BY <2>1, <2>3, <3>1 DEF Flush
  <2>4. CASE b # request[r].body
    BY <2>2, <2>4 DEF TypeOK
  <2>5. QED
    BY <2>3, <2>4
<1>3. UNCHANGED <<worker, offer, stored>>
  BY DEF ApiStep, CreateAnalysis, RequeueRead, RequeueCommit, ConvertRead, ConvertCommit,
         Send, SendFails
<1>4. UNCHANGED row \/ RequeueCommit(r) \/ \E a \in Analyses : CreateAnalysis(r, a)
  BY DEF ApiStep, RequeueRead, ConvertRead, ConvertCommit, Send, SendFails
<1>5. QED
  BY <1>1, <1>2, <1>3, <1>4

LEMMA InitError == Init => ErrorOn
<1> SUFFICES ASSUME Init PROVE ErrorOn
  OBVIOUS
<1>1. CompletedHasNoError
  BY DEF Init, CompletedHasNoError, NoRow
<1>2. \A w \in Workers : worker[w].pc = "idle"
  BY DEF Init, IdleWorker
<1>3. QED
  BY <1>1, <1>2 DEF ErrorOn, CopyStep, CopyKeepsError, InPipeline

LEMMA NextError == ASSUME OneWorker, ErrorInv, [Next]_vars PROVE ErrorOn'
<1>0. TypeOK /\ ErrorOn /\ CompletedHasNoError
  BY DEF ErrorInv, ErrorOn, CompletedInv
<1>1. ASSUME UNCHANGED <<row, worker>> PROVE ErrorOn'
  BY <1>1, EasesError DEF Eases
<1>2. ASSUME UNCHANGED row PROVE CompletedHasNoError'
  BY <1>0, <1>2 DEF CompletedHasNoError
<1>3. ASSUME NEW r \in Requests, ApiStep(r) PROVE ErrorOn'
  <2>1. Eases /\ UNCHANGED worker
    BY <1>0, <1>3, ApiRows DEF Eases
  <2>2. QED
    BY <2>1, EasesError
<1>4. ASSUME NEW w \in Workers, NEW batch \in SUBSET MsgIds, Receive(w, batch) PROVE ErrorOn'
  <2>1. worker'[w].pc = "next" /\ UNCHANGED row
    BY <1>0, <1>4 DEF Receive, TypeOK, IdleWorker
  <2>2. QED
    BY <1>2, <2>1, DropsError
<1>5. ASSUME NEW w \in Workers, NEW m \in MsgIds, LoadAnalysis(w, m) PROVE ErrorOn'
  <2>1. /\ worker'[w].pc = "cv" /\ worker'[w].body = queue[m].body
        /\ worker'[w].seen = row[queue[m].body] /\ UNCHANGED row
    BY <1>0, <1>5 DEF LoadAnalysis, TypeOK, WorkerState
  <2>2. CopyStep(w)' /\ CopyKeepsError(w)'
    BY <2>1 DEF CopyStep, CopyKeepsError
  <2>3. QED
    BY <1>2, <2>1, <2>2 DEF ErrorOn, OneWorker
<1>6. ASSUME NEW w \in Workers, NEW m \in MsgIds, LoadConversion(w, m) PROVE ErrorOn'
  <2>1. worker'[w].pc = "convert_message" /\ UNCHANGED row
    BY <1>0, <1>6 DEF LoadConversion, TypeOK, WorkerState
  <2>2. QED
    BY <1>2, <2>1, DropsError
<1>7. ASSUME NEW w \in Workers, DeleteBatch(w) \/ WorkerCrash(w) PROVE ErrorOn'
  <2>1. worker'[w].pc = "idle" /\ UNCHANGED row
    BY <1>0, <1>7 DEF DeleteBatch, WorkerCrash, TypeOK, IdleWorker
  <2>2. QED
    BY <1>2, <2>1, DropsError
<1>8. ASSUME NEW w \in Workers, HandlerStep(w) PROVE ErrorOn'
  BY <1>8, HandlerError
<1>9. CASE \/ \E a \in Analyses : Age(a)
           \/ \E m \in MsgIds : BecomeVisible(m)
           \/ BrokerRestart
           \/ UNCHANGED vars
  BY <1>1, <1>9 DEF Age, BecomeVisible, BrokerRestart, vars
<1>10. QED
  BY <1>3, <1>4, <1>5, <1>6, <1>7, <1>8, <1>9 DEF Next, LoadNext

\* Where one worker runs, a COMPLETED Analysis shows no error of an earlier
\* attempt, under every fault: only the columns that differ from a copy are
\* written, and a requeue between the read and the commit can but clear it.
THEOREM NoErrorOnceCompleted == ASSUME OneWorker PROVE Spec => []CompletedHasNoError
<1>1. Init => ErrorInv
  BY InitCompletedInv, InitError DEF ErrorInv
<1>2. ErrorInv /\ [Next]_vars => ErrorInv'
  BY NextCompletedInv, NextError DEF ErrorInv
<1>3. ErrorInv => CompletedHasNoError
  BY DEF ErrorInv, ErrorOn
<1>4. QED
  BY <1>1, <1>2, <1>3, PTL DEF Spec
-----------------------------------------------------------------------------
(* One worker, no reconversion and a readable store: no worker step takes a  *)
(* COMPLETED row anywhere, and every step is one of the life cycle.           *)

Undisturbed == OneWorker /\ Faults \cap {"s3", "reconvert"} = {}

\* What a message or a request is about: a row that exists, never a CV.
Named(b) == b \notin CVs /\ (b \in Analyses => row[b].status # "ABSENT")

\* What a COMPLETED row was made of is still ready.
Prepared(a) == cv[CvOf[a]] = "CONVERTED" /\ offer[OfferOf[a]] = "READY"

Before == {"cv", "converting", "offer", "extracting", "crew"}
During == {"inputs", "llm", "await"}

\* The row is where the copy of its worker says, or a requeue put it back.
Steady(w) ==
  LET a == worker[w].body
      at == worker[w].pc
  IN
  /\ at \notin {"convert_message", "rollup_failed"}
  /\ InPipeline(w) => row[a].status # "ABSENT"
  /\ at = "catch" => row[a].status # "COMPLETED"
  /\ at \in Before \cup During \cup {"persist"} =>
       row[a].status \in {worker[w].seen.status, "PENDING"}
  /\ at = "converting" => cv[CvOf[a]] = "CONVERTING"
  /\ at = "extracting" => offer[OfferOf[a]] = "EXTRACTING"
  /\ at \in {"offer", "extracting", "crew", "persist"} \cup During => cv[CvOf[a]] = "CONVERTED"
  /\ at \in {"crew", "persist"} \cup During => offer[OfferOf[a]] = "READY"
  /\ CopyStep(w)

NamesOn ==
  /\ \A m \in MsgIds : Named(queue[m].body)
  /\ \A r \in Requests : Named(request[r].body)

SteadyOn ==
  /\ NamesOn
  /\ \A a \in Analyses : row[a].status = "COMPLETED" => Prepared(a)
  /\ \A w \in Workers : Steady(w)

SteadyInv == CompletedInv /\ SteadyOn

\* A worker's commit moves one row along the life cycle, and none out of COMPLETED.
WorkerMove(a) ==
  /\ \A b \in Analyses \ {a} : row'[b] = row[b]
  /\ LET from == row[a].status
         to == row'[a].status
         kept == row'[a].result = row[a].result
     IN
     \/ to = from /\ kept
     \/ to = "RUNNING_CREW" /\ from \in NonTerminal \cup {"FAILED"} /\ kept
     \/ to = "AWAITING_RESULT" /\ from \in {"RUNNING_CREW", "PENDING"} /\ kept
     \/ to = "COMPLETED" /\ from \in {"AWAITING_RESULT", "PENDING"} /\ row'[a].result
     \/ to = "FAILED" /\ from \in NonTerminal /\ kept

\* No row goes back to being absent.
Remain == \A b \in Analyses : row[b].status # "ABSENT" => row'[b].status # "ABSENT"

LEMMA MoveRemains ==
  ASSUME NEW a \in Analyses, WorkerMove(a)
  PROVE  Remain
BY DEF WorkerMove, Remain

\* The one worker takes its step: what is left to show is about it and its row.
LEMMA OneStepSteady ==
  ASSUME Undisturbed, SteadyInv, NEW w \in Workers, Remain,
         UNCHANGED <<queue, request>>, Steady(w)',
         \A a \in Analyses : row'[a].status = "COMPLETED" => Prepared(a)'
  PROVE  SteadyOn'
<1>1. SteadyOn
  BY DEF SteadyInv
<1>2. NamesOn'
  BY <1>1 DEF SteadyOn, NamesOn, Named, Remain
<1>3. \A v \in Workers : Steady(v)'
  BY DEF Undisturbed, OneWorker
<1>4. QED
  BY <1>2, <1>3 DEF SteadyOn

\* A step that leaves the rows alone moves nothing.
LEMMA StayMove ==
  ASSUME NEW a \in Analyses, UNCHANGED row
  PROVE  WorkerMove(a)
BY DEF WorkerMove

\* The commits of the crew task.
LEMMA StartMove ==
  ASSUME SteadyInv, NEW w \in Workers, StartCrew(w)
  PROVE  /\ WorkerMove(worker[w].body)
         /\ Steady(w)'
         /\ \A a \in Analyses : row'[a].status = "COMPLETED" => row[a].status = "COMPLETED"
<1> DEFINE a == worker[w].body
           seen == worker[w].seen
<1>0. TypeOK /\ SteadyOn /\ WorkerBacked(w) /\ Steady(w) /\ seen \in Row
  BY DEF SteadyInv, SteadyOn, CompletedInv, TypeOK, WorkerState
<1>1. worker[w].pc = "crew" /\ InPipeline(w)
  BY DEF StartCrew, InPipeline
<1>2. a \in Analyses /\ seen.status # "COMPLETED"
  BY <1>0, <1>1 DEF WorkerBacked, StartCrew
<1>3. row[a].status \in {seen.status, "PENDING"} /\ row[a].status # "ABSENT"
  BY <1>0, <1>1 DEF Steady, Before
<1>4. row[a].status \in NonTerminal \cup {"FAILED"}
  <2>1. row[a].status \in Status /\ row[a].status # "COMPLETED"
    BY <1>0, <1>2, <1>3 DEF TypeOK, Row
  <2>2. QED
    BY <1>3, <2>1 DEF Status, Terminal
<1>5. /\ Started(seen) \in Row /\ Started(seen).status = "RUNNING_CREW"
      /\ Started(seen).result = seen.result
  BY <1>0, SavedRecords
<1>6. Save(w, Started(seen), "inputs")
  BY DEF StartCrew, Started
<1>7. /\ worker'[w].pc = "inputs" /\ worker'[w].body = a /\ worker'[w].seen = Started(seen)
      /\ row'[a] = Flush(row[a], seen, Started(seen))
      /\ \A b \in Analyses \ {a} : row'[b] = row[b]
  BY <1>0, <1>2, <1>5, <1>6, SaveEffect
<1>8. /\ row'[a].status = IF seen.status = "RUNNING_CREW" THEN row[a].status ELSE "RUNNING_CREW"
      /\ row'[a].result = row[a].result
  BY <1>5, <1>7 DEF Flush
<1>9. row'[a].status \in {"RUNNING_CREW", "PENDING"}
  BY <1>3, <1>8
<1>10. WorkerMove(a)
  BY <1>4, <1>7, <1>8 DEF WorkerMove
<1>11. Steady(w)'
  BY <1>0, <1>1, <1>5, <1>7, <1>9 DEF Steady, StartCrew, CopyStep, Before, During
<1>12. QED
  BY <1>2, <1>7, <1>9, <1>10, <1>11

LEMMA HandOverMove ==
  ASSUME SteadyInv, NEW w \in Workers, AwaitResult(w)
  PROVE  /\ WorkerMove(worker[w].body)
         /\ Steady(w)'
         /\ \A a \in Analyses : row'[a].status = "COMPLETED" => row[a].status = "COMPLETED"
<1> DEFINE a == worker[w].body
           seen == worker[w].seen
<1>0. TypeOK /\ SteadyOn /\ WorkerBacked(w) /\ Steady(w) /\ seen \in Row
  BY DEF SteadyInv, SteadyOn, CompletedInv, TypeOK, WorkerState
<1>1. worker[w].pc = "await" /\ InPipeline(w)
  BY DEF AwaitResult, InPipeline
<1>2. a \in Analyses /\ seen.status = "RUNNING_CREW"
  BY <1>0, <1>1 DEF WorkerBacked, Steady, CopyStep
<1>3. row[a].status \in {"RUNNING_CREW", "PENDING"}
  BY <1>0, <1>1, <1>2 DEF Steady, During
<1>4. /\ HandedOver(seen) \in Row /\ HandedOver(seen).status = "AWAITING_RESULT"
      /\ HandedOver(seen).result = seen.result
  BY <1>0, SavedRecords
<1>5. Save(w, HandedOver(seen), "persist")
  BY DEF AwaitResult, HandedOver
<1>6. /\ worker'[w].pc = "persist" /\ worker'[w].body = a /\ worker'[w].seen = HandedOver(seen)
      /\ row'[a] = Flush(row[a], seen, HandedOver(seen))
      /\ \A b \in Analyses \ {a} : row'[b] = row[b]
  BY <1>0, <1>2, <1>4, <1>5, SaveEffect
<1>7. row'[a].status = "AWAITING_RESULT" /\ row'[a].result = row[a].result
  BY <1>2, <1>4, <1>6 DEF Flush
<1>8. WorkerMove(a)
  BY <1>3, <1>6, <1>7 DEF WorkerMove
<1>9. Steady(w)'
  BY <1>0, <1>1, <1>4, <1>6, <1>7 DEF Steady, AwaitResult, CopyStep, Before, During
<1>10. QED
  BY <1>6, <1>7, <1>8, <1>9

\* A recorded failure, at the steps where the crew is at work.
LEMMA FailMove ==
  ASSUME SteadyInv, NEW w \in Workers, NEW reason \in Reason, FailCrew(w, reason),
         worker[w].pc \in {"inputs", "llm"}
  PROVE  /\ WorkerMove(worker[w].body)
         /\ Steady(w)'
         /\ \A a \in Analyses : row'[a].status = "COMPLETED" => row[a].status = "COMPLETED"
<1> DEFINE a == worker[w].body
           seen == worker[w].seen
<1>0. TypeOK /\ SteadyOn /\ WorkerBacked(w) /\ Steady(w) /\ seen \in Row
  BY DEF SteadyInv, SteadyOn, CompletedInv, TypeOK, WorkerState
<1>1. a \in Analyses /\ seen.status = "RUNNING_CREW"
  BY <1>0 DEF WorkerBacked, InPipeline, Steady, CopyStep
<1>2. row[a].status \in {"RUNNING_CREW", "PENDING"}
  BY <1>0, <1>1 DEF Steady, During
<1>3. /\ row'[a] = Flush(row[a], seen, WithStatus(seen, "FAILED", reason))
      /\ \A b \in Analyses \ {a} : row'[b] = row[b]
  BY <1>0, <1>1 DEF FailCrew, TypeOK
<1>4. /\ WithStatus(seen, "FAILED", reason).status = "FAILED"
      /\ WithStatus(seen, "FAILED", reason).result = seen.result
  BY <1>0 DEF WithStatus, Row
<1>5. row'[a].status = "FAILED" /\ row'[a].result = row[a].result
  BY <1>1, <1>3, <1>4 DEF Flush
<1>6. WorkerMove(a)
  BY <1>2, <1>3, <1>5 DEF WorkerMove, NonTerminal
<1>7. worker'[w].pc = "catch" /\ worker'[w].body = a
  BY <1>0, RaiseEffect DEF FailCrew
<1>8. Steady(w)'
  BY <1>5, <1>7 DEF Steady, CopyStep, Before, During
<1>9. QED
  BY <1>3, <1>5, <1>6, <1>8

\* Persisting completes the row, or finds it COMPLETED as its copy says.
LEMMA PersistMove ==
  ASSUME Undisturbed, SteadyInv, NEW w \in Workers, Persist(w)
  PROVE  /\ WorkerMove(worker[w].body)
         /\ Steady(w)'
         /\ \A a \in Analyses : row'[a].status = "COMPLETED" => Prepared(a)'
<1> DEFINE a == worker[w].body
           seen == worker[w].seen
<1>0. TypeOK /\ SteadyOn /\ WorkerBacked(w) /\ Steady(w) /\ seen \in Row
  BY DEF SteadyInv, SteadyOn, CompletedInv, TypeOK, WorkerState
<1>1. worker[w].pc = "persist" /\ InPipeline(w)
  BY DEF Persist, InPipeline
<1>2. /\ a \in Analyses /\ a \in stored
      /\ seen.status \in {"AWAITING_RESULT", "COMPLETED"}
      /\ seen.result => row[a].result
      /\ seen.status = "COMPLETED" => seen.result
  BY <1>0, <1>1 DEF WorkerBacked, Steady, CopyStep
<1>3. Save(w, Completed(seen), "rollup") /\ UNCHANGED <<cv, offer>>
  BY <1>2 DEF Persist, Undisturbed, Completed
<1>4. row[a].status \in {seen.status, "PENDING"} /\ row[a].status # "ABSENT" /\ Prepared(a)
  BY <1>0, <1>1 DEF Steady, Before, During, Prepared
<1>5. /\ Completed(seen) \in Row /\ Completed(seen).status = "COMPLETED"
      /\ Completed(seen).result
  BY <1>0, SavedRecords
<1>6. /\ worker'[w].pc = "rollup" /\ worker'[w].body = a
      /\ row'[a] = Flush(row[a], seen, Completed(seen))
      /\ \A b \in Analyses \ {a} : row'[b] = row[b]
  BY <1>0, <1>2, <1>3, <1>5, SaveEffect
<1>7. row[a].result \in BOOLEAN /\ seen.result \in BOOLEAN /\ Completed(seen).result \in BOOLEAN
  BY <1>0, <1>2, <1>5 DEF TypeOK, Row
<1>8. CASE seen.status = "COMPLETED"
  <2>1. row'[a].status = row[a].status
    BY <1>5, <1>6, <1>8 DEF Flush
  <2>2. seen.result = Completed(seen).result
    BY <1>2, <1>5, <1>7, <1>8
  <2>3. row'[a].result = row[a].result
    BY <1>6, <2>2 DEF Flush
  <2>4. WorkerMove(a)
    BY <1>6, <2>1, <2>3 DEF WorkerMove
  <2>5. Steady(w)'
    BY <1>4, <1>6, <2>1 DEF Steady, CopyStep, Before, During
  <2>6. \A b \in Analyses : row'[b].status = row[b].status
    BY <1>6, <2>1
  <2>7. QED
    BY <1>0, <1>3, <2>4, <2>5, <2>6 DEF SteadyOn, Prepared
<1>9. CASE seen.status = "AWAITING_RESULT"
  <2>1. row'[a].status = "COMPLETED"
    BY <1>5, <1>6, <1>9 DEF Flush
  <2>2. row'[a].result
    <3>1. row'[a].result = IF Completed(seen).result # seen.result
                             THEN Completed(seen).result ELSE row[a].result
      BY <1>6 DEF Flush
    <3>2. CASE Completed(seen).result # seen.result
      BY <1>5, <3>1, <3>2, Zenon
    <3>3. CASE Completed(seen).result = seen.result
      BY <1>2, <1>5, <3>1, <3>3, Zenon
    <3>4. QED
      BY <3>2, <3>3
  <2>3. WorkerMove(a)
    BY <1>4, <1>6, <1>9, <2>1, <2>2 DEF WorkerMove
  <2>4. Steady(w)'
    BY <1>6, <2>1 DEF Steady, CopyStep, Before, During
  <2>5. QED
    BY <1>0, <1>3, <1>4, <1>6, <2>3, <2>4 DEF SteadyOn, Prepared
<1>10. QED
  BY <1>2, <1>8, <1>9

\* The except clause fails the row unless it is FAILED already.
LEMMA MarkMove ==
  ASSUME SteadyInv, NEW w \in Workers, MarkFailed(w)
  PROVE  /\ WorkerMove(worker[w].body)
         /\ Steady(w)'
         /\ \A a \in Analyses : row'[a].status = "COMPLETED" => row[a].status = "COMPLETED"
<1> DEFINE a == worker[w].body
<1>0. TypeOK /\ SteadyOn /\ WorkerBacked(w) /\ Steady(w)
  BY DEF SteadyInv, SteadyOn, CompletedInv
<1>1. worker[w].pc = "catch" /\ InPipeline(w)
  BY DEF MarkFailed, InPipeline
<1>2. a \in Analyses /\ row[a].status \notin {"ABSENT", "COMPLETED"} /\ row[a] \in Row
  BY <1>0, <1>1 DEF WorkerBacked, Steady, TypeOK
<1>3. CASE row[a].status = "FAILED" /\ EndRecord(w) /\ UNCHANGED row
  <2>1. worker'[w].pc = "next"
    BY <1>0, <1>3, EndRecordEffect
  <2>2. Steady(w)'
    BY <2>1 DEF Steady, CopyStep, InPipeline, Before, During
  <2>3. QED
    BY <1>2, <1>3, <2>2, StayMove
<1>4. CASE /\ row[a].status # "FAILED"
           /\ row' = [row EXCEPT ![a] = WithStatus(@, "FAILED", "caught")]
           /\ Goto(w, "rollup")
  <2>1. \A b \in Analyses \ {a} : row'[b] = row[b]
    BY <1>0, <1>2, <1>4 DEF TypeOK
  <2>2. row'[a].status = "FAILED" /\ row'[a].result = row[a].result
    BY <1>0, <1>2, <1>4 DEF TypeOK, WithStatus, Row
  <2>3. row[a].status \in NonTerminal
    BY <1>2, <1>4 DEF Row, Status, Terminal
  <2>4. WorkerMove(a)
    BY <2>1, <2>2, <2>3 DEF WorkerMove
  <2>5. worker'[w].pc = "rollup" /\ worker'[w].body = a
    BY <1>0, <1>4, GotoEffect
  <2>6. Steady(w)'
    BY <2>2, <2>5 DEF Steady, CopyStep, Before, During
  <2>7. QED
    BY <2>1, <2>2, <2>4, <2>6
<1>5. QED
  BY <1>3, <1>4 DEF MarkFailed

\* Raising keeps the worker in step, where the row is not COMPLETED.
LEMMA RaiseSteady ==
  ASSUME SteadyInv, NEW w \in Workers, Raise(w), UNCHANGED row, InPipeline(w),
         row[worker[w].body].status # "COMPLETED"
  PROVE  Steady(w)'
<1>0. TypeOK /\ Steady(w)
  BY DEF SteadyInv, SteadyOn, CompletedInv
<1>1. worker'[w].pc = "catch" /\ worker'[w].body = worker[w].body
  BY <1>0, RaiseEffect
<1>2. row[worker[w].body].status # "ABSENT"
  BY <1>0 DEF Steady
<1>3. QED
  BY <1>1, <1>2 DEF Steady, CopyStep, Before, During

\* Every step of a record's handling is a move of the row in hand, which keeps
\* the worker in step with it and every COMPLETED row prepared.
LEMMA HandlerMoves ==
  ASSUME Undisturbed, SteadyInv, NEW w \in Workers, HandlerStep(w)
  PROVE  /\ \/ UNCHANGED row
            \/ worker[w].body \in Analyses /\ WorkerMove(worker[w].body)
         /\ Steady(w)'
         /\ \A a \in Analyses : row'[a].status = "COMPLETED" => Prepared(a)'
<1> DEFINE a == worker[w].body
           seen == worker[w].seen
<1>0. /\ TypeOK /\ SteadyOn /\ WorkerBacked(w) /\ Steady(w)
      /\ \A b \in Analyses : row[b].status = "COMPLETED" => Prepared(b)
  BY DEF SteadyInv, SteadyOn, CompletedInv
<1>00. InPipeline(w) => a \in Analyses
  BY <1>0 DEF WorkerBacked
<1>000. ASSUME UNCHANGED <<cv, offer>>,
               \A b \in Analyses : row'[b].status = "COMPLETED" => row[b].status = "COMPLETED"
        PROVE  \A b \in Analyses : row'[b].status = "COMPLETED" => Prepared(b)'
  BY <1>0, <1>000 DEF Prepared
<1>1. CASE EnsureCv(w)
  <2>1. /\ worker[w].pc = "cv" /\ InPipeline(w) /\ UNCHANGED <<row, offer>>
        /\ a \in Analyses /\ CvOf[a] \in CVs
    BY <1>00, <1>1, PipelineAssumption DEF EnsureCv, InPipeline
  <2>2. CASE cv[CvOf[a]] = "CONVERTED" /\ Goto(w, "offer") /\ UNCHANGED cv
    <3>1. /\ worker'[w].pc = "offer" /\ worker'[w].body = a /\ worker'[w].seen = seen
      BY <1>0, <2>2, GotoEffect
    <3>2. Steady(w)'
      BY <1>0, <2>1, <2>2, <3>1 DEF Steady, CopyStep, InPipeline, Before, During
    <3>3. QED
      BY <1>000, <2>1, <2>2, <3>2
  <2>3. CASE /\ cv[CvOf[a]] # "CONVERTED"
             /\ cv' = [cv EXCEPT ![CvOf[a]] = "CONVERTING"]
             /\ Goto(w, "converting")
    <3>1. /\ worker'[w].pc = "converting" /\ worker'[w].body = a /\ worker'[w].seen = seen
      BY <1>0, <2>3, GotoEffect
    <3>2. /\ cv'[CvOf[a]] = "CONVERTING"
          /\ \A c \in CVs \ {CvOf[a]} : cv'[c] = cv[c]
      BY <1>0, <2>1, <2>3 DEF TypeOK
    <3>3. Steady(w)'
      BY <1>0, <2>1, <3>1, <3>2 DEF Steady, CopyStep, InPipeline, Before, During
    <3>4. ASSUME NEW b \in Analyses, row'[b].status = "COMPLETED" PROVE Prepared(b)'
      <4>1. Prepared(b) /\ CvOf[b] \in CVs
        BY <1>0, <2>1, <3>4, PipelineAssumption
      <4>2. QED
        BY <2>1, <2>3, <3>2, <4>1 DEF Prepared
    <3>5. QED
      BY <2>1, <3>3, <3>4
  <2>4. QED
    BY <1>1, <2>2, <2>3 DEF EnsureCv
<1>2. CASE Convert(w)
  <2>1. /\ worker[w].pc = "converting" /\ InPipeline(w) /\ UNCHANGED <<row, offer>>
        /\ a \in Analyses /\ CvOf[a] \in CVs /\ cv[CvOf[a]] = "CONVERTING"
    BY <1>0, <1>00, <1>2, PipelineAssumption DEF Convert, InPipeline, Steady
  <2>2. row[a].status # "COMPLETED"
    BY <1>0, <2>1 DEF Prepared
  <2>3. PICK status \in {"CONVERTED", "FAILED"} :
          /\ cv' = [cv EXCEPT ![CvOf[a]] = status]
          /\ IF status = "CONVERTED" THEN Goto(w, "offer") ELSE Raise(w)
    BY <1>2 DEF Convert, ConversionEnds, Undisturbed
  <2>4. /\ cv'[CvOf[a]] = status
        /\ \A c \in CVs \ {CvOf[a]} : cv'[c] = cv[c]
    BY <1>0, <2>1, <2>3 DEF TypeOK
  <2>5. ASSUME status = "CONVERTED", Goto(w, "offer") PROVE Steady(w)'
    <3>1. /\ worker'[w].pc = "offer" /\ worker'[w].body = a /\ worker'[w].seen = seen
      BY <1>0, <2>5, GotoEffect
    <3>2. QED
      BY <1>0, <2>1, <2>4, <2>5, <3>1 DEF Steady, CopyStep, InPipeline, Before, During
  <2>6. ASSUME Raise(w) PROVE Steady(w)'
    <3>1. UNCHANGED row
      BY <2>1
    <3>2. QED
      BY <2>1, <2>2, <2>6, <3>1, RaiseSteady
  <2>7. Steady(w)'
    BY <2>3, <2>5, <2>6
  <2>8. ASSUME NEW b \in Analyses, row'[b].status = "COMPLETED" PROVE Prepared(b)'
    <3>1. Prepared(b) /\ CvOf[b] \in CVs
      BY <1>0, <2>1, <2>8, PipelineAssumption
    <3>2. QED
      BY <2>1, <2>4, <3>1 DEF Prepared
  <2>9. QED
    BY <2>1, <2>7, <2>8
<1>3. CASE EnsureOffer(w)
  <2>1. /\ worker[w].pc = "offer" /\ InPipeline(w) /\ UNCHANGED <<row, cv>>
        /\ a \in Analyses /\ OfferOf[a] \in Offers
    BY <1>00, <1>3, PipelineAssumption DEF EnsureOffer, InPipeline
  <2>2. CASE offer[OfferOf[a]] = "READY" /\ Goto(w, "crew") /\ UNCHANGED offer
    <3>1. /\ worker'[w].pc = "crew" /\ worker'[w].body = a /\ worker'[w].seen = seen
      BY <1>0, <2>2, GotoEffect
    <3>2. Steady(w)'
      BY <1>0, <2>1, <2>2, <3>1 DEF Steady, CopyStep, InPipeline, Before, During
    <3>3. QED
      BY <1>000, <2>1, <2>2, <3>2
  <2>3. CASE offer[OfferOf[a]] # "READY" /\ Raise(w) /\ UNCHANGED offer
    <3>1. worker'[w].pc = "catch" /\ worker'[w].body = a
      BY <1>0, <2>3, RaiseEffect
    <3>2. row[a].status # "COMPLETED"
      BY <1>0, <2>1, <2>3 DEF Prepared
    <3>3. Steady(w)'
      BY <1>0, <2>1, <3>1, <3>2 DEF Steady, CopyStep, InPipeline, Before, During
    <3>4. QED
      BY <1>000, <2>1, <2>3, <3>3
  <2>4. CASE /\ offer[OfferOf[a]] # "READY"
             /\ offer' = [offer EXCEPT ![OfferOf[a]] = "EXTRACTING"]
             /\ Goto(w, "extracting")
    <3>1. /\ worker'[w].pc = "extracting" /\ worker'[w].body = a /\ worker'[w].seen = seen
      BY <1>0, <2>4, GotoEffect
    <3>2. /\ offer'[OfferOf[a]] = "EXTRACTING"
          /\ \A o \in Offers \ {OfferOf[a]} : offer'[o] = offer[o]
      BY <1>0, <2>1, <2>4 DEF TypeOK
    <3>3. Steady(w)'
      BY <1>0, <2>1, <3>1, <3>2 DEF Steady, CopyStep, InPipeline, Before, During
    <3>4. ASSUME NEW b \in Analyses, row'[b].status = "COMPLETED" PROVE Prepared(b)'
      <4>1. Prepared(b) /\ OfferOf[b] \in Offers
        BY <1>0, <2>1, <3>4, PipelineAssumption
      <4>2. QED
        BY <2>1, <2>4, <3>2, <4>1 DEF Prepared
    <3>5. QED
      BY <2>1, <3>3, <3>4
  <2>5. QED
    BY <1>3, <2>2, <2>3, <2>4 DEF EnsureOffer
<1>4. CASE Extract(w)
  <2>1. /\ worker[w].pc = "extracting" /\ InPipeline(w) /\ UNCHANGED <<row, cv>>
        /\ a \in Analyses /\ OfferOf[a] \in Offers /\ offer[OfferOf[a]] = "EXTRACTING"
    BY <1>0, <1>00, <1>4, PipelineAssumption DEF Extract, InPipeline, Steady
  <2>2. row[a].status # "COMPLETED"
    BY <1>0, <2>1 DEF Prepared
  <2>3. PICK status \in {"READY", "FAILED", "EXTRACTING"} :
          /\ offer' = [offer EXCEPT ![OfferOf[a]] = IF status = "EXTRACTING" THEN @ ELSE status]
          /\ IF status = "READY" THEN Goto(w, "crew") ELSE Raise(w)
    BY <1>4 DEF Extract
  <2>4. /\ offer'[OfferOf[a]] = status
        /\ \A o \in Offers \ {OfferOf[a]} : offer'[o] = offer[o]
    BY <1>0, <2>1, <2>3 DEF TypeOK
  <2>5. ASSUME status = "READY", Goto(w, "crew") PROVE Steady(w)'
    <3>1. /\ worker'[w].pc = "crew" /\ worker'[w].body = a /\ worker'[w].seen = seen
      BY <1>0, <2>5, GotoEffect
    <3>2. QED
      BY <1>0, <2>1, <2>4, <2>5, <3>1 DEF Steady, CopyStep, InPipeline, Before, During
  <2>6. ASSUME Raise(w) PROVE Steady(w)'
    <3>1. UNCHANGED row
      BY <2>1
    <3>2. QED
      BY <2>1, <2>2, <2>6, <3>1, RaiseSteady
  <2>7. Steady(w)'
    BY <2>3, <2>5, <2>6
  <2>8. ASSUME NEW b \in Analyses, row'[b].status = "COMPLETED" PROVE Prepared(b)'
    <3>1. Prepared(b) /\ OfferOf[b] \in Offers
      BY <1>0, <2>1, <2>8, PipelineAssumption
    <3>2. QED
      BY <2>1, <2>4, <3>1 DEF Prepared
  <2>9. QED
    BY <2>1, <2>7, <2>8
<1>5. CASE SkipCrew(w)
  <2>1. worker'[w].pc = "persist" /\ worker'[w].body = a /\ worker'[w].seen = seen
    BY <1>0, <1>5, GotoEffect DEF SkipCrew
  <2>2. Steady(w)' /\ UNCHANGED <<row, cv, offer>>
    BY <1>0, <1>5, <2>1 DEF SkipCrew, Steady, CopyStep, InPipeline, Before, During
  <2>3. QED
    BY <1>000, <2>2
<1>6. CASE StartCrew(w)
  <2>1. a \in Analyses /\ UNCHANGED <<cv, offer>>
    BY <1>00, <1>6 DEF StartCrew, InPipeline
  <2>2. QED
    BY <1>000, <1>6, <2>1, StartMove
<1>7. ASSUME NEW reason \in Reason, FailCrew(w, reason), worker[w].pc \in {"inputs", "llm"},
             UNCHANGED <<cv, offer>>
      PROVE  /\ WorkerMove(a) /\ Steady(w)' /\ a \in Analyses
             /\ \A b \in Analyses : row'[b].status = "COMPLETED" => Prepared(b)'
  <2>1. a \in Analyses
    BY <1>00, <1>7 DEF InPipeline
  <2>2. QED
    BY <1>000, <1>7, <2>1, FailMove
<1>8. CASE ReadInputs(w)
  <2>1. worker[w].pc = "inputs" /\ UNCHANGED <<cv, offer>>
    BY <1>8 DEF ReadInputs
  <2>2. CASE Goto(w, "llm") /\ UNCHANGED row
    <3>1. worker'[w].pc = "llm" /\ worker'[w].body = a /\ worker'[w].seen = seen
      BY <1>0, <2>2, GotoEffect
    <3>2. Steady(w)'
      BY <1>0, <2>1, <2>2, <3>1 DEF Steady, CopyStep, InPipeline, Before, During
    <3>3. QED
      BY <1>000, <2>1, <2>2, <3>2
  <2>3. QED
    BY <1>7, <1>8, <2>1, <2>2 DEF ReadInputs, Reason
<1>9. CASE RunCrew(w)
  <2>1. worker[w].pc = "llm" /\ UNCHANGED <<cv, offer>>
    BY <1>9 DEF RunCrew
  <2>2. CASE Goto(w, "await") /\ UNCHANGED row
    <3>1. worker'[w].pc = "await" /\ worker'[w].body = a /\ worker'[w].seen = seen
      BY <1>0, <2>2, GotoEffect
    <3>2. Steady(w)'
      BY <1>0, <2>1, <2>2, <3>1 DEF Steady, CopyStep, InPipeline, Before, During
    <3>3. QED
      BY <1>000, <2>1, <2>2, <3>2
  <2>3. CASE Raise(w) /\ UNCHANGED row
    <3>1. worker'[w].pc = "catch" /\ worker'[w].body = a
      BY <1>0, <2>3, RaiseEffect
    <3>2. row[a].status # "COMPLETED"
      BY <1>0, <2>1 DEF Steady, CopyStep, During
    <3>3. Steady(w)'
      BY <1>0, <2>1, <2>3, <3>1, <3>2 DEF Steady, CopyStep, InPipeline, Before, During
    <3>4. QED
      BY <1>000, <2>1, <2>3, <3>3
  <2>4. QED
    BY <1>7, <1>9, <2>1, <2>2, <2>3 DEF RunCrew, Reason
<1>10. CASE AwaitResult(w)
  <2>1. a \in Analyses /\ UNCHANGED <<cv, offer>>
    BY <1>00, <1>10 DEF AwaitResult, InPipeline
  <2>2. QED
    BY <1>000, <1>10, <2>1, HandOverMove
<1>11. CASE Persist(w)
  <2>1. a \in Analyses
    BY <1>00, <1>11 DEF Persist, InPipeline
  <2>2. QED
    BY <1>11, <2>1, PersistMove
<1>12. CASE MarkFailed(w)
  <2>1. a \in Analyses /\ UNCHANGED <<cv, offer>>
    BY <1>00, <1>12 DEF MarkFailed, InPipeline
  <2>2. QED
    BY <1>000, <1>12, <2>1, MarkMove
<1>13. CASE RollUp(w)
  <2>1. EndRecord(w) /\ UNCHANGED <<row, cv, offer>>
    BY <1>0, <1>13 DEF RollUp, Steady
  <2>2. worker'[w].pc = "next"
    BY <1>0, <2>1, EndRecordEffect
  <2>3. Steady(w)'
    BY <2>2 DEF Steady, CopyStep, InPipeline, Before, During
  <2>4. QED
    BY <1>000, <2>1, <2>3
<1>14. ~ConvertMessage(w)
  BY <1>0 DEF ConvertMessage, Steady
<1>15. QED
  BY <1>1, <1>2, <1>3, <1>4, <1>5, <1>6, <1>8, <1>9, <1>10, <1>11, <1>12, <1>13, <1>14
  DEF HandlerStep

\* Where the worker claims nothing of a row.
LEMMA AtRestSteady ==
  ASSUME NEW w \in Workers, worker'[w].pc \in {"idle", "next"}
  PROVE  Steady(w)'
BY DEF Steady, CopyStep, InPipeline, Before, During

\* The API's steps leave the worker in step: a row is opened, or put back to PENDING.
LEMMA ApiSteady ==
  ASSUME Undisturbed, SteadyInv, NEW r \in Requests, ApiStep(r)
  PROVE  SteadyOn'
<1>0. TypeOK /\ SteadyOn /\ \A w \in Workers : WorkerBacked(w) /\ Steady(w)
  BY DEF SteadyInv, SteadyOn, CompletedInv
<1>1. /\ UNCHANGED <<worker, offer, stored>>
      /\ \A b \in Analyses :
           /\ row'[b].status \in {row[b].status, "PENDING"}
  BY <1>0, ApiRows
<1>2. Remain
  BY <1>1 DEF Remain
<1>3. UNCHANGED cv
  <2>1. ~(\E c \in CVs : ConvertRead(r, c))
    BY DEF Undisturbed, ConvertRead
  <2>2. ConvertCommit(r) => UNCHANGED cv
    BY <1>0 DEF ConvertCommit, SteadyOn, NamesOn, Named, TypeOK
  <2>3. QED
    BY <2>1, <2>2 DEF ApiStep, CreateAnalysis, RequeueRead, RequeueCommit, Send, SendFails
<1>4. ASSUME NEW w \in Workers PROVE Steady(w)'
  <2>1. Steady(w) /\ (InPipeline(w) => worker[w].body \in Analyses)
    BY <1>0 DEF WorkerBacked
  <2>2. InPipeline(w) => row[worker[w].body].status # "ABSENT"
    BY <2>1 DEF Steady
  <2>3. InPipeline(w) => row'[worker[w].body].status \in {row[worker[w].body].status, "PENDING"}
    BY <1>1, <2>1
  <2>4. worker'[w] = worker[w] /\ (InPipeline(w)' <=> InPipeline(w))
    BY <1>1 DEF InPipeline
  <2>5. CASE InPipeline(w)
    BY <1>1, <1>3, <2>1, <2>2, <2>3, <2>4, <2>5 DEF Steady, CopyStep, Before, During
  <2>6. CASE ~InPipeline(w)
    BY <2>1, <2>4, <2>6 DEF Steady, CopyStep, InPipeline, Before, During
  <2>7. QED
    BY <2>5, <2>6
<1>5. \A a \in Analyses : row'[a].status = "COMPLETED" => Prepared(a)'
  BY <1>0, <1>1, <1>3 DEF SteadyOn, Prepared
<1>6. (\A q \in Requests : Named(request[q].body)) /\ \A m \in MsgIds : Named(queue[m].body)
  BY <1>0 DEF SteadyOn, NamesOn
<1>7. ASSUME NEW b, Named(b) PROVE b \notin CVs /\ (b \in Analyses => row'[b].status # "ABSENT")
  BY <1>2, <1>7 DEF Named, Remain
<1>8. ASSUME NEW m \in MsgIds PROVE Named(queue[m].body)'
  <2>1. queue'[m].body = queue[m].body \/ queue'[m].body = request[r].body
    BY <1>0 DEF ApiStep, CreateAnalysis, RequeueRead, RequeueCommit, ConvertRead, ConvertCommit,
                Send, SendFails, TypeOK, Slot
  <2>2. QED
    BY <1>6, <1>7, <2>1 DEF Named
<1>9. ASSUME NEW q \in Requests PROVE Named(request[q].body)'
  <2>1. ASSUME NEW pc, NEW body, NEW seen, Accept(r, pc, body, seen),
               body \notin CVs, body \in Analyses => row'[body].status # "ABSENT"
        PROVE  Named(request[q].body)'
    <3>1. request'[q].body = request[q].body \/ request'[q].body = body
      BY <1>0, <2>1 DEF Accept, TypeOK, RequestState
    <3>2. QED
      BY <1>6, <1>7, <2>1, <3>1 DEF Named
  <2>2. ASSUME NEW a \in Analyses, CreateAnalysis(r, a) PROVE Named(request[q].body)'
    <3>1. a \notin CVs /\ row'[a].status # "ABSENT"
      BY <1>0, <2>2, PipelineAssumption DEF CreateAnalysis, TypeOK, Row
    <3>2. QED
      BY <2>1, <2>2, <3>1 DEF CreateAnalysis
  <2>3. ASSUME NEW a \in Analyses, RequeueRead(r, a) PROVE Named(request[q].body)'
    <3>1. a \notin CVs /\ row'[a].status # "ABSENT"
      BY <2>3, PipelineAssumption DEF RequeueRead, IsStuck, Nonterminal, NonTerminal
    <3>2. QED
      BY <2>1, <2>3, <3>1 DEF RequeueRead
  <2>4. ASSUME \/ request' = [request EXCEPT ![r].pc = "send"]
               \/ request' = [request EXCEPT ![r] = IdleRequest]
        PROVE  Named(request[q].body)'
    <3>1. request'[q].body \in {request[q].body, NoOne}
      BY <1>0, <2>4 DEF TypeOK, RequestState, IdleRequest
    <3>2. NoOne \notin CVs \cup Analyses
      BY PipelineAssumption
    <3>3. QED
      BY <1>6, <1>7, <3>1, <3>2 DEF Named
  <2>5. ~(\E c \in CVs : ConvertRead(r, c))
    BY DEF Undisturbed, ConvertRead
  <2>6. QED
    BY <2>2, <2>3, <2>4, <2>5 DEF ApiStep, RequeueCommit, ConvertCommit, Send, SendFails
<1>10. NamesOn'
  BY <1>8, <1>9 DEF NamesOn
<1>11. QED
  BY <1>4, <1>5, <1>10 DEF SteadyOn

LEMMA InitSteady == Init => SteadyOn
<1> SUFFICES ASSUME Init PROVE SteadyOn
  OBVIOUS
<1>1. Named(NoOne)
  BY PipelineAssumption DEF Named
<1>2. \A m \in MsgIds : queue[m].body = NoOne
  BY DEF Init, FreeSlot
<1>3. \A r \in Requests : request[r].body = NoOne
  BY DEF Init, IdleRequest
<1>4. \A w \in Workers : worker[w].pc = "idle"
  BY DEF Init, IdleWorker
<1>5. \A w \in Workers : Steady(w)
  BY <1>4 DEF Steady, CopyStep, InPipeline, Before, During
<1>6. \A a \in Analyses : row[a].status # "COMPLETED"
  BY DEF Init, NoRow
<1>7. QED
  BY <1>1, <1>2, <1>3, <1>5, <1>6 DEF SteadyOn, NamesOn

LEMMA NextSteady == ASSUME Undisturbed, SteadyInv, [Next]_vars PROVE SteadyOn'
<1>0. TypeOK /\ SteadyOn
  BY DEF SteadyInv, CompletedInv
<1>1. ASSUME UNCHANGED <<row, cv, offer, request>>,
             \A m \in MsgIds : queue'[m].body \in {queue[m].body, NoOne},
             \A w \in Workers : Steady(w)'
      PROVE  SteadyOn'
  <2>1. NoOne \notin CVs \cup Analyses
    BY PipelineAssumption
  <2>2. \A m \in MsgIds : Named(queue[m].body)'
    BY <1>0, <1>1, <2>1 DEF SteadyOn, NamesOn, Named
  <2>3. NamesOn'
    BY <1>0, <1>1, <2>2 DEF SteadyOn, NamesOn, Named
  <2>4. QED
    BY <1>0, <1>1, <2>3 DEF SteadyOn, Prepared
<1>2. ASSUME NEW w \in Workers, Steady(w)' PROVE \A v \in Workers : Steady(v)'
  BY <1>2 DEF Undisturbed, OneWorker
<1>3. ASSUME NEW r \in Requests, ApiStep(r) PROVE SteadyOn'
  BY <1>3, ApiSteady
<1>4. ASSUME NEW w \in Workers, NEW batch \in SUBSET MsgIds, Receive(w, batch) PROVE SteadyOn'
  <2>1. worker'[w].pc = "next"
    BY <1>0, <1>4 DEF Receive, TypeOK, IdleWorker
  <2>2. \A m \in MsgIds : queue'[m].body = queue[m].body
    BY <1>0, <1>4 DEF Receive, TypeOK, Slot
  <2>3. QED
    BY <1>1, <1>2, <1>4, <2>1, <2>2, AtRestSteady DEF Receive
<1>5. ASSUME NEW w \in Workers, NEW m \in MsgIds, LoadAnalysis(w, m) PROVE SteadyOn'
  <2>1. /\ worker'[w].pc = "cv" /\ worker'[w].body = queue[m].body
        /\ worker'[w].seen = row[queue[m].body] /\ UNCHANGED <<row, cv, offer, queue, request>>
    BY <1>0, <1>5 DEF LoadAnalysis, TypeOK, WorkerState
  <2>2. row[queue[m].body].status # "ABSENT"
    BY <1>0, <1>5 DEF SteadyOn, NamesOn, Named, LoadAnalysis
  <2>3. Steady(w)'
    BY <2>1, <2>2 DEF Steady, CopyStep, InPipeline, Before, During
  <2>4. QED
    BY <1>1, <1>2, <2>1, <2>3
<1>6. ASSUME NEW w \in Workers, NEW m \in MsgIds PROVE ~LoadConversion(w, m)
  BY <1>0 DEF SteadyOn, NamesOn, Named, LoadConversion
<1>7. ASSUME NEW w \in Workers, DeleteBatch(w) \/ WorkerCrash(w) PROVE SteadyOn'
  <2>1. worker'[w].pc = "idle" /\ UNCHANGED <<row, cv, offer, request>>
    BY <1>0, <1>7 DEF DeleteBatch, WorkerCrash, TypeOK, IdleWorker
  <2>2. \A m \in MsgIds : queue'[m].body \in {queue[m].body, NoOne}
    BY <1>0, <1>7 DEF DeleteBatch, WorkerCrash, TypeOK, Slot, FreeSlot
  <2>3. QED
    BY <1>1, <1>2, <2>1, <2>2, AtRestSteady
<1>8. ASSUME NEW w \in Workers, HandlerStep(w) PROVE SteadyOn'
  <2>1. UNCHANGED <<queue, request>>
    BY <1>8 DEF HandlerStep, EnsureCv, Convert, EnsureOffer, Extract, SkipCrew, StartCrew,
                ReadInputs, RunCrew, AwaitResult, Persist, MarkFailed, RollUp, ConvertMessage
  <2>2. /\ \/ UNCHANGED row
           \/ worker[w].body \in Analyses /\ WorkerMove(worker[w].body)
        /\ Steady(w)'
        /\ \A a \in Analyses : row'[a].status = "COMPLETED" => Prepared(a)'
    BY <1>8, HandlerMoves
  <2>3. Remain
    BY <2>2, MoveRemains DEF Remain
  <2>4. QED
    BY <2>1, <2>2, <2>3, OneStepSteady
<1>9. CASE \/ \E a \in Analyses : Age(a)
           \/ \E m \in MsgIds : BecomeVisible(m)
           \/ BrokerRestart
           \/ UNCHANGED vars
  <2>1. UNCHANGED <<row, cv, offer, request, worker>>
    BY <1>9 DEF Age, BecomeVisible, BrokerRestart, vars
  <2>2. \A m \in MsgIds : queue'[m].body \in {queue[m].body, NoOne}
    BY <1>0, <1>9 DEF Age, BecomeVisible, BrokerRestart, vars, TypeOK, Slot, FreeSlot
  <2>3. \A w \in Workers : Steady(w)'
    BY <1>0, <2>1 DEF SteadyOn, Steady, CopyStep, InPipeline, Before, During
  <2>4. QED
    BY <1>1, <2>1, <2>2, <2>3
<1>10. QED
  BY <1>3, <1>4, <1>5, <1>6, <1>7, <1>8, <1>9 DEF Next, LoadNext

LEMMA AlwaysSteady == ASSUME Undisturbed PROVE Spec => []SteadyInv
<1>1. Init => SteadyInv
  BY InitCompletedInv, InitSteady DEF SteadyInv
<1>2. SteadyInv /\ [Next]_vars => SteadyInv'
  BY NextCompletedInv, NextSteady DEF SteadyInv
<1>3. QED
  BY <1>1, <1>2, PTL DEF Spec

\* What changes a row, and how, in any step.
LEMMA RowMoves ==
  ASSUME Undisturbed, SteadyInv, [Next]_vars
  PROVE  \/ UNCHANGED row
         \/ \E a \in Analyses : WorkerMove(a)
         \/ \E a \in Analyses :
              /\ row[a].status = "ABSENT" /\ row'[a].status = "PENDING"
              /\ row'[a].result = row[a].result
              /\ \A b \in Analyses \ {a} : row'[b] = row[b]
         \/ \E r \in Requests :
              /\ request[r].pc = "requeue"
              /\ request[r].body \in Analyses => row[request[r].body].status # "ABSENT"
              /\ \A b \in Analyses :
                   /\ row'[b].status \in {row[b].status, "PENDING"}
                   /\ row'[b].result = row[b].result
                   /\ b # request[r].body => row'[b] = row[b]
<1>0. TypeOK /\ NamesOn
  BY DEF SteadyInv, CompletedInv, SteadyOn
<1>1. ASSUME NEW r \in Requests, ApiStep(r)
      PROVE  \/ UNCHANGED row
             \/ \E a \in Analyses :
                  /\ row[a].status = "ABSENT" /\ row'[a].status = "PENDING"
                  /\ row'[a].result = row[a].result
                  /\ \A b \in Analyses \ {a} : row'[b] = row[b]
             \/ /\ request[r].pc = "requeue"
                /\ request[r].body \in Analyses => row[request[r].body].status # "ABSENT"
                /\ \A b \in Analyses :
                     /\ row'[b].status \in {row[b].status, "PENDING"}
                     /\ row'[b].result = row[b].result
                     /\ b # request[r].body => row'[b] = row[b]
  <2>1. \A a \in Analyses : CreateAnalysis(r, a) => row[a].status = "ABSENT"
    BY DEF CreateAnalysis
  <2>2. RequeueCommit(r) => request[r].pc = "requeue"
    BY DEF RequeueCommit
  <2>3. request[r].body \in Analyses => row[request[r].body].status # "ABSENT"
    BY <1>0 DEF NamesOn, Named
  <2>4. QED
    BY <1>0, <1>1, <2>1, <2>2, <2>3, ApiRows
<1>2. ASSUME NEW w \in Workers, HandlerStep(w)
      PROVE  UNCHANGED row \/ \E a \in Analyses : WorkerMove(a)
  BY <1>2, HandlerMoves
<1>3. ASSUME NEW w \in Workers
      PROVE  /\ \A batch \in SUBSET MsgIds : Receive(w, batch) => UNCHANGED row
             /\ LoadNext(w) => UNCHANGED row
             /\ DeleteBatch(w) => UNCHANGED row
             /\ WorkerCrash(w) => UNCHANGED row
  <2>1. \A batch \in SUBSET MsgIds : Receive(w, batch) => UNCHANGED row
    BY DEF Receive
  <2>2. LoadNext(w) => UNCHANGED row
    BY DEF LoadNext, LoadAnalysis, LoadConversion
  <2>3. DeleteBatch(w) => UNCHANGED row
    BY DEF DeleteBatch
  <2>4. WorkerCrash(w) => UNCHANGED row
    BY DEF WorkerCrash
  <2>5. QED
    BY <2>1, <2>2, <2>3, <2>4
<1>4. /\ \A a \in Analyses : Age(a) => UNCHANGED row
      /\ \A m \in MsgIds : BecomeVisible(m) => UNCHANGED row
      /\ BrokerRestart => UNCHANGED row
      /\ UNCHANGED vars => UNCHANGED row
  BY DEF Age, BecomeVisible, BrokerRestart, vars
<1>5. QED
  BY <1>1, <1>2, <1>3, <1>4 DEF Next

\* A finished Analysis is reopened by a requeue that judged it before, and by
\* no duplicate message: whatever crashes, restarts, expired timeouts and failed
\* sends there are.
THEOREM CompletedStays == ASSUME Undisturbed PROVE Spec => CompletedIsKept
<1> DEFINE Stays ==
      \A a \in Analyses :
        row[a].status = "COMPLETED" /\ row'[a].status # "COMPLETED" =>
          \E r \in Requests : request[r].pc = "requeue" /\ request[r].body = a
<1>1. ASSUME SteadyInv, [Next]_vars PROVE Stays
  <2>1. ASSUME NEW a \in Analyses, NEW b \in Analyses, WorkerMove(b),
               row[a].status = "COMPLETED"
        PROVE  row'[a].status = "COMPLETED"
    BY <2>1 DEF WorkerMove, NonTerminal
  <2>2. QED
    BY <1>1, <2>1, RowMoves
<1>2. [][SteadyInv /\ [Next]_vars]_vars => [][Stays]_vars
  BY <1>1, PTL
<1>3. QED
  BY <1>2, AlwaysSteady, PTL DEF Spec, CompletedIsKept

-----------------------------------------------------------------------------
(* The pipeline implements the life cycle, step by step.  (That an open       *)
(* Analysis ends, the life cycle's fairness, is the runs' to show.)           *)

LifecycleSafety == Lifecycle!Init /\ [][Lifecycle!Next]_(Lifecycle!vars)

\* What the candidate reads, and how it changes with one row.
StatusRead == [a \in Analyses |-> row[a].status]
ResultsRead == {a \in Analyses : row[a].result}

LEMMA OneStatusRead ==
  ASSUME NEW a \in Analyses, \A b \in Analyses \ {a} : row'[b] = row[b]
  PROVE  StatusRead' = [StatusRead EXCEPT ![a] = row'[a].status]
BY DEF StatusRead

LEMMA StepsOfLifecycle ==
  ASSUME Undisturbed, SteadyInv, [Next]_vars
  PROVE  [Lifecycle!Next]_(Lifecycle!vars)
<1>0. TypeOK
  BY DEF SteadyInv, CompletedInv
<1>1. ASSUME NEW a \in Analyses, NEW from, NEW to, row[a].status \in from, row'[a].status = to,
             \A b \in Analyses \ {a} : row'[b] = row[b]
      PROVE  Lifecycle!Change(a, from, to)
  <2>1. StatusRead[a] = row[a].status /\ StatusRead' = [StatusRead EXCEPT ![a] = to]
    BY <1>1, OneStatusRead DEF StatusRead
  <2>2. QED
    BY <1>1, <2>1 DEF StatusRead, Lifecycle!Change
<1>2. ASSUME NEW a \in Analyses, row'[a].result = row[a].result,
             \A b \in Analyses \ {a} : row'[b] = row[b]
      PROVE  UNCHANGED ResultsRead
  BY <1>2 DEF ResultsRead
<1>3. ASSUME NEW a \in Analyses, row'[a].result,
             \A b \in Analyses \ {a} : row'[b] = row[b]
      PROVE  ResultsRead' = ResultsRead \cup {a}
  BY <1>3 DEF ResultsRead
<1>4. ASSUME \A b \in Analyses : row'[b].status = row[b].status /\ row'[b].result = row[b].result
      PROVE  UNCHANGED Lifecycle!vars
  BY <1>4 DEF Lifecycle!vars
<1>5. CASE UNCHANGED row
  BY <1>4, <1>5
<1>6. ASSUME NEW a \in Analyses, WorkerMove(a)
      PROVE  [Lifecycle!Next]_(Lifecycle!vars)
  <2>0. \A b \in Analyses \ {a} : row'[b] = row[b]
    BY <1>6 DEF WorkerMove
  <2>1. CASE row'[a].status = row[a].status /\ row'[a].result = row[a].result
    BY <1>4, <2>0, <2>1
  <2>2. CASE /\ row'[a].status = "RUNNING_CREW" /\ row[a].status \in NonTerminal \cup {"FAILED"}
             /\ row'[a].result = row[a].result
    <3>1. row[a].status \in Lifecycle!Open \cup {"FAILED"}
      BY <2>2 DEF NonTerminal, Lifecycle!Open
    <3>2. Lifecycle!Change(a, Lifecycle!Open \cup {"FAILED"}, "RUNNING_CREW")
      BY <1>1, <2>0, <2>2, <3>1
    <3>3. Lifecycle!Work(a)
      BY <1>2, <2>0, <2>2, <3>2 DEF ResultsRead, Lifecycle!Work
    <3>4. QED
      BY <3>3 DEF Lifecycle!Next
  <2>3. CASE /\ row'[a].status = "AWAITING_RESULT" /\ row[a].status \in {"RUNNING_CREW", "PENDING"}
             /\ row'[a].result = row[a].result
    <3>1. Lifecycle!Change(a, {"RUNNING_CREW", "PENDING"}, "AWAITING_RESULT")
      BY <1>1, <2>0, <2>3
    <3>2. Lifecycle!HandOver(a)
      BY <1>2, <2>0, <2>3, <3>1 DEF ResultsRead, Lifecycle!HandOver
    <3>3. QED
      BY <3>2 DEF Lifecycle!Next
  <2>4. CASE /\ row'[a].status = "COMPLETED" /\ row[a].status \in {"AWAITING_RESULT", "PENDING"}
             /\ row'[a].result
    <3>1. Lifecycle!Change(a, {"AWAITING_RESULT", "PENDING"}, "COMPLETED")
      BY <1>1, <2>0, <2>4
    <3>2. Lifecycle!Complete(a)
      BY <1>3, <2>0, <2>4, <3>1 DEF ResultsRead, Lifecycle!Complete
    <3>3. QED
      BY <3>2 DEF Lifecycle!Next
  <2>5. CASE /\ row'[a].status = "FAILED" /\ row[a].status \in NonTerminal
             /\ row'[a].result = row[a].result
    <3>1. row[a].status \in Lifecycle!Open
      BY <2>5 DEF NonTerminal, Lifecycle!Open
    <3>2. Lifecycle!Change(a, Lifecycle!Open, "FAILED")
      BY <1>1, <2>0, <2>5, <3>1
    <3>3. Lifecycle!Fail(a)
      BY <1>2, <2>0, <2>5, <3>2 DEF ResultsRead, Lifecycle!Fail
    <3>4. QED
      BY <3>3 DEF Lifecycle!Next
  <2>6. QED
    BY <1>6, <2>1, <2>2, <2>3, <2>4, <2>5 DEF WorkerMove
<1>7. ASSUME NEW a \in Analyses, row[a].status = "ABSENT", row'[a].status = "PENDING",
             row'[a].result = row[a].result, \A b \in Analyses \ {a} : row'[b] = row[b]
      PROVE  [Lifecycle!Next]_(Lifecycle!vars)
  <2>1. Lifecycle!Change(a, {"ABSENT"}, "PENDING")
    BY <1>1, <1>7
  <2>2. Lifecycle!Submit(a)
    BY <1>2, <1>7, <2>1 DEF ResultsRead, Lifecycle!Submit
  <2>3. QED
    BY <2>2 DEF Lifecycle!Next
<1>8. ASSUME NEW r \in Requests,
             request[r].body \in Analyses => row[request[r].body].status # "ABSENT",
             \A b \in Analyses : /\ row'[b].status \in {row[b].status, "PENDING"}
                                 /\ row'[b].result = row[b].result
                                 /\ b # request[r].body => row'[b] = row[b]
      PROVE  [Lifecycle!Next]_(Lifecycle!vars)
  <2>1. CASE \A b \in Analyses : row'[b].status = row[b].status
    BY <1>4, <1>8, <2>1
  <2>2. ASSUME NEW a \in Analyses, row'[a].status # row[a].status
        PROVE  Lifecycle!Requeue(a)
    <3>1. /\ row'[a].status = "PENDING" /\ row'[a].result = row[a].result
          /\ row[a].status # "ABSENT"
          /\ \A b \in Analyses \ {a} : row'[b] = row[b]
      BY <1>8, <2>2
    <3>2. row[a].status \in Lifecycle!Open \cup {"COMPLETED", "FAILED"}
      BY <1>0, <3>1 DEF TypeOK, Row, Status, NonTerminal, Terminal, Lifecycle!Open
    <3>3. Lifecycle!Change(a, Lifecycle!Open \cup {"COMPLETED", "FAILED"}, "PENDING")
      BY <1>1, <3>1, <3>2
    <3>4. QED
      BY <1>2, <3>1, <3>3 DEF ResultsRead, Lifecycle!Requeue
  <2>3. QED
    BY <2>1, <2>2 DEF Lifecycle!Next
<1>9. QED
  BY <1>5, <1>6, <1>7, <1>8, RowMoves

\* Whatever crashes, restarts, expired timeouts and provider errors there are,
\* what the candidate reads moves only as the life cycle says.
THEOREM StepsImplementLifecycle == ASSUME Undisturbed PROVE Spec => LifecycleSafety
<1>1. Init => Lifecycle!Init
  BY DEF Init, NoRow, Lifecycle!Init
<1>2. SteadyInv /\ [Next]_vars => [Lifecycle!Next]_(Lifecycle!vars)
  BY StepsOfLifecycle
<1>3. QED
  BY <1>1, <1>2, AlwaysSteady, PTL DEF Spec, LifecycleSafety
=============================================================================
