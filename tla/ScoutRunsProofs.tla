--------------------------- MODULE ScoutRunsProofs ---------------------------
(***************************************************************************)
(* Proofs about ScoutRuns, for every set of Scouts, sites, runs, workers    *)
(* and requests, every batch size, and every combination of faults.         *)
(***************************************************************************)
EXTENDS ScoutRuns, FiniteSetTheorems, TLAPS

-----------------------------------------------------------------------------
(* Types *)

\* A run with another status, or past one of its clocks, is a run.
LEMMA RunUpdates ==
  ASSUME NEW x \in Run
  PROVE  /\ \A status \in RunStatus : [x EXCEPT !.status = status] \in Run
         /\ [x EXCEPT !.old = TRUE] \in Run
         /\ [x EXCEPT !.recent = FALSE] \in Run
         /\ \A status \in RunStatus : [x EXCEPT !.status = status, !.old = FALSE] \in Run
BY DEF Run

\* Rewriting the status of one run keeps the type of the runs.
LEMMA RunsType ==
  ASSUME NEW f \in [Runs -> Run], NEW r, NEW status, r \in Runs => status \in RunStatus
  PROVE  /\ [f EXCEPT ![r].status = status] \in [Runs -> Run]
         /\ [f EXCEPT ![r].status = status, ![r].old = FALSE] \in [Runs -> Run]
<1>1. CASE r \in Runs
  <2>1. /\ [f[r] EXCEPT !.status = status] \in Run
        /\ [f[r] EXCEPT !.status = status, !.old = FALSE] \in Run
    BY <1>1, RunUpdates
  <2>2. QED
    BY <1>1, <2>1
<1>2. CASE r \notin Runs
  BY <1>2
<1>3. QED
  BY <1>1, <1>2

\* Replacing the counts of one run keeps the type of the counts.
LEMMA CountsType ==
  ASSUME NEW f \in [Runs -> [Sites -> Nat]], NEW r, NEW g, r \in Runs => g \in [Sites -> Nat]
  PROVE  [f EXCEPT ![r] = g] \in [Runs -> [Sites -> Nat]]
OBVIOUS

\* A run just inserted is a run.
LEMMA NewRunType ==
  ASSUME NEW s \in Scouts \cup {None}, NEW d \in 0..MaxDays
  PROVE  NewRun(s, d) \in Run
BY DEF NewRun, Run, RunStatus

\* The updates a worker's state undergoes keep its type.
LEMMA WorkerUpdates ==
  ASSUME NEW x \in WorkerState
  PROVE  /\ \A pc \in WorkerPc : [x EXCEPT !.pc = pc] \in WorkerState
         /\ \A enabled \in SUBSET Sites :
              [x EXCEPT !.pc = "send", !.sites = enabled, !.tosend = enabled] \in WorkerState
         /\ \A tosend \in SUBSET Sites : [x EXCEPT !.tosend = tosend] \in WorkerState
         /\ \A new \in SUBSET Runs :
              /\ [x EXCEPT !.pc = "announce", !.created = new] \in WorkerState
              /\ [x EXCEPT !.created = new] \in WorkerState
BY DEF WorkerState, WorkerPc

\* A resting worker is a worker state.
LEMMA RestingType == Resting \in WorkerState
BY DEF Resting, WorkerState, WorkerPc, RunStatus

\* So is one before a batch, a record or a tick.
LEMMA RestingUpdates ==
  /\ [Resting EXCEPT !.pc = "tick"] \in WorkerState
  /\ \A batch, todo \in SUBSET Runs :
       [Resting EXCEPT !.pc = "next", !.batch = batch, !.todo = todo] \in WorkerState
  /\ \A due \in SUBSET Scouts : [Resting EXCEPT !.pc = "create", !.due = due] \in WorkerState
BY RestingType DEF WorkerState, WorkerPc

\* A worker moved to a well-typed state leaves the workers well typed.
LEMMA WorkersType ==
  ASSUME TypeOK, NEW w \in Workers, NEW x \in WorkerState, worker' = [worker EXCEPT ![w] = x]
  PROVE  worker' \in [Workers -> WorkerState]
BY DEF TypeOK

\* Going on to another step does so.
LEMMA GotoType ==
  ASSUME TypeOK, NEW w \in Workers, NEW pc \in WorkerPc, worker' = [worker EXCEPT ![w].pc = pc]
  PROVE  worker' \in [Workers -> WorkerState]
<1>1. worker[w] \in WorkerState
  BY DEF TypeOK
<1>2. [worker[w] EXCEPT !.pc = pc] \in WorkerState
  BY <1>1, WorkerUpdates
<1>3. QED
  BY <1>2, WorkersType

\* What the fields of a worker hold.
LEMMA WorkerFields ==
  ASSUME NEW x \in WorkerState
  PROVE  /\ x.batch \in SUBSET Runs /\ x.todo \in SUBSET Runs /\ x.created \in SUBSET Runs
         /\ x.sites \in SUBSET Sites /\ x.tosend \in SUBSET Sites /\ x.due \in SUBSET Scouts
         /\ x.run \in Runs \cup {None} /\ x.seen \in RunStatus
BY DEF WorkerState

\* Closing stale runs keeps the type of the runs.
LEMMA ClosedType ==
  ASSUME TypeOK, NEW closed
  PROVE  Closed(closed) \in [Runs -> Run]
<1>1. "FAILED" \in RunStatus
  BY DEF RunStatus
<1>2. run \in [Runs -> Run]
  BY DEF TypeOK
<1>3. QED
  BY <1>1, <1>2, RunUpdates DEF Closed

\* The end of a record keeps the type of the workers.
LEMMA EndRecordType ==
  ASSUME TypeOK, NEW w \in Workers, EndRecord(w)
  PROVE  worker' \in [Workers -> WorkerState]
<1>1. worker[w].batch \in SUBSET Runs /\ worker[w].todo \in SUBSET Runs
  BY WorkerFields DEF TypeOK
<1>2. [Resting EXCEPT !.pc = "next", !.batch = worker[w].batch, !.todo = worker[w].todo]
        \in WorkerState
  BY <1>1, RestingUpdates
<1>3. QED
  BY <1>2, WorkersType DEF EndRecord

\* A request that has inserted its run is a request.
LEMMA RequestUpdates ==
  ASSUME NEW x \in RequestState, NEW r \in Runs
  PROVE  [x EXCEPT !.pc = "send", !.run = r] \in RequestState
BY DEF RequestState

\* Time and the API keep the types.
LEMMA OutsideType ==
  ASSUME TypeOK, Passing \/ ApiStep
  PROVE  TypeOK'
<1> USE ScoutAssumption DEF TypeOK
<1>1. CASE HourComes
  BY <1>1 DEF HourComes
<1>2. CASE Midnight
  BY <1>2 DEF Midnight
<1>3. ASSUME NEW r \in Runs, Age(r) PROVE TypeOK'
  BY <1>3, RunUpdates DEF Age
<1>4. ASSUME NEW r \in Runs, RateLimitPasses(r) PROVE TypeOK'
  BY <1>4, RunUpdates DEF RateLimitPasses
<1>5. ASSUME NEW s \in Scouts, NEW status \in ScoutStatus, UpdateStatus(s, status) PROVE TypeOK'
  BY <1>5 DEF UpdateStatus
<1>6. ASSUME NEW q \in Requests, NEW s \in Scouts, RunNow(q, s) PROVE TypeOK'
  BY <1>6 DEF RunNow, RequestState
<1>7. ASSUME NEW q \in Requests, RunNowCommit(q) PROVE TypeOK'
  <2>1. NewRun(request[q].scout, 0) \in Run
    BY NewRunType DEF RequestState
  <2>2. PICK r \in AbsentRuns :
          /\ run' = [run EXCEPT ![r] = NewRun(request[q].scout, 0)]
          /\ request' = [request EXCEPT ![q].pc = "send", ![q].run = r]
    BY <1>7 DEF RunNowCommit
  <2>3. [request[q] EXCEPT !.pc = "send", !.run = r] \in RequestState
    BY <2>2, RequestUpdates DEF AbsentRuns
  <2>4. request' \in [Requests -> RequestState]
    BY <2>2, <2>3
  <2>5. QED
    BY <1>7, <2>1, <2>2, <2>4 DEF RunNowCommit, AbsentRuns
<1>8. ASSUME NEW q \in Requests, RunNowSend(q) PROVE TypeOK'
  BY <1>8 DEF RunNowSend, RequestState, IdleRequest
<1>9. ASSUME NEW q \in Requests, RunNowSendFails(q) PROVE TypeOK'
  BY <1>9 DEF RunNowSendFails, RequestState, IdleRequest
<1>10. QED
  BY <1>1, <1>2, <1>3, <1>4, <1>5, <1>6, <1>7, <1>8, <1>9 DEF Passing, ApiStep

\* The dispatch keeps the types.
LEMMA DispatchType ==
  ASSUME TypeOK, NEW w \in Workers, DispatchStep(w) \/ SendJobFails(w)
  PROVE  TypeOK'
<1> USE ScoutAssumption
<1> DEFINE x == worker[w]
<1>0. x \in WorkerState
  BY DEF TypeOK
<1>1. ASSUME NEW r \in Runs, Load(w, r) PROVE TypeOK'
  <2>1. run[r].status \in RunStatus
    BY DEF TypeOK, Run
  <2>2. worker \in [Workers -> WorkerState]
    BY DEF TypeOK
  <2>3. worker' \in [Workers -> WorkerState]
    BY <1>1, <2>1, <2>2, SMT DEF Load, WorkerState, WorkerPc
  <2>4. QED
    BY <1>1, <2>3 DEF Load, TypeOK
<1>2. CASE Check(w)
  <2>1. run' \in [Runs -> Run]
    BY <1>2, ClosedType DEF Check
  <2>2. worker' \in [Workers -> WorkerState]
    BY <1>2, EndRecordType, GotoType DEF Check, WorkerPc
  <2>3. QED
    BY <1>2, <2>1, <2>2 DEF Check, TypeOK
<1>3. CASE Start(w)
  <2>1. \A r \in Runs : run[r].status \in RunStatus /\ run[r] \in Run
    BY DEF TypeOK, Run
  <2>2. {"RUNNING", "FAILED"} \subseteq RunStatus
    BY DEF RunStatus
  <2>3. run \in [Runs -> Run]
    BY DEF TypeOK
  <2>4. \E status : /\ \/ run' = [run EXCEPT ![x.run].status = status]
                       \/ run' = [run EXCEPT ![x.run].status = status, ![x.run].old = FALSE]
                    /\ x.run \in Runs => status \in RunStatus
    BY <1>3, <2>1, <2>2 DEF Start
  <2>5. run' \in [Runs -> Run]
    BY <2>3, <2>4, RunsType
  <2>6. worker' \in [Workers -> WorkerState]
    BY <1>3, EndRecordType, GotoType DEF Start, WorkerPc
  <2>7. QED
    BY <1>3, <2>5, <2>6 DEF Start, TypeOK
<1>4. ASSUME NEW enabled \in SUBSET Sites, FanOut(w, enabled) PROVE TypeOK'
  <2>1. \A r \in Runs : [k \in Sites |-> made[r][k] + (IF k \in enabled THEN 1 ELSE 0)]
                          \in [Sites -> Nat]
    BY DEF TypeOK
  <2>2. made \in [Runs -> [Sites -> Nat]]
    BY DEF TypeOK
  <2>3. made' = [made EXCEPT ![x.run] =
                   [k \in Sites |-> made[x.run][k] + (IF k \in enabled THEN 1 ELSE 0)]]
    BY <1>4 DEF FanOut
  <2>4. made' \in [Runs -> [Sites -> Nat]]
    BY <2>1, <2>2, <2>3, CountsType
  <2>5. worker' \in [Workers -> WorkerState]
    <3>1. worker' = [worker EXCEPT ![w] =
                       [x EXCEPT !.pc = "send", !.sites = enabled, !.tosend = enabled]]
      BY <1>4 DEF FanOut
    <3>2. [x EXCEPT !.pc = "send", !.sites = enabled, !.tosend = enabled] \in WorkerState
      BY <1>0, WorkerUpdates
    <3>3. QED
      BY <3>1, <3>2, WorkersType
  <2>6. QED
    BY <1>4, <2>4, <2>5 DEF FanOut, TypeOK
<1>5. ASSUME NEW k \in Sites, SendJob(w, k) PROVE TypeOK'
  <2>1. \A r \in Runs : [sent[r] EXCEPT ![k] = sent[r][k] + 1] \in [Sites -> Nat]
    BY DEF TypeOK
  <2>2. sent' \in [Runs -> [Sites -> Nat]]
    BY <1>5, <2>1 DEF SendJob, TypeOK
  <2>3. [x EXCEPT !.tosend = x.tosend \ {k}] \in WorkerState
    BY <1>0, WorkerUpdates, WorkerFields
  <2>4. worker' \in [Workers -> WorkerState]
    BY <1>5, <2>3, WorkersType DEF SendJob
  <2>5. QED
    BY <1>5, <2>2, <2>4 DEF SendJob, TypeOK
<1>6. CASE Finish(w)
  <2>1. {"FAILED", "PARTIALLY_COMPLETED", "COMPLETED"} \subseteq RunStatus
    BY DEF RunStatus
  <2>2. run' \in [Runs -> Run]
    BY <1>6, <2>1, RunUpdates DEF Finish, TypeOK
  <2>3. scout' \in [Scouts -> [status: ScoutStatus, lastRun: 0..MaxDays]]
    <3>1. \A s \in Scouts : [scout[s] EXCEPT !.lastRun = clock.day]
                             \in [status: ScoutStatus, lastRun: 0..MaxDays]
      <4>1. clock.day \in 0..MaxDays
        BY DEF TypeOK
      <4>2. scout \in [Scouts -> [status: ScoutStatus, lastRun: 0..MaxDays]]
        BY DEF TypeOK
      <4>3. QED
        BY <4>1, <4>2
    <3>2. QED
      BY <1>6, <3>1 DEF Finish, TypeOK
  <2>4. worker' \in [Workers -> WorkerState]
    BY <1>6, EndRecordType DEF Finish
  <2>5. QED
    BY <1>6, <2>2, <2>3, <2>4 DEF Finish, TypeOK
<1>7. CASE DeleteBatch(w)
  <2>1. worker' \in [Workers -> WorkerState]
    BY <1>7, RestingUpdates, WorkersType DEF DeleteBatch
  <2>2. QED
    BY <1>7, <2>1 DEF DeleteBatch, TypeOK
<1>8. CASE SendJobFails(w)
  <2>1. worker' \in [Workers -> WorkerState]
    BY <1>8, EndRecordType DEF SendJobFails
  <2>2. QED
    BY <1>8, <2>1 DEF SendJobFails, TypeOK
<1>9. QED
  BY <1>1, <1>2, <1>3, <1>4, <1>5, <1>6, <1>7, <1>8 DEF DispatchStep

\* So do the polls, the tick and the death of a worker.
LEMMA LoopType ==
  ASSUME TypeOK, NEW w \in Workers,
         Poll(w) \/ TickStep(w) \/ NoTick(w) \/ TickSendFails(w) \/ WorkerCrash(w)
  PROVE  TypeOK'
<1> USE ScoutAssumption
<1> DEFINE x == worker[w]
<1>0. x \in WorkerState
  BY DEF TypeOK
<1>1. ASSUME NEW batch \in SUBSET Runs, Receive(w, batch) PROVE TypeOK'
  <2>1. worker' \in [Workers -> WorkerState]
    BY <1>1, RestingUpdates, WorkersType DEF Receive
  <2>2. QED
    BY <1>1, <2>1 DEF Receive, TypeOK
<1>2. CASE PollEmpty(w)
  <2>1. worker' \in [Workers -> WorkerState]
    BY <1>2, GotoType DEF PollEmpty, WorkerPc
  <2>2. QED
    BY <1>2, <2>1 DEF PollEmpty, TypeOK
<1>3. CASE NoTick(w)
  BY <1>3, RestingType DEF NoTick, TypeOK
<1>4. CASE TickRead(w)
  <2>1. run' \in [Runs -> Run]
    BY <1>4, ClosedType DEF TickRead
  <2>2. worker' \in [Workers -> WorkerState]
    BY <1>4, RestingUpdates, WorkersType DEF TickRead
  <2>3. QED
    BY <1>4, <2>1, <2>2 DEF TickRead, TypeOK
<1>5. CASE TickCommit(w)
  <2>1. PICK new \in SUBSET AbsentRuns : \E owner \in [new -> x.due] :
          /\ run' = [r \in Runs |-> IF r \in new THEN NewRun(owner[r], clock.day) ELSE run[r]]
          /\ worker' = [worker EXCEPT ![w].pc = "announce", ![w].created = new]
    BY <1>5 DEF TickCommit
  <2>2. PICK owner \in [new -> x.due] :
          /\ run' = [r \in Runs |-> IF r \in new THEN NewRun(owner[r], clock.day) ELSE run[r]]
          /\ worker' = [worker EXCEPT ![w].pc = "announce", ![w].created = new]
    BY <2>1
  <2>3. \A r \in new : owner[r] \in Scouts
    BY <1>0, <2>2, WorkerFields
  <2>4. clock.day \in 0..MaxDays
    BY DEF TypeOK
  <2>5. run' \in [Runs -> Run]
    BY <2>2, <2>3, <2>4, NewRunType DEF TypeOK
  <2>6. [x EXCEPT !.pc = "announce", !.created = new] \in WorkerState
    BY <1>0, <2>2, WorkerUpdates DEF AbsentRuns
  <2>7. worker' \in [Workers -> WorkerState]
    <3>1. worker' = [worker EXCEPT ![w] = [x EXCEPT !.pc = "announce", !.created = new]]
      BY <2>2
    <3>2. QED
      BY <2>6, <3>1, WorkersType
  <2>8. QED
    BY <1>5, <2>5, <2>7 DEF TickCommit, TypeOK
<1>6. CASE TickSend(w)
  <2>1. CASE worker' = [worker EXCEPT ![w] = Resting] /\ UNCHANGED message
    BY <1>6, <2>1, RestingType DEF TickSend, TypeOK
  <2>2. ASSUME NEW r \in x.created,
               message' = [message EXCEPT ![r] = "visible"],
               worker' = [worker EXCEPT ![w].created = @ \ {r}]
        PROVE  TypeOK'
    <3>1. [x EXCEPT !.created = x.created \ {r}] \in WorkerState
      BY <1>0, WorkerUpdates, WorkerFields
    <3>2. worker' \in [Workers -> WorkerState]
      BY <2>2, <3>1, WorkersType
    <3>3. QED
      BY <1>6, <2>2, <3>2 DEF TickSend, TypeOK
  <2>3. QED
    BY <1>6, <2>1, <2>2 DEF TickSend
<1>7. CASE TickSendFails(w)
  BY <1>7, RestingType DEF TickSendFails, TypeOK
<1>8. CASE WorkerCrash(w)
  BY <1>8, RestingType DEF WorkerCrash, TypeOK
<1>9. QED
  BY <1>1, <1>2, <1>3, <1>4, <1>5, <1>6, <1>7, <1>8 DEF Poll, TickStep

\* So do visibility timeouts and broker restarts.
LEMMA QueueType ==
  ASSUME TypeOK, BrokerRestart \/ \E r \in Runs : BecomeVisible(r)
  PROVE  TypeOK'
BY ScoutAssumption DEF BrokerRestart, BecomeVisible, TypeOK

\* The initial rows and workers are well typed.
LEMMA InitType == Init => TypeOK
BY ScoutAssumption, RestingType
   DEF Init, TypeOK, ScoutStatus, Run, NoRun, RunStatus, RequestState, IdleRequest

\* So is every successor of a well-typed state.
LEMMA NextType == TypeOK /\ [Next]_vars => TypeOK'
<1> SUFFICES ASSUME TypeOK, [Next]_vars PROVE TypeOK'
  OBVIOUS
<1>1. CASE Next
  BY <1>1, OutsideType, DispatchType, LoopType, QueueType DEF Next
<1>2. CASE UNCHANGED vars
  BY <1>2 DEF vars, TypeOK
<1>3. QED
  BY <1>1, <1>2

\* Every variable of a Scout's runs keeps its type, whatever is delivered twice,
\* lost or interrupted.
THEOREM ScoutTypeCorrect == Spec => []TypeOK
BY InitType, NextType, PTL DEF Spec

-----------------------------------------------------------------------------
(* What a step does to the runs *)

\* Nothing that exists disappears or changes its Scout, and nothing starts.
NothingStarts ==
  \A r \in Runs :
    /\ Exists(r) => Exists(r)' /\ run'[r].scout = run[r].scout
    /\ run'[r].status = "RUNNING" => run[r].status = "RUNNING" /\ run'[r].scout = run[r].scout

NothingCompletes ==
  \A r \in Runs : run'[r].status = "COMPLETED" => run[r].status = "COMPLETED"

\* Time starts and completes nothing.
LEMMA PassingRuns ==
  ASSUME TypeOK, Passing PROVE NothingStarts /\ NothingCompletes
<1> USE DEF NothingStarts, NothingCompletes, Exists
<1>1. CASE HourComes \/ Midnight
  BY <1>1 DEF HourComes, Midnight
<1>2. ASSUME NEW r \in Runs, Age(r) PROVE NothingStarts /\ NothingCompletes
  BY <1>2 DEF Age, TypeOK, Run
<1>3. ASSUME NEW r \in Runs, RateLimitPasses(r) PROVE NothingStarts /\ NothingCompletes
  BY <1>3 DEF RateLimitPasses, TypeOK, Run
<1>4. QED
  BY <1>1, <1>2, <1>3 DEF Passing

\* Neither does closing runs.
LEMMA ClosedRuns ==
  ASSUME TypeOK, NEW closed,
         \A r \in closed : run[r].status = "RUNNING",
         run' = Closed(closed)
  PROVE  NothingStarts /\ NothingCompletes
BY DEF NothingStarts, NothingCompletes, Exists, Closed, TypeOK, Run

\* A PENDING run takes the place of no other.
LEMMA NewRuns ==
  ASSUME TypeOK, NEW new \in SUBSET AbsentRuns, NEW owner, NEW d,
         run' = [r \in Runs |-> IF r \in new THEN NewRun(owner[r], d) ELSE run[r]]
  PROVE  NothingStarts /\ NothingCompletes
BY DEF NothingStarts, NothingCompletes, Exists, AbsentRuns, NewRun, TypeOK

\* Nor do the API, the guard, the fan-out, the sends and the tick start or
\* complete a run.
LEMMA QuietRuns ==
  ASSUME TypeOK,
         \/ ApiStep
         \/ \E w \in Workers :
              \/ Poll(w) \/ TickStep(w) \/ NoTick(w)
              \/ SendJobFails(w) \/ TickSendFails(w) \/ WorkerCrash(w)
              \/ \E r \in Runs : Load(w, r)
              \/ Check(w)
              \/ \E enabled \in SUBSET Sites : FanOut(w, enabled)
              \/ \E k \in Sites : SendJob(w, k)
              \/ DeleteBatch(w)
         \/ \E r \in Runs : BecomeVisible(r)
         \/ BrokerRestart
  PROVE  NothingStarts /\ NothingCompletes
<1>1. CASE UNCHANGED run
  BY <1>1 DEF NothingStarts, NothingCompletes, Exists
<1>2. ASSUME NEW q \in Requests, RunNowCommit(q) PROVE NothingStarts /\ NothingCompletes
  <2>1. PICK r \in AbsentRuns : run' = [run EXCEPT ![r] = NewRun(request[q].scout, 0)]
    BY <1>2 DEF RunNowCommit
  <2>2. QED
    BY <2>1 DEF NothingStarts, NothingCompletes, Exists, AbsentRuns, NewRun, TypeOK
<1>3. ASSUME NEW w \in Workers, Check(w) PROVE NothingStarts /\ NothingCompletes
  BY <1>3, ClosedRuns DEF Check, RunningRuns
<1>4. ASSUME NEW w \in Workers, TickRead(w) PROVE NothingStarts /\ NothingCompletes
  BY <1>4, ClosedRuns DEF TickRead, IsStale
<1>5. ASSUME NEW w \in Workers, TickCommit(w) PROVE NothingStarts /\ NothingCompletes
  <2>1. PICK new \in SUBSET AbsentRuns : \E owner :
          run' = [r \in Runs |-> IF r \in new THEN NewRun(owner[r], clock.day) ELSE run[r]]
    BY <1>5, Zenon DEF TickCommit
  <2>2. QED
    BY <2>1, NewRuns
<1>6. CASE ApiStep
  BY <1>1, <1>2, <1>6 DEF ApiStep, UpdateStatus, RunNow, RunNowSend, RunNowSendFails
<1>7. ASSUME NEW w \in Workers, Poll(w) \/ TickStep(w) PROVE NothingStarts /\ NothingCompletes
  BY <1>1, <1>4, <1>5, <1>7 DEF Poll, PollEmpty, Receive, TickStep, TickSend
<1>8. ASSUME NEW w \in Workers,
             \/ NoTick(w) \/ SendJobFails(w) \/ TickSendFails(w) \/ WorkerCrash(w)
             \/ \E r \in Runs : Load(w, r)
             \/ \E enabled \in SUBSET Sites : FanOut(w, enabled)
             \/ \E k \in Sites : SendJob(w, k)
             \/ DeleteBatch(w)
      PROVE  UNCHANGED run
  BY <1>8 DEF NoTick, SendJobFails, TickSendFails, WorkerCrash, Load, FanOut, SendJob, DeleteBatch
<1>9. CASE BrokerRestart \/ \E r \in Runs : BecomeVisible(r)
  BY <1>1, <1>9 DEF BecomeVisible, BrokerRestart
<1>10. QED
  BY <1>1, <1>3, <1>6, <1>7, <1>8, <1>9

\* Start completes nothing.
LEMMA StartCompletes ==
  ASSUME TypeOK, NEW w \in Workers, Start(w) PROVE NothingCompletes
<1>1. PICK status :
        /\ \/ run' = [run EXCEPT ![worker[w].run].status = status]
           \/ run' = [run EXCEPT ![worker[w].run].status = status, ![worker[w].run].old = FALSE]
        /\ status \in {"RUNNING", "FAILED", run[worker[w].run].status}
  BY DEF Start
<1>2. QED
  <2>1. run \in [Runs -> Run]
    BY DEF TypeOK
  <2>2. \A x \in Runs : run'[x].status \in {"RUNNING", "FAILED", run[x].status}
    BY <1>1, <2>1 DEF Run
  <2>3. QED
    BY <2>2 DEF NothingCompletes

\* Finish starts nothing.
LEMMA FinishStarts ==
  ASSUME TypeOK, NEW w \in Workers, Finish(w) PROVE NothingStarts
<1> DEFINE status == IF worker[w].sites = {} THEN "FAILED"
                     ELSE IF worker[w].sites # Sites THEN "PARTIALLY_COMPLETED" ELSE "COMPLETED"
<1>1. status \in {"FAILED", "PARTIALLY_COMPLETED", "COMPLETED"}
  OBVIOUS
<1>2. run' = [run EXCEPT ![worker[w].run].status = status]
  BY DEF Finish
<1> HIDE DEF status
<1>3. QED
  BY <1>1, <1>2 DEF NothingStarts, Exists, TypeOK, Run

-----------------------------------------------------------------------------
(* A COMPLETED run is covered *)

\* A step that completes nothing and sends nothing keeps the invariant, if the
\* one worker it may move is left with a run in hand and all it has sent to.
LEMMA CoveredKept ==
  ASSUME CoveredInv, TypeOK', NothingCompletes, sent' = sent, NEW w \in Workers,
         \A v \in Workers \ {w} : worker'[v] = worker[v],
         HasRun(w)', SendingIsBacked(w)'
  PROVE  CoveredInv'
<1>1. CompletedRunIsCovered'
  BY DEF CoveredInv, CompletedRunIsCovered, NothingCompletes
<1>2. ASSUME NEW v \in Workers PROVE HasRun(v)' /\ SendingIsBacked(v)'
  BY DEF CoveredInv, HasRun, SendingIsBacked
<1>3. QED
  BY <1>1, <1>2 DEF CoveredInv

\* In particular if no worker moves.
LEMMA CoveredStill ==
  ASSUME CoveredInv, TypeOK', NothingCompletes, sent' = sent, worker' = worker
  PROVE  CoveredInv'
BY DEF CoveredInv, CompletedRunIsCovered, NothingCompletes, HasRun, SendingIsBacked

\* Or if the worker leaves the dispatch.
LEMMA CoveredLeft ==
  ASSUME CoveredInv, TypeOK', NothingCompletes, sent' = sent, NEW w \in Workers,
         \A v \in Workers \ {w} : worker'[v] = worker[v],
         worker'[w].pc \notin {"check", "start", "fanout", "send"}
  PROVE  CoveredInv'
<1>1. HasRun(w)' /\ SendingIsBacked(w)'
  BY DEF HasRun, SendingIsBacked
<1>2. QED
  BY <1>1, CoveredKept

\* Where the end of a record leaves a worker.
LEMMA EndRecordMoves ==
  ASSUME TypeOK, NEW w \in Workers, EndRecord(w)
  PROVE  /\ \A v \in Workers \ {w} : worker'[v] = worker[v]
         /\ worker'[w].pc = "next" /\ worker'[w].run = None
         /\ worker'[w].todo = worker[w].todo /\ worker'[w].created = {}
BY DEF TypeOK, EndRecord, Resting

\* The dispatch keeps the invariant.
LEMMA DispatchCovered ==
  ASSUME CoveredInv, TypeOK', NEW w \in Workers, DispatchStep(w) \/ SendJobFails(w)
  PROVE  CoveredInv'
<1> DEFINE r == worker[w].run
<1>0. TypeOK /\ HasRun(w) /\ SendingIsBacked(w) /\ worker \in [Workers -> WorkerState]
  BY DEF CoveredInv, TypeOK
<1>1. ASSUME NEW x \in Runs, Load(w, x) PROVE CoveredInv'
  <2>1. NothingCompletes
    BY <1>0, <1>1, QuietRuns
  <2>2. HasRun(w)' /\ SendingIsBacked(w)'
    BY <1>0, <1>1 DEF Load, HasRun, SendingIsBacked, WorkerState
  <2>3. QED
    BY <1>0, <1>1, <2>1, <2>2, CoveredKept DEF Load
<1>2. CASE Check(w)
  <2>1. NothingCompletes
    BY <1>0, <1>2, QuietRuns
  <2>2. CASE EndRecord(w)
    BY <1>0, <1>2, <2>1, <2>2, EndRecordMoves, CoveredLeft DEF Check
  <2>3. CASE worker' = [worker EXCEPT ![w].pc = "start"]
    <3>1. HasRun(w)' /\ SendingIsBacked(w)'
      BY <1>0, <1>2, <2>3 DEF Check, HasRun, SendingIsBacked, WorkerState
    <3>2. QED
      BY <1>0, <1>2, <2>1, <2>3, <3>1, CoveredKept DEF Check
  <2>4. QED
    BY <1>2, <2>2, <2>3 DEF Check
<1>3. CASE Start(w)
  <2>1. NothingCompletes
    BY <1>0, <1>3, StartCompletes
  <2>2. CASE EndRecord(w)
    BY <1>0, <1>3, <2>1, <2>2, EndRecordMoves, CoveredLeft DEF Start
  <2>3. CASE worker' = [worker EXCEPT ![w].pc = "fanout"]
    <3>1. HasRun(w)' /\ SendingIsBacked(w)'
      BY <1>0, <1>3, <2>3 DEF Start, HasRun, SendingIsBacked, WorkerState
    <3>2. QED
      BY <1>0, <1>3, <2>1, <2>3, <3>1, CoveredKept DEF Start
  <2>4. QED
    BY <1>3, <2>2, <2>3 DEF Start
<1>4. ASSUME NEW enabled \in SUBSET Sites, FanOut(w, enabled) PROVE CoveredInv'
  <2>1. NothingCompletes
    BY <1>0, <1>4, QuietRuns
  <2>2. HasRun(w)' /\ SendingIsBacked(w)'
    BY <1>0, <1>4 DEF FanOut, HasRun, SendingIsBacked, WorkerState
  <2>3. QED
    BY <1>0, <1>4, <2>1, <2>2, CoveredKept DEF FanOut
<1>5. ASSUME NEW k \in Sites, SendJob(w, k) PROVE CoveredInv'
  <2>1. r \in Runs
    BY <1>0, <1>5 DEF SendJob, HasRun
  <2>2. sent \in [Runs -> [Sites -> Nat]]
    BY <1>0 DEF TypeOK
  <2>3. /\ sent'[r][k] > 0
        /\ \A x \in Runs, j \in Sites : sent[x][j] > 0 => sent'[x][j] > 0
    BY <1>5, <2>1, <2>2 DEF SendJob
  <2>4. run' = run
    BY <1>5 DEF SendJob
  <2>5. CompletedRunIsCovered'
    BY <2>3, <2>4 DEF CoveredInv, CompletedRunIsCovered
  <2>6. worker'[w] = [worker[w] EXCEPT !.tosend = worker[w].tosend \ {k}]
        /\ \A v \in Workers \ {w} : worker'[v] = worker[v]
    BY <1>0, <1>5 DEF SendJob
  <2>7. /\ worker'[w].pc = "send" /\ worker'[w].run = r
        /\ worker'[w].sites = worker[w].sites /\ worker'[w].tosend = worker[w].tosend \ {k}
        /\ worker[w].pc = "send" /\ worker[w].sites \subseteq Sites
    BY <1>0, <1>5, <2>6 DEF WorkerState, SendJob
  <2>8. HasRun(w)' /\ SendingIsBacked(w)'
    BY <1>0, <2>1, <2>3, <2>7 DEF HasRun, SendingIsBacked
  <2>9. ASSUME NEW v \in Workers \ {w} PROVE HasRun(v)' /\ SendingIsBacked(v)'
    <3>1. HasRun(v) /\ SendingIsBacked(v) /\ worker[v].sites \subseteq Sites
      BY <1>0 DEF CoveredInv, WorkerState
    <3>2. QED
      BY <2>3, <2>6, <3>1 DEF HasRun, SendingIsBacked
  <2>10. QED
    BY <2>5, <2>8, <2>9 DEF CoveredInv
<1>6. CASE Finish(w)
  <2>1. r \in Runs /\ worker[w].tosend = {} /\ sent' = sent
    BY <1>0, <1>6 DEF Finish, HasRun
  <2>2. /\ \A x \in Runs \ {r} : run'[x] = run[x]
        /\ run'[r].status = "COMPLETED" => worker[w].sites = Sites
    BY <1>0, <1>6, <2>1 DEF Finish, TypeOK, Run
  <2>3. \A k \in worker[w].sites : sent[r][k] > 0
    BY <1>0, <1>6, <2>1 DEF SendingIsBacked, Finish
  <2>4. CompletedRunIsCovered'
    BY <2>1, <2>2, <2>3 DEF CoveredInv, CompletedRunIsCovered
  <2>5. EndRecord(w)
    BY <1>6 DEF Finish
  <2>6. ASSUME NEW v \in Workers PROVE HasRun(v)' /\ SendingIsBacked(v)'
    BY <1>0, <2>1, <2>5, EndRecordMoves DEF CoveredInv, HasRun, SendingIsBacked
  <2>7. QED
    BY <2>4, <2>6 DEF CoveredInv
<1>7. CASE DeleteBatch(w)
  <2>1. NothingCompletes
    BY <1>0, <1>7, QuietRuns
  <2>2. worker'[w].pc = "tick" /\ \A v \in Workers \ {w} : worker'[v] = worker[v]
    BY <1>0, <1>7 DEF DeleteBatch, Resting
  <2>3. QED
    BY <1>7, <2>1, <2>2, CoveredLeft DEF DeleteBatch
<1>8. CASE SendJobFails(w)
  <2>1. NothingCompletes
    BY <1>0, <1>8, QuietRuns
  <2>2. QED
    BY <1>0, <1>8, <2>1, EndRecordMoves, CoveredLeft DEF SendJobFails
<1>9. QED
  BY <1>1, <1>2, <1>3, <1>4, <1>5, <1>6, <1>7, <1>8 DEF DispatchStep

\* Where the polls, the tick and a crash leave a worker.
LEMMA LoopMoves ==
  ASSUME TypeOK, NEW w \in Workers,
         Poll(w) \/ TickStep(w) \/ NoTick(w) \/ TickSendFails(w) \/ WorkerCrash(w)
  PROVE  /\ \A v \in Workers \ {w} : worker'[v] = worker[v]
         /\ worker'[w].pc \notin {"check", "start", "fanout", "send"}
         /\ sent' = sent
<1>0. worker \in [Workers -> WorkerState]
  BY DEF TypeOK
<1>1. ASSUME NEW batch \in SUBSET Runs, Receive(w, batch)
      PROVE  /\ \A v \in Workers \ {w} : worker'[v] = worker[v]
             /\ worker'[w].pc = "next" /\ sent' = sent
  BY <1>0, <1>1 DEF Receive, Resting
<1>2. CASE PollEmpty(w)
  BY <1>0, <1>2 DEF PollEmpty, WorkerState
<1>3. CASE TickRead(w)
  BY <1>0, <1>3 DEF TickRead, Resting
<1>4. CASE TickCommit(w)
  BY <1>0, <1>4 DEF TickCommit, WorkerState
<1>5. CASE TickSend(w)
  BY <1>0, <1>5 DEF TickSend, WorkerState, Resting
<1>6. CASE NoTick(w) \/ TickSendFails(w) \/ WorkerCrash(w)
  BY <1>0, <1>6 DEF NoTick, TickSendFails, WorkerCrash, Resting
<1>7. QED
  BY <1>1, <1>2, <1>3, <1>4, <1>5, <1>6 DEF Poll, TickStep

\* The invariant holds at first.
LEMMA InitCovered == Init => CoveredInv
<1> SUFFICES ASSUME Init PROVE CoveredInv
  OBVIOUS
<1>1. CompletedRunIsCovered
  BY DEF Init, NoRun, CompletedRunIsCovered
<1>2. ASSUME NEW w \in Workers PROVE HasRun(w) /\ SendingIsBacked(w)
  BY DEF Init, Resting, HasRun, SendingIsBacked
<1>3. QED
  BY <1>1, <1>2, InitType DEF CoveredInv

\* Every step keeps it.
LEMMA NextCovered == CoveredInv /\ [Next]_vars => CoveredInv'
<1> SUFFICES ASSUME CoveredInv, [Next]_vars PROVE CoveredInv'
  OBVIOUS
<1>0. TypeOK /\ TypeOK'
  BY NextType DEF CoveredInv
<1>1. CASE Passing
  <2>1. sent' = sent /\ worker' = worker
    BY <1>1 DEF Passing, HourComes, Midnight, Age, RateLimitPasses
  <2>2. QED
    BY <1>0, <1>1, <2>1, PassingRuns, CoveredStill
<1>2. CASE ApiStep
  <2>1. sent' = sent /\ worker' = worker
    BY <1>2 DEF ApiStep, UpdateStatus, RunNow, RunNowCommit, RunNowSend, RunNowSendFails
  <2>2. QED
    BY <1>0, <1>2, <2>1, QuietRuns, CoveredStill
<1>3. ASSUME NEW w \in Workers, DispatchStep(w) \/ SendJobFails(w) PROVE CoveredInv'
  BY <1>0, <1>3, DispatchCovered
<1>4. ASSUME NEW w \in Workers,
             Poll(w) \/ TickStep(w) \/ NoTick(w) \/ TickSendFails(w) \/ WorkerCrash(w)
      PROVE  CoveredInv'
  <2>1. NothingCompletes
    BY <1>0, <1>4, QuietRuns
  <2>2. QED
    BY <1>0, <1>4, <2>1, LoopMoves, CoveredLeft
<1>5. CASE BrokerRestart \/ \E r \in Runs : BecomeVisible(r)
  <2>1. NothingCompletes
    BY <1>0, <1>5, QuietRuns
  <2>2. QED
    BY <1>0, <1>5, <2>1, CoveredStill DEF BrokerRestart, BecomeVisible
<1>6. CASE UNCHANGED vars
  BY <1>0, <1>6, CoveredStill DEF vars, NothingCompletes
<1>7. QED
  BY <1>1, <1>2, <1>3, <1>4, <1>5, <1>6 DEF Next

\* A COMPLETED run has had a job sent for every targeted site: with any number
\* of workers, through crashes, failed sends and redeliveries.
THEOREM CompletedRunCovered == Spec => []CompletedRunIsCovered
<1>1. Spec => []CoveredInv
  BY InitCovered, NextCovered, PTL DEF Spec
<1>2. CoveredInv => CompletedRunIsCovered
  BY DEF CoveredInv
<1>3. QED
  BY <1>1, <1>2, PTL

-----------------------------------------------------------------------------
(* With one worker at most one run of a Scout is RUNNING *)

ExistKept == \A r \in Runs : Exists(r) => Exists(r)'

\* References survive a step of a worker that leaves it with existing runs.
LEMMA WorkerReferences ==
  ASSUME OverlapInv, TypeOK', ExistKept, NEW w \in Workers,
         \A v \in Workers \ {w} : worker'[v] = worker[v],
         \A r \in worker'[w].todo \cup worker'[w].created : Exists(r)',
         worker'[w].run # None => Exists(worker[w].run)',
         \A r \in Runs : message'[r] # "none" => message[r] # "none" \/ Exists(r),
         request' = request
  PROVE  ReferencedExist'
<1>0. TypeOK /\ ReferencedExist
  BY DEF OverlapInv
<1>1. \A r \in Runs : message'[r] # "none" => Exists(r)'
  BY <1>0 DEF ReferencedExist, ExistKept
<1>2. ASSUME NEW v \in Workers
      PROVE  /\ \A r \in worker'[v].todo \cup worker'[v].created : Exists(r)'
             /\ worker'[v].run # None => Exists(worker[v].run)'
  <2>1. CASE v = w
    BY <2>1
  <2>2. CASE v # w
    <3>1. worker[v] \in WorkerState
      BY <1>0 DEF TypeOK
    <3>2. worker[v].todo \subseteq Runs /\ worker[v].created \subseteq Runs
          /\ worker[v].run \in Runs \cup {None}
      BY <3>1, WorkerFields
    <3>3. worker'[v] = worker[v]
      BY <2>2
    <3>4. ASSUME worker[v].run # None PROVE Exists(worker[v].run)'
      BY <1>0, <3>2, <3>3, <3>4 DEF ReferencedExist, ExistKept, Exists
    <3>5. QED
      BY <1>0, <3>2, <3>3, <3>4 DEF ReferencedExist, ExistKept
  <2>3. QED
    BY <2>1, <2>2
<1>3. ASSUME NEW q \in Requests, request'[q].run # None PROVE Exists(request[q].run)'
  <2>1. request[q].run \in Runs \cup {None} /\ request'[q] = request[q]
    BY <1>0 DEF TypeOK, RequestState
  <2>2. QED
    BY <1>0, <1>3, <2>1 DEF ReferencedExist, ExistKept, Exists
<1>4. QED
  BY <1>1, <1>2, <1>3 DEF ReferencedExist

\* A step that starts nothing keeps the invariant if it lets nobody past the
\* overlap guard.
LEMMA OverlapKept ==
  ASSUME OverlapInv, TypeOK', ReferencedExist', NothingStarts,
         \A v \in Workers :
           /\ HasRun(v)'
           /\ worker'[v].pc = "start" =>
                worker[v].pc = "start" /\ worker'[v].run = worker[v].run
  PROVE  OverlapInv'
<1>1. NoOverlap'
  BY DEF OverlapInv, NoOverlap, NothingStarts
<1>2. ASSUME NEW v \in Workers PROVE StartIsAlone(v)'
  <2>1. SUFFICES ASSUME worker'[v].pc = "start", NEW r \in Runs \ {worker'[v].run},
                        run'[r].scout = run'[worker'[v].run].scout, run'[r].status = "RUNNING"
                 PROVE  FALSE
    BY DEF StartIsAlone
  <2>2. worker[v].pc = "start" /\ worker'[v].run = worker[v].run /\ worker[v].run \in Runs
    BY <2>1 DEF OverlapInv, HasRun
  <2>3. Exists(worker[v].run)
    BY <2>2, ScoutAssumption DEF OverlapInv, ReferencedExist
  <2>4. run[r].status = "RUNNING" /\ run[r].scout = run[worker[v].run].scout
    BY <2>1, <2>2, <2>3 DEF NothingStarts
  <2>5. QED
    BY <2>1, <2>2, <2>4 DEF OverlapInv, StartIsAlone
<1>3. QED
  BY <1>1, <1>2 DEF OverlapInv

\* In particular if one worker moves, and not to the start of a run.
LEMMA OverlapMoved ==
  ASSUME OverlapInv, TypeOK', NothingStarts, NEW w \in Workers,
         \A v \in Workers \ {w} : worker'[v] = worker[v],
         \A r \in worker'[w].todo \cup worker'[w].created : Exists(r)',
         worker'[w].run # None => Exists(worker[w].run)',
         \A r \in Runs : message'[r] # "none" => message[r] # "none" \/ Exists(r),
         request' = request,
         HasRun(w)', worker'[w].pc # "start"
  PROVE  OverlapInv'
<1>1. ReferencedExist'
  BY WorkerReferences DEF NothingStarts, ExistKept
<1>2. \A v \in Workers :
        /\ HasRun(v)'
        /\ worker'[v].pc = "start" =>
             worker[v].pc = "start" /\ worker'[v].run = worker[v].run
  BY DEF OverlapInv, HasRun
<1>3. QED
  BY <1>1, <1>2, OverlapKept

\* Or if a record ends.
LEMMA OverlapEnded ==
  ASSUME OverlapInv, TypeOK', NothingStarts, NEW w \in Workers, EndRecord(w),
         message' = message, request' = request
  PROVE  OverlapInv'
<1>0. TypeOK /\ worker[w] \in WorkerState
  BY DEF OverlapInv, TypeOK
<1>1. /\ \A v \in Workers \ {w} : worker'[v] = worker[v]
      /\ worker'[w].pc = "next" /\ worker'[w].run = None
      /\ worker'[w].todo = worker[w].todo /\ worker'[w].created = {}
  BY <1>0, EndRecordMoves
<1>2. \A r \in worker[w].todo : Exists(r)'
  BY <1>0, WorkerFields DEF OverlapInv, ReferencedExist, NothingStarts
<1>3. HasRun(w)'
  BY <1>1 DEF HasRun
<1>4. QED
  BY <1>1, <1>2, <1>3, OverlapMoved

\* Or if no worker moves, and a request refers to an existing run.
LEMMA OverlapStill ==
  ASSUME OverlapInv, TypeOK', NothingStarts, worker' = worker,
         \A r \in Runs : message'[r] # "none" => message[r] # "none" \/ Exists(r),
         \A q \in Requests : request'[q].run # None => Exists(request[q].run)'
  PROVE  OverlapInv'
<1>0. TypeOK /\ ReferencedExist
  BY DEF OverlapInv
<1>1. ASSUME NEW w \in Workers
      PROVE  /\ \A r \in worker'[w].todo \cup worker'[w].created : Exists(r)'
             /\ worker'[w].run # None => Exists(worker[w].run)'
  <2>1. /\ worker[w].todo \subseteq Runs /\ worker[w].created \subseteq Runs
        /\ worker[w].run \in Runs \cup {None}
    BY <1>0, WorkerFields DEF TypeOK
  <2>2. ASSUME worker[w].run # None PROVE Exists(worker[w].run)'
    BY <1>0, <2>1, <2>2 DEF ReferencedExist, NothingStarts, Exists
  <2>3. QED
    BY <1>0, <2>1, <2>2 DEF ReferencedExist, NothingStarts
<1>2. \A r \in Runs : message'[r] # "none" => Exists(r)'
  BY <1>0 DEF ReferencedExist, NothingStarts
<1>3. ReferencedExist'
  BY <1>1, <1>2 DEF ReferencedExist
<1>4. \A v \in Workers : HasRun(v)'
  BY DEF OverlapInv, HasRun
<1>5. QED
  BY <1>3, <1>4, OverlapKept

\* The API keeps the invariant.
LEMMA ApiOverlap ==
  ASSUME OverlapInv, TypeOK', ApiStep PROVE OverlapInv'
<1>0. TypeOK /\ ReferencedExist /\ request \in [Requests -> RequestState]
  BY DEF OverlapInv, TypeOK
<1>1. NothingStarts /\ worker' = worker
  BY <1>0, QuietRuns
     DEF ApiStep, UpdateStatus, RunNow, RunNowCommit, RunNowSend, RunNowSendFails
<1>2. \A q \in Requests : request[q].run \in Runs \cup {None}
  BY <1>0 DEF RequestState
<1>3. \A q \in Requests : request'[q] = request[q] /\ request[q].run # None
                          => Exists(request[q].run)'
  BY <1>0, <1>1, <1>2 DEF ReferencedExist, NothingStarts, Exists
<1>4. ASSUME NEW s \in Scouts, NEW status \in ScoutStatus, UpdateStatus(s, status)
      PROVE  OverlapInv'
  BY <1>1, <1>3, <1>4, OverlapStill DEF UpdateStatus
<1>5. ASSUME NEW q \in Requests, NEW s \in Scouts, RunNow(q, s) PROVE OverlapInv'
  <2>1. request'[q].run = None /\ \A p \in Requests \ {q} : request'[p] = request[p]
    BY <1>0, <1>5 DEF RunNow
  <2>2. QED
    BY <1>1, <1>3, <1>5, <2>1, OverlapStill DEF RunNow
<1>6. ASSUME NEW q \in Requests, RunNowCommit(q) PROVE OverlapInv'
  <2>1. PICK r \in AbsentRuns :
          /\ run' = [run EXCEPT ![r] = NewRun(request[q].scout, 0)]
          /\ request' = [request EXCEPT ![q].pc = "send", ![q].run = r]
    BY <1>6 DEF RunNowCommit
  <2>2. request'[q].run = r /\ r \in Runs /\ run'[r].status = "PENDING"
    BY <1>0, <2>1 DEF RequestState, AbsentRuns, NewRun, TypeOK
  <2>3. \A p \in Requests \ {q} : request'[p] = request[p]
    BY <1>0, <2>1
  <2>4. \A p \in Requests : request'[p].run # None => Exists(request[p].run)'
    BY <1>3, <2>2, <2>3 DEF Exists
  <2>5. QED
    BY <1>1, <1>6, <2>4, OverlapStill DEF RunNowCommit
<1>7. ASSUME NEW q \in Requests, RunNowSend(q) PROVE OverlapInv'
  <2>1. request'[q].run = None /\ \A p \in Requests \ {q} : request'[p] = request[p]
    BY <1>0, <1>7 DEF RunNowSend, IdleRequest
  <2>2. \A r \in Runs : message'[r] # "none" => message[r] # "none" \/ Exists(r)
    BY <1>0, <1>7, ScoutAssumption DEF RunNowSend, ReferencedExist, TypeOK
  <2>3. QED
    BY <1>1, <1>3, <2>1, <2>2, OverlapStill
<1>8. ASSUME NEW q \in Requests, RunNowSendFails(q) PROVE OverlapInv'
  <2>1. request'[q].run = None /\ \A p \in Requests \ {q} : request'[p] = request[p]
    BY <1>0, <1>8 DEF RunNowSendFails, IdleRequest
  <2>2. QED
    BY <1>1, <1>3, <1>8, <2>1, OverlapStill DEF RunNowSendFails
<1>9. QED
  BY <1>4, <1>5, <1>6, <1>7, <1>8 DEF ApiStep

\* A worker that passes the overlap guard is alone.
LEMMA CheckIsAlone ==
  ASSUME OverlapInv, TypeOK', NEW w \in Workers, Check(w), worker'[w].pc = "start",
         worker'[w].run = worker[w].run,
         LiveRuns(run[worker[w].run].scout) \ {worker[w].run} = {}
  PROVE  StartIsAlone(w)'
<1> DEFINE r == worker[w].run
           s == run[r].scout
<1>0. TypeOK /\ r \in Runs
  BY DEF OverlapInv, HasRun, Check
<1>1. NothingStarts /\ Exists(r)
  BY <1>0, QuietRuns, ScoutAssumption DEF OverlapInv, ReferencedExist
<1>2. run' = Closed({x \in RunningRuns(s) \ {r} : IsStale(x)})
  BY DEF Check
<1>3. ASSUME NEW x \in Runs \ {r}, run'[x].scout = run'[r].scout, run'[x].status = "RUNNING"
      PROVE  FALSE
  <2>1. run[x].status = "RUNNING" /\ run[x].scout = s
    BY <1>0, <1>1, <1>3 DEF NothingStarts
  <2>2. x \in RunningRuns(s) \ {r}
    BY <1>3, <2>1 DEF RunningRuns
  <2>3. IsStale(x)
    BY <2>2 DEF LiveRuns
  <2>4. run'[x] = [run[x] EXCEPT !.status = "FAILED"]
    BY <1>2, <2>2, <2>3 DEF Closed
  <2>5. QED
    BY <1>0, <1>3, <2>4 DEF TypeOK, Run
<1>4. QED
  BY <1>3 DEF StartIsAlone

\* The start of a run that is alone overlaps with no other.
LEMMA StartOverlaps ==
  ASSUME OverlapInv, NEW w \in Workers, worker[w].pc = "start", NEW status,
         status \in {"RUNNING", run[worker[w].run].status},
         run' = [run EXCEPT ![worker[w].run].status = status, ![worker[w].run].old = FALSE]
  PROVE  NoOverlap' /\ ExistKept
<1> DEFINE r == worker[w].run
<1>0. run \in [Runs -> Run] /\ r \in Runs /\ StartIsAlone(w) /\ NoOverlap /\ Exists(r)
  BY ScoutAssumption DEF OverlapInv, TypeOK, HasRun, ReferencedExist
<1>1. \A x \in Runs \ {r} : run'[x] = run[x]
  BY <1>0
<1>2. run'[r].scout = run[r].scout /\ run'[r].status = status
  BY <1>0 DEF Run
<1>3. ExistKept
  BY <1>0, <1>1, <1>2 DEF ExistKept, Exists
<1>4. ASSUME NEW x \in Runs, NEW y \in Runs, x # y,
             run'[x].status = "RUNNING", run'[y].status = "RUNNING",
             run'[x].scout = run'[y].scout
      PROVE  FALSE
  <2>1. CASE x = r
    BY <1>0, <1>1, <1>2, <1>4, <2>1 DEF StartIsAlone
  <2>2. CASE y = r
    BY <1>0, <1>1, <1>2, <1>4, <2>2 DEF StartIsAlone
  <2>3. CASE x # r /\ y # r
    BY <1>0, <1>1, <1>4, <2>3 DEF NoOverlap
  <2>4. QED
    BY <2>1, <2>2, <2>3
<1>5. QED
  BY <1>3, <1>4 DEF NoOverlap

\* The dispatch keeps the invariant when one worker runs.
LEMMA DispatchOverlap ==
  ASSUME OverlapInv, TypeOK', NEW w \in Workers, Workers = {w},
         DispatchStep(w) \/ SendJobFails(w)
  PROVE  OverlapInv'
<1> DEFINE r == worker[w].run
<1>0. /\ TypeOK /\ HasRun(w) /\ ReferencedExist /\ NoOverlap
      /\ worker \in [Workers -> WorkerState]
      /\ worker[w].todo \subseteq Runs /\ worker[w].created \subseteq Runs
  BY WorkerFields DEF OverlapInv, TypeOK
<1>1. /\ \A x \in worker[w].todo \cup worker[w].created : Exists(x)
      /\ r # None => Exists(r)
      /\ r \in Runs \cup {None}
      /\ None \notin Runs
  BY <1>0, WorkerFields, ScoutAssumption DEF ReferencedExist
<1>2. ASSUME NEW x \in Runs, Load(w, x) PROVE OverlapInv'
  <2>1. NothingStarts /\ run' = run /\ message' = message /\ request' = request
    BY <1>0, <1>2, QuietRuns DEF Load
  <2>2. /\ worker'[w].pc = "check" /\ worker'[w].run = x
        /\ worker'[w].todo \subseteq worker[w].todo /\ worker'[w].created = worker[w].created
        /\ x \in worker[w].todo
    BY <1>0, <1>2 DEF Load, WorkerState
  <2>3. /\ HasRun(w)'
        /\ worker'[w].run # None => Exists(worker[w].run)'
        /\ \A y \in worker'[w].todo \cup worker'[w].created : Exists(y)'
    BY <1>1, <2>1, <2>2 DEF HasRun, Exists
  <2>4. QED
    BY <2>1, <2>2, <2>3, OverlapMoved
<1>3. ASSUME NEW pc, worker' = [worker EXCEPT ![w].pc = pc], ExistKept, message' = message,
             request' = request, r \in Runs
      PROVE  ReferencedExist' /\ HasRun(w)' /\ worker'[w].pc = pc /\ worker'[w].run = r
  <2>1. /\ worker'[w].pc = pc /\ worker'[w].run = r
        /\ worker'[w].todo = worker[w].todo /\ worker'[w].created = worker[w].created
    BY <1>0, <1>3 DEF WorkerState
  <2>2. /\ \A x \in worker'[w].todo \cup worker'[w].created : Exists(x)'
        /\ worker'[w].run # None => Exists(worker[w].run)'
        /\ HasRun(w)'
    BY <1>0, <1>1, <1>3, <2>1 DEF ExistKept, HasRun, Exists
  <2>3. QED
    BY <1>3, <2>1, <2>2, WorkerReferences
<1>4. CASE Check(w)
  <2>1. NothingStarts /\ message' = message /\ request' = request /\ r \in Runs
    BY <1>0, <1>4, QuietRuns DEF Check, HasRun
  <2>2. CASE EndRecord(w)
    BY <2>1, <2>2, OverlapEnded
  <2>3. CASE /\ LiveRuns(run[r].scout) \ {r} = {}
             /\ worker' = [worker EXCEPT ![w].pc = "start"]
    <3>1. ReferencedExist' /\ HasRun(w)' /\ worker'[w].pc = "start" /\ worker'[w].run = r
      BY <1>3, <2>1, <2>3 DEF NothingStarts, ExistKept
    <3>2. NoOverlap'
      BY <1>0, <2>1 DEF NoOverlap, NothingStarts
    <3>3. StartIsAlone(w)'
      BY <1>4, <2>3, <3>1, CheckIsAlone
    <3>4. QED
      BY <3>1, <3>2, <3>3 DEF OverlapInv
  <2>4. QED
    BY <1>4, <2>2, <2>3 DEF Check
<1>5. CASE Start(w)
  <2>1. message' = message /\ request' = request /\ r \in Runs
    BY <1>0, <1>5 DEF Start, HasRun
  <2>2. ASSUME NEW status, status \in {"FAILED", run[r].status},
               run' = [run EXCEPT ![r].status = status], EndRecord(w)
        PROVE  OverlapInv'
    <3>1. NothingStarts
      BY <1>0, <1>1, <2>1, <2>2 DEF NothingStarts, Exists, TypeOK, Run
    <3>2. QED
      BY <2>1, <2>2, <3>1, OverlapEnded
  <2>3. ASSUME NEW status, status \in {"RUNNING", run[r].status},
               run' = [run EXCEPT ![r].status = status, ![r].old = FALSE],
               worker' = [worker EXCEPT ![w].pc = "fanout"]
        PROVE  OverlapInv'
    <3>1. NoOverlap' /\ ExistKept
      BY <1>5, <2>3, StartOverlaps DEF Start
    <3>2. ReferencedExist' /\ HasRun(w)' /\ worker'[w].pc = "fanout"
      BY <1>3, <2>1, <2>3, <3>1
    <3>3. QED
      BY <3>1, <3>2 DEF OverlapInv, StartIsAlone
  <2>4. QED
    BY <1>5, <2>2, <2>3 DEF Start
<1>6. ASSUME NEW enabled \in SUBSET Sites, FanOut(w, enabled) PROVE OverlapInv'
  <2>1. NothingStarts /\ run' = run /\ message' = message /\ request' = request /\ r \in Runs
    BY <1>0, <1>6, QuietRuns DEF FanOut, HasRun
  <2>2. /\ worker'[w].pc = "send" /\ worker'[w].run = r
        /\ worker'[w].todo = worker[w].todo /\ worker'[w].created = worker[w].created
    BY <1>0, <1>6 DEF FanOut, WorkerState
  <2>3. /\ HasRun(w)'
        /\ \A x \in worker'[w].todo \cup worker'[w].created : Exists(x)'
        /\ worker'[w].run # None => Exists(worker[w].run)'
    BY <1>1, <2>1, <2>2 DEF HasRun, Exists
  <2>4. QED
    BY <2>1, <2>2, <2>3, OverlapMoved
<1>7. ASSUME NEW k \in Sites, SendJob(w, k) PROVE OverlapInv'
  <2>1. NothingStarts /\ run' = run /\ message' = message /\ request' = request /\ r \in Runs
    BY <1>0, <1>7, QuietRuns DEF SendJob, HasRun
  <2>2. /\ worker'[w].pc = "send" /\ worker'[w].run = r
        /\ worker'[w].todo = worker[w].todo /\ worker'[w].created = worker[w].created
    BY <1>0, <1>7 DEF SendJob, WorkerState
  <2>3. /\ HasRun(w)'
        /\ \A x \in worker'[w].todo \cup worker'[w].created : Exists(x)'
        /\ worker'[w].run # None => Exists(worker[w].run)'
    BY <1>1, <2>1, <2>2 DEF HasRun, Exists
  <2>4. QED
    BY <2>1, <2>2, <2>3, OverlapMoved
<1>8. CASE Finish(w)
  BY <1>0, <1>8, FinishStarts, OverlapEnded DEF Finish
<1>9. CASE DeleteBatch(w)
  <2>1. NothingStarts /\ request' = request
    BY <1>0, <1>9, QuietRuns DEF DeleteBatch
  <2>2. /\ worker'[w].pc = "tick" /\ worker'[w].run = None
        /\ worker'[w].todo = {} /\ worker'[w].created = {}
    BY <1>0, <1>9 DEF DeleteBatch, Resting
  <2>3. \A x \in Runs : message'[x] # "none" => message[x] # "none"
    BY <1>9 DEF DeleteBatch
  <2>4. QED
    BY <2>1, <2>2, <2>3, OverlapMoved DEF HasRun
<1>10. CASE SendJobFails(w)
  BY <1>0, <1>10, QuietRuns, OverlapEnded DEF SendJobFails
<1>11. QED
  BY <1>2, <1>4, <1>5, <1>6, <1>7, <1>8, <1>9, <1>10 DEF DispatchStep

\* So do the polls, the tick and a crash, however many workers run.
LEMMA LoopOverlap ==
  ASSUME OverlapInv, TypeOK', NEW w \in Workers,
         Poll(w) \/ TickStep(w) \/ NoTick(w) \/ TickSendFails(w) \/ WorkerCrash(w)
  PROVE  OverlapInv'
<1>0. /\ TypeOK /\ ReferencedExist /\ worker[w] \in WorkerState
      /\ worker \in [Workers -> WorkerState] /\ message \in [Runs -> {"none", "visible", "inflight"}]
  BY DEF OverlapInv, TypeOK
<1>1. /\ NothingStarts
      /\ \A v \in Workers \ {w} : worker'[v] = worker[v]
      /\ HasRun(w)' /\ worker'[w].pc # "start"
  BY <1>0, QuietRuns, LoopMoves DEF HasRun
<1>2. /\ worker[w].todo \subseteq Runs /\ worker[w].created \subseteq Runs
      /\ worker[w].run \in Runs \cup {None}
  BY <1>0, WorkerFields
<1>3. /\ \A r \in worker[w].todo \cup worker[w].created : Exists(r)'
      /\ worker[w].run # None => run'[worker[w].run].status # "ABSENT"
  BY <1>0, <1>1, <1>2 DEF ReferencedExist, NothingStarts, Exists
<1>4. ASSUME NEW batch \in SUBSET Runs, Receive(w, batch) PROVE OverlapInv'
  <2>1. /\ worker'[w].todo = batch /\ worker'[w].created = {} /\ worker'[w].run = None
        /\ batch \subseteq Visible /\ request' = request /\ run' = run
    BY <1>0, <1>4 DEF Receive, Resting
  <2>2. \A r \in batch : Exists(r)'
    BY <1>0, <2>1 DEF Visible, ReferencedExist, Exists
  <2>3. \A r \in Runs : message'[r] # "none" => message[r] # "none" \/ Exists(r)
    BY <1>0, <1>4, <2>1 DEF Receive, Visible
  <2>4. QED
    BY <1>1, <2>1, <2>2, <2>3, OverlapMoved
<1>5. ASSUME worker'[w].todo = {}, worker'[w].created = {}, worker'[w].run = None,
             message' = message, request' = request
      PROVE  OverlapInv'
  BY <1>1, <1>5, OverlapMoved
<1>6. CASE PollEmpty(w)
  <2>1. /\ worker'[w].todo = worker[w].todo /\ worker'[w].created = worker[w].created
        /\ worker'[w].run = worker[w].run /\ message' = message /\ request' = request
    BY <1>0, <1>6 DEF PollEmpty, WorkerState
  <2>2. worker'[w].run # None => Exists(worker[w].run)'
    BY <1>3, <2>1 DEF Exists
  <2>3. QED
    BY <1>1, <1>3, <2>1, <2>2, OverlapMoved
<1>7. CASE NoTick(w) \/ TickSendFails(w) \/ WorkerCrash(w)
  BY <1>0, <1>5, <1>7 DEF NoTick, TickSendFails, WorkerCrash, Resting
<1>8. CASE TickRead(w)
  BY <1>0, <1>5, <1>8 DEF TickRead, Resting
<1>9. CASE TickCommit(w)
  <2>1. PICK new \in SUBSET AbsentRuns : \E owner :
          /\ run' = [r \in Runs |-> IF r \in new THEN NewRun(owner[r], clock.day) ELSE run[r]]
          /\ worker' = [worker EXCEPT ![w].pc = "announce", ![w].created = new]
    BY <1>9, Zenon DEF TickCommit
  <2>2. /\ worker'[w].todo = worker[w].todo /\ worker'[w].created = new
        /\ worker'[w].run = worker[w].run /\ message' = message /\ request' = request
    BY <1>0, <1>9, <2>1 DEF TickCommit, WorkerState
  <2>3. \A r \in new : Exists(r)'
    BY <2>1 DEF AbsentRuns, NewRun, Exists
  <2>4. worker'[w].run # None => Exists(worker[w].run)'
    BY <1>3, <2>2 DEF Exists
  <2>5. QED
    BY <1>1, <1>3, <2>2, <2>3, <2>4, OverlapMoved
<1>10. CASE TickSend(w)
  <2>1. CASE worker' = [worker EXCEPT ![w] = Resting] /\ UNCHANGED message
    BY <1>0, <1>5, <1>10, <2>1 DEF TickSend, Resting
  <2>2. ASSUME NEW r \in worker[w].created,
               message' = [message EXCEPT ![r] = "visible"],
               worker' = [worker EXCEPT ![w].created = @ \ {r}]
        PROVE  OverlapInv'
    <3>1. /\ worker'[w].todo = worker[w].todo /\ worker'[w].created \subseteq worker[w].created
          /\ worker'[w].run = worker[w].run /\ request' = request
      BY <1>0, <1>10, <2>2 DEF TickSend, WorkerState
    <3>2. worker'[w].run # None => Exists(worker[w].run)'
      BY <1>3, <3>1 DEF Exists
    <3>3. \A x \in Runs : message'[x] # "none" => message[x] # "none" \/ Exists(x)
      BY <1>0, <2>2 DEF ReferencedExist
    <3>4. QED
      BY <1>1, <1>3, <3>1, <3>2, <3>3, OverlapMoved
  <2>3. QED
    BY <1>10, <2>1, <2>2 DEF TickSend
<1>11. QED
  BY <1>4, <1>6, <1>7, <1>8, <1>9, <1>10 DEF Poll, TickStep

\* The invariant holds at first.
LEMMA InitOverlap == Init => OverlapInv
<1> SUFFICES ASSUME Init PROVE OverlapInv
  OBVIOUS
<1>1. NoOverlap
  BY DEF Init, NoRun, NoOverlap
<1>2. ReferencedExist
  BY DEF Init, Resting, IdleRequest, ReferencedExist
<1>3. ASSUME NEW w \in Workers PROVE HasRun(w) /\ StartIsAlone(w)
  BY DEF Init, Resting, HasRun, StartIsAlone
<1>4. QED
  BY <1>1, <1>2, <1>3, InitType DEF OverlapInv

\* Every step keeps it when one worker runs.
LEMMA NextOverlap ==
  ASSUME NEW w, Workers = {w} PROVE OverlapInv /\ [Next]_vars => OverlapInv'
<1> SUFFICES ASSUME OverlapInv, [Next]_vars PROVE OverlapInv'
  OBVIOUS
<1>0. TypeOK /\ TypeOK' /\ ReferencedExist
  BY NextType DEF OverlapInv
<1>1. ASSUME NothingStarts, worker' = worker, request' = request,
             \A r \in Runs : message'[r] # "none" => message[r] # "none"
      PROVE  OverlapInv'
  <2>1. \A q \in Requests : request[q].run \in Runs \cup {None}
    BY <1>0 DEF TypeOK, RequestState
  <2>2. \A q \in Requests : request'[q].run # None => Exists(request[q].run)'
    BY <1>0, <1>1, <2>1 DEF ReferencedExist, NothingStarts, Exists
  <2>3. QED
    BY <1>0, <1>1, <2>2, OverlapStill
<1>2. CASE Passing
  BY <1>0, <1>1, <1>2, PassingRuns DEF Passing, HourComes, Midnight, Age, RateLimitPasses
<1>3. CASE ApiStep
  BY <1>0, <1>3, ApiOverlap
<1>4. ASSUME NEW v \in Workers, DispatchStep(v) \/ SendJobFails(v) PROVE OverlapInv'
  BY <1>0, <1>4, DispatchOverlap
<1>5. ASSUME NEW v \in Workers,
             Poll(v) \/ TickStep(v) \/ NoTick(v) \/ TickSendFails(v) \/ WorkerCrash(v)
      PROVE  OverlapInv'
  BY <1>0, <1>5, LoopOverlap
<1>6. ASSUME NEW r \in Runs, BecomeVisible(r) PROVE OverlapInv'
  <2>1. \A x \in Runs : message'[x] # "none" => message[x] # "none"
    BY <1>0, <1>6 DEF BecomeVisible, TypeOK
  <2>2. QED
    BY <1>0, <1>1, <1>6, <2>1, QuietRuns DEF BecomeVisible
<1>7. CASE BrokerRestart
  <2>1. \A x \in Runs : message'[x] = "none"
    BY <1>7 DEF BrokerRestart
  <2>2. QED
    BY <1>0, <1>1, <1>7, <2>1, QuietRuns DEF BrokerRestart
<1>8. CASE UNCHANGED vars
  BY <1>1, <1>8 DEF vars, NothingStarts, Exists
<1>9. QED
  BY <1>2, <1>3, <1>4, <1>5, <1>6, <1>7, <1>8 DEF Next

\* With one worker, at most one run of a Scout is RUNNING: whatever is
\* abandoned, redelivered, run by hand or scheduled meanwhile.
THEOREM OneRunAtATime == ASSUME NEW w, Workers = {w} PROVE Spec => []NoOverlap
<1>1. Spec => []OverlapInv
  BY InitOverlap, NextOverlap, PTL DEF Spec
<1>2. OverlapInv => NoOverlap
  BY DEF OverlapInv
<1>3. QED
  BY <1>1, <1>2, PTL

-----------------------------------------------------------------------------
(* A Scout is searched once a day.  Where one worker runs, nothing fails and a *)
(* poll takes every message that waits, a run of the schedule is always on its *)
(* way, and it is done or FAILED before the worker ticks again.                *)

Dispatching == {"next", "check", "start", "fanout", "send"}

Scheduled(r) == run[r].day > 0

\* A run is RUNNING only while the worker dispatches it.
RunningIsInHand(w) ==
  \A r \in Runs : run[r].status = "RUNNING" =>
    worker[w].pc \in {"fanout", "send"} /\ r = worker[w].run

\* Where the worker is when a run of the schedule is still to be dispatched.
OnItsWay(w, r) ==
  /\ message[r] = "visible" => run[r].status = "PENDING" /\ worker[w].pc \in {"poll", "announce"}
  /\ message[r] = "inflight" => worker[w].pc \in Dispatching /\ r \in worker[w].batch
  /\ r \in worker[w].created => run[r].status = "PENDING" /\ worker[w].pc = "announce"
  /\ r \in worker[w].todo =>
       run[r].status = "PENDING" /\ worker[w].pc \in Dispatching /\ r # worker[w].run
  /\ worker[w].pc \in {"check", "start"} /\ r = worker[w].run =>
       run[r].status = "PENDING" /\ worker[w].seen = "PENDING"
  /\ worker[w].pc \in {"fanout", "send"} /\ r = worker[w].run => run[r].status = "RUNNING"
  /\ run[r].status = "PENDING" =>
       \/ message[r] = "visible"
       \/ r \in worker[w].created \cup worker[w].todo
       \/ worker[w].pc \in {"check", "start"} /\ r = worker[w].run

\* A run of the schedule that is done has stamped its Scout.
DoneIsStamped(r) ==
  /\ Exists(r) /\ run[r].scout \in Scouts /\ run[r].day <= clock.day
  /\ run[r].status \in Done => run[r].day <= scout[run[r].scout].lastRun

OneADay ==
  \A r, x \in Runs :
    /\ Scheduled(r) /\ run[r].scout = run[x].scout /\ run[r].day = run[x].day
    /\ run[r].status # "FAILED" /\ run[x].status # "FAILED"
    => r = x

\* A Scout found due has not been searched that day.
DueIsUnsearched(w) ==
  worker[w].pc = "create" => \A s \in worker[w].due : scout[s].lastRun < clock.day

\* What "Run now" sends is no run of the schedule.
RequestsAreManual ==
  \A q \in Requests, r \in Runs : request[q].run = r => ~Scheduled(r)

DayOn(w) ==
  /\ RunningIsInHand(w) /\ OneADay /\ DueIsUnsearched(w) /\ RequestsAreManual
  /\ \A r \in Runs : Scheduled(r) => OnItsWay(w, r) /\ DoneIsStamped(r)

DayInv(w) == OverlapInv /\ DayOn(w)

\* No more messages wait than one poll takes.
FitsOneBatch == Cardinality(Visible) <= BatchSize

RowKept(r) ==
  run'[r].status = run[r].status /\ run'[r].scout = run[r].scout /\ run'[r].day = run[r].day

\* A step after which the runs of the schedule are as they were.
LEMMA DayKept ==
  ASSUME NEW w \in Workers, DayInv(w), TypeOK',
         \A r \in Runs : Scheduled(r)' => RowKept(r),
         \A s \in Scouts : scout'[s].lastRun = scout[s].lastRun,
         clock.day <= clock'.day,
         RunningIsInHand(w)', RequestsAreManual', DueIsUnsearched(w)',
         \A r \in Runs : Scheduled(r)' => OnItsWay(w, r)'
  PROVE  DayOn(w)'
<1>0. TypeOK /\ DayOn(w)
  BY DEF DayInv, OverlapInv
<1>1. \A r \in Runs : Scheduled(r)' => Scheduled(r)
  BY DEF Scheduled, RowKept
<1>2. OneADay'
  BY <1>0, <1>1 DEF DayOn, OneADay, Scheduled, RowKept
<1>3. ASSUME NEW r \in Runs, Scheduled(r)' PROVE DoneIsStamped(r)'
  <2>1. DoneIsStamped(r) /\ RowKept(r)
    BY <1>0, <1>1, <1>3 DEF DayOn
  <2>2. run[r].day \in Int /\ clock.day \in Int /\ clock'.day \in Int
    BY <1>0 DEF TypeOK, Run
  <2>3. run'[r].scout \in Scouts /\ run'[r].status # "ABSENT"
    BY <2>1 DEF DoneIsStamped, RowKept, Exists
  <2>4. run'[r].day <= clock'.day
    BY <2>1, <2>2 DEF DoneIsStamped, RowKept
  <2>5. run'[r].status \in Done => run'[r].day <= scout'[run'[r].scout].lastRun
    BY <2>1 DEF DoneIsStamped, RowKept
  <2>6. QED
    BY <2>3, <2>4, <2>5 DEF DoneIsStamped, Exists
<1>4. QED
  BY <1>2, <1>3 DEF DayOn

\* In particular one that leaves the worker alone, and their messages.
LEMMA DayStill ==
  ASSUME NEW w \in Workers, DayInv(w), TypeOK', worker' = worker,
         \A r \in Runs : Scheduled(r)' => RowKept(r) /\ message'[r] = message[r],
         \A r \in Runs : run'[r].status = "RUNNING" => run[r].status = "RUNNING",
         \A s \in Scouts : scout'[s].lastRun = scout[s].lastRun,
         clock.day <= clock'.day,
         RequestsAreManual'
  PROVE  DayOn(w)'
<1>0. TypeOK /\ DayOn(w)
  BY DEF DayInv, OverlapInv
<1>1. RunningIsInHand(w)'
  BY <1>0 DEF DayOn, RunningIsInHand
<1>2. DueIsUnsearched(w)'
  <2>1. \A s \in worker[w].due : s \in Scouts
    BY <1>0, WorkerFields DEF TypeOK
  <2>2. \A s \in Scouts : scout[s].lastRun \in Int
    BY <1>0 DEF TypeOK
  <2>3. clock.day \in Int /\ clock'.day \in Int
    BY <1>0 DEF TypeOK
  <2>4. QED
    BY <1>0, <2>1, <2>2, <2>3 DEF DayOn, DueIsUnsearched
<1>3. ASSUME NEW r \in Runs, Scheduled(r)' PROVE OnItsWay(w, r)'
  <2>1. RowKept(r) /\ message'[r] = message[r] /\ OnItsWay(w, r)
    BY <1>0, <1>3 DEF DayOn, Scheduled, RowKept
  <2>2. QED
    BY <2>1 DEF OnItsWay, RowKept
<1>4. QED
  BY <1>1, <1>2, <1>3, DayKept

\* Time and the API leave the runs of the schedule alone.
LEMMA OutsideDay ==
  ASSUME NEW w \in Workers, DayInv(w), TypeOK', Faults = {}, Passing \/ ApiStep
  PROVE  DayOn(w)'
<1>0. TypeOK /\ DayOn(w) /\ run \in [Runs -> Run]
  BY DEF DayInv, OverlapInv, TypeOK
<1>1. ASSUME \A r \in Runs : RowKept(r) PROVE RequestsAreManual /\ request' = request => RequestsAreManual'
  BY <1>1 DEF RequestsAreManual, RowKept, Scheduled
<1>2. CASE HourComes \/ Midnight
  <2>1. clock.day <= clock'.day /\ UNCHANGED <<scout, run, message, worker, request>>
    BY <1>0, <1>2 DEF HourComes, Midnight, TypeOK
  <2>2. QED
    BY <1>0, <1>1, <2>1, DayStill DEF RowKept, DayOn
<1>3. ASSUME NEW r \in Runs, Age(r) \/ RateLimitPasses(r) PROVE DayOn(w)'
  <2>1. \A x \in Runs : RowKept(x)
    BY <1>0, <1>3 DEF Age, RateLimitPasses, RowKept, Run
  <2>2. clock.day <= clock'.day /\ UNCHANGED <<scout, message, worker, request>>
    BY <1>0, <1>3 DEF Age, RateLimitPasses, TypeOK
  <2>3. QED
    BY <1>0, <1>1, <2>1, <2>2, DayStill DEF RowKept, DayOn
<1>4. ASSUME NEW s \in Scouts, NEW status \in ScoutStatus, UpdateStatus(s, status)
      PROVE  DayOn(w)'
  <2>1. \A x \in Scouts : scout'[x].lastRun = scout[x].lastRun
    BY <1>0, <1>4 DEF UpdateStatus, TypeOK
  <2>2. clock.day <= clock'.day /\ UNCHANGED <<run, message, worker, request>>
    BY <1>0, <1>4 DEF UpdateStatus, TypeOK
  <2>3. QED
    BY <1>0, <1>1, <2>1, <2>2, DayStill DEF RowKept, DayOn
<1>5. ASSUME NEW q \in Requests, NEW s \in Scouts, RunNow(q, s) PROVE DayOn(w)'
  <2>1. \A p \in Requests : request'[p].run \in {request[p].run, None}
    BY <1>0, <1>5 DEF RunNow, TypeOK, RequestState
  <2>2. clock.day <= clock'.day /\ UNCHANGED <<scout, run, message, worker>>
    BY <1>0, <1>5 DEF RunNow, TypeOK
  <2>3. RequestsAreManual'
    BY <1>0, <2>1, <2>2, ScoutAssumption DEF DayOn, RequestsAreManual, Scheduled
  <2>4. QED
    BY <2>2, <2>3, DayStill DEF RowKept
<1>6. ASSUME NEW q \in Requests, RunNowCommit(q) PROVE DayOn(w)'
  <2>1. PICK r \in AbsentRuns :
          /\ run' = [run EXCEPT ![r] = NewRun(request[q].scout, 0)]
          /\ request' = [request EXCEPT ![q].pc = "send", ![q].run = r]
    BY <1>6 DEF RunNowCommit
  <2>2. run'[r].day = 0 /\ run'[r].status = "PENDING" /\ \A x \in Runs \ {r} : run'[x] = run[x]
    BY <1>0, <2>1 DEF AbsentRuns, NewRun
  <2>3. \A p \in Requests : request'[p].run \in {request[p].run, r}
    BY <1>0, <2>1 DEF TypeOK, RequestState
  <2>4. ~Scheduled(r)'
    BY <2>2 DEF Scheduled
  <2>5. RequestsAreManual'
    BY <1>0, <2>2, <2>3, <2>4 DEF DayOn, RequestsAreManual, Scheduled
  <2>6. clock.day <= clock'.day /\ UNCHANGED <<scout, message, worker>>
    BY <1>0, <1>6 DEF RunNowCommit, TypeOK
  <2>7. QED
    BY <2>2, <2>4, <2>5, <2>6, DayStill DEF RowKept
<1>7. ASSUME NEW q \in Requests, RunNowSend(q) PROVE DayOn(w)'
  <2>1. \A p \in Requests : request'[p].run \in {request[p].run, None}
    BY <1>0, <1>7 DEF RunNowSend, TypeOK, RequestState, IdleRequest
  <2>2. clock.day <= clock'.day /\ UNCHANGED <<scout, run, worker>>
    BY <1>0, <1>7 DEF RunNowSend, TypeOK
  <2>3. RequestsAreManual'
    BY <1>0, <2>1, <2>2, ScoutAssumption DEF DayOn, RequestsAreManual, Scheduled
  <2>4. \A r \in Runs : Scheduled(r) => message'[r] = message[r]
    BY <1>0, <1>7 DEF RunNowSend, TypeOK, DayOn, RequestsAreManual
  <2>5. QED
    BY <2>2, <2>3, <2>4, DayStill DEF RowKept, Scheduled
<1>8. ASSUME NEW q \in Requests PROVE ~RunNowSendFails(q)
  BY DEF RunNowSendFails
<1>9. QED
  BY <1>2, <1>3, <1>4, <1>5, <1>6, <1>7, <1>8 DEF Passing, ApiStep

\* The runs as they were, but for the one in hand; no request is answered.
LEMMA DayWorked ==
  ASSUME NEW w \in Workers, DayInv(w), TypeOK', UNCHANGED <<run, scout, clock, request>>,
         worker'[w].pc # "create",
         RunningIsInHand(w)',
         \A r \in Runs : Scheduled(r) => OnItsWay(w, r)'
  PROVE  DayOn(w)'
<1>1. RequestsAreManual'
  BY DEF DayInv, DayOn, RequestsAreManual, Scheduled
<1>2. clock.day <= clock'.day
  BY DEF DayInv, OverlapInv, TypeOK
<1>3. QED
  BY <1>1, <1>2, DayKept DEF RowKept, DueIsUnsearched, Scheduled

\* The end of a record, where what the worker had in hand is not PENDING.
LEMMA DayEnded ==
  ASSUME NEW w \in Workers, DayInv(w), EndRecord(w), message' = message,
         worker[w].pc \in {"check", "start", "fanout", "send"},
         NEW r \in Runs, Scheduled(r), run'[r].status \in {run[r].status, "FAILED"} \cup Done,
         r # worker[w].run => run'[r].status = run[r].status,
         r = worker[w].run => run'[r].status # "PENDING"
  PROVE  OnItsWay(w, r)'
<1>0. TypeOK /\ OnItsWay(w, r) /\ worker[w] \in WorkerState
  BY DEF DayInv, DayOn, OverlapInv, TypeOK
<1>1. /\ worker'[w].pc = "next" /\ worker'[w].run = None /\ worker'[w].created = {}
      /\ worker'[w].todo = worker[w].todo
  BY <1>0, EndRecordMoves
<1>11. worker'[w].batch = worker[w].batch
  BY <1>0 DEF EndRecord, Resting, TypeOK
<1>2. r # None
  BY ScoutAssumption
<1>3. r \in worker[w].todo => r # worker[w].run
  BY <1>0 DEF OnItsWay
<1>4. message[r] # "visible" /\ r \notin worker[w].created
  BY <1>0 DEF OnItsWay
<1>5. QED
  BY <1>0, <1>1, <1>11, <1>2, <1>3, <1>4 DEF OnItsWay, Dispatching

\* The dispatch of a run keeps them on their way.
LEMMA DispatchDay ==
  ASSUME NEW w \in Workers, DayInv(w), TypeOK', Faults = {}, DispatchStep(w)
  PROVE  DayOn(w)'
<1> DEFINE r == worker[w].run
<1>0. /\ TypeOK /\ DayOn(w) /\ HasRun(w) /\ worker[w] \in WorkerState
      /\ run \in [Runs -> Run] /\ worker \in [Workers -> WorkerState]
  BY DEF DayInv, OverlapInv, TypeOK
<1>00. /\ RunningIsInHand(w) /\ OneADay /\ RequestsAreManual
       /\ \A x \in Runs : Scheduled(x) => OnItsWay(w, x) /\ DoneIsStamped(x)
  BY <1>0 DEF DayOn
<1>1. ASSUME NEW x \in Runs, Load(w, x) PROVE DayOn(w)'
  <2>1. /\ worker[w].pc = "next" /\ x \in worker[w].todo
        /\ UNCHANGED <<run, scout, clock, request, message>>
        /\ worker'[w].pc = "check" /\ worker'[w].run = x /\ worker'[w].seen = run[x].status
        /\ worker'[w].todo = worker[w].todo \ {x} /\ worker'[w].batch = worker[w].batch
        /\ worker'[w].created = worker[w].created
    BY <1>0, <1>1 DEF Load, WorkerState
  <2>2. RunningIsInHand(w)'
    BY <1>00, <2>1 DEF RunningIsInHand
  <2>3. ASSUME NEW y \in Runs, Scheduled(y) PROVE OnItsWay(w, y)'
    <3>1. OnItsWay(w, y)
      BY <1>00, <2>3
    <3>2. QED
      BY <2>1, <3>1 DEF OnItsWay, Dispatching
  <2>4. QED
    BY <2>1, <2>2, <2>3, DayWorked
<1>2. ASSUME NEW pc \in {"start", "send"}, UNCHANGED <<run, scout, clock, request, message>>,
             worker[w].pc = IF pc = "start" THEN "check" ELSE worker[w].pc,
             pc = "send" => worker[w].pc \in {"fanout", "send"},
             worker'[w].pc = pc, worker'[w].run = r, worker'[w].seen = worker[w].seen,
             worker'[w].batch = worker[w].batch, worker'[w].todo = worker[w].todo,
             worker'[w].created = worker[w].created
      PROVE  DayOn(w)'
  <2>1. RunningIsInHand(w)'
    BY <1>00, <1>2 DEF RunningIsInHand
  <2>2. ASSUME NEW y \in Runs, Scheduled(y) PROVE OnItsWay(w, y)'
    <3>1. OnItsWay(w, y)
      BY <1>00, <2>2
    <3>2. QED
      BY <1>2, <3>1 DEF OnItsWay, Dispatching
  <2>3. QED
    BY <1>2, <2>1, <2>2, DayWorked
<1>3. CASE Check(w)
  <2>1. worker[w].pc = "check" /\ UNCHANGED <<scout, clock, request, message>>
    BY <1>3 DEF Check
  <2>2. \A x \in Runs : run[x].status # "RUNNING"
    BY <1>00, <2>1 DEF RunningIsInHand
  <2>3. \A s : RunningRuns(s) = {} /\ LiveRuns(s) = {}
    BY <2>2 DEF RunningRuns, LiveRuns
  <2>4. run' = run
    <3>1. run' = Closed({})
      BY <1>3, <2>3 DEF Check
    <3>2. QED
      BY <1>0, <3>1 DEF Closed
  <2>5. worker' = [worker EXCEPT ![w].pc = "start"]
    BY <1>3, <2>3 DEF Check
  <2>6. /\ worker'[w].pc = "start" /\ worker'[w].run = r /\ worker'[w].seen = worker[w].seen
        /\ worker'[w].batch = worker[w].batch /\ worker'[w].todo = worker[w].todo
        /\ worker'[w].created = worker[w].created
    BY <1>0, <2>5 DEF WorkerState
  <2>7. QED
    BY <1>2, <2>1, <2>4, <2>6
<1>4. ASSUME NEW enabled \in SUBSET Sites, FanOut(w, enabled) PROVE DayOn(w)'
  <2>1. /\ worker[w].pc = "fanout" /\ UNCHANGED <<run, scout, clock, request, message>>
        /\ worker'[w].pc = "send" /\ worker'[w].run = r /\ worker'[w].seen = worker[w].seen
        /\ worker'[w].batch = worker[w].batch /\ worker'[w].todo = worker[w].todo
        /\ worker'[w].created = worker[w].created
    BY <1>0, <1>4 DEF FanOut, WorkerState
  <2>2. QED
    BY <1>2, <2>1
<1>5. ASSUME NEW k \in Sites, SendJob(w, k) PROVE DayOn(w)'
  <2>1. /\ worker[w].pc = "send" /\ UNCHANGED <<run, scout, clock, request, message>>
        /\ worker'[w].pc = "send" /\ worker'[w].run = r /\ worker'[w].seen = worker[w].seen
        /\ worker'[w].batch = worker[w].batch /\ worker'[w].todo = worker[w].todo
        /\ worker'[w].created = worker[w].created
    BY <1>0, <1>5 DEF SendJob, WorkerState
  <2>2. QED
    BY <1>2, <2>1
<1>6. CASE DeleteBatch(w)
  <2>1. /\ worker[w].pc = "next" /\ worker[w].todo = {}
        /\ UNCHANGED <<run, scout, clock, request>>
        /\ \A x \in Runs : message'[x] = IF x \in worker[w].batch THEN "none" ELSE message[x]
        /\ worker'[w].pc = "tick" /\ worker'[w].run = None
        /\ worker'[w].todo = {} /\ worker'[w].created = {}
    BY <1>0, <1>6 DEF DeleteBatch, Resting
  <2>2. RunningIsInHand(w)'
    BY <1>00, <2>1 DEF RunningIsInHand
  <2>3. ASSUME NEW y \in Runs, Scheduled(y) PROVE OnItsWay(w, y)'
    <3>1. OnItsWay(w, y) /\ message[y] \in {"none", "visible", "inflight"}
      BY <1>0, <1>00, <2>3 DEF TypeOK
    <3>2. message'[y] = "none"
      BY <2>1, <3>1 DEF OnItsWay
    <3>3. run[y].status # "PENDING"
      BY <2>1, <3>1 DEF OnItsWay
    <3>4. QED
      BY <2>1, <3>2, <3>3 DEF OnItsWay
  <2>4. QED
    BY <2>1, <2>2, <2>3, DayWorked
<1>7. ASSUME worker[w].pc \in {"start", "send"}, NEW status \in RunStatus,
             status # "RUNNING", Scheduled(r) => status \in {"FAILED"} \cup Done,
             run' = [run EXCEPT ![r].status = status], EndRecord(w),
             UNCHANGED <<clock, request, message>>,
             scout' = scout \/ scout' = [scout EXCEPT ![run[r].scout].lastRun = clock.day],
             status \in Done /\ Scheduled(r) => run[r].day <= scout'[run[r].scout].lastRun,
             Scheduled(r) => run[r].status # "FAILED"
      PROVE  DayOn(w)'
  <2>0. r \in Runs
    BY <1>0, <1>7 DEF HasRun
  <2>1. /\ run'[r].status = status /\ run'[r].scout = run[r].scout /\ run'[r].day = run[r].day
        /\ \A x \in Runs \ {r} : run'[x] = run[x]
    BY <1>0, <1>7, <2>0 DEF Run
  <2>2. worker'[w].pc = "next"
    BY <1>0, <1>7, EndRecordMoves
  <2>3. \A x \in Runs : Scheduled(x)' <=> Scheduled(x)
    BY <2>1 DEF Scheduled
  <2>4. RunningIsInHand(w)'
    BY <1>00, <1>7, <2>0, <2>1, <2>2 DEF RunningIsInHand
  <2>5. DueIsUnsearched(w)' /\ RequestsAreManual'
    BY <1>00, <1>7, <2>2, <2>3 DEF DueIsUnsearched, RequestsAreManual
  <2>6. OneADay'
    <3>1. \A x \in Runs : Scheduled(x) /\ run'[x].status # "FAILED" => run[x].status # "FAILED"
      BY <1>7, <2>1
    <3>2. \A x \in Runs : run'[x].scout = run[x].scout /\ run'[x].day = run[x].day
      BY <2>1
    <3>3. QED
      BY <1>00, <3>1, <3>2 DEF OneADay, Scheduled
  <2>7. ASSUME NEW x \in Runs, Scheduled(x) PROVE DoneIsStamped(x)'
    <3>1. DoneIsStamped(x) /\ run[x].scout \in Scouts /\ run[x].day <= clock.day
      BY <1>00, <2>7 DEF DoneIsStamped
    <3>2. run[x].day \in Int /\ clock.day \in Int /\ scout[run[x].scout].lastRun \in Int
      BY <1>0, <3>1 DEF TypeOK, Run
    <3>3. scout'[run[x].scout].lastRun \in {scout[run[x].scout].lastRun, clock.day}
      <4>1. scout \in [Scouts -> [status : ScoutStatus, lastRun : 0..MaxDays]]
        BY <1>0 DEF TypeOK
      <4>2. CASE scout' = scout
        BY <4>2
      <4>3. CASE scout' = [scout EXCEPT ![run[r].scout].lastRun = clock.day]
        BY <3>1, <4>1, <4>3
      <4>4. QED
        BY <1>7, <4>2, <4>3
    <3>4. CASE x = r
      <4>1. /\ run'[x].status = status /\ run'[x].scout = run[x].scout /\ run'[x].day = run[x].day
            /\ status \in {"FAILED"} \cup Done
            /\ status \in Done => run[x].day <= scout'[run[x].scout].lastRun
        BY <1>7, <2>1, <2>7, <3>4
      <4>2. status # "ABSENT"
        BY <4>1 DEF Done
      <4>3. QED
        BY <1>7, <3>1, <4>1, <4>2 DEF DoneIsStamped, Exists
    <3>5. CASE x # r
      <4>1. run'[x] = run[x]
        BY <2>1, <3>5
      <4>2. run[x].status \in Done => run[x].day <= scout'[run[x].scout].lastRun
        BY <3>1, <3>2, <3>3 DEF DoneIsStamped
      <4>3. QED
        BY <1>7, <3>1, <4>1, <4>2 DEF DoneIsStamped, Exists
    <3>6. QED
      BY <3>4, <3>5
  <2>8. ASSUME NEW x \in Runs, Scheduled(x) PROVE OnItsWay(w, x)'
    <3>1. run'[x].status \in {run[x].status, "FAILED"} \cup Done
      BY <1>7, <2>1, <2>8
    <3>2. /\ x # r => run'[x].status = run[x].status
          /\ x = r => run'[x].status # "PENDING"
      BY <1>7, <2>1, <2>8 DEF Done
    <3>3. QED
      BY <1>7, <2>8, <3>1, <3>2, DayEnded
  <2>9. QED
    BY <2>3, <2>4, <2>5, <2>6, <2>7, <2>8 DEF DayOn
<1>8. CASE Start(w)
  <2>1. /\ worker[w].pc = "start" /\ r \in Runs /\ UNCHANGED <<scout, clock, request, message>>
        /\ run[r].status # "RUNNING"
    BY <1>0, <1>00, <1>8 DEF Start, HasRun, RunningIsInHand
  <2>2. Scheduled(r) => OnItsWay(w, r) /\ run[r].status = "PENDING" /\ worker[w].seen = "PENDING"
    BY <1>00, <2>1 DEF OnItsWay
  <2>3. run[r].status \in RunStatus
    BY <1>0, <2>1 DEF Run
  <2>4. CASE /\ run' = [run EXCEPT ![r].status =
                          IF worker[w].seen = "FAILED" THEN run[r].status ELSE "FAILED"]
             /\ EndRecord(w)
    <3> DEFINE status == IF worker[w].seen = "FAILED" THEN run[r].status ELSE "FAILED"
    <3>1. status \in RunStatus /\ status # "RUNNING" /\ (Scheduled(r) => status = "FAILED")
      BY <2>1, <2>2, <2>3 DEF RunStatus
    <3>2. run' = [run EXCEPT ![r].status = status]
      BY <2>4
    <3> HIDE DEF status
    <3>3. status \in Done /\ Scheduled(r) => run[r].day <= scout'[run[r].scout].lastRun
      BY <3>1 DEF Done
    <3>4. QED
      BY <1>7, <2>1, <2>2, <2>4, <3>1, <3>2, <3>3
  <2>5. CASE /\ run' = [run EXCEPT ![r].status =
                          IF worker[w].seen = "RUNNING" THEN run[r].status ELSE "RUNNING",
                          ![r].old = FALSE]
             /\ worker' = [worker EXCEPT ![w].pc = "fanout"]
    <3> DEFINE status == IF worker[w].seen = "RUNNING" THEN run[r].status ELSE "RUNNING"
    <3>1. Scheduled(r) => status = "RUNNING"
      BY <2>2
    <3>2. run' = [run EXCEPT ![r].status = status, ![r].old = FALSE]
      BY <2>5
    <3> HIDE DEF status
    <3>3. /\ run'[r].status = status /\ run'[r].scout = run[r].scout /\ run'[r].day = run[r].day
          /\ \A x \in Runs \ {r} : run'[x] = run[x]
      BY <1>0, <2>1, <3>2 DEF Run
    <3>4. /\ worker'[w].pc = "fanout" /\ worker'[w].run = r /\ worker'[w].seen = worker[w].seen
          /\ worker'[w].batch = worker[w].batch /\ worker'[w].todo = worker[w].todo
          /\ worker'[w].created = worker[w].created
      BY <1>0, <2>5 DEF WorkerState
    <3>5. RunningIsInHand(w)'
      BY <1>00, <2>1, <3>3, <3>4 DEF RunningIsInHand
    <3>6. \A x \in Runs : run'[x].scout = run[x].scout /\ run'[x].day = run[x].day
      BY <3>3
    <3>7. \A x \in Runs : Scheduled(x) /\ run'[x].status # "FAILED" => run[x].status # "FAILED"
      BY <2>2, <3>3
    <3>8. OneADay' /\ RequestsAreManual' /\ DueIsUnsearched(w)'
      BY <1>00, <2>1, <3>4, <3>6, <3>7 DEF OneADay, RequestsAreManual, DueIsUnsearched, Scheduled
    <3>9. ASSUME NEW x \in Runs, Scheduled(x)
          PROVE  OnItsWay(w, x)' /\ DoneIsStamped(x)'
      <4>1. OnItsWay(w, x) /\ DoneIsStamped(x)
        BY <1>00, <3>9
      <4>2. CASE x = r
        BY <2>1, <2>2, <3>1, <3>3, <3>4, <3>9, <4>1, <4>2
        DEF OnItsWay, DoneIsStamped, Dispatching, Exists, Done
      <4>3. CASE x # r
        BY <2>1, <3>3, <3>4, <4>1, <4>3 DEF OnItsWay, DoneIsStamped, Dispatching, Exists
      <4>4. QED
        BY <4>2, <4>3
    <3>10. QED
      BY <3>5, <3>6, <3>8, <3>9 DEF DayOn, Scheduled
  <2>6. QED
    BY <1>8, <2>4, <2>5 DEF Start
<1>9. CASE Finish(w)
  <2> DEFINE status == IF worker[w].sites = {} THEN "FAILED"
                       ELSE IF worker[w].sites # Sites THEN "PARTIALLY_COMPLETED" ELSE "COMPLETED"
  <2>1. /\ worker[w].pc = "send" /\ r \in Runs /\ UNCHANGED <<clock, request, message>>
        /\ scout' = [scout EXCEPT ![run[r].scout].lastRun = clock.day]
        /\ EndRecord(w)
    BY <1>0, <1>9 DEF Finish, HasRun
  <2>2. run' = [run EXCEPT ![r].status = status]
    BY <1>9 DEF Finish
  <2>3. status \in {"FAILED"} \cup Done /\ status \in RunStatus /\ status # "RUNNING"
    BY DEF Done, RunStatus
  <2> HIDE DEF status
  <2>4. Scheduled(r) => DoneIsStamped(r) /\ OnItsWay(w, r)
    BY <1>00, <2>1
  <2>5. Scheduled(r) => run[r].status # "FAILED"
    BY <2>1, <2>4 DEF OnItsWay
  <2>6. Scheduled(r) => run[r].day <= scout'[run[r].scout].lastRun
    BY <1>0, <2>1, <2>4 DEF DoneIsStamped, TypeOK
  <2>7. QED
    BY <1>7, <2>1, <2>2, <2>3, <2>5, <2>6
<1>10. QED
  BY <1>1, <1>3, <1>4, <1>5, <1>6, <1>8, <1>9 DEF DispatchStep

\* A tick makes one run for each Scout it found due.
LEMMA OneRunEach ==
  ASSUME NEW due, NEW new, IsFiniteSet(new), NEW owner \in [new -> due],
         Cardinality(new) = Cardinality(due),
         \A s \in due : \E r \in new : owner[r] = s
  PROVE  \A r, x \in new : owner[r] = owner[x] => r = x
<1>1. owner \in Surjection(new, due)
  BY DEF Surjection
<1>2. owner \in Injection(new, due)
  BY <1>1, FS_Surjection
<1>3. QED
  BY <1>2 DEF Injection, IsInjective

\* So do the polls and the tick.
LEMMA LoopDay ==
  ASSUME NEW w \in Workers, DayInv(w), TypeOK', Faults = {}, FitsOneBatch,
         Poll(w) \/ TickStep(w) \/ NoTick(w)
  PROVE  DayOn(w)'
<1>0. /\ TypeOK /\ DayOn(w) /\ ReferencedExist /\ worker[w] \in WorkerState
      /\ run \in [Runs -> Run] /\ worker \in [Workers -> WorkerState]
      /\ message \in [Runs -> {"none", "visible", "inflight"}]
  BY DEF DayInv, OverlapInv, TypeOK
<1>00. /\ RunningIsInHand(w) /\ OneADay /\ RequestsAreManual
       /\ \A x \in Runs : Scheduled(x) => OnItsWay(w, x) /\ DoneIsStamped(x)
  BY <1>0 DEF DayOn
<1>1. ASSUME NEW batch \in SUBSET Runs, Receive(w, batch) PROVE DayOn(w)'
  <2>1. batch = Visible
    <3>1. IsFiniteSet(Visible)
      BY FS_Subset, ScoutAssumption DEF Visible
    <3>2. Cardinality(batch) <= Cardinality(Visible) /\ Cardinality(batch) \in Nat
          /\ Cardinality(Visible) \in Nat
          /\ (Cardinality(Visible) = Cardinality(batch) => Visible = batch)
      BY <1>1, <3>1, FS_Subset, FS_CardinalityType DEF Receive
    <3>3. BatchSize \in Nat
      BY ScoutAssumption
    <3>4. QED
      BY <1>1, <3>2, <3>3 DEF Receive, FitsOneBatch
  <2>2. /\ worker[w].pc = "poll" /\ UNCHANGED <<run, scout, clock, request>>
        /\ \A x \in Runs : message'[x] = IF x \in batch THEN "inflight" ELSE message[x]
        /\ worker'[w].pc = "next" /\ worker'[w].run = None /\ worker'[w].created = {}
        /\ worker'[w].batch = batch /\ worker'[w].todo = batch
    BY <1>0, <1>1 DEF Receive, Resting
  <2>3. RunningIsInHand(w)'
    BY <1>00, <2>2 DEF RunningIsInHand
  <2>4. ASSUME NEW y \in Runs, Scheduled(y) PROVE OnItsWay(w, y)'
    <3>1. OnItsWay(w, y) /\ message[y] \in {"none", "visible", "inflight"} /\ y # None
      BY <1>0, <1>00, <2>4, ScoutAssumption
    <3>2. CASE y \in batch
      BY <2>1, <2>2, <3>1, <3>2 DEF OnItsWay, Dispatching, Visible
    <3>3. CASE y \notin batch
      <4>1. message'[y] = "none"
        BY <2>1, <2>2, <3>1, <3>3 DEF OnItsWay, Dispatching, Visible
      <4>2. run[y].status # "PENDING"
        BY <2>1, <2>2, <3>1, <3>3 DEF OnItsWay, Dispatching, Visible
      <4>3. QED
        BY <2>2, <3>3, <4>1, <4>2 DEF OnItsWay
    <3>4. QED
      BY <3>2, <3>3
  <2>5. QED
    BY <2>2, <2>3, <2>4, DayWorked
<1>2. CASE PollEmpty(w)
  <2>1. /\ worker[w].pc = "poll" /\ Visible = {}
        /\ UNCHANGED <<run, scout, clock, request, message>>
        /\ worker'[w].pc = "tick" /\ worker'[w].run = worker[w].run
        /\ worker'[w].created = worker[w].created /\ worker'[w].todo = worker[w].todo
    BY <1>0, <1>2 DEF PollEmpty, WorkerState
  <2>2. RunningIsInHand(w)'
    BY <1>00, <2>1 DEF RunningIsInHand
  <2>3. ASSUME NEW y \in Runs, Scheduled(y) PROVE OnItsWay(w, y)'
    <3>1. OnItsWay(w, y) /\ message[y] \in {"none", "visible", "inflight"}
      BY <1>0, <1>00, <2>3
    <3>2. message[y] = "none"
      BY <2>1, <3>1 DEF OnItsWay, Dispatching, Visible
    <3>3. QED
      BY <2>1, <3>1, <3>2 DEF OnItsWay, Dispatching
  <2>4. QED
    BY <2>1, <2>2, <2>3, DayWorked
<1>3. ASSUME worker[w].pc = "tick", UNCHANGED <<run, message>>,
             worker'[w].pc \in {"poll", "create"}, worker'[w].run = None,
             worker'[w].created = {}, worker'[w].todo = {}
      PROVE  /\ RunningIsInHand(w)'
             /\ \A y \in Runs : Scheduled(y) => OnItsWay(w, y)'
  <2>1. RunningIsInHand(w)'
    BY <1>00, <1>3 DEF RunningIsInHand
  <2>2. ASSUME NEW y \in Runs, Scheduled(y) PROVE OnItsWay(w, y)'
    <3>1. OnItsWay(w, y) /\ message[y] \in {"none", "visible", "inflight"}
      BY <1>0, <1>00, <2>2
    <3>2. message[y] = "none" /\ run[y].status # "PENDING"
      BY <1>3, <3>1 DEF OnItsWay, Dispatching
    <3>3. QED
      BY <1>3, <3>2 DEF OnItsWay
  <2>3. QED
    BY <2>1, <2>2
<1>4. CASE NoTick(w)
  <2>1. /\ worker[w].pc = "tick" /\ UNCHANGED <<run, scout, clock, request, message>>
        /\ worker'[w].pc = "poll" /\ worker'[w].run = None
        /\ worker'[w].created = {} /\ worker'[w].todo = {}
    BY <1>0, <1>4 DEF NoTick, Resting
  <2>2. QED
    BY <1>3, <2>1, DayWorked
<1>5. CASE TickRead(w)
  <2> DEFINE due == {s \in Scouts : IsDue(s)}
             unsearched == {s \in due : LiveRuns(s) = {}}
  <2>1. /\ worker[w].pc = "tick" /\ UNCHANGED <<scout, clock, request, message>>
        /\ run' = Closed({r \in Runs : run[r].scout \in due /\ IsStale(r)})
        /\ worker' = [worker EXCEPT ![w] = [Resting EXCEPT !.pc = "create", !.due = unsearched]]
    BY <1>5 DEF TickRead
  <2>2. run' = run
    <3>1. \A r \in Runs : ~IsStale(r)
      BY <1>00, <2>1 DEF RunningIsInHand, IsStale
    <3>2. run' = Closed({})
      BY <2>1, <3>1
    <3>3. QED
      BY <1>0, <3>2 DEF Closed
  <2>3. \A s \in unsearched : scout[s].lastRun < clock.day
    BY DEF IsDue
  <2> HIDE DEF unsearched
  <2>4. /\ worker'[w].pc = "create" /\ worker'[w].run = None /\ worker'[w].due = unsearched
        /\ worker'[w].created = {} /\ worker'[w].todo = {}
    BY <1>0, <2>1 DEF Resting
  <2>5. DueIsUnsearched(w)'
    BY <2>1, <2>3, <2>4 DEF DueIsUnsearched
  <2>6. RequestsAreManual'
    BY <1>00, <2>1, <2>2 DEF RequestsAreManual, Scheduled
  <2>60. clock.day <= clock'.day
    BY <1>0, <2>1 DEF TypeOK
  <2>7. /\ RunningIsInHand(w)'
        /\ \A y \in Runs : Scheduled(y) => OnItsWay(w, y)'
    BY <1>3, <2>1, <2>2, <2>4
  <2>8. QED
    BY <2>1, <2>2, <2>5, <2>6, <2>60, <2>7, DayKept DEF RowKept, Scheduled
<1>6. CASE TickCommit(w)
  <2> DEFINE due == worker[w].due
  <2>0. PICK new \in SUBSET AbsentRuns : \E owner \in [new -> due] :
          /\ Cardinality(new) = Cardinality(due)
          /\ \A s \in due : \E r \in new : owner[r] = s
          /\ run' = [r \in Runs |-> IF r \in new THEN NewRun(owner[r], clock.day) ELSE run[r]]
          /\ worker' = [worker EXCEPT ![w].pc = "announce", ![w].created = new]
    BY <1>6, Zenon DEF TickCommit
  <2>1. PICK owner \in [new -> due] :
          /\ Cardinality(new) = Cardinality(due)
          /\ \A s \in due : \E r \in new : owner[r] = s
          /\ run' = [r \in Runs |-> IF r \in new THEN NewRun(owner[r], clock.day) ELSE run[r]]
          /\ worker' = [worker EXCEPT ![w].pc = "announce", ![w].created = new]
    BY <2>0
  <2>2. worker[w].pc = "create" /\ UNCHANGED <<scout, clock, request, message>>
    BY <1>6 DEF TickCommit
  <2>3. /\ \A r \in new : /\ r \in Runs /\ ~Exists(r) /\ owner[r] \in due /\ owner[r] \in Scouts
                          /\ run'[r].status = "PENDING" /\ run'[r].scout = owner[r]
                          /\ run'[r].day = clock.day
        /\ \A r \in Runs \ new : run'[r] = run[r]
    <3>1. due \subseteq Scouts
      BY <1>0, WorkerFields
    <3>2. \A r \in new : r \in Runs /\ ~Exists(r) /\ owner[r] \in due
      BY DEF AbsentRuns, Exists
    <3>3. QED
      BY <2>1, <3>1, <3>2 DEF NewRun
  <2>4. \A r, x \in new : owner[r] = owner[x] => r = x
    <3>1. IsFiniteSet(new)
      BY FS_Subset, ScoutAssumption DEF AbsentRuns
    <3>2. QED
      BY <2>1, <3>1, OneRunEach
  <2>5. /\ worker'[w].pc = "announce" /\ worker'[w].created = new
        /\ worker'[w].run = worker[w].run /\ worker'[w].todo = worker[w].todo
    BY <1>0, <2>1 DEF WorkerState
  <2>6. RunningIsInHand(w)' /\ DueIsUnsearched(w)'
    BY <1>00, <2>2, <2>3, <2>5 DEF RunningIsInHand, DueIsUnsearched
  <2>7. RequestsAreManual'
    <3>1. \A q \in Requests, r \in new : request[q].run # r
      BY <1>0, <2>3, ScoutAssumption DEF ReferencedExist
    <3>2. QED
      BY <1>00, <2>2, <2>3, <3>1 DEF RequestsAreManual, Scheduled
  \* Whoever was searched that day was not due.
  <2>8. ASSUME NEW x \in Runs \ new, Scheduled(x), run[x].status # "FAILED",
               run[x].scout \in due
        PROVE  run[x].day # clock.day
    <3>1. OnItsWay(w, x) /\ DoneIsStamped(x)
      BY <1>00, <2>8
    <3>2. run[x].status \in RunStatus /\ message[x] \in {"none", "visible", "inflight"}
      BY <1>0 DEF Run
    <3>3. message[x] = "none"
      BY <2>2, <3>1, <3>2 DEF OnItsWay, Dispatching
    <3>4. run[x].status # "PENDING"
      BY <2>2, <3>1, <3>3 DEF OnItsWay, Dispatching
    <3>5. run[x].status # "RUNNING" /\ run[x].status # "ABSENT"
      BY <1>00, <2>2, <3>1 DEF RunningIsInHand, DoneIsStamped, Exists
    <3>6. run[x].status \in Done
      BY <2>8, <3>2, <3>4, <3>5 DEF RunStatus, Done
    <3>7. run[x].day <= scout[run[x].scout].lastRun /\ scout[run[x].scout].lastRun < clock.day
      BY <1>0, <2>2, <2>8, <3>1, <3>6 DEF DoneIsStamped, DayOn, DueIsUnsearched
    <3>8. run[x].day \in Int /\ clock.day \in Int /\ scout[run[x].scout].lastRun \in Int
      BY <1>0, <3>1 DEF DoneIsStamped, TypeOK, Run
    <3>9. QED
      BY <3>7, <3>8
  <2>9. OneADay'
    <3>1. SUFFICES ASSUME NEW r \in Runs, NEW x \in Runs, run'[r].day > 0,
                          run'[r].scout = run'[x].scout, run'[r].day = run'[x].day,
                          run'[r].status # "FAILED", run'[x].status # "FAILED", r # x
                   PROVE  FALSE
      BY DEF OneADay, Scheduled
    <3>2. CASE r \in new /\ x \in new
      BY <2>3, <2>4, <3>1, <3>2
    <3>3. CASE r \in new /\ x \notin new
      BY <2>3, <2>8, <3>1, <3>3 DEF Scheduled
    <3>4. CASE r \notin new /\ x \in new
      BY <2>3, <2>8, <3>1, <3>4 DEF Scheduled
    <3>5. CASE r \notin new /\ x \notin new
      BY <1>00, <2>3, <3>1, <3>5 DEF OneADay, Scheduled
    <3>6. QED
      BY <3>2, <3>3, <3>4, <3>5
  <2>10. ASSUME NEW r \in Runs, Scheduled(r)' PROVE OnItsWay(w, r)' /\ DoneIsStamped(r)'
    <3>1. CASE r \in new
      <4>1. message[r] = "none" /\ r \notin worker[w].todo /\ clock.day \in Int
        BY <1>0, <2>3, <3>1 DEF ReferencedExist, TypeOK
      <4>2. run'[r].scout \in Scouts /\ run'[r].day <= clock.day /\ run'[r].status = "PENDING"
        BY <2>3, <3>1, <4>1
      <4>3. QED
        BY <2>2, <2>5, <3>1, <4>1, <4>2 DEF OnItsWay, DoneIsStamped, Dispatching, Exists, Done
    <3>2. CASE r \notin new
      <4>1. run'[r] = run[r] /\ Scheduled(r) /\ OnItsWay(w, r) /\ DoneIsStamped(r)
        BY <1>00, <2>3, <2>10, <3>2 DEF Scheduled
      <4>2. QED
        BY <2>2, <2>5, <3>2, <4>1 DEF OnItsWay, DoneIsStamped, Dispatching, Exists
    <3>3. QED
      BY <3>1, <3>2
  <2>11. QED
    BY <2>6, <2>7, <2>9, <2>10 DEF DayOn
<1>7. CASE TickSend(w)
  <2>1. worker[w].pc = "announce" /\ UNCHANGED <<run, scout, clock, request>>
    BY <1>7 DEF TickSend
  <2>2. CASE worker[w].created = {} /\ worker' = [worker EXCEPT ![w] = Resting] /\ UNCHANGED message
    <3>1. /\ worker'[w].pc = "poll" /\ worker'[w].run = None
          /\ worker'[w].created = {} /\ worker'[w].todo = {}
      BY <1>0, <2>2 DEF Resting
    <3>2. RunningIsInHand(w)'
      BY <1>00, <2>1 DEF RunningIsInHand
    <3>3. ASSUME NEW y \in Runs, Scheduled(y) PROVE OnItsWay(w, y)'
      <4>1. OnItsWay(w, y)
        BY <1>00, <3>3
      <4>2. QED
        BY <2>1, <2>2, <3>1, <4>1 DEF OnItsWay, Dispatching
    <3>4. QED
      BY <2>1, <3>1, <3>2, <3>3, DayWorked
  <2>3. ASSUME NEW r \in worker[w].created,
               message' = [message EXCEPT ![r] = "visible"],
               worker' = [worker EXCEPT ![w].created = @ \ {r}]
        PROVE  DayOn(w)'
    <3>1. /\ worker'[w].pc = "announce" /\ worker'[w].run = worker[w].run
          /\ worker'[w].created = worker[w].created \ {r} /\ worker'[w].todo = worker[w].todo
      BY <1>0, <2>1, <2>3 DEF WorkerState
    <3>2. RunningIsInHand(w)'
      BY <1>00, <2>1 DEF RunningIsInHand
    <3>3. ASSUME NEW y \in Runs, Scheduled(y) PROVE OnItsWay(w, y)'
      <4>1. OnItsWay(w, y) /\ message'[y] = IF y = r THEN "visible" ELSE message[y]
        BY <1>0, <1>00, <2>3, <3>3
      <4>2. QED
        BY <2>1, <2>3, <3>1, <4>1 DEF OnItsWay, Dispatching
    <3>4. QED
      BY <2>1, <3>1, <3>2, <3>3, DayWorked
  <2>4. QED
    BY <1>7, <2>2, <2>3 DEF TickSend
<1>8. QED
  BY <1>1, <1>2, <1>4, <1>5, <1>6, <1>7 DEF Poll, TickStep

LEMMA InitDay == ASSUME NEW w \in Workers PROVE Init => DayOn(w)
<1> SUFFICES ASSUME Init PROVE DayOn(w)
  OBVIOUS
<1>1. \A r \in Runs : run[r].status = "ABSENT" /\ run[r].day = 0
  BY DEF Init, NoRun
<1>2. worker[w].pc = "poll"
  BY DEF Init, Resting
<1>3. QED
  BY <1>1, <1>2 DEF DayOn, RunningIsInHand, OneADay, DueIsUnsearched, RequestsAreManual, Scheduled

\* Every step keeps it while a poll takes every message that waits.
LEMMA NextDay ==
  ASSUME NEW w, Workers = {w}, Faults = {}
  PROVE  DayInv(w) /\ FitsOneBatch /\ [Next]_vars => DayInv(w)'
<1> SUFFICES ASSUME DayInv(w), FitsOneBatch, [Next]_vars PROVE DayOn(w)'
  BY NextOverlap DEF DayInv
<1>0. w \in Workers /\ OverlapInv /\ OverlapInv' /\ TypeOK /\ TypeOK' /\ DayOn(w)
  BY NextOverlap DEF DayInv, OverlapInv
<1>1. CASE Passing \/ ApiStep
  BY <1>0, <1>1, OutsideDay
<1>2. ASSUME NEW v \in Workers, DispatchStep(v) PROVE DayOn(w)'
  BY <1>0, <1>2, DispatchDay
<1>3. ASSUME NEW v \in Workers, Poll(v) \/ TickStep(v) \/ NoTick(v) PROVE DayOn(w)'
  BY <1>0, <1>3, LoopDay
<1>4. ASSUME NEW v \in Workers PROVE ~(SendJobFails(v) \/ TickSendFails(v) \/ WorkerCrash(v))
  BY DEF SendJobFails, TickSendFails, WorkerCrash
<1>5. ASSUME NEW r \in Runs, BecomeVisible(r) PROVE DayOn(w)'
  <2>1. /\ message[r] = "inflight" /\ r \notin worker[w].batch
        /\ UNCHANGED <<scout, run, worker, request, clock>>
        /\ \A x \in Runs \ {r} : message'[x] = message[x]
    BY <1>0, <1>5 DEF BecomeVisible, Held, TypeOK
  <2>2. ~Scheduled(r)
    BY <1>0, <2>1 DEF DayOn, OnItsWay
  <2>3. RequestsAreManual' /\ clock.day <= clock'.day
    BY <1>0, <2>1 DEF DayOn, RequestsAreManual, Scheduled, TypeOK
  <2>4. QED
    BY <1>0, <2>1, <2>2, <2>3, DayStill DEF RowKept, Scheduled
<1>6. ~BrokerRestart
  BY DEF BrokerRestart
<1>7. CASE UNCHANGED vars
  <2>1. RequestsAreManual' /\ clock.day <= clock'.day
    BY <1>0, <1>7 DEF vars, DayOn, RequestsAreManual, Scheduled, TypeOK
  <2>2. QED
    BY <1>0, <1>7, <2>1, DayStill DEF vars, RowKept, Scheduled
<1>8. QED
  BY <1>1, <1>2, <1>3, <1>4, <1>5, <1>6, <1>7 DEF Next

\* A set any two members of which are equal has one at most.
LEMMA AtMostOne ==
  ASSUME NEW S, IsFiniteSet(S), \A x, y \in S : x = y PROVE Cardinality(S) <= 1
<1>1. CASE S = {}
  BY <1>1, FS_EmptySet
<1>2. ASSUME NEW x \in S PROVE Cardinality(S) <= 1
  <2>1. S = {x}
    OBVIOUS
  <2>2. QED
    BY <2>1, FS_Singleton
<1>3. QED
  BY <1>1, <1>2

\* A Scout is searched once a day: of the runs the schedule made for a day one
\* at most is not FAILED, whatever candidates pause, resume and run by hand.
\* One worker runs, nothing fails, and no more messages wait than a poll takes.
THEOREM OneSearchADay ==
  ASSUME NEW w, Workers = {w}, Faults = {}
  PROVE  Spec /\ []FitsOneBatch => []OneRunPerDay
<1>1. Init => DayInv(w)
  BY InitOverlap, InitDay DEF DayInv
<1>2. DayInv(w) /\ FitsOneBatch /\ [Next]_vars => DayInv(w)'
  BY NextDay
<1>3. DayInv(w) => OneRunPerDay
  <2> SUFFICES ASSUME DayInv(w), NEW s \in Scouts, NEW d \in 1..MaxDays
               PROVE  Cardinality({r \in Runs : /\ run[r].scout = s /\ run[r].day = d
                                                /\ run[r].status # "FAILED"}) <= 1
    BY DEF OneRunPerDay
  <2> DEFINE searches == {r \in Runs : /\ run[r].scout = s /\ run[r].day = d
                                       /\ run[r].status # "FAILED"}
  <2>1. IsFiniteSet(searches)
    BY FS_Subset, ScoutAssumption
  <2>2. \A r, x \in searches : r = x
    BY DEF DayInv, DayOn, OneADay, Scheduled
  <2> HIDE DEF searches
  <2>3. Cardinality(searches) <= 1
    BY <2>1, <2>2, AtMostOne
  <2>4. QED
    BY <2>3 DEF searches
<1>4. QED
  BY <1>1, <1>2, <1>3, PTL DEF Spec
=============================================================================
