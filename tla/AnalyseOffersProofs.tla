------------------------- MODULE AnalyseOffersProofs -------------------------
(***************************************************************************)
(* Proofs about AnalyseOffers, for every set of offers, every quota, and   *)
(* every number of jobs, clicks, lost requests and deaths of the worker.   *)
(***************************************************************************)
EXTENDS AnalyseOffers, FiniteSetTheorems, WellFoundedInduction, TLAPS

-----------------------------------------------------------------------------
(* The jobs *)

IsJob(j) == "linked" \in DOMAIN j /\ IsFiniteSet(j.linked)

\* What the queue and the worker name are jobs, and a job links finitely many offers.
JobsInv ==
  /\ \E S : jobs \in Seq(S)
  /\ \A k \in DOMAIN jobs : IsJob(jobs[k])
  /\ intake \in Seq(DOMAIN jobs)
  /\ {"job", "stage", "unsent"} \subseteq DOMAIN worker
  /\ worker = Idle \/ worker.job \in DOMAIN jobs

LEMMA InitJobs == Init => JobsInv
BY DEF Init, JobsInv, Idle

\* A job written over by a job.
LEMMA SetJobKeeps ==
  ASSUME JobsInv, NEW k \in DOMAIN jobs, NEW j, IsJob(j), jobs' = [jobs EXCEPT ![k] = j]
  PROVE  /\ \E S : jobs' \in Seq(S)
         /\ \A i \in DOMAIN jobs' : IsJob(jobs'[i])
         /\ DOMAIN jobs' = DOMAIN jobs
<1> PICK S : jobs \in Seq(S)
  BY DEF JobsInv
<1>1. jobs' \in Seq(S \cup {j})
  OBVIOUS
<1>2. DOMAIN jobs' = DOMAIN jobs
  OBVIOUS
<1>3. \A i \in DOMAIN jobs' : jobs'[i] = jobs[i] \/ jobs'[i] = j
  OBVIOUS
<1>4. QED
  BY <1>1, <1>2, <1>3 DEF JobsInv

\* A sequence may be taken over a larger set, and a member of it added.
LEMMA SeqWider ==
  ASSUME NEW A, NEW B, A \subseteq B, NEW s \in Seq(A), NEW b \in B
  PROVE  s \in Seq(B) /\ Append(s, b) \in Seq(B)
<1>1. s \in Seq(B)
  OBVIOUS
<1>2. QED
  BY <1>1

\* A job that is added, with no offer yet.
LEMMA CreateJobs == ASSUME JobsInv, NEW n \in DOMAIN requests, CreateServed(n) PROVE JobsInv'
<1> PICK S : jobs \in Seq(S)
  BY DEF JobsInv
<1>1. PICK j : IsJob(j) /\ jobs' = Append(jobs, j)
  BY FS_EmptySet DEF CreateServed, IsJob
<1>2. intake' = Append(intake, Len(jobs')) /\ worker' = worker
  BY DEF CreateServed
<1>3. /\ jobs' \in Seq(S \cup {j}) /\ DOMAIN jobs' = DOMAIN jobs \cup {Len(jobs')}
      /\ \A k \in DOMAIN jobs' : jobs'[k] = j \/ (k \in DOMAIN jobs /\ jobs'[k] = jobs[k])
  BY <1>1
<1>4. intake \in Seq(DOMAIN jobs)
  BY DEF JobsInv
<1>5. intake' \in Seq(DOMAIN jobs')
  BY <1>2, <1>3, <1>4, SeqWider
<1>6. QED
  BY <1>1, <1>2, <1>3, <1>5 DEF JobsInv

\* The worker's own steps.
LEMMA WorkJobs == ASSUME JobsInv, Work \/ WorkerRaises \/ WorkerDies PROVE JobsInv'
<1> PICK S : jobs \in Seq(S)
  BY DEF JobsInv
<1> USE DEF Idle
<1>1. CASE TakeJob
  <2> DEFINE k == Head(intake)
             j == [jobs[k] EXCEPT !.status = "RUNNING"]
  <2>1. k \in DOMAIN jobs /\ Tail(intake) \in Seq(DOMAIN jobs)
    BY <1>1 DEF TakeJob, JobsInv
  <2>2. IsJob(j) /\ jobs' = [jobs EXCEPT ![k] = j]
    BY <1>1, <2>1 DEF TakeJob, JobsInv, IsJob
  <2>3. /\ \E T : jobs' \in Seq(T) 
        /\ \A i \in DOMAIN jobs' : IsJob(jobs'[i])
        /\ DOMAIN jobs' = DOMAIN jobs
    BY <2>1, <2>2, SetJobKeeps
  <2>4. worker' = [job |-> k, stage |-> "finding", unsent |-> {}] /\ intake' = Tail(intake)
    BY <1>1 DEF TakeJob
  <2>5. QED
    BY <2>1, <2>3, <2>4 DEF JobsInv
<1>2. ASSUME NEW j, IsJob(j), jobs' = [jobs EXCEPT ![worker.job] = j], worker.job \in DOMAIN jobs,
             intake' = intake, {"job", "stage", "unsent"} \subseteq DOMAIN worker',
             worker' = Idle \/ worker'.job = worker.job
      PROVE  JobsInv'
  BY <1>2, SetJobKeeps DEF JobsInv
<1>3. ASSUME UNCHANGED <<jobs, intake>>, {"job", "stage", "unsent"} \subseteq DOMAIN worker',
             worker' = Idle \/ (worker'.job = worker.job /\ worker # Idle)
      PROVE  JobsInv'
  BY <1>3 DEF JobsInv
<1>4. ASSUME NEW stage, NEW unsent, Step(stage, unsent)
      PROVE  {"job", "stage", "unsent"} \subseteq DOMAIN worker' /\ worker'.job = worker.job
  BY <1>4 DEF Step, JobsInv
<1>5. ASSUME worker # Idle
      PROVE  worker.job \in DOMAIN jobs /\ Current = jobs[worker.job] /\ IsJob(Current)
  BY <1>5 DEF JobsInv, Current
<1>6. CASE FindOffers
  <2>1. worker # Idle
    BY <1>6 DEF FindOffers
  <2>2. IsFiniteSet({Current.url}) /\ \A found \in SUBSET Offers : IsFiniteSet(Current.linked \cup found)
    BY <1>5, <2>1, FS_Singleton, FS_Union, FS_Subset, OffersAssumption DEF IsJob
  <2>3. PICK j : IsJob(j) /\ SetJob(j)
    BY <1>5, <1>6, <2>1, <2>2 DEF FindOffers, IsJob
  <2>4. UNCHANGED intake /\ \E stage : Step(stage, {})
    BY <1>6 DEF FindOffers
  <2>5. QED
    BY <1>2, <1>4, <1>5, <2>1, <2>3, <2>4 DEF SetJob
<1>7. CASE ExtractOffer
  <2>1. worker # Idle /\ UNCHANGED <<jobs, intake>>
    BY <1>7 DEF ExtractOffer
  <2>2. CASE UNCHANGED worker
    BY <2>1, <2>2 DEF JobsInv
  <2>3. CASE Step("listing", {})
    BY <1>3, <1>4, <2>1, <2>3
  <2>4. QED
    BY <1>7, <2>2, <2>3 DEF ExtractOffer
<1>8. CASE Aggregate \/ TellListing
  <2>1. worker # Idle /\ UNCHANGED intake /\ \E stage : Step(stage, {})
    BY <1>8 DEF Aggregate, TellListing
  <2>2. PICK j : IsJob(j) /\ SetJob(j)
    BY <1>5, <1>8, <2>1 DEF Aggregate, TellListing, IsJob
  <2>3. QED
    BY <1>2, <1>4, <1>5, <2>1, <2>2 DEF SetJob
<1>9. CASE CreateAnalyses
  <2>1. worker # Idle /\ UNCHANGED intake /\ \E unsent : Step("sending", unsent)
    BY <1>9 DEF CreateAnalyses
  <2>2. PICK j : IsJob(j) /\ SetJob(j)
    BY <1>5, <1>9, <2>1 DEF CreateAnalyses, IsJob
  <2>3. QED
    BY <1>2, <1>4, <1>5, <2>1, <2>2 DEF SetJob
<1>10. CASE SendAnalysis
  <2>1. worker # Idle /\ UNCHANGED <<jobs, intake>> /\ \E unsent : Step("sending", unsent)
    BY <1>10 DEF SendAnalysis
  <2>2. QED
    BY <1>3, <1>4, <2>1
<1>11. CASE Finish
  BY <1>3, <1>11 DEF Finish
<1>12. CASE WorkerRaises
  <2>1. worker # Idle /\ worker' = Idle /\ UNCHANGED intake
    BY <1>12 DEF WorkerRaises
  <2>2. CASE UNCHANGED jobs
    BY <1>3, <2>1, <2>2
  <2>3. CASE SetJob([Current EXCEPT !.listing = FALSE, !.status = "FAILED"])
    <3>1. IsJob([Current EXCEPT !.listing = FALSE, !.status = "FAILED"])
      BY <1>5, <2>1 DEF IsJob
    <3>2. QED
      BY <1>2, <1>5, <2>1, <2>3, <3>1 DEF SetJob
  <2>4. QED
    BY <1>12, <2>2, <2>3 DEF WorkerRaises
<1>13. CASE WorkerDies
  <2>1. /\ worker.job \in DOMAIN jobs /\ intake' = Append(intake, worker.job) /\ UNCHANGED jobs
        /\ worker' = worker \/ worker' = Idle
    BY <1>5, <1>13 DEF WorkerDies
  <2>2. QED
    BY <2>1 DEF JobsInv
<1>14. QED
  BY <1>1, <1>6, <1>7, <1>8, <1>9, <1>10, <1>11, <1>12, <1>13 DEF Work

LEMMA NextJobs == JobsInv /\ [Next]_vars => JobsInv'
<1> SUFFICES ASSUME JobsInv, [Next]_vars PROVE JobsInv'
  OBVIOUS
<1>1. CASE UNCHANGED <<jobs, intake, worker>>
  BY <1>1 DEF JobsInv
<1>2. CASE Candidate \/ PollJob \/ PollAnalyses \/ AnalysisEnds \/ UNCHANGED vars
  BY <1>1, <1>2 DEF Candidate, SubmitOffer, OpenRow, Rerun, Retry, SubmitSeveral, Leave, OpenDetail,
                    PollJob, PollAnalyses, AnalysisEnds, server, vars
<1>3. ASSUME NEW n \in DOMAIN requests, Serve(n) \/ Answer(n) \/ Lose(n) PROVE JobsInv'
  <2>1. CASE CreateServed(n)
    BY <2>1, CreateJobs
  <2>2. CASE OfferLooked(n) \/ AnalysesLooked(n) \/ DirectCounted(n) \/ DirectServed(n) \/ Lose(n)
    BY <1>1, <2>2 DEF OfferLooked, AnalysesLooked, DirectCounted, DirectServed, Lose, server
  <2>3. CASE Answer(n)
    BY <1>1, <2>3 DEF Answer, ShortcutAnswered, CreateAnswered, DirectAnswered, server
  <2>4. QED
    BY <1>3, <2>1, <2>2, <2>3 DEF Serve
<1>4. QED
  BY <1>2, <1>3, WorkJobs DEF Next

-----------------------------------------------------------------------------
(* One Analysis of an offer in each job *)

\* The inductive invariant: two Analyses of a job are never of one offer.
AnalysesInv ==
  /\ \E S : analyses \in Seq(S)
  /\ \A i \in DOMAIN analyses : {"of", "job"} \subseteq DOMAIN analyses[i]
  /\ OneAnalysisPerOffer

LEMMA InitAnalyses == Init => AnalysesInv
BY DEF Init, AnalysesInv, OneAnalysisPerOffer

\* A finite set is put in an order that names each member once.
LEMMA SetToSeqOrders ==
  ASSUME NEW S, IsFiniteSet(S)
  PROVE  /\ SetToSeq(S) \in Seq(S)
         /\ \A i, j \in DOMAIN SetToSeq(S) : SetToSeq(S)[i] = SetToSeq(S)[j] => i = j
<1>1. Cardinality(S) \in Nat /\ ExistsBijection(1..Cardinality(S), S)
  BY FS_CardinalityType
<1>2. \E f \in [1..Cardinality(S) -> S] : IsInjective(f)
  BY <1>1 DEF ExistsBijection, Bijection, Injection, IsInjective
<1>3. SetToSeq(S) \in [1..Cardinality(S) -> S] /\ IsInjective(SetToSeq(S))
  BY <1>2 DEF SetToSeq
<1>4. QED
  BY <1>1, <1>3 DEF IsInjective

\* A step that leaves of every Analysis its offer and its job.
LEMMA SameOffers ==
  ASSUME AnalysesInv, \E S : analyses' \in Seq(S), DOMAIN analyses' = DOMAIN analyses,
         \A i \in DOMAIN analyses : /\ {"of", "job"} \subseteq DOMAIN analyses'[i]
                                    /\ analyses'[i].of = analyses[i].of
                                    /\ analyses'[i].job = analyses[i].job
  PROVE  AnalysesInv'
BY DEF AnalysesInv, OneAnalysisPerOffer

\* A sequence with one place written over.
LEMMA SeqWrittenOver ==
  ASSUME NEW S, NEW s \in Seq(S), NEW k, NEW b
  PROVE  /\ [s EXCEPT ![k] = b] \in Seq(S \cup {b})
         /\ DOMAIN [s EXCEPT ![k] = b] = DOMAIN s
<1> DEFINE t == [s EXCEPT ![k] = b]
<1>1. Len(s) \in Nat /\ DOMAIN s = 1..Len(s)
  OBVIOUS
<1>2. DOMAIN t = DOMAIN s /\ \A i \in DOMAIN s : t[i] \in S \cup {b}
  OBVIOUS
<1>3. t \in [1..Len(s) -> S \cup {b}]
  BY <1>1, <1>2
<1> HIDE DEF t
<1>4. t \in Seq(S \cup {b}) /\ DOMAIN t = DOMAIN s
  BY <1>1, <1>2, <1>3
<1>5. QED
  BY <1>4 DEF t

\* One field of one Analysis written over: its status, or that it was sent.
LEMMA FieldWritten ==
  ASSUME AnalysesInv, NEW k, NEW a, a = analyses[k],
         NEW b, k \in DOMAIN analyses => DOMAIN b = DOMAIN a /\ b.of = a.of /\ b.job = a.job,
         analyses' = [analyses EXCEPT ![k] = b]
  PROVE  AnalysesInv'
<1> PICK S : analyses \in Seq(S)
  BY DEF AnalysesInv
<1>1. analyses' \in Seq(S \cup {b})
  BY SeqWrittenOver
<1>2. DOMAIN analyses' = DOMAIN analyses
  BY SeqWrittenOver
<1>3. \A i \in DOMAIN analyses : analyses'[i] = IF i = k THEN b ELSE analyses[i]
  OBVIOUS
<1>4. \A i \in DOMAIN analyses : {"of", "job"} \subseteq DOMAIN analyses[i]
  BY DEF AnalysesInv
<1>5. QED
  BY <1>1, <1>2, <1>3, <1>4, SameOffers

\* The Analyses a job makes: one after the other, in an order of the offers chosen.
LEMMA Created ==
  ASSUME JobsInv, AnalysesInv, CreateAnalyses
  PROVE  \E chosen \in SUBSET Unanalysed : \E order \in Seq(chosen) :
           /\ \A i, j \in DOMAIN order : order[i] = order[j] => i = j
           /\ \E S : analyses' \in Seq(S)
           /\ DOMAIN analyses \subseteq DOMAIN analyses'
           /\ \A i \in DOMAIN analyses : analyses'[i] = analyses[i]
           /\ \A i \in DOMAIN analyses' \ DOMAIN analyses :
                \E k \in DOMAIN order : /\ i = Len(analyses) + k
                                        /\ analyses'[i] = NewAnalysis(order[k], worker.job)
<1> PICK S : analyses \in Seq(S)
  BY DEF AnalysesInv
<1>1. worker.job \in DOMAIN jobs /\ IsFiniteSet(Current.linked)
  BY DEF CreateAnalyses, JobsInv, IsJob, Idle, Current
<1>2. PICK chosen \in SUBSET Unanalysed :
        analyses' = analyses \o [k \in DOMAIN SetToSeq(chosen) |->
                                   NewAnalysis(SetToSeq(chosen)[k], worker.job)]
  BY DEF CreateAnalyses
<1>3. IsFiniteSet(chosen)
  BY <1>1, FS_Subset DEF Unanalysed
<1> DEFINE order == SetToSeq(chosen)
           made == [k \in DOMAIN order |-> NewAnalysis(order[k], worker.job)]
           N(o) == NewAnalysis(o, worker.job)
           T == {N(o) : o \in chosen}
<1>4. order \in Seq(chosen) /\ \A i, j \in DOMAIN order : order[i] = order[j] => i = j
  BY <1>3, SetToSeqOrders
<1> HIDE DEF order, N
<1>5. made \in Seq(T) /\ DOMAIN made = DOMAIN order /\ \A k \in DOMAIN order : made[k] = N(order[k])
  BY <1>4 DEF N
<1>6. analyses' = analyses \o made
  BY <1>2 DEF order
<1> HIDE DEF made, T
<1>7. analyses' \in Seq(S \cup T) /\ DOMAIN analyses \subseteq DOMAIN analyses'
  <2>1. analyses \in Seq(S \cup T) /\ made \in Seq(S \cup T)
    BY <1>5
  <2>2. QED
    BY <1>6, <2>1
<1>8. \A i \in DOMAIN analyses : analyses'[i] = analyses[i]
  BY <1>5, <1>6
<1>9. ASSUME NEW i \in DOMAIN analyses' \ DOMAIN analyses
      PROVE  \E k \in DOMAIN order : i = Len(analyses) + k /\ analyses'[i] = N(order[k])
  <2>1. /\ Len(analyses) \in Nat /\ Len(made) \in Nat
        /\ DOMAIN made = 1..Len(made) /\ DOMAIN analyses = 1..Len(analyses)
    BY <1>5
  <2>2. DOMAIN analyses' = 1..(Len(analyses) + Len(made))
    BY <1>5, <1>6, <2>1
  <2>3. i - Len(analyses) \in DOMAIN made
    BY <2>1, <2>2
  <2>4. analyses'[i] = made[i - Len(analyses)]
    BY <1>5, <1>6, <2>1, <2>2
  <2>5. QED
    BY <1>5, <2>1, <2>3, <2>4
<1>10. QED
  BY <1>4, <1>7, <1>8, <1>9 DEF N

\* None of the offers chosen had an Analysis of the job.
LEMMA CreatedOnce == ASSUME JobsInv, AnalysesInv, CreateAnalyses PROVE AnalysesInv'
<1> DEFINE N(o) == NewAnalysis(o, worker.job)
<1>1. PICK chosen, order :
        /\ chosen \in SUBSET Unanalysed /\ order \in Seq(chosen)
        /\ \A i, j \in DOMAIN order : order[i] = order[j] => i = j
        /\ \E S : analyses' \in Seq(S)
        /\ DOMAIN analyses \subseteq DOMAIN analyses'
        /\ \A i \in DOMAIN analyses : analyses'[i] = analyses[i]
        /\ \A i \in DOMAIN analyses' \ DOMAIN analyses :
             \E k \in DOMAIN order : i = Len(analyses) + k /\ analyses'[i] = N(order[k])
  BY Created
<1>2. \A o : N(o).of = o /\ N(o).job = worker.job
  BY DEF NewAnalysis
<1>3. \A o : {"of", "job"} \subseteq DOMAIN N(o)
  BY DEF NewAnalysis
<1> HIDE DEF N
<1>4. ASSUME NEW i \in DOMAIN analyses', i \notin DOMAIN analyses
      PROVE  analyses'[i].job = worker.job /\ analyses'[i].of \in chosen
  BY <1>1, <1>2, <1>4
<1>5. \A i \in DOMAIN analyses : analyses[i].job = worker.job => analyses[i].of \notin chosen
  BY <1>1 DEF Unanalysed, OfJob
<1>6. \A i \in DOMAIN analyses' : {"of", "job"} \subseteq DOMAIN analyses'[i]
  BY <1>1, <1>3 DEF AnalysesInv
<1>7. ASSUME NEW i \in DOMAIN analyses', NEW j \in DOMAIN analyses',
             analyses'[i].job = analyses'[j].job, analyses'[i].of = analyses'[j].of
      PROVE  i = j \/ analyses'[i].job = Nothing
  <2>1. CASE i \in DOMAIN analyses /\ j \in DOMAIN analyses
    <3>1. OneAnalysisPerOffer
      BY DEF AnalysesInv
    <3>2. analyses'[i] = analyses[i] /\ analyses'[j] = analyses[j]
      BY <1>1, <2>1
    <3>3. QED
      BY <1>7, <2>1, <3>1, <3>2 DEF OneAnalysisPerOffer
  <2>2. CASE i \notin DOMAIN analyses /\ j \notin DOMAIN analyses
    <3>1. PICK k \in DOMAIN order : i = Len(analyses) + k /\ analyses'[i] = N(order[k])
      BY <1>1, <2>2
    <3>2. PICK m \in DOMAIN order : j = Len(analyses) + m /\ analyses'[j] = N(order[m])
      BY <1>1, <2>2
    <3>3. order[k] = order[m]
      BY <1>2, <1>7, <3>1, <3>2
    <3>4. QED
      BY <1>1, <3>1, <3>2, <3>3
  <2>3. CASE i \in DOMAIN analyses /\ j \notin DOMAIN analyses
    BY <1>1, <1>4, <1>5, <1>7, <2>3
  <2>4. CASE i \notin DOMAIN analyses /\ j \in DOMAIN analyses
    BY <1>1, <1>4, <1>5, <1>7, <2>4
  <2>5. QED
    BY <2>1, <2>2, <2>3, <2>4
<1>8. QED
  BY <1>1, <1>6, <1>7 DEF AnalysesInv, OneAnalysisPerOffer

\* An Analysis asked for directly is of no job.
LEMMA DirectOnce == ASSUME AnalysesInv, NEW n \in DOMAIN requests, DirectServed(n) PROVE AnalysesInv'
<1> PICK S : analyses \in Seq(S)
  BY DEF AnalysesInv
<1>1. PICK a : /\ {"of", "job"} \subseteq DOMAIN a /\ a.job = Nothing
               /\ analyses' = Append(analyses, a)
  BY DEF DirectServed, NewAnalysis
<1>2. /\ analyses' \in Seq(S \cup {a})
      /\ \A i \in DOMAIN analyses' : \/ i \in DOMAIN analyses /\ analyses'[i] = analyses[i]
                                     \/ i = Len(analyses) + 1 /\ analyses'[i] = a
  BY <1>1
<1>3. QED
  BY <1>1, <1>2 DEF AnalysesInv, OneAnalysisPerOffer

LEMMA NextAnalyses == JobsInv /\ AnalysesInv /\ [Next]_vars => AnalysesInv'
<1> SUFFICES ASSUME JobsInv, AnalysesInv, [Next]_vars PROVE AnalysesInv'
  OBVIOUS
<1>1. CASE UNCHANGED analyses
  BY <1>1 DEF AnalysesInv, OneAnalysisPerOffer
<1>2. CASE Candidate \/ PollJob \/ PollAnalyses \/ UNCHANGED vars
  BY <1>1, <1>2 DEF Candidate, SubmitOffer, OpenRow, Rerun, Retry, SubmitSeveral, Leave, OpenDetail,
                    PollJob, PollAnalyses, server, vars
<1>3. ASSUME NEW n \in DOMAIN requests, Serve(n) \/ Answer(n) \/ Lose(n) PROVE AnalysesInv'
  <2>1. CASE DirectServed(n)
    BY <2>1, DirectOnce
  <2>2. CASE OfferLooked(n) \/ AnalysesLooked(n) \/ DirectCounted(n) \/ CreateServed(n) \/ Lose(n)
    BY <1>1, <2>2 DEF OfferLooked, AnalysesLooked, DirectCounted, CreateServed, Lose, server
  <2>3. CASE Answer(n)
    BY <1>1, <2>3 DEF Answer, ShortcutAnswered, CreateAnswered, DirectAnswered, server
  <2>4. QED
    BY <1>3, <2>1, <2>2, <2>3 DEF Serve
<1>4. CASE TakeJob \/ FindOffers \/ ExtractOffer \/ Aggregate \/ TellListing \/ Finish \/ WorkerRaises \/ WorkerDies
  BY <1>1, <1>4 DEF TakeJob, FindOffers, ExtractOffer, Aggregate, TellListing, Finish, WorkerRaises, WorkerDies
<1>5. CASE SendAnalysis
  <2> DEFINE k == Min(worker.unsent)
             b == [analyses[k] EXCEPT !.sent = TRUE]
  <2>1. analyses' = [analyses EXCEPT ![k] = b]
    BY <1>5 DEF SendAnalysis
  <2>2. k \in DOMAIN analyses => /\ DOMAIN b = DOMAIN analyses[k]
                                 /\ b.of = analyses[k].of /\ b.job = analyses[k].job
    BY DEF AnalysesInv
  <2> HIDE DEF k, b
  <2>3. QED
    BY <2>1, <2>2, FieldWritten
<1>6. CASE AnalysisEnds
  <2>1. PICK k \in DOMAIN analyses, status \in TerminalAnalysis :
          analyses' = [analyses EXCEPT ![k].status = status]
    BY <1>6 DEF AnalysisEnds
  <2> DEFINE b == [analyses[k] EXCEPT !.status = status]
  <2>2. analyses' = [analyses EXCEPT ![k] = b]
    BY <2>1
  <2>3. /\ DOMAIN b = DOMAIN analyses[k]
        /\ b.of = analyses[k].of /\ b.job = analyses[k].job
    BY DEF AnalysesInv
  <2> HIDE DEF b
  <2>4. QED
    BY <2>2, <2>3, FieldWritten
<1>7. QED
  BY <1>2, <1>3, <1>4, <1>5, <1>6, CreatedOnce DEF Next, Work

\* A message of ingestion-intake that comes back, however far its first delivery got, makes
\* no second Analysis of an offer (create_analyses_for_ready_offers).
THEOREM OneAnalysisPerJobAndOffer == Spec => []OneAnalysisPerOffer
<1>1. JobsInv /\ AnalysesInv /\ [Next]_vars => (JobsInv /\ AnalysesInv)'
  BY NextJobs, NextAnalyses
<1>2. Spec => [](JobsInv /\ AnalysesInv)
  BY <1>1, InitJobs, InitAnalyses, PTL DEF Spec
<1>3. AnalysesInv => OneAnalysisPerOffer
  BY DEF AnalysesInv
<1>4. QED
  BY <1>2, <1>3, PTL

-----------------------------------------------------------------------------
(* What a job makes is of what it was asked for *)

\* The jobs and what is made of them: a job of one URL links no other offer, and an Analysis
\* of a job is of an offer that the job was for.
JobFields == {"mode", "url", "linked", "status", "listing", "skipped"}
OfUrl(j) == JobFields \subseteq DOMAIN j /\ (j.mode = "SINGLE_URL" => j.linked \subseteq {j.url})
MadeFor(a) ==
  a.job # Nothing => /\ a.job \in DOMAIN jobs
                     /\ jobs[a.job].mode = "SINGLE_URL" => a.of = jobs[a.job].url
LinkInv ==
  /\ \A k \in DOMAIN jobs : OfUrl(jobs[k])
  /\ \A i \in DOMAIN analyses : MadeFor(analyses[i])

\* What any step does to the jobs: none is lost, and none becomes one for something else.
JobsMove ==
  /\ DOMAIN jobs \subseteq DOMAIN jobs'
  /\ \A k \in DOMAIN jobs : jobs'[k].url = jobs[k].url /\ jobs'[k].mode = jobs[k].mode

LEMMA SameJobs ==
  ASSUME \A k \in DOMAIN jobs : OfUrl(jobs[k]), UNCHANGED jobs
  PROVE  JobsMove /\ \A k \in DOMAIN jobs' : OfUrl(jobs'[k])
BY DEF JobsMove

\* A job written over by one for the same thing.
LEMMA OneJobMoves ==
  ASSUME \A k \in DOMAIN jobs : OfUrl(jobs[k]),
         NEW n \in DOMAIN jobs, NEW j, OfUrl(j), j.url = jobs[n].url, j.mode = jobs[n].mode,
         jobs' = [jobs EXCEPT ![n] = j]
  PROVE  JobsMove /\ \A k \in DOMAIN jobs' : OfUrl(jobs'[k])
<1>1. DOMAIN jobs' = DOMAIN jobs /\ \A k \in DOMAIN jobs : jobs'[k] = IF k = n THEN j ELSE jobs[k]
  OBVIOUS
<1>2. QED
  BY <1>1 DEF JobsMove

LEMMA NewJobMoves ==
  ASSUME JobsInv, \A k \in DOMAIN jobs : OfUrl(jobs[k]), NEW j, OfUrl(j), jobs' = Append(jobs, j)
  PROVE  JobsMove /\ \A k \in DOMAIN jobs' : OfUrl(jobs'[k])
<1> PICK S : jobs \in Seq(S)
  BY DEF JobsInv
<1>1. /\ DOMAIN jobs' = DOMAIN jobs \cup {Len(jobs) + 1}
      /\ \A k \in DOMAIN jobs : jobs'[k] = jobs[k]
      /\ jobs'[Len(jobs) + 1] = j
  OBVIOUS
<1>2. QED
  BY <1>1 DEF JobsMove

\* A job that is being done keeps its URL and its mode.
LEMMA FieldOfJob ==
  ASSUME NEW j, OfUrl(j), NEW x
  PROVE  /\ LET b == [j EXCEPT !.status = x] IN OfUrl(b) /\ b.url = j.url /\ b.mode = j.mode
         /\ LET b == [j EXCEPT !.listing = x] IN OfUrl(b) /\ b.url = j.url /\ b.mode = j.mode
         /\ LET b == [j EXCEPT !.skipped = x] IN OfUrl(b) /\ b.url = j.url /\ b.mode = j.mode
         /\ \A y : LET b == [j EXCEPT !.listing = y, !.status = x]
                   IN  OfUrl(b) /\ b.url = j.url /\ b.mode = j.mode
         /\ x \subseteq {j.url} \/ j.mode # "SINGLE_URL" =>
              LET b == [j EXCEPT !.linked = x] IN OfUrl(b) /\ b.url = j.url /\ b.mode = j.mode
BY DEF OfUrl, JobFields

LEMMA NextJobsMove ==
  ASSUME JobsInv, \A k \in DOMAIN jobs : OfUrl(jobs[k]), [Next]_vars
  PROVE  JobsMove /\ \A k \in DOMAIN jobs' : OfUrl(jobs'[k])
<1> DEFINE Moved == JobsMove /\ \A k \in DOMAIN jobs' : OfUrl(jobs'[k])
<1> SUFFICES Moved
  OBVIOUS
<1>1. CASE UNCHANGED jobs
  BY <1>1, SameJobs
<1>2. ASSUME NEW j, OfUrl(j), jobs' = Append(jobs, j) PROVE Moved
  BY <1>2, NewJobMoves
<1>3. ASSUME worker # Idle,
             NEW j, OfUrl(j), j.url = Current.url, j.mode = Current.mode, SetJob(j)
      PROVE  Moved
  BY <1>3, OneJobMoves DEF JobsInv, SetJob, Current
<1>4. worker # Idle => OfUrl(Current)
  BY DEF JobsInv, Current
<1> HIDE DEF Moved
<1>5. CASE Candidate \/ PollJob \/ PollAnalyses \/ AnalysisEnds \/ UNCHANGED vars
  BY <1>1, <1>5 DEF Candidate, SubmitOffer, OpenRow, Rerun, Retry, SubmitSeveral, Leave, OpenDetail,
                    PollJob, PollAnalyses, AnalysisEnds, server, vars
<1>6. ASSUME NEW n \in DOMAIN requests, Serve(n) \/ Answer(n) \/ Lose(n) PROVE Moved
  <2>1. CASE CreateServed(n)
    <3> DEFINE j == [mode |-> IF requests[n].of = None THEN "SITE_SEARCH" ELSE "SINGLE_URL",
                     url |-> requests[n].of, linked |-> {}, status |-> "PENDING",
                     listing |-> FALSE, skipped |-> 0]
    <3>1. jobs' = Append(jobs, j)
      BY <2>1 DEF CreateServed
    <3>2. OfUrl(j)
      BY DEF OfUrl, JobFields
    <3> HIDE DEF j
    <3>3. QED
      BY <1>2, <3>1, <3>2
  <2>2. CASE OfferLooked(n) \/ AnalysesLooked(n) \/ DirectCounted(n) \/ DirectServed(n) \/ Lose(n)
    BY <1>1, <2>2 DEF OfferLooked, AnalysesLooked, DirectCounted, DirectServed, Lose, server
  <2>3. CASE Answer(n)
    BY <1>1, <2>3 DEF Answer, ShortcutAnswered, CreateAnswered, DirectAnswered, server
  <2>4. QED
    BY <1>6, <2>1, <2>2, <2>3 DEF Serve
<1>7. CASE TakeJob
  <2> DEFINE k == Head(intake)
             j == [jobs[k] EXCEPT !.status = "RUNNING"]
  <2>1. k \in DOMAIN jobs
    BY <1>7 DEF TakeJob, JobsInv
  <2>2. OfUrl(jobs[k])
    BY <2>1
  <2>3. jobs' = [jobs EXCEPT ![k] = j] /\ OfUrl(j) /\ j.url = jobs[k].url /\ j.mode = jobs[k].mode
    BY <1>7, <2>2, FieldOfJob DEF TakeJob
  <2> HIDE DEF k, j
  <2>4. QED
    BY <2>1, <2>3, OneJobMoves DEF Moved
<1>8. CASE FindOffers
  <2>1. worker # Idle /\ OfUrl(Current)
    BY <1>4, <1>8 DEF FindOffers, Idle
  <2>2. CASE Current.mode = "SINGLE_URL" /\ SetJob([Current EXCEPT !.linked = {Current.url}])
    BY <1>3, <2>1, <2>2, FieldOfJob
  <2>3. ASSUME Current.mode = "SITE_SEARCH", NEW found,
               SetJob([Current EXCEPT !.linked = @ \cup found])
        PROVE  Moved
    BY <1>3, <2>1, <2>3, FieldOfJob
  <2>4. CASE SetJob([Current EXCEPT !.status = "FAILED"])
    BY <1>3, <2>1, <2>4, FieldOfJob
  <2>5. QED
    BY <1>8, <2>2, <2>3, <2>4 DEF FindOffers
<1>9. CASE ExtractOffer
  BY <1>1, <1>9 DEF ExtractOffer, Moved
<1>10. CASE Aggregate \/ TellListing
  <2>1. worker # Idle /\ OfUrl(Current)
    BY <1>4, <1>10 DEF Aggregate, TellListing, Idle
  <2>2. PICK x, y : SetJob([Current EXCEPT !.listing = y, !.status = x])
    BY <1>10 DEF Aggregate, TellListing
  <2>3. QED
    BY <1>3, <2>1, <2>2, FieldOfJob
<1>11. CASE CreateAnalyses
  <2>1. worker # Idle /\ OfUrl(Current)
    BY <1>4, <1>11 DEF CreateAnalyses, Idle
  <2>2. PICK x : SetJob(IF x = 0 THEN Current ELSE [Current EXCEPT !.skipped = x])
    BY <1>11 DEF CreateAnalyses
  <2>3. QED
    BY <1>3, <2>1, <2>2, FieldOfJob
<1>12. CASE SendAnalysis \/ Finish \/ WorkerDies
  BY <1>1, <1>12 DEF SendAnalysis, Finish, WorkerDies, Moved
<1>13. CASE WorkerRaises
  <2>1. worker # Idle /\ OfUrl(Current)
    BY <1>4, <1>13 DEF WorkerRaises
  <2>2. CASE SetJob([Current EXCEPT !.listing = FALSE, !.status = "FAILED"])
    BY <1>3, <2>1, <2>2, FieldOfJob
  <2>3. QED
    BY <1>1, <1>13, <2>2 DEF WorkerRaises, Moved
<1>14. QED
  BY <1>5, <1>6, <1>7, <1>8, <1>9, <1>10, <1>11, <1>12, <1>13 DEF Next, Work

\* The Analyses of before keep their offer and their job.
LEMMA SameMade ==
  ASSUME LinkInv, JobsMove, DOMAIN analyses' = DOMAIN analyses,
         \A i \in DOMAIN analyses : /\ analyses'[i].of = analyses[i].of
                                    /\ analyses'[i].job = analyses[i].job
  PROVE  \A i \in DOMAIN analyses' : MadeFor(analyses[i])'
<1> SUFFICES ASSUME NEW i \in DOMAIN analyses' PROVE MadeFor(analyses[i])'
  OBVIOUS
<1>1. MadeFor(analyses[i]) /\ analyses'[i].of = analyses[i].of /\ analyses'[i].job = analyses[i].job
  BY DEF LinkInv
<1>2. QED
  BY <1>1 DEF MadeFor, JobsMove

LEMMA NextLinks == JobsInv /\ AnalysesInv /\ LinkInv /\ [Next]_vars => LinkInv'
<1> SUFFICES ASSUME JobsInv, AnalysesInv, LinkInv, [Next]_vars PROVE LinkInv'
  OBVIOUS
<1>1. JobsMove /\ \A k \in DOMAIN jobs' : OfUrl(jobs'[k])
  BY NextJobsMove DEF LinkInv
<1> SUFFICES \A i \in DOMAIN analyses' : MadeFor(analyses[i])'
  BY <1>1 DEF LinkInv
<1>2. CASE UNCHANGED analyses
  BY <1>1, <1>2, SameMade
<1>3. CASE Candidate \/ PollJob \/ PollAnalyses \/ UNCHANGED vars
  BY <1>2, <1>3 DEF Candidate, SubmitOffer, OpenRow, Rerun, Retry, SubmitSeveral, Leave, OpenDetail,
                    PollJob, PollAnalyses, server, vars
<1>4. ASSUME NEW n \in DOMAIN requests, Serve(n) \/ Answer(n) \/ Lose(n)
      PROVE  \A i \in DOMAIN analyses' : MadeFor(analyses[i])'
  <2>1. CASE DirectServed(n)
    <3> PICK S : analyses \in Seq(S)
      BY DEF AnalysesInv
    <3>1. PICK a : a.job = Nothing /\ analyses' = Append(analyses, a)
      BY <2>1 DEF DirectServed, NewAnalysis
    <3>2. \A i \in DOMAIN analyses' : \/ i \in DOMAIN analyses /\ analyses'[i] = analyses[i]
                                      \/ analyses'[i] = a
      BY <3>1
    <3>3. QED
      BY <1>1, <3>1, <3>2 DEF LinkInv, MadeFor, JobsMove
  <2>2. CASE OfferLooked(n) \/ AnalysesLooked(n) \/ DirectCounted(n) \/ CreateServed(n) \/ Lose(n)
    BY <1>2, <2>2 DEF OfferLooked, AnalysesLooked, DirectCounted, CreateServed, Lose, server
  <2>3. CASE Answer(n)
    BY <1>2, <2>3 DEF Answer, ShortcutAnswered, CreateAnswered, DirectAnswered, server
  <2>4. QED
    BY <1>4, <2>1, <2>2, <2>3 DEF Serve
<1>5. CASE TakeJob \/ FindOffers \/ ExtractOffer \/ Aggregate \/ TellListing \/ Finish \/ WorkerRaises \/ WorkerDies
  BY <1>2, <1>5 DEF TakeJob, FindOffers, ExtractOffer, Aggregate, TellListing, Finish, WorkerRaises, WorkerDies
<1>6. CASE CreateAnalyses
  <2> DEFINE N(o) == NewAnalysis(o, worker.job)
  <2>1. PICK chosen, order :
          /\ chosen \in SUBSET Unanalysed /\ order \in Seq(chosen)
          /\ \A i \in DOMAIN analyses : analyses'[i] = analyses[i]
          /\ \A i \in DOMAIN analyses' \ DOMAIN analyses :
               \E k \in DOMAIN order : analyses'[i] = N(order[k])
    BY <1>6, Created
  <2>2. \A o : N(o).of = o /\ N(o).job = worker.job
    BY DEF NewAnalysis
  <2> HIDE DEF N
  <2>3. worker.job \in DOMAIN jobs /\ chosen \subseteq jobs[worker.job].linked
    BY <1>6, <2>1 DEF CreateAnalyses, JobsInv, Idle, Unanalysed, Current
  <2>4. \A o \in chosen : jobs[worker.job].mode = "SINGLE_URL" => o = jobs[worker.job].url
    BY <2>3 DEF LinkInv, OfUrl
  <2>5. ASSUME NEW i \in DOMAIN analyses', i \notin DOMAIN analyses PROVE MadeFor(analyses[i])'
    <3>1. analyses'[i].job = worker.job /\ analyses'[i].of \in chosen
      BY <2>1, <2>2, <2>5
    <3>2. QED
      BY <1>1, <2>3, <2>4, <3>1 DEF MadeFor, JobsMove
  <2>6. ASSUME NEW i \in DOMAIN analyses', i \in DOMAIN analyses PROVE MadeFor(analyses[i])'
    BY <1>1, <2>1, <2>6 DEF LinkInv, MadeFor, JobsMove
  <2>7. QED
    BY <2>5, <2>6
<1>7. ASSUME NEW k, NEW b, analyses' = [analyses EXCEPT ![k] = b],
             k \in DOMAIN analyses => b.of = analyses[k].of /\ b.job = analyses[k].job
      PROVE  \A i \in DOMAIN analyses' : MadeFor(analyses[i])'
  <2>1. DOMAIN analyses' = DOMAIN analyses
        /\ \A i \in DOMAIN analyses : analyses'[i] = IF i = k THEN b ELSE analyses[i]
    BY <1>7
  <2>2. QED
    BY <1>1, <1>7, <2>1, SameMade
<1>8. CASE SendAnalysis
  <2> DEFINE k == Min(worker.unsent)
             b == [analyses[k] EXCEPT !.sent = TRUE]
  <2>1. analyses' = [analyses EXCEPT ![k] = b]
    BY <1>8 DEF SendAnalysis
  <2>2. k \in DOMAIN analyses => b.of = analyses[k].of /\ b.job = analyses[k].job
    BY DEF AnalysesInv
  <2> HIDE DEF k, b
  <2>3. QED
    BY <1>7, <2>1, <2>2
<1>9. CASE AnalysisEnds
  <2>1. PICK k \in DOMAIN analyses, status \in TerminalAnalysis :
          analyses' = [analyses EXCEPT ![k].status = status]
    BY <1>9 DEF AnalysisEnds
  <2> DEFINE b == [analyses[k] EXCEPT !.status = status]
  <2>2. analyses' = [analyses EXCEPT ![k] = b]
    BY <2>1
  <2>3. b.of = analyses[k].of /\ b.job = analyses[k].job
    BY DEF AnalysesInv
  <2> HIDE DEF b
  <2>4. QED
    BY <1>7, <2>2, <2>3
<1>10. QED
  BY <1>3, <1>4, <1>5, <1>6, <1>8, <1>9 DEF Next, Work

\* What any step does to the Analyses: none is lost, and none becomes one of another offer.
AnalysesMove ==
  /\ DOMAIN analyses \subseteq DOMAIN analyses'
  /\ \A i \in DOMAIN analyses : analyses'[i].of = analyses[i].of
RowsMove == JobsMove /\ AnalysesMove

LEMMA NextAnalysesMove == JobsInv /\ AnalysesInv /\ [Next]_vars => AnalysesMove
<1> SUFFICES ASSUME JobsInv, AnalysesInv, [Next]_vars PROVE AnalysesMove
  OBVIOUS
<1>1. CASE UNCHANGED analyses
  BY <1>1 DEF AnalysesMove
<1>2. CASE Candidate \/ PollJob \/ PollAnalyses \/ UNCHANGED vars
  BY <1>1, <1>2 DEF Candidate, SubmitOffer, OpenRow, Rerun, Retry, SubmitSeveral, Leave, OpenDetail,
                    PollJob, PollAnalyses, server, vars
<1>3. ASSUME NEW n \in DOMAIN requests, Serve(n) \/ Answer(n) \/ Lose(n) PROVE AnalysesMove
  <2>1. CASE DirectServed(n)
    <3> PICK S : analyses \in Seq(S)
      BY DEF AnalysesInv
    <3> PICK a : a = NewAnalysis(requests[n].of, Nothing)
      OBVIOUS
    <3>1. analyses' = Append(analyses, a)
      BY <2>1 DEF DirectServed
    <3>2. QED
      BY <3>1 DEF AnalysesMove
  <2>2. CASE OfferLooked(n) \/ AnalysesLooked(n) \/ DirectCounted(n) \/ CreateServed(n) \/ Lose(n)
    BY <1>1, <2>2 DEF OfferLooked, AnalysesLooked, DirectCounted, CreateServed, Lose, server
  <2>3. CASE Answer(n)
    BY <1>1, <2>3 DEF Answer, ShortcutAnswered, CreateAnswered, DirectAnswered, server
  <2>4. QED
    BY <1>3, <2>1, <2>2, <2>3 DEF Serve
<1>4. CASE TakeJob \/ FindOffers \/ ExtractOffer \/ Aggregate \/ TellListing \/ Finish
           \/ WorkerRaises \/ WorkerDies
  BY <1>1, <1>4 DEF TakeJob, FindOffers, ExtractOffer, Aggregate, TellListing, Finish, WorkerRaises, WorkerDies
<1>5. CASE CreateAnalyses
  <2>1. /\ DOMAIN analyses \subseteq DOMAIN analyses'
        /\ \A i \in DOMAIN analyses : analyses'[i] = analyses[i]
    BY <1>5, Created
  <2>2. QED
    BY <2>1 DEF AnalysesMove
<1>6. ASSUME NEW k, NEW b, analyses' = [analyses EXCEPT ![k] = b],
             k \in DOMAIN analyses => b.of = analyses[k].of
      PROVE  AnalysesMove
  BY <1>6 DEF AnalysesMove
<1>7. CASE SendAnalysis
  <2> DEFINE k == Min(worker.unsent)
             b == [analyses[k] EXCEPT !.sent = TRUE]
  <2>1. analyses' = [analyses EXCEPT ![k] = b]
    BY <1>7 DEF SendAnalysis
  <2>2. k \in DOMAIN analyses => b.of = analyses[k].of
    BY DEF AnalysesInv
  <2> HIDE DEF k, b
  <2>3. QED
    BY <1>6, <2>1, <2>2
<1>8. CASE AnalysisEnds
  <2>1. PICK k \in DOMAIN analyses, status \in TerminalAnalysis :
          analyses' = [analyses EXCEPT ![k].status = status]
    BY <1>8 DEF AnalysisEnds
  <2> DEFINE b == [analyses[k] EXCEPT !.status = status]
  <2>2. analyses' = [analyses EXCEPT ![k] = b]
    BY <2>1
  <2>3. b.of = analyses[k].of
    BY DEF AnalysesInv
  <2> HIDE DEF b
  <2>4. QED
    BY <1>6, <2>2, <2>3
<1>9. QED
  BY <1>2, <1>3, <1>4, <1>5, <1>7, <1>8 DEF Next, Work

LEMMA InitLinks == Init => LinkInv
BY DEF Init, LinkInv

-----------------------------------------------------------------------------
(* What the pages wait for is what was asked *)

\* A job asked for one offer.
ForOffer(k, o) ==
  /\ k \in DOMAIN jobs /\ jobs[k].url = o
  /\ o # None => jobs[k].mode = "SINGLE_URL"

\* A request knows what it made, and one that a page awaits is what that page is at.
RequestFields == {"kind", "here", "of", "at", "id"}
AnalysisOf(i, o) == i \in DOMAIN analyses /\ analyses[i].of = o
Knows(r) ==
  r.at = "done" => /\ r.kind = "create" => ForOffer(r.id, r.of)
                   /\ r.kind = "direct" => AnalysisOf(r.id, r.of)
OnOne(r) ==
  /\ page.at = "one"
  /\ \/ r.kind = "shortcut" /\ r.of # None /\ page.job = Nothing /\ page.known = Nothing
     \/ r.kind = "create" /\ r.of # None /\ page.known = Nothing /\ page.submitted = r.of
     \/ r.kind = "direct" /\ page.job = Nothing
OnSeveral(r) == page.at = "several" /\ r.kind = "create"
Awaited(r) == r.here => OnOne(r) \/ OnSeveral(r)

\* One request at a time is awaited; the job a page waits for is of the offer submitted.
Alone == \A n, m \in DOMAIN requests : requests[n].here /\ requests[m].here => n = m
WaitsForAsked ==
  page.at = "one" /\ page.job # Nothing =>
    page.known = Nothing /\ page.submitted # None /\ ForOffer(page.job, page.submitted)

PageFields == {"at", "job", "submitted", "known", "capped", "error", "opened"}
PageInv ==
  /\ \E S : requests \in Seq(S)
  /\ \A n \in DOMAIN requests : /\ RequestFields \subseteq DOMAIN requests[n]
                                /\ Knows(requests[n]) /\ Awaited(requests[n])
  /\ Alone
  /\ PageFields \subseteq DOMAIN page
  /\ WaitsForAsked

LEMMA InitPage == Init => PageInv
<1> SUFFICES ASSUME Init PROVE PageInv
  OBVIOUS
<1>1. requests = <<>> /\ page = Fresh("one")
  BY DEF Init
<1>2. PageFields \subseteq DOMAIN Fresh("one") /\ Fresh("one").job = Nothing
  BY DEF Fresh, PageFields
<1>3. QED
  BY <1>1, <1>2 DEF PageInv, Alone, WaitsForAsked

\* A page on which nothing moves but its messages.
SamePage ==
  /\ PageFields \subseteq DOMAIN page'
  /\ page'.at = page.at /\ page'.job = page.job
  /\ page'.known = page.known /\ page'.submitted = page.submitted

LEMMA StaysPage == PageInv /\ UNCHANGED page => SamePage
BY DEF PageInv, SamePage

LEMMA StillAsked == ASSUME PageInv, RowsMove, SamePage PROVE WaitsForAsked'
BY DEF PageInv, JobsMove, RowsMove, SamePage, WaitsForAsked, ForOffer, AnalysisOf

\* A request that was there is awaited as before, or no longer.
LEMMA OldRequest ==
  ASSUME PageInv, RowsMove, NEW r, NEW k \in DOMAIN requests,
         RequestFields \subseteq DOMAIN r,
         r.kind = requests[k].kind, r.of = requests[k].of, r.id = requests[k].id,
         r.at = requests[k].at, r.here => requests[k].here /\ SamePage
  PROVE  Knows(r)' /\ Awaited(r)'
<1>1. Knows(requests[k]) /\ Awaited(requests[k])
  BY DEF PageInv
<1>2. Knows(r)'
  BY <1>1 DEF Knows, ForOffer, AnalysisOf, JobsMove, AnalysesMove, RowsMove
<1>3. ASSUME r.here PROVE OnOne(r)' \/ OnSeveral(r)'
  BY <1>1, <1>3 DEF Awaited, OnOne, OnSeveral, SamePage
<1>4. QED
  BY <1>2, <1>3 DEF Awaited

LEMMA FromRest ==
  ASSUME PageInv, RowsMove, \E S : requests' \in Seq(S), PageFields \subseteq DOMAIN page',
         WaitsForAsked', Alone',
         \A m \in DOMAIN requests' :
           \/ /\ \E k \in DOMAIN requests : requests'[m] = requests[k]
              /\ requests'[m].here => SamePage
           \/ /\ RequestFields \subseteq DOMAIN requests'[m]
              /\ Knows(requests[m])' /\ Awaited(requests[m])'
  PROVE  PageInv'
<1>1. ASSUME NEW m \in DOMAIN requests', NEW k \in DOMAIN requests, requests'[m] = requests[k],
             requests'[m].here => SamePage
      PROVE  /\ RequestFields \subseteq DOMAIN requests'[m]
             /\ Knows(requests[m])' /\ Awaited(requests[m])'
  <2> PICK r : r = requests[k]
    OBVIOUS
  <2>1. RequestFields \subseteq DOMAIN r
    BY DEF PageInv
  <2>2. Knows(r)' /\ Awaited(r)'
    BY <1>1, <2>1, OldRequest
  <2>3. requests'[m] = r
    BY <1>1
  <2>4. Knows(requests[m])' /\ Awaited(requests[m])'
    BY <2>2, <2>3 DEF Knows, Awaited, OnOne, OnSeveral, ForOffer, AnalysisOf
  <2>5. QED
    BY <2>1, <2>3, <2>4
<1>2. \A m \in DOMAIN requests' : /\ RequestFields \subseteq DOMAIN requests'[m]
                                  /\ Knows(requests[m])' /\ Awaited(requests[m])'
  BY <1>1
<1>3. QED
  BY <1>2 DEF PageInv

LEMMA SamePageInv == ASSUME PageInv, RowsMove, SamePage, UNCHANGED requests PROVE PageInv'
<1>1. WaitsForAsked'
  BY StillAsked
<1>2. Alone' /\ \E S : requests' \in Seq(S)
  BY DEF PageInv, Alone
<1>3. PageFields \subseteq DOMAIN page'
  BY DEF SamePage
<1>4. \A m \in DOMAIN requests' : \E k \in DOMAIN requests : requests'[m] = requests[k]
  OBVIOUS
<1>5. QED
  BY <1>1, <1>2, <1>3, <1>4, FromRest

\* Two sequences joined.
LEMMA Joined ==
  ASSUME NEW S, NEW a \in Seq(S), NEW b \in Seq(S), NEW r, r = a \o b
  PROVE  /\ r \in Seq(S) /\ Len(r) = Len(a) + Len(b) /\ DOMAIN r = 1..(Len(a) + Len(b))
         /\ \A i \in 1..(Len(a) + Len(b)) : r[i] = IF i <= Len(a) THEN a[i] ELSE b[i - Len(a)]
OBVIOUS

\* What is left of a sequence when one place is taken out.
LEMMA Shorter ==
  ASSUME NEW S, NEW s \in Seq(S), NEW n \in DOMAIN s, NEW r, r = RemoveAt(s, n)
  PROVE  /\ r \in Seq(S) /\ Len(s) \in Nat /\ Len(r) = Len(s) - 1
         /\ \A m \in DOMAIN r : /\ m < n => m \in DOMAIN s /\ r[m] = s[m]
                                /\ m >= n => m + 1 \in DOMAIN s /\ r[m] = s[m + 1]
                                /\ m \in Nat /\ n \in Nat
<1> DEFINE a == SubSeq(s, 1, n - 1)
           b == SubSeq(s, n + 1, Len(s))
<1>1. n \in Nat /\ Len(s) \in Nat /\ n >= 1 /\ n <= Len(s) /\ DOMAIN s = 1..Len(s)
  OBVIOUS
<1>2. a \in Seq(S) /\ Len(a) = n - 1 /\ \A i \in 1..(n - 1) : a[i] = s[i]
  BY <1>1
<1>3. b \in Seq(S) /\ Len(b) = Len(s) - n /\ \A i \in 1..(Len(s) - n) : b[i] = s[n + i]
  BY <1>1
<1>4. r = a \o b
  BY DEF RemoveAt
<1> HIDE DEF a, b
<1>5. /\ r \in Seq(S) /\ Len(r) = Len(a) + Len(b) /\ DOMAIN r = 1..(Len(a) + Len(b))
      /\ \A i \in 1..(Len(a) + Len(b)) : r[i] = IF i <= Len(a) THEN a[i] ELSE b[i - Len(a)]
  <2>1. a \in Seq(S) /\ b \in Seq(S)
    BY <1>2, <1>3
  <2>2. QED
    BY <1>4, <2>1, Joined
<1>6. ASSUME NEW m \in DOMAIN r, m < n PROVE m \in DOMAIN s /\ r[m] = s[m]
  <2>1. m \in 1..(n - 1) /\ m <= Len(a) /\ m \in 1..(Len(a) + Len(b))
    BY <1>1, <1>2, <1>3, <1>5, <1>6
  <2>2. QED
    BY <1>1, <1>2, <1>5, <2>1
<1>7. ASSUME NEW m \in DOMAIN r, m >= n PROVE m + 1 \in DOMAIN s /\ r[m] = s[m + 1]
  <2>1. /\ m \in 1..(Len(a) + Len(b)) /\ ~(m <= Len(a)) /\ m - Len(a) \in 1..(Len(s) - n)
        /\ n + (m - Len(a)) = m + 1 /\ m + 1 \in 1..Len(s)
    BY <1>1, <1>2, <1>3, <1>5, <1>7
  <2>2. QED
    BY <1>1, <1>3, <1>5, <2>1
<1>8. QED
  BY <1>1, <1>2, <1>3, <1>5, <1>6, <1>7

\* The requests that are left when one is answered: none is awaited if that one was.
LEMMA Rest ==
  ASSUME PageInv, NEW n \in DOMAIN requests, NEW q, q = RemoveAt(requests, n)
  PROVE  /\ \E S : q \in Seq(S)
         /\ Len(requests) \in Nat /\ Len(q) = Len(requests) - 1
         /\ \A m \in DOMAIN q : \E k \in DOMAIN requests : q[m] = requests[k]
         /\ \A m, l \in DOMAIN q : q[m].here /\ q[l].here => m = l
         /\ requests[n].here => \A m \in DOMAIN q : ~q[m].here
<1> PICK S : requests \in Seq(S)
  BY DEF PageInv
<1> DEFINE f(m) == IF m < n THEN m ELSE m + 1
<1>1. /\ q \in Seq(S) /\ Len(requests) \in Nat /\ Len(q) = Len(requests) - 1
      /\ \A m \in DOMAIN q : /\ m < n => m \in DOMAIN requests /\ q[m] = requests[m]
                             /\ m >= n => m + 1 \in DOMAIN requests /\ q[m] = requests[m + 1]
                             /\ m \in Nat /\ n \in Nat
  BY Shorter
<1>2. \A m \in DOMAIN q : f(m) \in DOMAIN requests /\ q[m] = requests[f(m)] /\ f(m) # n
  BY <1>1
<1>3. \A m, l \in DOMAIN q : f(m) = f(l) => m = l
  BY <1>1
<1> HIDE DEF f
<1>4. Alone
  BY DEF PageInv
<1>5. \A m, l \in DOMAIN q : q[m].here /\ q[l].here => m = l
  BY <1>2, <1>3, <1>4 DEF Alone
<1>6. requests[n].here => \A m \in DOMAIN q : ~q[m].here
  BY <1>2, <1>4 DEF Alone
<1>7. QED
  BY <1>1, <1>2, <1>5, <1>6

\* The page is left, or moves on: nothing it asked is awaited any more.
LEMMA LeftPage ==
  ASSUME PageInv, RowsMove,
         NEW q, q = requests \/ \E n \in DOMAIN requests : q = RemoveAt(requests, n),
         requests' = Left(q), PageFields \subseteq DOMAIN page', WaitsForAsked'
  PROVE  PageInv'
<1> DEFINE F(r) == [r EXCEPT !.here = FALSE]
<1>1. (\E S : q \in Seq(S)) /\ \A m \in DOMAIN q : \E k \in DOMAIN requests : q[m] = requests[k]
  BY Rest DEF PageInv
<1> PICK S : q \in Seq(S)
  BY <1>1
<1>2. DOMAIN requests' = DOMAIN q /\ \A m \in DOMAIN q : requests'[m] = F(q[m])
  BY DEF Left
<1>3. requests' \in Seq({F(q[m]) : m \in DOMAIN q})
  <2>1. Len(q) \in Nat /\ DOMAIN q = 1..Len(q)
    OBVIOUS
  <2>2. requests' = [m \in 1..Len(q) |-> F(q[m])]
    BY <2>1 DEF Left
  <2> HIDE DEF F
  <2>3. requests' \in [1..Len(q) -> {F(q[m]) : m \in DOMAIN q}]
    BY <2>1, <2>2
  <2>4. QED
    BY <2>1, <2>3
<1>4. ASSUME NEW r, RequestFields \subseteq DOMAIN r
      PROVE  /\ RequestFields \subseteq DOMAIN F(r) /\ ~F(r).here
             /\ F(r).kind = r.kind /\ F(r).of = r.of /\ F(r).id = r.id /\ F(r).at = r.at
  BY <1>4 DEF RequestFields
<1> HIDE DEF F
<1>5. ASSUME NEW m \in DOMAIN requests'
      PROVE  /\ RequestFields \subseteq DOMAIN requests'[m] /\ ~requests'[m].here
             /\ Knows(requests[m])' /\ Awaited(requests[m])'
  <2>1. PICK k \in DOMAIN requests : q[m] = requests[k]
    BY <1>1, <1>2
  <2> PICK r : r = F(requests[k])
    OBVIOUS
  <2>2. RequestFields \subseteq DOMAIN requests[k]
    BY DEF PageInv
  <2>3. /\ RequestFields \subseteq DOMAIN r /\ ~r.here
        /\ r.kind = requests[k].kind /\ r.of = requests[k].of /\ r.id = requests[k].id
        /\ r.at = requests[k].at
    BY <1>4, <2>2
  <2>4. Knows(r)' /\ Awaited(r)'
    BY <2>3, OldRequest
  <2>5. requests'[m] = r
    BY <1>2, <2>1
  <2>6. Knows(requests[m])' /\ Awaited(requests[m])'
    BY <2>4, <2>5 DEF Knows, Awaited, OnOne, OnSeveral, ForOffer, AnalysisOf
  <2>7. QED
    BY <2>3, <2>5, <2>6
<1>6. Alone'
  BY <1>5 DEF Alone
<1>7. QED
  BY <1>3, <1>5, <1>6 DEF PageInv

\* A request served: what it is told becomes known, with the job it made.
LEMMA AtPage ==
  ASSUME PageInv, RowsMove, UNCHANGED page,
         NEW n \in DOMAIN requests, NEW at, NEW id, At(n, at, id),
         NEW o, o = requests[n].of,
         at = "done" => /\ requests[n].kind = "create" => ForOffer(id, o)'
                        /\ requests[n].kind = "direct" => AnalysisOf(id, o)'
  PROVE  PageInv'
<1> DEFINE b == [requests[n] EXCEPT !.at = at, !.id = id]
<1> PICK S : requests \in Seq(S)
  BY DEF PageInv
<1> PICK c : c = b
  OBVIOUS
<1>1. requests' = [requests EXCEPT ![n] = c]
  BY DEF At
<1>2. RequestFields \subseteq DOMAIN requests[n]
  BY DEF PageInv
<1>3. /\ RequestFields \subseteq DOMAIN c /\ c.kind = requests[n].kind /\ c.of = requests[n].of
      /\ c.here = requests[n].here /\ c.at = at /\ c.id = id
  BY <1>2 DEF RequestFields
<1> HIDE DEF b
<1>4. /\ requests' \in Seq(S \cup {c}) /\ DOMAIN requests' = DOMAIN requests
      /\ \A m \in DOMAIN requests : requests'[m] = IF m = n THEN c ELSE requests[m]
  BY <1>1, SeqWrittenOver
<1>5. SamePage
  BY StaysPage
<1>6. Awaited(requests[n]) /\ Alone
  BY DEF PageInv
<1>7. Knows(requests[n])'
  BY <1>3, <1>4 DEF Knows, ForOffer, AnalysisOf
<1>8. Awaited(requests[n])'
  BY <1>3, <1>4, <1>5, <1>6 DEF Awaited, OnOne, OnSeveral, SamePage
<1>9. Alone'
  BY <1>3, <1>4, <1>6 DEF Alone
<1>10. WaitsForAsked' /\ PageFields \subseteq DOMAIN page'
  BY <1>5, StillAsked DEF SamePage
<1>11. ASSUME NEW m \in DOMAIN requests'
       PROVE  \/ /\ \E k \in DOMAIN requests : requests'[m] = requests[k]
                 /\ requests'[m].here => SamePage
              \/ /\ RequestFields \subseteq DOMAIN requests'[m]
                 /\ Knows(requests[m])' /\ Awaited(requests[m])'
  BY <1>3, <1>4, <1>5, <1>7, <1>8
<1>12. QED
  BY <1>4, <1>9, <1>10, <1>11, FromRest

\* A request sent after those there are, of which none is awaited, or which is not itself.
LEMMA SentPage ==
  ASSUME PageInv, RowsMove,
         NEW q, \E S : q \in Seq(S),
         \A m \in DOMAIN q : \E k \in DOMAIN requests : q[m] = requests[k],
         \A m, l \in DOMAIN q : q[m].here /\ q[l].here => m = l,
         NEW kind, NEW here, NEW of, requests' = Append(q, New(kind, here, of)),
         here => \A m \in DOMAIN q : ~q[m].here,
         PageFields \subseteq DOMAIN page', WaitsForAsked',
         \A m \in DOMAIN q : q[m].here => SamePage,
         Awaited(New(kind, here, of))'
  PROVE  PageInv'
<1> PICK S : q \in Seq(S)
  OBVIOUS
<1> PICK c : c = New(kind, here, of)
  OBVIOUS
<1>1. RequestFields \subseteq DOMAIN c /\ c.here = here /\ c.at = "asking"
  BY DEF New, RequestFields
<1>2. /\ requests' \in Seq(S \cup {c})
      /\ DOMAIN requests' = DOMAIN q \cup {Len(q) + 1} /\ Len(q) + 1 \notin DOMAIN q
      /\ requests'[Len(q) + 1] = c /\ \A m \in DOMAIN q : requests'[m] = q[m]
  OBVIOUS
<1>3. Awaited(c)'
  OBVIOUS
<1>4. Alone'
  BY <1>1, <1>2 DEF Alone
<1>5. ASSUME NEW m \in DOMAIN requests'
      PROVE  \/ /\ \E k \in DOMAIN requests : requests'[m] = requests[k]
                /\ requests'[m].here => SamePage
             \/ /\ RequestFields \subseteq DOMAIN requests'[m]
                /\ Knows(requests[m])' /\ Awaited(requests[m])'
  <2>1. CASE m \in DOMAIN q
    BY <1>2, <2>1
  <2>2. CASE requests'[m] = c
    <3>1. Knows(requests[m])'
      BY <1>1, <2>2 DEF Knows
    <3>2. Awaited(requests[m])'
      BY <1>3, <2>2 DEF Awaited, OnOne, OnSeveral
    <3>3. QED
      BY <1>1, <2>2, <3>1, <3>2
  <2>3. QED
    BY <1>2, <2>1, <2>2
<1>6. QED
  BY <1>2, <1>4, <1>5, FromRest

\* A request answered, to a page that is told or to none.
LEMMA AnsweredPage ==
  ASSUME PageInv, RowsMove, NEW n \in DOMAIN requests, Answered(n),
         PageFields \subseteq DOMAIN page', WaitsForAsked', SamePage \/ requests[n].here
  PROVE  PageInv'
<1> PICK q : q = RemoveAt(requests, n)
  OBVIOUS
<1>1. requests' = q
  BY DEF Answered
<1>2. /\ \E S : q \in Seq(S)
      /\ \A m \in DOMAIN q : \E k \in DOMAIN requests : q[m] = requests[k]
      /\ \A m, l \in DOMAIN q : q[m].here /\ q[l].here => m = l
      /\ requests[n].here => \A m \in DOMAIN q : ~q[m].here
  <2>1. \E S : q \in Seq(S)
    BY Rest
  <2>2. \A m \in DOMAIN q : \E k \in DOMAIN requests : q[m] = requests[k]
    BY Rest
  <2>3. \A m, l \in DOMAIN q : q[m].here /\ q[l].here => m = l
    BY Rest
  <2>4. requests[n].here => \A m \in DOMAIN q : ~q[m].here
    BY Rest
  <2>5. QED
    BY <2>1, <2>2, <2>3, <2>4
<1>3. Alone'
  BY <1>1, <1>2 DEF Alone
<1>4. \A m \in DOMAIN requests' : /\ \E k \in DOMAIN requests : requests'[m] = requests[k]
                                  /\ requests'[m].here => SamePage
  BY <1>1, <1>2
<1>5. QED
  BY <1>1, <1>2, <1>3, <1>4, FromRest

-----------------------------------------------------------------------------
(* The steps of the page *)

LEMMA Messages ==
  ASSUME PageInv, NEW x, NEW y,
         \/ page' = [page EXCEPT !.error = x]
         \/ page' = [page EXCEPT !.capped = y, !.error = x]
  PROVE  SamePage
BY DEF PageInv, PageFields, SamePage

LEMMA FreshPage ==
  ASSUME NEW at
  PROVE  /\ PageFields \subseteq DOMAIN Fresh(at)
         /\ Fresh(at).at = at /\ Fresh(at).job = Nothing
         /\ \A x : LET p == [Fresh(at) EXCEPT !.opened = x]
                   IN  PageFields \subseteq DOMAIN p /\ p.at = at /\ p.job = Nothing
         /\ \A x : LET p == [Fresh(at) EXCEPT !.job = x]
                   IN  PageFields \subseteq DOMAIN p /\ p.at = at /\ p.job = x
BY DEF Fresh, PageFields

\* What the candidate sends, when nothing of the page is awaited.
LEMMA AskedPage ==
  ASSUME PageInv, RowsMove, SamePage, NEW kind, NEW of, Send(New(kind, TRUE, of)),
         \A m \in DOMAIN requests : ~requests[m].here,
         OnOne(New(kind, TRUE, of)) \/ OnSeveral(New(kind, TRUE, of))
  PROVE  PageInv'
<1> PICK q : q = requests
  OBVIOUS
<1> PICK c : c = New(kind, TRUE, of)
  OBVIOUS
<1>1. /\ \E S : q \in Seq(S)
      /\ \A m \in DOMAIN q : \E k \in DOMAIN requests : q[m] = requests[k]
      /\ \A m \in DOMAIN q : ~q[m].here
      /\ requests' = Append(q, New(kind, TRUE, of))
  BY DEF PageInv, Send
<1>2. WaitsForAsked' /\ PageFields \subseteq DOMAIN page'
  BY StillAsked DEF SamePage
<1>3. Awaited(c)'
  BY DEF Awaited, OnOne, OnSeveral, SamePage
<1>4. Awaited(New(kind, TRUE, of))'
  BY <1>3
<1>5. QED
  BY <1>1, <1>2, <1>4, SentPage

LEMMA CandidatePage ==
  ASSUME PageInv, RowsMove, Candidate
  PROVE  PageInv'
<1>1. ASSUME NEW m \in DOMAIN requests, requests[m].here
      PROVE  OnOne(requests[m]) \/ OnSeveral(requests[m])
  BY <1>1 DEF PageInv, Awaited
<1>2. ASSUME NEW kind, NEW of
      PROVE  New(kind, TRUE, of).kind = kind /\ New(kind, TRUE, of).of = of
  BY DEF New
<1>3. ASSUME NEW o \in Offers, SubmitOffer(o) PROVE PageInv'
  <2>1. page.at = "one" /\ page.job = Nothing /\ page.known = Nothing /\ ~Busy
    BY <1>3 DEF SubmitOffer, OfferForm
  <2>2. \A m \in DOMAIN requests : ~requests[m].here
    BY <1>1, <2>1 DEF Busy, Pending, OnOne, OnSeveral
  <2>3. SamePage /\ Send(New("shortcut", TRUE, o))
    BY <1>3, Messages DEF SubmitOffer
  <2>4. OnOne(New("shortcut", TRUE, o))
    BY <1>2, <2>1, OffersAssumption DEF OnOne, None
  <2>5. QED
    BY <2>2, <2>3, <2>4, AskedPage
<1>4. CASE Rerun
  <2>1. page.at = "one" /\ page.job = Nothing /\ page.known # Nothing /\ ~Pending("direct")
    BY <1>4 DEF Rerun, AlreadyShown
  <2>2. \A m \in DOMAIN requests : ~requests[m].here
    BY <1>1, <2>1 DEF Pending, OnOne, OnSeveral
  <2>3. SamePage /\ Send(New("direct", TRUE, analyses[page.known].of))
    BY <1>4, Messages DEF Rerun
  <2>4. OnOne(New("direct", TRUE, analyses[page.known].of))
    BY <1>2, <2>1 DEF OnOne
  <2>5. QED
    BY <2>2, <2>3, <2>4, AskedPage
<1>5. CASE Retry
  <2>1. page.at = "one" /\ page.job # Nothing /\ ~Pending("create")
    BY <1>5 DEF Retry, RetryShown, FailureShown, Waiting
  <2>2. \A m \in DOMAIN requests : ~requests[m].here
    BY <1>1, <2>1 DEF Pending, OnOne, OnSeveral
  <2>3. SamePage /\ Send(New("create", TRUE, page.submitted))
    BY <1>5, StaysPage DEF Retry
  <2>4. OnOne(New("create", TRUE, page.submitted))
    <3>1. page.known = Nothing /\ page.submitted # None
      BY <2>1 DEF PageInv, WaitsForAsked
    <3>2. QED
      BY <1>2, <2>1, <3>1 DEF OnOne
  <2>5. QED
    BY <2>2, <2>3, <2>4, AskedPage
<1>6. CASE SubmitSeveral
  <2>1. page.at = "several" /\ ~Pending("create")
    BY <1>6 DEF SubmitSeveral, SeveralForm
  <2>2. \A m \in DOMAIN requests : ~requests[m].here
    BY <1>1, <2>1 DEF Pending, OnOne, OnSeveral
  <2>3. SamePage /\ Send(New("create", TRUE, None))
    BY <1>6, Messages DEF SubmitSeveral
  <2>4. OnSeveral(New("create", TRUE, None))
    BY <1>2, <2>1 DEF OnSeveral
  <2>5. QED
    BY <2>2, <2>3, <2>4, AskedPage
<1>7. ASSUME requests' = Left(requests), PageFields \subseteq DOMAIN page',
             page'.at # "one" \/ page'.job = Nothing
      PROVE  PageInv'
  <2>1. WaitsForAsked'
    BY <1>7 DEF WaitsForAsked
  <2> PICK q : q = requests
    OBVIOUS
  <2>2. requests' = Left(q)
    BY <1>7 DEF Left
  <2>3. QED
    BY <1>7, <2>1, <2>2, LeftPage
<1>8. CASE Leave
  <2>1. requests' = Left(requests)
    BY <1>8 DEF Leave
  <2>2. ASSUME NEW at, page' = Fresh(at) PROVE PageInv'
    BY <1>7, <2>1, <2>2, FreshPage
  <2>3. ASSUME NEW x, page' = [Fresh("analysis") EXCEPT !.opened = x] PROVE PageInv'
    BY <1>7, <2>1, <2>3, FreshPage
  <2>4. QED
    BY <1>8, <2>2, <2>3 DEF Leave
<1>9. ASSUME NEW i, OpenRow(i) PROVE PageInv'
  BY <1>7, <1>9, FreshPage DEF OpenRow
<1>10. CASE OpenDetail
  BY <1>7, <1>10, FreshPage DEF OpenDetail
<1>11. QED
  BY <1>3, <1>4, <1>5, <1>6, <1>8, <1>9, <1>10 DEF Candidate

LEMMA ServesPage ==
  ASSUME JobsInv, AnalysesInv, PageInv, RowsMove, NEW n \in DOMAIN requests, Serve(n) \/ Lose(n)
  PROVE  PageInv'
<1>1. UNCHANGED page
  BY DEF Serve, OfferLooked, AnalysesLooked, CreateServed, DirectCounted, DirectServed, Lose
<1>2. ASSUME NEW at, NEW id, At(n, at, id), requests[n].kind = "shortcut" \/ at # "done"
      PROVE  PageInv'
  <2> PICK o : o = requests[n].of
    OBVIOUS
  <2>1. QED
    BY <1>1, <1>2, AtPage
<1>3. CASE OfferLooked(n)
  BY <1>2, <1>3 DEF OfferLooked, Unchanged
<1>4. CASE AnalysesLooked(n)
  BY <1>2, <1>4 DEF AnalysesLooked, Unchanged
<1>5. CASE DirectCounted(n)
  BY <1>2, <1>5 DEF DirectCounted, Unchanged
<1>6. CASE DirectServed(n)
  <2> PICK S : analyses \in Seq(S)
    BY DEF AnalysesInv
  <2> PICK a, id, o : a = NewAnalysis(requests[n].of, Nothing) /\ id = Len(analyses') /\ o = requests[n].of
    OBVIOUS
  <2>1. analyses' = Append(analyses, a) /\ At(n, "done", id) /\ requests[n].kind = "direct"
    BY <1>6 DEF DirectServed, Unchanged
  <2>2. a.of = o
    BY DEF NewAnalysis
  <2>3. AnalysisOf(id, o)'
    BY <2>1, <2>2 DEF AnalysisOf
  <2>4. QED
    BY <1>1, <2>1, <2>3, AtPage
<1>7. CASE Lose(n)
  BY <1>2, <1>7 DEF Lose
<1>8. CASE CreateServed(n)
  <2> PICK S : jobs \in Seq(S)
    BY DEF JobsInv
  <2> DEFINE j == [mode |-> IF requests[n].of = None THEN "SITE_SEARCH" ELSE "SINGLE_URL",
                   url |-> requests[n].of, linked |-> {}, status |-> "PENDING",
                   listing |-> FALSE, skipped |-> 0]
  <2>1. jobs' = Append(jobs, j) /\ At(n, "done", Len(jobs'))
    BY <1>8 DEF CreateServed
  <2>2. j.url = requests[n].of /\ (requests[n].of # None => j.mode = "SINGLE_URL")
    OBVIOUS
  <2> HIDE DEF j
  <2>3. Len(jobs') \in DOMAIN jobs' /\ jobs'[Len(jobs')] = j
    BY <2>1
  <2> PICK id, o : id = Len(jobs') /\ o = requests[n].of
    OBVIOUS
  <2>4. ForOffer(id, o)'
    BY <2>2, <2>3 DEF ForOffer, AnalysisOf
  <2>5. requests[n].kind = "create"
    BY <1>8 DEF CreateServed, Unchanged
  <2>6. QED
    BY <1>1, <2>1, <2>4, <2>5, AtPage
<1>9. QED
  BY <1>3, <1>4, <1>5, <1>6, <1>7, <1>8 DEF Serve

\* The shortcut's answer: the page is told, and another request may follow.
LEMMA ShortcutPage ==
  ASSUME PageInv, RowsMove, NEW n \in DOMAIN requests, ShortcutAnswered(n)
  PROVE  PageInv'
<1>1. requests[n].kind = "shortcut" /\ Awaited(requests[n]) /\ PageFields \subseteq DOMAIN page
  BY DEF PageInv, ShortcutAnswered
<1>2. requests[n].here => /\ page.at = "one" /\ requests[n].of # None
                          /\ page.job = Nothing /\ page.known = Nothing
  BY <1>1 DEF Awaited, OnOne, OnSeveral
<1> PICK q, o, h : q = RemoveAt(requests, n) /\ o = requests[n].of /\ h = requests[n].here
  OBVIOUS
<1>3. \E S : q \in Seq(S)
  BY Rest
<1>4. \A m \in DOMAIN q : \E k \in DOMAIN requests : q[m] = requests[k]
  BY Rest
<1>5. \A m, l \in DOMAIN q : q[m].here /\ q[l].here => m = l
  BY Rest
<1>6. h => \A m \in DOMAIN q : ~q[m].here
  BY Rest
<1>7. ASSUME NEW kind, GoesOn(n, kind), PageFields \subseteq DOMAIN page', WaitsForAsked',
             ~h => SamePage, h => OnOne(New(kind, TRUE, o))'
      PROVE  PageInv'
  <2>1. requests' = Append(q, New(kind, h, o))
    BY <1>7 DEF GoesOn
  <2>2. New(kind, h, o).here = h /\ New(kind, h, o).kind = kind /\ New(kind, h, o).of = o
        /\ New(kind, TRUE, o).kind = kind /\ New(kind, TRUE, o).of = o
    BY DEF New
  <2> PICK c, d : c = New(kind, h, o) /\ d = New(kind, TRUE, o)
    OBVIOUS
  <2>3. h => OnOne(d)'
    BY <1>7
  <2>4. Awaited(c)'
    BY <2>2, <2>3 DEF Awaited, OnOne
  <2>5. Awaited(New(kind, h, o))'
    BY <2>4
  <2>6. \A m \in DOMAIN q : q[m].here => SamePage
    BY <1>6, <1>7
  <2>7. QED
    BY <1>3, <1>4, <1>5, <1>6, <1>7, <2>1, <2>5, <2>6, SentPage
<1>8. CASE /\ GoesOn(n, "create")
           /\ page' = IF Mounted(n) THEN [page EXCEPT !.submitted = requests[n].of] ELSE page
  <2>1. CASE h
    <3>1. /\ PageFields \subseteq DOMAIN page' /\ page'.at = page.at /\ page'.job = page.job
          /\ page'.known = page.known /\ page'.submitted = o
      BY <1>1, <1>8, <2>1 DEF Mounted, PageFields
    <3>2. WaitsForAsked'
      BY <1>2, <2>1, <3>1 DEF WaitsForAsked
    <3> PICK d : d = New("create", TRUE, o)
      OBVIOUS
    <3>3. d.kind = "create" /\ d.of = o
      BY DEF New
    <3>4. OnOne(d)'
      BY <1>2, <2>1, <3>1, <3>3 DEF OnOne
    <3>5. OnOne(New("create", TRUE, o))'
      BY <3>4
    <3>6. QED
      BY <1>7, <1>8, <2>1, <3>1, <3>2, <3>5
  <2>2. CASE ~h
    <3>1. SamePage
      BY <1>8, <2>2, StaysPage DEF Mounted
    <3>2. WaitsForAsked' /\ PageFields \subseteq DOMAIN page'
      BY <3>1, StillAsked DEF SamePage
    <3>3. QED
      BY <1>7, <1>8, <2>2, <3>1, <3>2
  <2>3. QED
    BY <2>1, <2>2
<1>9. CASE GoesOn(n, "direct") /\ UNCHANGED page
  <2>1. SamePage
    BY <1>9, StaysPage
  <2>2. WaitsForAsked' /\ PageFields \subseteq DOMAIN page'
    BY <2>1, StillAsked DEF SamePage
  <2> PICK d : d = New("direct", TRUE, o)
    OBVIOUS
  <2>3. d.kind = "direct" /\ d.of = o
    BY DEF New
  <2>4. h => OnOne(d)'
    BY <1>2, <2>1, <2>3 DEF OnOne, SamePage
  <2>5. h => OnOne(New("direct", TRUE, o))'
    BY <2>4
  <2>6. QED
    BY <1>7, <1>9, <2>1, <2>2, <2>5
<1>10. CASE /\ Answered(n)
            /\ page' = IF Mounted(n) THEN [page EXCEPT !.known = requests[n].id] ELSE page
  <2>1. CASE h
    <3>1. PageFields \subseteq DOMAIN page' /\ page'.at = page.at /\ page'.job = page.job
      BY <1>1, <1>10, <2>1 DEF Mounted, PageFields
    <3>2. WaitsForAsked'
      BY <1>2, <2>1, <3>1 DEF WaitsForAsked
    <3>3. QED
      BY <1>10, <2>1, <3>1, <3>2, AnsweredPage
  <2>2. CASE ~h
    <3>1. SamePage
      BY <1>10, <2>2, StaysPage DEF Mounted
    <3>2. WaitsForAsked' /\ PageFields \subseteq DOMAIN page'
      BY <3>1, StillAsked DEF SamePage
    <3>3. QED
      BY <1>10, <3>1, <3>2, AnsweredPage
  <2>3. QED
    BY <2>1, <2>2
<1>11. CASE /\ Answered(n)
            /\ page' = IF Mounted(n) THEN [page EXCEPT !.error = TRUE] ELSE page
  <2>1. SamePage
    BY <1>11, StaysPage, Messages DEF Mounted
  <2>2. WaitsForAsked' /\ PageFields \subseteq DOMAIN page'
    BY <2>1, StillAsked DEF SamePage
  <2>3. QED
    BY <1>11, <2>1, <2>2, AnsweredPage
<1>12. QED
  BY <1>8, <1>9, <1>10, <1>11 DEF ShortcutAnswered

\* The page that awaited a job waits for the one of what it submitted.
LEMMA CreatedPage ==
  ASSUME PageInv, RowsMove, NEW n \in DOMAIN requests, CreateAnswered(n)
  PROVE  PageInv'
<1>1. /\ requests[n].kind = "create" /\ Awaited(requests[n]) /\ Knows(requests[n])
      /\ PageFields \subseteq DOMAIN page /\ Answered(n)
  BY DEF PageInv, CreateAnswered
<1>2. CASE requests[n].here /\ requests[n].at = "done"
  <2>1. page' = [page EXCEPT !.job = requests[n].id]
    BY <1>2 DEF CreateAnswered, Mounted
  <2>2. /\ PageFields \subseteq DOMAIN page' /\ page'.at = page.at /\ page'.job = requests[n].id
        /\ page'.known = page.known /\ page'.submitted = page.submitted
    BY <1>1, <2>1 DEF PageFields
  <2>3. ForOffer(requests[n].id, requests[n].of)
    BY <1>1, <1>2 DEF Knows
  <2>4. page.at = "one" => /\ requests[n].of # None /\ page.known = Nothing
                           /\ page.submitted = requests[n].of
    BY <1>1, <1>2 DEF Awaited, OnOne, OnSeveral
  <2>5. WaitsForAsked'
    BY <2>2, <2>3, <2>4 DEF WaitsForAsked, ForOffer, AnalysisOf, JobsMove, RowsMove
  <2>6. QED
    BY <1>1, <1>2, <2>2, <2>5, AnsweredPage
<1>3. CASE ~(requests[n].here /\ requests[n].at = "done")
  <2>1. SamePage
    BY <1>3, StaysPage, Messages DEF CreateAnswered, Mounted
  <2>2. WaitsForAsked' /\ PageFields \subseteq DOMAIN page'
    BY <2>1, StillAsked DEF SamePage
  <2>3. QED
    BY <1>1, <2>1, <2>2, AnsweredPage
<1>4. QED
  BY <1>2, <1>3

LEMMA DirectPage ==
  ASSUME PageInv, RowsMove, NEW n \in DOMAIN requests, DirectAnswered(n)
  PROVE  PageInv'
<1>1. CASE requests[n].at = "done"
  <2> PICK q : q = RemoveAt(requests, n)
    OBVIOUS
  <2>1. requests' = Left(q) /\ page' = [Fresh("analysis") EXCEPT !.opened = requests[n].id]
    BY <1>1 DEF DirectAnswered
  <2>2. PageFields \subseteq DOMAIN page' /\ page'.job = Nothing
    BY <2>1, FreshPage
  <2>3. WaitsForAsked'
    BY <2>2 DEF WaitsForAsked
  <2>4. QED
    BY <2>1, <2>2, <2>3, LeftPage
<1>2. CASE requests[n].at # "done"
  <2>1. SamePage /\ Answered(n)
    BY <1>2, StaysPage, Messages DEF DirectAnswered
  <2>2. WaitsForAsked' /\ PageFields \subseteq DOMAIN page'
    BY <2>1, StillAsked DEF SamePage
  <2>3. QED
    BY <2>1, <2>2, AnsweredPage
<1>3. QED
  BY <1>1, <1>2

LEMMA PollsPage ==
  ASSUME PageInv, RowsMove, PollAnalyses
  PROVE  PageInv'
<1>1. CASE UNCHANGED <<page, requests>>
  BY <1>1, StaysPage, SamePageInv
<1>2. ASSUME NEW x, page' = [Fresh("analysis") EXCEPT !.opened = x], requests' = Left(requests)
      PROVE  PageInv'
  <2> PICK q : q = requests
    OBVIOUS
  <2>1. requests' = Left(q)
    BY <1>2 DEF Left
  <2>2. PageFields \subseteq DOMAIN page' /\ page'.job = Nothing
    BY <1>2, FreshPage
  <2>3. WaitsForAsked'
    BY <2>2 DEF WaitsForAsked
  <2>4. QED
    BY <2>1, <2>2, <2>3, LeftPage
<1>3. QED
  BY <1>1, <1>2 DEF PollAnalyses

LEMMA NextPage == JobsInv /\ AnalysesInv /\ LinkInv /\ PageInv /\ [Next]_vars => PageInv'
<1> SUFFICES ASSUME JobsInv, AnalysesInv, LinkInv, PageInv, [Next]_vars PROVE PageInv'
  OBVIOUS
<1>1. RowsMove
  BY NextJobsMove, NextAnalysesMove DEF LinkInv, RowsMove
<1>2. ASSUME UNCHANGED <<page, requests>> PROVE PageInv'
  BY <1>1, <1>2, StaysPage, SamePageInv
<1>3. CASE Work \/ WorkerRaises \/ WorkerDies \/ AnalysisEnds \/ UNCHANGED vars
  BY <1>2, <1>3 DEF Work, TakeJob, FindOffers, ExtractOffer, Aggregate, TellListing, CreateAnalyses, SendAnalysis,
                    Finish, WorkerRaises, WorkerDies, AnalysisEnds, browser, vars
<1>4. CASE PollJob
  BY <1>2, <1>4 DEF PollJob
<1>5. ASSUME NEW n \in DOMAIN requests, Serve(n) \/ Answer(n) \/ Lose(n) PROVE PageInv'
  BY <1>1, <1>5, ServesPage, ShortcutPage, CreatedPage, DirectPage DEF Answer
<1>6. QED
  BY <1>1, <1>3, <1>4, <1>5, CandidatePage, PollsPage DEF Next

-----------------------------------------------------------------------------
(* The Analysis that the waiting page opens *)

\* A set of natural numbers has a least element, and one that is bounded a greatest.
LEMMA LeastOf == ASSUME NEW T, T \subseteq Nat, T # {} PROVE \E x \in T : \A y \in T : x <= y
<1> DEFINE R == OpToRel(<, Nat)
<1>1. IsWellFoundedOn(R, Nat)
  BY NatLessThanWellFounded
<1>2. \A a, b \in Nat : a < b => <<a, b>> \in R
  BY DEF OpToRel
<1> HIDE DEF R
<1>3. PICK x \in T : \A y \in T : ~(<<y, x>> \in R)
  BY <1>1, WFMin
<1>4. x \in Nat /\ \A y \in T : y \in Nat
  OBVIOUS
<1>5. \A y \in T : ~(y < x)
  BY <1>2, <1>3, <1>4, Zenon
<1>6. QED
  BY <1>4, <1>5

LEMMA GreatestIsOne ==
  ASSUME NEW b \in Nat, NEW T, T \subseteq 1..b, T # {}
  PROVE  Max(T) \in T
<1> DEFINE D == {k \in Nat : \E x \in T : k = b - x}
<1>1. \A x \in T : b - x \in Nat /\ x \in Nat
  OBVIOUS
<1>2. D \subseteq Nat /\ D # {}
  BY <1>1
<1>3. PICK k \in D : \A l \in D : k <= l
  <2> HIDE DEF D
  <2>1. QED
    BY <1>2, LeastOf
<1>4. PICK x \in T : k = b - x
  BY <1>3
<1>5. ASSUME NEW y \in T PROVE x >= y
  <2>1. b - y \in D
    BY <1>1
  <2>2. k <= b - y
    BY <1>3, <2>1
  <2>3. QED
    BY <1>1, <1>4, <2>2
<1>6. QED
  BY <1>5 DEF Max

OpensIt ==
  clicks' = clicks /\ page' # page /\ page'.at = "analysis" =>
    OpenedByWaiting \/ \E n \in DOMAIN requests : OpenedByAnswer(n)

LEMMA PollOpens == ASSUME AnalysesInv, LinkInv, PageInv, PollAnalyses PROVE OpensIt
<1> SUFFICES ASSUME page' # page, page'.at = "analysis" PROVE OpenedByWaiting
  BY DEF OpensIt
<1> DEFINE batch == OfJob(page.job)
<1>1. Waiting /\ batch # {} /\ page' = [Fresh("analysis") EXCEPT !.opened = Max(batch)]
  BY DEF PollAnalyses
<1>2. page.at = "one" /\ page.job # Nothing
  BY <1>1 DEF Waiting
<1>3. page'.opened = Max(batch)
  BY <1>1 DEF Fresh
<1>4. Max(batch) \in batch
  <2> PICK S : analyses \in Seq(S)
    BY DEF AnalysesInv
  <2>1. Len(analyses) \in Nat /\ batch \subseteq 1..Len(analyses)
    BY DEF OfJob
  <2> HIDE DEF batch
  <2>2. QED
    BY <1>1, <2>1, GreatestIsOne
<1> HIDE DEF batch
<1>5. PICK i \in DOMAIN analyses : i = Max(batch) /\ analyses[i].job = page.job
  BY <1>4 DEF batch, OfJob
<1>6. MadeFor(analyses[i])
  BY DEF LinkInv
<1>7. jobs[page.job].mode = "SINGLE_URL" /\ jobs[page.job].url = page.submitted
  BY <1>2 DEF PageInv, WaitsForAsked, ForOffer
<1>8. QED
  BY <1>1, <1>2, <1>3, <1>5, <1>6, <1>7 DEF MadeFor, OpenedByWaiting, OpenedOffer

\* The answer that opens one is of what was asked; a page that waits has no such request left.
LEMMA AnswerOpens ==
  ASSUME PageInv, NEW n \in DOMAIN requests, DirectAnswered(n), page' # page, page'.at = "analysis",
         requests[n].at = "done"
  PROVE  OpenedByAnswer(n)
<1>1. page'.opened = requests[n].id
  BY DEF DirectAnswered, Fresh
<1>2. requests[n].kind = "direct" /\ Knows(requests[n]) /\ Awaited(requests[n])
  BY DEF PageInv, DirectAnswered
<1>3. analyses[requests[n].id].of = requests[n].of
  BY <1>2 DEF Knows, AnalysisOf
<1>4. requests[n].here => ~Waiting
  BY <1>2 DEF Awaited, OnOne, OnSeveral, Waiting
<1>5. QED
  BY <1>1, <1>2, <1>3, <1>4 DEF OpenedByAnswer, OpenedOffer

\* What the candidate does is counted, and nothing else is.
LEMMA CandidateClicks == Candidate => Click
BY DEF Candidate, SubmitOffer, OpenRow, Rerun, Retry, SubmitSeveral, Leave, OpenDetail

LEMMA NextClicks == clicks \in Nat /\ [Next]_vars => clicks' \in Nat
<1> SUFFICES ASSUME clicks \in Nat, [Next]_vars PROVE clicks' \in Nat
  OBVIOUS
<1>1. CASE Candidate
  BY <1>1, CandidateClicks DEF Click
<1>2. CASE UNCHANGED clicks
  BY <1>2
<1>3. CASE Work \/ WorkerRaises \/ WorkerDies \/ AnalysisEnds \/ PollJob \/ PollAnalyses \/ UNCHANGED vars
  BY <1>2, <1>3 DEF Work, TakeJob, FindOffers, ExtractOffer, Aggregate, TellListing, CreateAnalyses,
                    SendAnalysis, Finish, WorkerRaises, WorkerDies, AnalysisEnds, PollJob,
                    PollAnalyses, browser, vars
<1>4. ASSUME NEW n \in DOMAIN requests, Serve(n) \/ Lose(n) PROVE clicks' \in Nat
  BY <1>2, <1>4 DEF Serve, OfferLooked, AnalysesLooked, CreateServed, DirectCounted, DirectServed, Lose
<1>5. ASSUME NEW n \in DOMAIN requests, Answer(n) PROVE clicks' \in Nat
  BY <1>2, <1>5 DEF Answer, ShortcutAnswered, CreateAnswered, DirectAnswered
<1>6. QED
  BY <1>1, <1>3, <1>4, <1>5 DEF Next

LEMMA NextOpens == clicks \in Nat /\ AnalysesInv /\ LinkInv /\ PageInv /\ [Next]_vars => OpensIt
<1> SUFFICES ASSUME clicks \in Nat, AnalysesInv, LinkInv, PageInv, [Next]_vars PROVE OpensIt
  OBVIOUS
<1>1. CASE UNCHANGED page
  BY <1>1 DEF OpensIt
<1>2. CASE Work \/ WorkerRaises \/ WorkerDies \/ AnalysisEnds \/ PollJob \/ UNCHANGED vars
  BY <1>1, <1>2 DEF Work, TakeJob, FindOffers, ExtractOffer, Aggregate, TellListing, CreateAnalyses,
                    SendAnalysis, Finish, WorkerRaises, WorkerDies, AnalysisEnds, PollJob, browser, vars
<1>3. CASE Candidate
  <2>1. clicks' # clicks
    BY <1>3, CandidateClicks DEF Click
  <2>2. QED
    BY <2>1 DEF OpensIt
<1>4. ASSUME NEW n \in DOMAIN requests, Serve(n) \/ Lose(n) PROVE OpensIt
  BY <1>1, <1>4 DEF Serve, OfferLooked, AnalysesLooked, CreateServed, DirectCounted, DirectServed, Lose
<1>5. ASSUME NEW n \in DOMAIN requests, ShortcutAnswered(n) \/ CreateAnswered(n) PROVE OpensIt
  <2>1. PageFields \subseteq DOMAIN page
    BY DEF PageInv
  <2>2. page'.at = page.at
    BY <1>5, <2>1 DEF ShortcutAnswered, CreateAnswered, PageFields
  <2>3. CASE requests[n].here
    <3>1. OnOne(requests[n]) \/ OnSeveral(requests[n])
      BY <2>3 DEF PageInv, Awaited
    <3>2. page.at # "analysis"
      BY <3>1 DEF OnOne, OnSeveral
    <3>3. QED
      BY <2>2, <3>2 DEF OpensIt
  <2>4. CASE ~requests[n].here
    BY <1>1, <1>5, <2>4 DEF ShortcutAnswered, CreateAnswered, Mounted
  <2>5. QED
    BY <2>3, <2>4
<1>6. ASSUME NEW n \in DOMAIN requests, DirectAnswered(n) PROVE OpensIt
  <2>1. CASE requests[n].at # "done"
    <3>1. SamePage
      BY <1>6, <2>1, StaysPage, Messages DEF DirectAnswered
    <3>2. CASE requests[n].here
      <4>1. OnOne(requests[n]) \/ OnSeveral(requests[n])
        BY <3>2 DEF PageInv, Awaited
      <4>2. QED
        BY <3>1, <4>1 DEF OpensIt, OnOne, OnSeveral, SamePage
    <3>3. CASE ~requests[n].here
      BY <1>1, <1>6, <2>1, <3>3 DEF DirectAnswered, Mounted
    <3>4. QED
      BY <3>2, <3>3
  <2>2. CASE requests[n].at = "done"
    BY <1>6, <2>2, AnswerOpens DEF OpensIt
  <2>3. QED
    BY <2>1, <2>2
<1>7. QED
  BY <1>2, <1>3, <1>4, <1>5, <1>6, PollOpens DEF Next, Answer

\* What opens an Analysis by itself opens one of the offer that was asked for: the waiting page
\* that of its last submission, an answer that of its own request, and a page that waits is only
\* moved by what was asked before it was there (the polling and the redirect of
\* analyses/new/page.tsx).
THEOREM OpensTheOfferAsked == Spec => OpensWhatWasAsked
<1> DEFINE Inv == clicks \in Nat /\ JobsInv /\ AnalysesInv /\ LinkInv /\ PageInv
<1>1. Init => Inv
  BY InitJobs, InitAnalyses, InitLinks, InitPage DEF Init
<1>2. Inv /\ [Next]_vars => Inv'
  BY NextClicks, NextJobs, NextAnalyses, NextLinks, NextPage
<1>3. Inv /\ [Next]_vars => [OpensIt]_vars
  BY NextOpens
<1> HIDE DEF Inv
<1>4. Spec => [][OpensIt]_vars
  BY <1>1, <1>2, <1>3, PTL DEF Spec
<1>5. OpensWhatWasAsked <=> [][OpensIt]_vars
  BY DEF OpensWhatWasAsked, OpensIt
<1>6. QED
  BY <1>4, <1>5, PTL
=============================================================================
