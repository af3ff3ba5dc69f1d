----------------------- MODULE TestRunSequence_proofs -----------------------
(***************************************************************************)
(* Theorems about TestRunSequence, for any number of configs, workers and  *)
(* tasks; the last one is that the sequence implements SequencePromise.    *)
(***************************************************************************)
EXTENDS TestRunSequence, SequenceTheorems, TLAPS

Finished == Len(sequence.finished)

\* finished_test_run_ids lists the first runs, all but the last one at least.
ListIsPrefix ==
  /\ \A i \in 1 .. Finished : sequence.finished[i] = i
  /\ Finished <= Len(runs)
  /\ Len(runs) <= Finished + 1

\* A sequence that goes on has configs left; one that has stopped has seen all
\* of its runs end.
StateFits ==
  /\ sequence.state = "RUNNING" => Finished < N
  /\ sequence.state # "RUNNING" => Finished = Len(runs) /\ Finished > 0

\* Each run is the one of its config, and its outcomes are those it has had.
RunsFit ==
  \A r \in Created :
    /\ runs[r].config = r
    /\ runs[r].state = "PENDING" => runs[r].had = {}
    /\ runs[r].state # "PENDING" => runs[r].state \in runs[r].had

\* Only a run that has ended is in the list, has a task, or has a call.
OnlyFinalRuns ==
  /\ \A r \in 1 .. Finished : IsFinal(r)
  /\ \A r \in Ids : tasks[r] > 0 => r \in Created /\ IsFinal(r)
  /\ \A w \in Workers :
       worker[w].pc # "idle" =>
         /\ worker[w].run \in Created
         /\ IsFinal(worker[w].run)
         /\ worker[w].outcome \in runs[worker[w].run].had

\* A call that will create a run is the only one that will, and the run is the
\* next one of a running sequence.
OneCreator ==
  \A w \in Workers :
    worker[w].pc = "create" =>
      /\ sequence.state = "RUNNING"
      /\ Finished = Len(runs)
      /\ worker[w].config = Len(runs) + 1
      /\ \A v \in Workers : worker[v].pc = "create" => v = w

IInv == TypeOK /\ ListIsPrefix /\ StateFits /\ RunsFit /\ OnlyFinalRuns
          /\ OneCreator

-----------------------------------------------------------------------------
(* The two ways in which the runs change                                   *)

\* A run that ends, or ends again, changes its state and its outcomes only.
LEMMA EndRunFacts ==
  ASSUME TypeOK, NEW r \in Created, NEW outcome \in Outcomes,
         EndRun(r, outcome)
  PROVE  /\ runs' \in Seq(Run)
         /\ Len(runs') = Len(runs)
         /\ \A i \in Created \ {r} : runs'[i] = runs[i]
         /\ runs'[r].config = runs[r].config
         /\ runs'[r].state = outcome
         /\ runs'[r].had = runs[r].had \cup {outcome}
<1>. DEFINE ended == [runs[r] EXCEPT !.state = outcome,
                                     !.had = @ \cup {outcome}]
<1>1. runs \in Seq(Run) /\ runs[r] \in Run
  BY DEF TypeOK, Created
<1>2. /\ ended \in Run
      /\ ended.config = runs[r].config
      /\ ended.state = outcome
      /\ ended.had = runs[r].had \cup {outcome}
  BY <1>1 DEF Run
<1>3. runs' = [runs EXCEPT ![r] = ended]
  BY <1>1 DEF EndRun, Run
<1>. HIDE DEF ended
<1>. QED
  BY <1>1, <1>2, <1>3, ExceptSeq DEF Created

\* A new run is PENDING, and the others stay as they are.
LEMMA NewRunFacts ==
  ASSUME TypeOK, NEW config \in Ids, runs' = Append(runs, NewRun(config))
  PROVE  /\ runs' \in Seq(Run)
         /\ Len(runs') = Len(runs) + 1
         /\ \A i \in Created : runs'[i] = runs[i]
         /\ runs'[Len(runs) + 1] = NewRun(config)
         /\ NewRun(config) \in Run
<1>1. NewRun(config) \in Run
  BY DEF NewRun, Run
<1>2. runs \in Seq(Run)
  BY DEF TypeOK
<1>. QED
  BY <1>1, <1>2, AppendProperties DEF Created

\* The runs are numbered like the configs.
LEMMA CreatedIds == TypeOK => Len(runs) \in Nat /\ Created \subseteq Ids
<1>. SUFFICES ASSUME TypeOK PROVE Len(runs) \in Nat /\ Created \subseteq Ids
  OBVIOUS
<1>1. Len(runs) \in Nat /\ Len(runs) <= N
  BY LenProperties DEF TypeOK
<1>. QED
  BY <1>1, LengthAssumption DEF Created, Ids

\* The puller's answer to a call adds a task for the call's own run, if any.
LEMMA RedeliverFacts ==
  ASSUME TypeOK, NEW w \in Workers, Redeliver(w), worker[w].run \in Ids
  PROVE  /\ tasks' \in [Ids -> Nat]
         /\ added' \in [Ids -> 0 .. MaxTasks]
         /\ \A r \in Ids \ {worker[w].run} : tasks'[r] = tasks[r]
<1>1. CASE UNCHANGED <<tasks, added>>
  BY <1>1 DEF TypeOK
<1>2. CASE /\ added[worker[w].run] < MaxTasks
           /\ added' = [added EXCEPT ![worker[w].run] = @ + 1]
           /\ tasks' = [tasks EXCEPT ![worker[w].run] = @ + 1]
  BY <1>2, TaskAssumption DEF TypeOK
<1>. QED
  BY <1>1, <1>2 DEF Redeliver

\* An idle call has the type of a call.
LEMMA IdleCall == IdleWorker \in Call
BY DEF IdleWorker, Call

\* The list of finished runs grows by one run.
LEMMA FinishedFacts ==
  ASSUME TypeOK, NEW r \in Ids
  PROVE  /\ Append(sequence.finished, r) \in Seq(Ids)
         /\ Finished \in Nat
         /\ Len(Append(sequence.finished, r)) = Finished + 1
         /\ \A i \in 1 .. Finished :
              Append(sequence.finished, r)[i] = sequence.finished[i]
         /\ Append(sequence.finished, r)[Finished + 1] = r
<1>1. sequence.finished \in Seq(Ids)
  BY DEF TypeOK
<1>. QED
  BY <1>1, AppendProperties DEF Finished

\* At the beginning the list is empty and there is no run.
LEMMA InitIInv == Init => IInv
<1>. SUFFICES ASSUME Init PROVE IInv
  OBVIOUS
<1>1. /\ sequence.finished = <<>> /\ sequence.state = "RUNNING"
      /\ Len(sequence.finished) = 0
      /\ runs = <<>> /\ Len(runs) = 0
      /\ \A w \in Workers : worker[w].pc = "idle"
      /\ \A r \in Ids : tasks[r] = 0
  BY DEF Init, IdleWorker
<1>2. TypeOK
  <2>1. sequence \in [state : Outcomes \cup {"RUNNING"}, finished : Seq(Ids)]
    BY DEF Init
  <2>2. runs \in Seq(Run) /\ Len(runs) <= N
    BY <1>1, LengthAssumption
  <2>3. worker \in [Workers -> Call]
    BY IdleCall DEF Init
  <2>4. added \in [Ids -> 0 .. MaxTasks] /\ tasks \in [Ids -> Nat]
    BY TaskAssumption DEF Init
  <2>. QED
    BY <2>1, <2>2, <2>3, <2>4 DEF TypeOK
<1>. QED
  BY <1>1, <1>2, LengthAssumption
     DEF IInv, ListIsPrefix, StateFits, RunsFit, OnlyFinalRuns, OneCreator,
         Finished, Created

-----------------------------------------------------------------------------
(* Steps that change tasks and calls only                                  *)

\* Such a step is harmless if every task and call that is left is about a run
\* that has ended, and no call becomes one that will create a run.
LEMMA QuietStep ==
  ASSUME IInv, UNCHANGED <<sequence, runs>>, TypeOK',
         \A r \in Ids : tasks'[r] > 0 => r \in Created /\ IsFinal(r),
         \A w \in Workers :
           worker'[w].pc # "idle" =>
             /\ worker'[w].run \in Created
             /\ IsFinal(worker'[w].run)
             /\ worker'[w].outcome \in runs[worker'[w].run].had,
         \A w \in Workers :
           worker'[w].pc = "create" =>
             worker[w].pc = "create" /\ worker'[w].config = worker[w].config
  PROVE  IInv'
<1>1. ListIsPrefix' /\ StateFits' /\ RunsFit'
  BY DEF IInv, ListIsPrefix, StateFits, RunsFit, Finished, Created
<1>2. OnlyFinalRuns'
  BY DEF IInv, OnlyFinalRuns, Finished, Created, IsFinal
<1>3. OneCreator'
  BY DEF IInv, OneCreator, Finished
<1>. QED
  BY <1>1, <1>2, <1>3 DEF IInv

\* The handlers of a run that has ended add a task for it.
LEMMA AfterTestRunHandlerStep ==
  ASSUME IInv, NEW r \in Created, AfterTestRunHandler(r)
  PROVE  IInv'
<1>1. r \in Ids
  BY CreatedIds DEF IInv
<1>2. TypeOK'
  <2>1. /\ tasks' \in [Ids -> Nat]
        /\ added' \in [Ids -> 0 .. MaxTasks]
    BY <1>1, TaskAssumption DEF IInv, TypeOK, AfterTestRunHandler
  <2>. QED
    BY <2>1 DEF IInv, TypeOK, AfterTestRunHandler
<1>3. \A i \in Ids : tasks'[i] > 0 => i \in Created /\ IsFinal(i)
  BY <1>1 DEF IInv, TypeOK, OnlyFinalRuns, AfterTestRunHandler
<1>. QED
  BY <1>2, <1>3, QuietStep DEF IInv, OnlyFinalRuns, AfterTestRunHandler

\* A call takes a task and reads its run.
LEMMA ScheduleNextTestRunStep ==
  ASSUME IInv, NEW w \in Workers, NEW r \in Ids, ScheduleNextTestRun(w, r)
  PROVE  IInv'
<1>. DEFINE call == [pc |-> "next", run |-> r, outcome |-> runs[r].state,
                     config |-> 0, waited |-> TRUE]
<1>1. r \in Created /\ IsFinal(r)
  BY DEF IInv, OnlyFinalRuns, ScheduleNextTestRun
<1>2. call \in Call
  BY <1>1 DEF Call, IsFinal
<1>3. worker' = [worker EXCEPT ![w] = call]
  BY DEF ScheduleNextTestRun
<1>4. TypeOK'
  <2>1. tasks' \in [Ids -> Nat]
    BY DEF IInv, TypeOK, ScheduleNextTestRun
  <2>. HIDE DEF call
  <2>. QED
    BY <2>1, <1>2, <1>3 DEF IInv, TypeOK, ScheduleNextTestRun
<1>5. runs[r].state \in runs[r].had
  BY <1>1 DEF IInv, RunsFit, IsFinal, Outcomes
<1>6. \A i \in Ids : tasks'[i] > 0 => i \in Created /\ IsFinal(i)
  BY DEF IInv, TypeOK, OnlyFinalRuns, ScheduleNextTestRun
<1>7. /\ \A v \in Workers \ {w} : worker'[v] = worker[v]
      /\ worker'[w] = call
  BY <1>3 DEF IInv, TypeOK
<1>. QED
  BY <1>1, <1>4, <1>5, <1>6, <1>7, QuietStep
     DEF IInv, OnlyFinalRuns, ScheduleNextTestRun

\* A call that is abandoned leaves at most a task for its own run.
LEMMA AbandonStep ==
  ASSUME IInv, NEW w \in Workers, worker[w].pc # "idle", Redeliver(w),
         UNCHANGED <<sequence, runs>>,
         NEW call \in Call, worker' = [worker EXCEPT ![w] = call],
         \/ call = IdleWorker
         \/ call = [worker[w] EXCEPT !.waited = FALSE]
  PROVE  IInv'
<1>1. worker[w].run \in Created /\ IsFinal(worker[w].run)
  BY DEF IInv, OnlyFinalRuns
<1>2. worker[w].run \in Ids
  BY <1>1, CreatedIds DEF IInv
<1>3. TypeOK'
  <2>1. /\ tasks' \in [Ids -> Nat]
        /\ added' \in [Ids -> 0 .. MaxTasks]
    BY <1>2, RedeliverFacts DEF IInv
  <2>. QED
    BY <2>1 DEF IInv, TypeOK
<1>4. \A i \in Ids : tasks'[i] > 0 => i \in Created /\ IsFinal(i)
  BY <1>1, <1>2, RedeliverFacts DEF IInv, OnlyFinalRuns
<1>5. /\ \A v \in Workers \ {w} : worker'[v] = worker[v]
      /\ worker'[w] = call
  BY DEF IInv, TypeOK
<1>6. \/ call.pc = "idle"
      \/ /\ call.pc = worker[w].pc /\ call.run = worker[w].run
         /\ call.outcome = worker[w].outcome /\ call.config = worker[w].config
  BY DEF IInv, TypeOK, Call, IdleWorker
<1>. QED
  BY <1>3, <1>4, <1>5, <1>6, QuietStep DEF IInv, OnlyFinalRuns

\* A call fails, or its process dies.
LEMMA CallFailsStep ==
  ASSUME IInv, NEW w \in Workers, CallFails(w)
  PROVE  IInv'
BY AbandonStep, IdleCall DEF CallFails

\* The puller waits no longer for a call.
LEMMA PullerTimesOutStep ==
  ASSUME IInv, NEW w \in Workers, PullerTimesOut(w)
  PROVE  IInv'
<1>1. [worker[w] EXCEPT !.waited = FALSE] \in Call
  BY DEF IInv, TypeOK, Call
<1>. QED
  BY <1>1, AbandonStep DEF PullerTimesOut

\* A restart leaves neither tasks nor calls.
LEMMA RestartStep == ASSUME IInv, Restart PROVE IInv'
<1>1. TypeOK'
  BY IdleCall DEF IInv, TypeOK, Restart
<1>2. \A w \in Workers : worker'[w].pc = "idle"
  BY DEF Restart, IdleWorker
<1>3. \A r \in Ids : tasks'[r] = 0
  BY DEF Restart
<1>. QED
  BY <1>1, <1>2, <1>3, QuietStep DEF Restart

-----------------------------------------------------------------------------
(* Steps that change the runs or the sequence                              *)

\* A run ends, or a failure is written over its end.
LEMMA EndRunStep ==
  ASSUME IInv, NEW r \in Created, NEW outcome \in Outcomes,
         EndRun(r, outcome), UNCHANGED <<sequence, tasks, added, worker>>
  PROVE  IInv'
<1>1. /\ TypeOK' /\ Created' = Created /\ Len(runs') = Len(runs)
  BY EndRunFacts DEF IInv, TypeOK, Created
<1>2. \A i \in Created :
        /\ runs'[i].config = runs[i].config
        /\ runs[i].had \subseteq runs'[i].had
        /\ IsFinal(i) => IsFinal(i)'
  BY EndRunFacts DEF IInv, IsFinal
<1>3. ListIsPrefix' /\ StateFits'
  BY <1>1 DEF IInv, ListIsPrefix, StateFits, Finished
<1>4. RunsFit'
  <2>. SUFFICES ASSUME NEW i \in Created
                PROVE  /\ runs'[i].config = i
                       /\ runs'[i].state = "PENDING" => runs'[i].had = {}
                       /\ runs'[i].state # "PENDING" =>
                            runs'[i].state \in runs'[i].had
    BY <1>1 DEF RunsFit
  <2>1. CASE i = r
    BY <2>1, EndRunFacts DEF IInv, RunsFit, Outcomes
  <2>2. CASE i # r
    BY <2>2, EndRunFacts DEF IInv, RunsFit
  <2>. QED
    BY <2>1, <2>2
<1>5. OnlyFinalRuns'
  <2>1. 1 .. Finished \subseteq Created
    BY CreatedIds, FinishedFacts, LengthAssumption
       DEF IInv, ListIsPrefix, Created, Ids
  <2>. QED
    BY <1>1, <1>2, <2>1 DEF IInv, OnlyFinalRuns, Finished
<1>6. OneCreator'
  BY <1>1 DEF IInv, OneCreator, Finished
<1>. QED
  BY <1>1, <1>3, <1>4, <1>5, <1>6 DEF IInv

\* CreateTestRun puts one more run, after all others of the sequence ended.
LEMMA PutRunStep ==
  ASSUME IInv, sequence.state = "RUNNING", Finished = Len(runs),
         runs' = Append(runs, NewRun(Len(runs) + 1)), UNCHANGED sequence,
         tasks' \in [Ids -> Nat], added' \in [Ids -> 0 .. MaxTasks],
         worker' \in [Workers -> Call],
         \A r \in Ids : tasks'[r] > 0 => r \in Created /\ IsFinal(r),
         \A v \in Workers : worker'[v].pc # "create"
                              /\ (worker'[v] = worker[v]
                                    \/ worker'[v].pc = "idle")
  PROVE  IInv'
<1>. DEFINE new == Len(runs) + 1
<1>1. Len(runs) \in Nat /\ Finished < N
  BY CreatedIds DEF IInv, StateFits
<1>2. new \in Ids
  BY <1>1, LengthAssumption DEF Ids
<1>3. /\ runs' \in Seq(Run)
      /\ Len(runs') = Len(runs) + 1
      /\ \A i \in Created : runs'[i] = runs[i]
      /\ runs'[new] = NewRun(new)
  BY <1>2, NewRunFacts DEF IInv
<1>4. TypeOK'
  BY <1>1, <1>3, LengthAssumption DEF IInv, TypeOK
<1>5. Finished' = Finished /\ 1 .. Finished = Created
  BY DEF Finished, Created
<1>6. Created' = Created \cup {new}
  BY <1>1, <1>3 DEF Created
<1>7. ListIsPrefix'
  BY <1>1, <1>3, <1>5 DEF IInv, ListIsPrefix
<1>8. StateFits'
  BY <1>1, <1>5 DEF StateFits
<1>9. RunsFit'
  <2>1. /\ runs'[new].config = new
        /\ runs'[new].state = "PENDING" /\ runs'[new].had = {}
    BY <1>3 DEF NewRun
  <2>2. \A i \in Created :
          /\ runs'[i].config = i
          /\ runs'[i].state = "PENDING" => runs'[i].had = {}
          /\ runs'[i].state # "PENDING" => runs'[i].state \in runs'[i].had
    BY <1>3 DEF IInv, RunsFit
  <2>. QED
    BY <1>6, <2>1, <2>2 DEF RunsFit
<1>10. OnlyFinalRuns'
  BY <1>3, <1>5, <1>6 DEF IInv, OnlyFinalRuns, IsFinal
<1>11. OneCreator'
  BY DEF OneCreator
<1>. QED
  BY <1>4, <1>7, <1>8, <1>9, <1>10, <1>11 DEF IInv

\* The first run of the sequence.
LEMMA CreateFirstRunStep == ASSUME IInv, CreateFirstRun PROVE IInv'
<1>1. Len(runs) = 0 /\ Created = {}
  BY DEF CreateFirstRun, Created
<1>2. Finished = 0 /\ sequence.state = "RUNNING"
  BY <1>1, FinishedFacts, LengthAssumption
     DEF IInv, ListIsPrefix, StateFits, Ids
<1>3. \A w \in Workers : worker[w].pc = "idle"
  BY <1>1 DEF IInv, OnlyFinalRuns
<1>. QED
  BY <1>1, <1>2, <1>3, PutRunStep
     DEF CreateFirstRun, IInv, TypeOK, OnlyFinalRuns

\* The run of the next config.
LEMMA CreateTestRunStep ==
  ASSUME IInv, NEW w \in Workers, CreateTestRun(w) PROVE IInv'
<1>1. /\ worker[w].config = Len(runs) + 1
      /\ Finished = Len(runs) /\ sequence.state = "RUNNING"
      /\ \A v \in Workers : worker[v].pc = "create" => v = w
  BY DEF IInv, OneCreator, CreateTestRun
<1>2. worker[w].run \in Created /\ IsFinal(worker[w].run)
  BY DEF IInv, OnlyFinalRuns, CreateTestRun
<1>3. worker[w].run \in Ids
  BY <1>2, CreatedIds DEF IInv
<1>4. /\ tasks' \in [Ids -> Nat] /\ added' \in [Ids -> 0 .. MaxTasks]
      /\ \A r \in Ids : tasks'[r] > 0 => r \in Created /\ IsFinal(r)
  BY <1>2, <1>3, RedeliverFacts DEF IInv, OnlyFinalRuns, CreateTestRun
<1>5. /\ worker' \in [Workers -> Call] /\ worker'[w] = IdleWorker
      /\ \A v \in Workers \ {w} : worker'[v] = worker[v]
  BY IdleCall DEF IInv, TypeOK, CreateTestRun
<1>6. \A v \in Workers : worker'[v].pc # "create"
                           /\ (worker'[v] = worker[v]
                                 \/ worker'[v].pc = "idle")
  BY <1>1, <1>5 DEF IdleWorker
<1>. QED
  BY <1>1, <1>4, <1>5, <1>6, PutRunStep DEF CreateTestRun

\* A call whose run is not in the list is about the last run, of a sequence
\* that goes on, and no call will create a run.
LEMMA LastRunIsNext ==
  ASSUME IInv, NEW w \in Workers, worker[w].pc = "next",
         ~AlreadyFinished(worker[w].run)
  PROVE  /\ worker[w].run = Finished + 1
         /\ worker[w].run = Len(runs)
         /\ sequence.state = "RUNNING"
         /\ \A v \in Workers : worker[v].pc # "create"
<1>1. worker[w].run \in Created
  BY DEF IInv, OnlyFinalRuns
<1>2. /\ Len(runs) \in Nat /\ worker[w].run \in 1 .. Len(runs)
      /\ Finished \in Nat
  BY <1>1, CreatedIds, FinishedFacts DEF IInv, Created
<1>3. worker[w].run \notin 1 .. Finished
  BY DEF AlreadyFinished, Finished, IInv, ListIsPrefix
<1>4. worker[w].run = Finished + 1 /\ worker[w].run = Len(runs)
  BY <1>2, <1>3 DEF IInv, ListIsPrefix
<1>. QED
  BY <1>2, <1>4 DEF IInv, StateFits, OneCreator

\* The sequence records its last run as finished.
LEMMA RecordStep ==
  ASSUME IInv, NEW w \in Workers, GetNextTestRunConfig(w),
         ~AlreadyFinished(worker[w].run)
  PROVE  /\ IInv'
         /\ Finished' = Finished + 1
         /\ sequence'.state = IF /\ worker[w].outcome = "COMPLETED"
                                 /\ Finished' # N
                                THEN "RUNNING" ELSE worker[w].outcome
<1>. DEFINE r == worker[w].run
            list == Append(sequence.finished, r)
            state == StateAfter(worker[w].outcome, list)
            call == IF state = "RUNNING"
                      THEN [worker[w] EXCEPT !.pc = "create",
                                             !.config = Len(list) + 1]
                      ELSE IdleWorker
<1>1. /\ worker[w].pc = "next"
      /\ sequence' = [state |-> state, finished |-> list]
      /\ worker' = [worker EXCEPT ![w] = call]
      /\ UNCHANGED <<runs, tasks, added>>
  BY DEF GetNextTestRunConfig
<1>2. /\ r = Finished + 1 /\ r = Len(runs)
      /\ \A v \in Workers : worker[v].pc # "create"
  BY <1>1, LastRunIsNext
<1>3. /\ r \in Created /\ r \in Ids /\ IsFinal(r)
      /\ worker[w].outcome \in runs[r].had
  BY <1>1, CreatedIds DEF IInv, OnlyFinalRuns
<1>4. worker[w].outcome \in Outcomes
  <2>1. runs[r] \in Run
    BY <1>3, CreatedIds DEF IInv, TypeOK, Created
  <2>. QED
    BY <1>3, <2>1 DEF Run
<1>5. /\ list \in Seq(Ids) /\ Len(list) = Finished + 1
      /\ \A i \in 1 .. Finished : list[i] = sequence.finished[i]
      /\ list[Finished + 1] = r
  BY <1>3, FinishedFacts DEF IInv
<1>6. Finished \in Nat /\ Len(list) <= N
  BY <1>2, <1>3, <1>5, FinishedFacts, LengthAssumption DEF IInv, Ids
<1>7. /\ state \in Outcomes \cup {"RUNNING"}
      /\ state = "RUNNING" => Len(list) < N
      /\ state = IF worker[w].outcome = "COMPLETED" /\ Len(list) # N
                   THEN "RUNNING" ELSE worker[w].outcome
  <2>. HIDE DEF list
  <2>1. NothingLeft(list) <=> Len(list) = N
    BY <1>5, <1>6, LengthAssumption DEF NothingLeft
  <2>. QED
    BY <1>4, <1>5, <1>6, <2>1, LengthAssumption DEF StateAfter, Outcomes
<1>8. /\ call \in Call
      /\ call.pc # "idle" => call.run = r /\ call.outcome = worker[w].outcome
      /\ call.pc = "create" => state = "RUNNING" /\ call.config = Len(list) + 1
  <2>1. worker[w] \in Call
    BY DEF IInv, TypeOK
  <2>2. state = "RUNNING" => Len(list) + 1 \in Ids
    BY <1>5, <1>6, <1>7, LengthAssumption DEF Ids
  <2>. HIDE DEF state, list
  <2>3. CASE state = "RUNNING"
    BY <2>1, <2>2, <2>3 DEF Call
  <2>4. CASE state # "RUNNING"
    BY <2>4, IdleCall DEF IdleWorker
  <2>. QED
    BY <2>3, <2>4
<1>. HIDE DEF call, state, list, r
<1>9. /\ worker'[w] = call
      /\ \A v \in Workers \ {w} : worker'[v] = worker[v]
      /\ worker' \in [Workers -> Call]
  BY <1>1, <1>8 DEF IInv, TypeOK
<1>10. /\ Finished' = Finished + 1
       /\ sequence'.state = state /\ sequence'.finished = list
       /\ Created' = Created /\ Len(runs') = Len(runs)
  BY <1>1, <1>5 DEF Finished, Created
<1>11. TypeOK'
  BY <1>1, <1>5, <1>7, <1>9 DEF IInv, TypeOK
<1>12. ListIsPrefix'
  <2>1. \A i \in 1 .. Finished + 1 : list[i] = i
    BY <1>2, <1>5, <1>6 DEF IInv, ListIsPrefix
  <2>. QED
    BY <1>2, <1>6, <1>10, <2>1 DEF ListIsPrefix
<1>13. StateFits'
  BY <1>2, <1>5, <1>6, <1>7, <1>10 DEF StateFits
<1>14. RunsFit'
  BY <1>1, <1>10 DEF IInv, RunsFit
<1>15. OnlyFinalRuns'
  <2>1. \A i \in 1 .. Finished + 1 : IsFinal(i)
    BY <1>2, <1>3, <1>6 DEF IInv, OnlyFinalRuns
  <2>2. \A i : IsFinal(i)' <=> IsFinal(i)
    BY <1>1 DEF IsFinal
  <2>. QED
    BY <1>1, <1>3, <1>8, <1>9, <1>10, <2>1, <2>2 DEF IInv, OnlyFinalRuns
<1>16. OneCreator'
  BY <1>2, <1>5, <1>8, <1>9, <1>10 DEF OneCreator
<1>. QED
  BY <1>5, <1>7, <1>10, <1>11, <1>12, <1>13, <1>14, <1>15, <1>16 DEF IInv

\* The transaction either finds the run in the list, or records it.
LEMMA GetNextTestRunConfigStep ==
  ASSUME IInv, NEW w \in Workers, GetNextTestRunConfig(w) PROVE IInv'
<1>1. CASE AlreadyFinished(worker[w].run)
  <2>1. /\ UNCHANGED <<sequence, runs, tasks, added>>
        /\ worker' = [worker EXCEPT ![w] = IdleWorker]
    BY <1>1 DEF GetNextTestRunConfig
  <2>2. TypeOK'
    BY <2>1, IdleCall DEF IInv, TypeOK
  <2>3. /\ worker'[w].pc = "idle"
        /\ \A v \in Workers \ {w} : worker'[v] = worker[v]
    BY <2>1 DEF IInv, TypeOK, IdleWorker
  <2>. QED
    BY <2>1, <2>2, <2>3, QuietStep DEF IInv, OnlyFinalRuns
<1>2. CASE ~AlreadyFinished(worker[w].run)
  BY <1>2, RecordStep
<1>. QED
  BY <1>1, <1>2

-----------------------------------------------------------------------------
(* The invariant                                                           *)

\* Every step keeps the invariant.
LEMMA NextIInv == IInv /\ [Next]_vars => IInv'
<1>. SUFFICES ASSUME IInv, [Next]_vars PROVE IInv'
  OBVIOUS
<1>1. CASE CreateFirstRun
  BY <1>1, CreateFirstRunStep
<1>2. ASSUME NEW r \in Created, RunStep(r) PROVE IInv'
  <2>1. ASSUME NEW outcome \in Outcomes, RunEnds(r, outcome) PROVE IInv'
    BY <2>1, EndRunStep DEF RunEnds
  <2>2. ASSUME NEW outcome \in Outcomes, RunOverwritten(r, outcome)
        PROVE  IInv'
    BY <2>2, EndRunStep DEF RunOverwritten
  <2>. QED
    BY <1>2, <2>1, <2>2, AfterTestRunHandlerStep DEF RunStep
<1>3. ASSUME NEW w \in Workers, WorkerStep(w) PROVE IInv'
  BY <1>3, ScheduleNextTestRunStep, GetNextTestRunConfigStep,
     CreateTestRunStep, CallFailsStep, PullerTimesOutStep DEF WorkerStep
<1>4. CASE Restart
  BY <1>4, RestartStep
<1>5. CASE UNCHANGED vars
  <2>1. UNCHANGED <<sequence, runs, tasks, added, worker>>
    BY <1>5 DEF vars
  <2>2. TypeOK'
    BY <2>1 DEF IInv, TypeOK
  <2>. QED
    BY <2>1, <2>2, QuietStep DEF IInv, OnlyFinalRuns
<1>. QED
  BY <1>1, <1>2, <1>3, <1>4, <1>5 DEF Next

\* The inductive invariant holds in every state of a sequence.
THEOREM Invariance == Spec => []IInv
BY InitIInv, NextIInv, PTL DEF Spec

\* The entities and calls always have the types of their fields.
THEOREM TypeCorrect == Spec => []TypeOK
<1>1. IInv => TypeOK
  BY DEF IInv
<1>. QED
  BY <1>1, Invariance, PTL

\* Each config is run once, in the order of the configs.
THEOREM RunsFollowConfigs == Spec => []ConfigsInOrder
<1>1. IInv => ConfigsInOrder
  BY DEF IInv, RunsFit, ConfigsInOrder
<1>. QED
  BY <1>1, Invariance, PTL

\* No two runs of a sequence are in progress at a time.
THEOREM RunsAreSerial == Spec => []OneRunAtATime
<1>1. ASSUME IInv PROVE OneRunAtATime
  <2>1. Len(runs) \in Nat /\ Finished \in Nat /\ Len(runs) <= Finished + 1
    BY <1>1, CreatedIds, FinishedFacts, LengthAssumption
       DEF IInv, ListIsPrefix, Ids
  <2>. QED
    BY <1>1, <2>1 DEF IInv, OnlyFinalRuns, OneRunAtATime, Created
<1>. QED
  BY <1>1, Invariance, PTL

-----------------------------------------------------------------------------
(* The sequence implements its promise                                     *)

Results == [r \in Created |-> runs[r].had]

\* Results is the sequence of what the runs have had.
LEMMA ResultsFacts ==
  ASSUME TypeOK
  PROVE  /\ Results \in Seq(SUBSET Outcomes)
         /\ Len(Results) = Len(runs)
         /\ \A r \in Created : Results[r] = runs[r].had
<1>1. Len(runs) \in Nat
  BY CreatedIds
<1>2. \A r \in Created : runs[r] \in Run
  BY DEF TypeOK, Created
<1>3. \A r \in Created : runs[r].had \in SUBSET Outcomes
  BY <1>2 DEF Run
<1>. QED
  BY <1>1, <1>3 DEF Results, Created

\* A run that ends, ends in the promise.
LEMMA EndRunImplements ==
  ASSUME IInv, NEW r \in Created, NEW outcome \in Outcomes,
         EndRun(r, outcome), UNCHANGED sequence,
         outcome = "COMPLETED" => runs[r].state = "PENDING"
  PROVE  Implemented!PNext
<1>1. /\ r \in 1 .. Len(Results)
      /\ outcome = "COMPLETED" => Results[r] = {}
  BY ResultsFacts DEF IInv, RunsFit, Created
<1>2. Results' = [Results EXCEPT ![r] = @ \cup {outcome}]
  <2>1. Created' = Created
    BY EndRunFacts DEF IInv, Created
  <2>2. \A i \in Created : runs'[i].had = IF i = r THEN runs[i].had \cup {outcome}
                                                ELSE runs[i].had
    BY EndRunFacts DEF IInv
  <2>. QED
    BY <2>1, <2>2 DEF Results
<1>3. Implemented!Outcome(r, outcome)
  BY <1>1, <1>2 DEF Implemented!Outcome, Results
<1>. QED
  BY <1>1, <1>3 DEF Implemented!PNext, Results, Outcomes

\* A new run starts the next config in the promise.
LEMMA PutRunImplements ==
  ASSUME IInv, sequence.state = "RUNNING", Finished = Len(runs),
         runs' = Append(runs, NewRun(Len(runs) + 1)), UNCHANGED sequence
  PROVE  Implemented!PNext
<1>. DEFINE new == Len(runs) + 1
<1>1. Len(runs) \in Nat /\ Finished < N
  BY CreatedIds DEF IInv, StateFits
<1>2. new \in Ids
  BY <1>1, LengthAssumption DEF Ids
<1>3. /\ Len(runs') = Len(runs) + 1
      /\ \A i \in Created : runs'[i] = runs[i]
      /\ runs'[new] = NewRun(new)
  BY <1>2, NewRunFacts DEF IInv
<1>4. Results' = Append(Results, {})
  <2>1. Results' = [r \in 1 .. new |-> IF r = new THEN {} ELSE runs[r].had]
    BY <1>1, <1>3 DEF Results, Created, NewRun
  <2>. DEFINE appended == Append(Results, {})
  <2>2. /\ appended \in Seq(SUBSET Outcomes) /\ Len(appended) = new
        /\ \A i \in Created : appended[i] = runs[i].had
        /\ appended[new] = {}
    BY ResultsFacts, AppendProperties DEF IInv, Created
  <2>3. appended = [r \in 1 .. new |-> appended[r]]
    BY <2>2, LenProperties
  <2>4. \A r \in 1 .. new : r = new \/ r \in Created
    BY <1>1 DEF Created
  <2>5. new \notin Created
    BY <1>1 DEF Created
  <2>. HIDE DEF appended
  <2>6. \A r \in 1 .. new :
          appended[r] = IF r = new THEN {} ELSE runs[r].had
    BY <2>2, <2>4, <2>5
  <2>. QED
    BY <2>1, <2>3, <2>6 DEF appended
<1>5. Implemented!Start
  BY <1>1, <1>4, ResultsFacts DEF Implemented!Start, Results, Finished, IInv
<1>. QED
  BY <1>5 DEF Implemented!PNext

\* Recording a run as finished does so in the promise.
LEMMA RecordImplements ==
  ASSUME IInv, NEW w \in Workers, GetNextTestRunConfig(w),
         ~AlreadyFinished(worker[w].run)
  PROVE  Implemented!PNext
<1>. DEFINE outcome == worker[w].outcome
<1>1. worker[w].pc = "next" /\ UNCHANGED runs
  BY DEF GetNextTestRunConfig
<1>2. /\ worker[w].run = Finished + 1 /\ Len(runs) = Finished + 1
      /\ worker[w].run \in Created /\ sequence.state = "RUNNING"
  BY <1>1, LastRunIsNext DEF IInv, OnlyFinalRuns
<1>3. outcome \in Results[Finished + 1]
  BY <1>1, <1>2, ResultsFacts DEF IInv, OnlyFinalRuns
<1>4. outcome \in Outcomes
  <2>1. runs[worker[w].run] \in Run
    BY <1>2 DEF IInv, TypeOK, Created
  <2>. QED
    BY <1>1, <2>1 DEF IInv, OnlyFinalRuns, Run
<1>5. /\ Finished' = Finished + 1
      /\ sequence'.state = IF outcome # "COMPLETED" \/ Finished' = N
                             THEN outcome ELSE "RUNNING"
  BY RecordStep
<1>6. Results' = Results
  BY <1>1 DEF Results, Created
<1>7. Len(Results) = Finished + 1
  BY <1>2, ResultsFacts DEF IInv
<1>8. Implemented!Finish(outcome)
  BY <1>2, <1>3, <1>5, <1>6, <1>7
     DEF Implemented!Finish, Results, Finished
<1>. QED
  BY <1>4, <1>8 DEF Implemented!PNext, Outcomes

\* Every step of the sequence is a step of the promise, or changes nothing in it.
LEMMA StepImplements ==
  IInv /\ [Next]_vars => [Implemented!PNext]_(Implemented!pvars)
<1>. SUFFICES ASSUME IInv, [Next]_vars
              PROVE  Implemented!PNext \/ UNCHANGED Implemented!pvars
  OBVIOUS
<1>1. ASSUME UNCHANGED <<sequence, runs>> PROVE UNCHANGED Implemented!pvars
  BY <1>1 DEF Implemented!pvars, Created
<1>2. CASE CreateFirstRun
  <2>1. Len(runs) = 0 /\ runs' = Append(runs, NewRun(Len(runs) + 1))
    BY <1>2 DEF CreateFirstRun
  <2>2. Finished = 0 /\ sequence.state = "RUNNING"
    BY <2>1, FinishedFacts, LengthAssumption
       DEF IInv, ListIsPrefix, StateFits, Ids
  <2>. QED
    BY <1>2, <2>1, <2>2, PutRunImplements DEF CreateFirstRun
<1>3. ASSUME NEW r \in Created, RunStep(r)
      PROVE  Implemented!PNext \/ UNCHANGED Implemented!pvars
  <2>1. ASSUME NEW outcome \in Outcomes, RunEnds(r, outcome)
        PROVE  Implemented!PNext
    BY <2>1, EndRunImplements DEF RunEnds
  <2>2. ASSUME NEW outcome \in Outcomes, RunOverwritten(r, outcome)
        PROVE  Implemented!PNext
    BY <2>2, EndRunImplements DEF RunOverwritten
  <2>3. CASE AfterTestRunHandler(r)
    BY <1>1, <2>3 DEF AfterTestRunHandler
  <2>. QED
    BY <1>3, <2>1, <2>2, <2>3 DEF RunStep
<1>4. ASSUME NEW w \in Workers, WorkerStep(w)
      PROVE  Implemented!PNext \/ UNCHANGED Implemented!pvars
  <2>1. CASE \E r \in Ids : ScheduleNextTestRun(w, r)
    BY <1>1, <2>1 DEF ScheduleNextTestRun
  <2>2. CASE GetNextTestRunConfig(w)
    BY <1>1, <2>2, RecordImplements DEF GetNextTestRunConfig
  <2>3. CASE CreateTestRun(w)
    <3>1. /\ worker[w].config = Len(runs) + 1
          /\ Finished = Len(runs) /\ sequence.state = "RUNNING"
      BY <2>3 DEF IInv, OneCreator, CreateTestRun
    <3>. QED
      BY <2>3, <3>1, PutRunImplements DEF CreateTestRun
  <2>4. CASE CallFails(w) \/ PullerTimesOut(w)
    BY <1>1, <2>4 DEF CallFails, PullerTimesOut
  <2>. QED
    BY <1>4, <2>1, <2>2, <2>3, <2>4 DEF WorkerStep
<1>5. CASE Restart
  BY <1>1, <1>5 DEF Restart
<1>6. CASE UNCHANGED vars
  BY <1>1, <1>6 DEF vars
<1>. QED
  BY <1>2, <1>3, <1>4, <1>5, <1>6 DEF Next

\* ScheduleNextTestRun, called however often, keeps the sequence's promise.
THEOREM KeepsPromise == Spec => Promise
<1>1. Init => Implemented!PInit
  <2>. SUFFICES ASSUME Init PROVE Implemented!PInit
    OBVIOUS
  <2>1. Created = {} /\ sequence.state = "RUNNING" /\ Len(sequence.finished) = 0
    BY DEF Init, Created
  <2>2. [r \in Created |-> runs[r].had] = <<>>
    BY <2>1
  <2>. QED
    BY <2>1, <2>2 DEF Implemented!PInit
<1>. QED
  BY <1>1, StepImplements, Invariance, PTL
     DEF Spec, Promise, Implemented!Promise

\* A sequence that has an outcome keeps it and creates no more runs.
THEOREM StaysStopped == Spec => StoppedForGood
<1>1. IInv /\ [Next]_vars =>
        [sequence.state # "RUNNING" =>
           sequence'.state = sequence.state /\ Len(runs') = Len(runs)]_vars
  <2>. SUFFICES ASSUME IInv, [Next]_vars, sequence.state # "RUNNING"
                PROVE  sequence'.state = sequence.state /\ Len(runs') = Len(runs)
    OBVIOUS
  <2>2. ASSUME NEW r \in Created, NEW outcome \in Outcomes,
               RunEnds(r, outcome) \/ RunOverwritten(r, outcome)
        PROVE  sequence'.state = sequence.state /\ Len(runs') = Len(runs)
    BY <2>2, EndRunFacts DEF IInv, RunEnds, RunOverwritten
  <2>3. ASSUME NEW w \in Workers, GetNextTestRunConfig(w)
        PROVE  sequence'.state = sequence.state /\ Len(runs') = Len(runs)
    BY <2>3, LastRunIsNext DEF GetNextTestRunConfig
  <2>4. ASSUME NEW w \in Workers, CreateTestRun(w) PROVE FALSE
    BY <2>4 DEF IInv, OneCreator, CreateTestRun
  <2>5. ASSUME CreateFirstRun PROVE FALSE
    <3>1. Len(runs) = 0
      BY <2>5 DEF CreateFirstRun
    <3>. QED
      BY <3>1 DEF IInv, StateFits
  <2>. QED
    BY <2>2, <2>3, <2>4, <2>5
       DEF Next, vars, RunStep, WorkerStep, AfterTestRunHandler,
           ScheduleNextTestRun, CallFails, PullerTimesOut, Restart
<1>. QED
  BY <1>1, Invariance, PTL DEF Spec, StoppedForGood
=============================================================================
