--------------------------- MODULE TestRunSequence ---------------------------
(***************************************************************************)
(* One test run sequence: the runs of configs 1 .. N that CreateTestRun    *)
(* stored in a TestRunSequence entity.  When a run is over, its post-run   *)
(* handlers add a task that calls ScheduleNextTestRun (test_scheduler.py), *)
(* which records the run as finished and creates the next one.  The task   *)
(* is added outside the handlers' transaction, and delivered at least      *)
(* once, so that it may run several times, even at the same time.          *)
(*                                                                         *)
(* How a run ends is the subject of TestRunLifecycle; here it ends with    *)
(* any outcome, and a stale put may turn it into a failed one afterwards.  *)
(***************************************************************************)
EXTENDS Integers, Sequences

CONSTANTS
  N,         \* the number of configs
  Workers,   \* the calls of ScheduleNextTestRun there may be at a time
  MaxTasks   \* bound on the tasks that are added, or added again, for a run

ASSUME LengthAssumption == N \in Nat /\ N > 1

ASSUME TaskAssumption == MaxTasks \in Nat

Outcomes == {"COMPLETED", "CANCELED", "ERROR"}
Ids == 1 .. N

VARIABLES
  sequence,  \* the TestRunSequence entity
  runs,      \* its test runs in the order of their creation: the state and
             \* the config of each, and all outcomes it has had
  tasks,     \* tasks[r]: tasks waiting to schedule the successor of run r
  added,     \* added[r]: tasks added for run r so far
  worker     \* the call each worker serves

vars == <<sequence, runs, tasks, added, worker>>

\* config: the config _GetNextTestRunConfig returned; outcome: the state of the
\* previous run, as ScheduleNextTestRun read it; waited: the puller waits.
IdleWorker == [pc |-> "idle", run |-> 0, outcome |-> "PENDING",
               config |-> 0, waited |-> FALSE]

\* The end of CreateTestRun for the first config: the sequence is stored.
Init ==
  /\ sequence = [state |-> "RUNNING", finished |-> <<>>]
  /\ runs = <<>>
  /\ tasks = [r \in Ids |-> 0]
  /\ added = [r \in Ids |-> 0]
  /\ worker = [w \in Workers |-> IdleWorker]

Run == [state : Outcomes \cup {"PENDING"}, config : Ids, had : SUBSET Outcomes]

Call == [pc : {"idle", "next", "create"}, run : Ids \cup {0},
         outcome : Outcomes \cup {"PENDING"}, config : Ids \cup {0},
         waited : BOOLEAN]

Created == 1 .. Len(runs)
IsFinal(r) == runs[r].state \in Outcomes

NewRun(config) == [state |-> "PENDING", config |-> config, had |-> {}]

\* Run r goes to the final state outcome.
EndRun(r, outcome) ==
  runs' = [runs EXCEPT ![r].state = outcome, ![r].had = @ \cup {outcome}]

\* Definitions named Mut... are bugs the code could have in the place of the
\* definition that follows them.

\* "previous_test_run_id in sequence.finished_test_run_ids"
MutAlreadyFinished(r) == FALSE
AlreadyFinished(r) ==
  \E i \in 1 .. Len(sequence.finished) : sequence.finished[i] = r

\* Whether no config is left, and the state of the sequence after run r.
MutNothingLeft(finished) == N < Len(finished)
NothingLeft(finished) == N <= Len(finished)

MutStateAfter(outcome, finished) ==
  IF NothingLeft(finished) THEN "COMPLETED"
  ELSE IF outcome = "ERROR" THEN "ERROR" ELSE "RUNNING"
StateAfter(outcome, finished) ==
  CASE outcome = "ERROR" -> "ERROR"
    [] outcome = "CANCELED" -> "CANCELED"
    [] OTHER -> IF NothingLeft(finished) THEN "COMPLETED" ELSE "RUNNING"

-----------------------------------------------------------------------------

\* CreateTestRun puts the first run of the sequence.
CreateFirstRun ==
  /\ runs = <<>>
  /\ runs' = Append(runs, NewRun(1))
  /\ UNCHANGED <<sequence, tasks, added, worker>>

\* A run ends.
RunEnds(r, outcome) ==
  /\ runs[r].state = "PENDING"
  /\ EndRun(r, outcome)
  /\ UNCHANGED <<sequence, tasks, added, worker>>

\* SetTestRunState writes over the final state of a run.
RunOverwritten(r, outcome) ==
  /\ IsFinal(r)
  /\ outcome # "COMPLETED"
  /\ EndRun(r, outcome)
  /\ UNCHANGED <<sequence, tasks, added, worker>>

\* _AfterTestRunHandler adds a task for a run that is over.  A transaction
\* that is tried again, or a mark is_finalized that is lost, adds another.
AfterTestRunHandler(r) ==
  /\ IsFinal(r)
  /\ added[r] < MaxTasks
  /\ added' = [added EXCEPT ![r] = @ + 1]
  /\ tasks' = [tasks EXCEPT ![r] = @ + 1]
  /\ UNCHANGED <<sequence, runs, worker>>

\* ScheduleNextTestRun reads the previous run.
ScheduleNextTestRun(w, r) ==
  /\ worker[w].pc = "idle"
  /\ tasks[r] > 0
  /\ tasks' = [tasks EXCEPT ![r] = @ - 1]
  /\ worker' = [worker EXCEPT ![w] = [pc |-> "next", run |-> r,
                                      outcome |-> runs[r].state, config |-> 0,
                                      waited |-> TRUE]]
  /\ UNCHANGED <<sequence, runs, added>>

\* The transaction _GetNextTestRunConfig.
GetNextTestRunConfig(w) ==
  LET r == worker[w].run
      finished == Append(sequence.finished, r)
      state == StateAfter(worker[w].outcome, finished)
  IN
  /\ worker[w].pc = "next"
  /\ \/ /\ AlreadyFinished(r)
        /\ worker' = [worker EXCEPT ![w] = IdleWorker]
        /\ UNCHANGED sequence
     \/ /\ ~AlreadyFinished(r)
        /\ sequence' = [state |-> state, finished |-> finished]
        /\ worker' = [worker EXCEPT ![w] =
                        IF state = "RUNNING"
                          THEN [@ EXCEPT !.pc = "create",
                                         !.config = Len(finished) + 1]
                          ELSE IdleWorker]
  /\ UNCHANGED <<runs, tasks, added>>

\* The failed call is delivered again, or the puller gives it up.
Redeliver(w) ==
  LET r == worker[w].run
  IN
  \/ UNCHANGED <<tasks, added>>
  \/ /\ worker[w].waited
     /\ added[r] < MaxTasks
     /\ added' = [added EXCEPT ![r] = @ + 1]
     /\ tasks' = [tasks EXCEPT ![r] = @ + 1]

\* CreateTestRun puts the run and enqueues it.  When it cannot be enqueued the
\* call raises, but the run is there.
CreateTestRun(w) ==
  /\ worker[w].pc = "create"
  /\ runs' = Append(runs, NewRun(worker[w].config))
  /\ Redeliver(w)
  /\ worker' = [worker EXCEPT ![w] = IdleWorker]
  /\ UNCHANGED sequence

\* The call raises, or its process dies.
CallFails(w) ==
  /\ worker[w].pc # "idle"
  /\ Redeliver(w)
  /\ worker' = [worker EXCEPT ![w] = IdleWorker]
  /\ UNCHANGED <<sequence, runs>>

\* The puller's call times out while the worker goes on.
PullerTimesOut(w) ==
  /\ worker[w].pc # "idle"
  /\ worker[w].waited
  /\ Redeliver(w)
  /\ worker' = [worker EXCEPT ![w].waited = FALSE]
  /\ UNCHANGED <<sequence, runs>>

\* The server restarts: its calls are gone, and so are the tasks waiting.
Restart ==
  /\ tasks' = [r \in Ids |-> 0]
  /\ worker' = [w \in Workers |-> IdleWorker]
  /\ UNCHANGED <<sequence, runs, added>>

RunStep(r) ==
  \/ \E outcome \in Outcomes : RunEnds(r, outcome) \/ RunOverwritten(r, outcome)
  \/ AfterTestRunHandler(r)

WorkerStep(w) ==
  \/ \E r \in Ids : ScheduleNextTestRun(w, r)
  \/ GetNextTestRunConfig(w)
  \/ CreateTestRun(w)
  \/ CallFails(w)
  \/ PullerTimesOut(w)

Next ==
  \/ CreateFirstRun
  \/ \E r \in Created : RunStep(r)
  \/ \E w \in Workers : WorkerStep(w)
  \/ Restart

Spec == Init /\ [][Next]_vars

-----------------------------------------------------------------------------
(* Properties                                                              *)

\* Every variable has a value of its kind.
TypeOK ==
  /\ sequence \in [state : Outcomes \cup {"RUNNING"}, finished : Seq(Ids)]
  /\ runs \in Seq(Run) /\ Len(runs) <= N
  /\ tasks \in [Ids -> Nat]
  /\ added \in [Ids -> 0 .. MaxTasks]
  /\ worker \in [Workers -> Call]

\* The runs of the sequence are those of its configs, in their order and
\* without repetition, however often ScheduleNextTestRun is called for a run.
ConfigsInOrder == \A r \in Created : runs[r].config = r

\* At most one run of the sequence is not over, and it is the last one
\* (CreateTestRun does not look at the runs that exist).
OneRunAtATime == \A r \in Created : r < Len(runs) => IsFinal(r)

\* Once the sequence has an outcome it keeps it, and no run is created for it
\* any more: not by a task delivered again, nor by a call that was under way.
StoppedForGood ==
  [][sequence.state # "RUNNING" =>
       sequence'.state = sequence.state /\ Len(runs') = Len(runs)]_vars

\* The sequence implements its promise.  The runs are those CreateTestRun put;
\* what the sequence has seen end is its list finished_test_run_ids.
Implemented == INSTANCE SequencePromise
  WITH results <- [r \in Created |-> runs[r].had],
       finished <- Len(sequence.finished), status <- sequence.state
Promise == Implemented!Promise

\* "Rerun already scheduled for run" (test_scheduler.py): when a call finds that
\* its run is recorded as finished by a running sequence, the successor of the
\* run exists, or another call is creating it.
RerunAlreadyScheduled ==
  \A w \in Workers :
    /\ worker[w].pc = "next"
    /\ AlreadyFinished(worker[w].run)
    /\ sequence.state = "RUNNING"
    => \/ worker[w].run < Len(runs)
       \/ \E v \in Workers : worker[v].pc = "create"
=============================================================================
