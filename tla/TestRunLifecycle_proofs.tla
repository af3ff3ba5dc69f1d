----------------------- MODULE TestRunLifecycle_proofs -----------------------
(***************************************************************************)
(* Theorems about TestRunLifecycle, for any number of kickers, users,      *)
(* retries, TFC requests and restarts.                                     *)
(***************************************************************************)
EXTENDS TestRunLifecycle, TLAPS

USE DEF None, Requests, Retries, Setters, FinalStates, RunStates, Times

-----------------------------------------------------------------------------
(* Type correctness                                                        *)

\* The records the actions build have the types of the variables they go to.
LEMMA Records ==
  /\ NewRun \in Entity
  /\ IdleKicker \in Kicker
  /\ DoneSetter \in Setter
  /\ ReadySetter \in Setter
  /\ IdleHandler \in Handler
  /\ \A e \in Entity : e.state \in RunStates
BY RetryAssumption, BoundAssumption
   DEF NewRun, Entity, IdleKicker, Kicker, KickerStates, DoneSetter,
       ReadySetter, Setter, IdleHandler, Handler

\* A redelivery leaves a set of tasks of the right type.
LEMMA RedeliverType ==
  ASSUME TypeOK, NEW k \in Kickers, Redeliver(k)
  PROVE  queue' \in [Retries -> Nat] /\ lost' \in SUBSET {"kick", "event"}
<1>1. kicker[k].retry \in 0 .. PullRetries
  BY DEF TypeOK, Kicker
<1>2. lost \in SUBSET {"kick", "event"} /\ queue \in [Retries -> Nat]
  BY DEF TypeOK
<1>3. CASE UNCHANGED <<queue, lost>>
  BY <1>2, <1>3
<1>4. CASE /\ kicker[k].retry < PullRetries
           /\ queue' = [queue EXCEPT ![kicker[k].retry + 1] = @ + 1]
           /\ UNCHANGED lost
  <2>1. kicker[k].retry + 1 \in 0 .. PullRetries
    BY <1>1, <1>4, RetryAssumption
  <2>2. queue[kicker[k].retry + 1] + 1 \in Nat
    BY <1>2, <2>1
  <2>. QED
    BY <1>2, <1>4, <2>1, <2>2
<1>5. CASE lost' = lost \cup {"kick"} /\ UNCHANGED queue
  BY <1>2, <1>5
<1>. QED
  BY <1>3, <1>4, <1>5 DEF Redeliver

\* So does a task that is added, or is not.
LEMMA AddTaskType ==
  ASSUME TypeOK, AddTask
  PROVE  queue' \in [Retries -> Nat] /\ lost' \in SUBSET {"kick", "event"}
<1>1. lost \in SUBSET {"kick", "event"} /\ queue \in [Retries -> Nat]
  BY DEF TypeOK
<1>2. CASE queue' = [queue EXCEPT ![0] = @ + 1] /\ UNCHANGED lost
  BY <1>1, <1>2, RetryAssumption
<1>3. CASE lost' = lost \cup {"kick"} /\ UNCHANGED queue
  BY <1>1, <1>3
<1>. QED
  BY <1>2, <1>3 DEF AddTask

\* The initial values are of their kinds.
LEMMA TypeInit == Init => TypeOK
BY Records, RetryAssumption, BoundAssumption DEF Init, TypeOK

\* A put stores an entity.
LEMMA PutRunType ==
  ASSUME TypeOK, NEW e \in Entity, NEW st \in FinalStates, PutRun(e, st)
  PROVE  run' \in Entity /\ overwrote' \in Nat
BY DEF PutRun, TypeOK, Entity

\* The updates of a kicker keep it a record of its type.
LEMMA KickerType ==
  ASSUME kicker \in [Kickers -> Kicker], NEW k \in Kickers
  PROVE  /\ \A pc \in KickerStates : At(k, pc) => kicker' \in [Kickers -> Kicker]
         /\ Returns(k) => kicker' \in [Kickers -> Kicker]
<1>1. ASSUME NEW pc \in KickerStates
      PROVE  [kicker[k] EXCEPT !.pc = pc] \in Kicker
  BY DEF Kicker
<1>. QED
  BY <1>1, Records DEF At, Returns

\* Every handler keeps the types.
LEMMA TypeNext == TypeOK /\ [Next]_vars => TypeOK'
<1>. SUFFICES ASSUME TypeOK, [Next]_vars PROVE TypeOK'
  OBVIOUS
<1>. USE Records DEF TypeOK, tvars, history
<1>1. CASE EnqueueTestRun
  BY <1>1, AddTaskType DEF EnqueueTestRun
<1>2. ASSUME NEW k \in Kickers, KickerStep(k) PROVE TypeOK'
  <2>1. ASSUME NEW r \in Retries, PrepareTestResources(k, r) PROVE TypeOK'
    <3>1. AfterPrepareRead(run.state) \in KickerStates
      BY DEF AfterPrepareRead, KickerStates
    <3>2. [IdleKicker EXCEPT !.pc = AfterPrepareRead(run.state), !.retry = r,
                             !.waited = TRUE, !.seen = run] \in Kicker
      BY <3>1 DEF Kicker, IdleKicker
    <3>3. kicker' \in [Kickers -> Kicker]
      BY <2>1, <3>2 DEF PrepareTestResources
    <3>4. queue' \in [Retries -> Nat]
      BY <2>1 DEF PrepareTestResources
    <3>. QED
      BY <2>1, <3>3, <3>4 DEF PrepareTestResources
  <2>2. CASE UpdateTestResources(k)
    <3>1. kicker' \in [Kickers -> Kicker]
      BY <2>2, KickerType DEF UpdateTestResources, KickerStates
    <3>2. run' \in Entity
      BY <2>2 DEF UpdateTestResources, Entity
    <3>. QED
      BY <2>2, <3>1, <3>2 DEF UpdateTestResources
  <2>3. CASE BuildRequest(k)
    <3>1. run.prepared \in BOOLEAN
      BY DEF Entity
    <3>2. [kicker[k] EXCEPT !.pc = "submit", !.ready = run.prepared] \in Kicker
      BY <3>1 DEF Kicker, KickerStates
    <3>3. kicker' \in [Kickers -> Kicker]
      BY <2>3, <3>2, KickerType DEF BuildRequest, KickerStates
    <3>. QED
      BY <2>3, <3>3 DEF BuildRequest
  <2>4. ASSUME NEW q \in Requests, NewRequest(k, q) PROVE TypeOK'
    <3>1. [kicker[k] EXCEPT !.pc = "adopt", !.new = q] \in Kicker
      BY DEF Kicker, KickerStates
    <3>2. kicker' \in [Kickers -> Kicker]
      BY <2>4, <3>1, KickerType DEF NewRequest, KickerStates
    <3>. QED
      BY <2>4, <3>2 DEF NewRequest
  <2>5. CASE AdoptRequest(k)
    <3>1. kicker' \in [Kickers -> Kicker]
      BY <2>5, KickerType DEF AdoptRequest
    <3>2. kicker[k].new \in Requests \cup {None}
      BY DEF Kicker
    <3>3. run' \in Entity
      BY <2>5, <3>2 DEF AdoptRequest, Entity
    <3>. QED
      BY <2>5, <3>1, <3>3 DEF AdoptRequest
  <2>6. CASE RetryKick(k)
    BY <2>6, RedeliverType DEF RetryKick, Returns
  <2>7. CASE GiveUpKick(k)
    BY <2>7, KickerType DEF GiveUpKick, AfterLastRetry, KickerStates
  <2>8. CASE ReadForError(k)
    <3>1. PICK e \in {kicker[k].seen, run} :
            \/ IsFinal(e) /\ Returns(k)
            \/ /\ ~IsFinal(e)
               /\ kicker' = [kicker EXCEPT ![k].pc = "put", ![k].seen = e]
      BY <2>8 DEF ReadForError
    <3>2. e \in Entity
      BY DEF Kicker
    <3>3. [kicker[k] EXCEPT !.pc = "put", !.seen = e] \in Kicker
      BY <3>2 DEF Kicker, KickerStates
    <3>4. kicker' \in [Kickers -> Kicker]
      BY <3>1, <3>3, KickerType
    <3>. QED
      BY <2>8, <3>4 DEF ReadForError
  <2>9. CASE PutError(k)
    <3>1. kicker[k].seen \in Entity
      BY DEF Kicker
    <3>. QED
      BY <2>9, <3>1, PutRunType DEF PutError, Returns
  <2>. QED
    BY <1>2, <2>1, <2>2, <2>3, <2>4, <2>5, <2>6, <2>7, <2>8, <2>9
       DEF KickerStep
<1>3. ASSUME NEW k \in Kickers, KickerFault(k) PROVE TypeOK'
  <2>1. CASE KickFails(k)
    BY <2>1, KickerType DEF KickFails, KickerStates
  <2>2. CASE KickFailsForGood(k)
    BY <2>2, KickerType DEF KickFailsForGood, KickerStates
  <2>3. CASE PullerTimesOut(k)
    <3>1. [kicker[k] EXCEPT !.waited = FALSE] \in Kicker
      BY DEF Kicker
    <3>2. kicker' \in [Kickers -> Kicker]
      BY <2>3, <3>1 DEF PullerTimesOut
    <3>3. Redeliver(k)
      BY <2>3 DEF PullerTimesOut
    <3>. QED
      BY <2>3, <3>2, <3>3, RedeliverType DEF PullerTimesOut
  <2>4. CASE KickerDies(k)
    BY <2>4, KickerType DEF KickerDies
  <2>. QED
    BY <1>3, <2>1, <2>2, <2>3, <2>4 DEF KickerFault
<1>4. ASSUME NEW s \in Setters, SetterStep(s) PROVE TypeOK'
  <2>1. CASE ReadForCancel(s)
    BY <2>1 DEF ReadForCancel, Setter
  <2>2. CASE CancelRequest(s)
    BY <2>2 DEF CancelRequest, Setter, Entity
  <2>3. CASE PutCanceled(s)
    <3>1. setter[s].seen \in Entity
      BY DEF Setter
    <3>. QED
      BY <2>3, <3>1, PutRunType DEF PutCanceled
  <2>. QED
    BY <1>4, <2>1, <2>2, <2>3 DEF SetterStep
<1>5. ASSUME NEW q \in Requests, RequestAdvances(q) PROVE TypeOK'
  <2>1. PICK state \in Successors(q) :
          /\ tfc' = [tfc EXCEPT ![q] = state]
          /\ events' = events \cup {[request |-> q, state |-> state,
                                     time |-> EventTime(state), retry |-> 0]}
    BY <1>5 DEF RequestAdvances
  <2>2. state \in RunStates \ {"PENDING"}
    BY OutcomeAssumption DEF Successors
  <2>3. EventTime(state) \in Times
    BY DEF EventTime
  <2>4. 0 \in 0 .. EventRetries
    BY RetryAssumption
  <2>5. [request |-> q, state |-> state, time |-> EventTime(state),
         retry |-> 0] \in Event
    BY <2>2, <2>3, <2>4 DEF Event
  <2>6. tfc' \in [Requests -> RunStates \cup {"NONE", "NEW"}]
    BY <2>1, <2>2
  <2>7. events' \in SUBSET Event
    BY <2>1, <2>5
  <2>. QED
    BY <1>5, <2>6, <2>7 DEF RequestAdvances
<1>6. CASE HandlerStep
  <2>1. ASSUME NEW m \in events, GetTestRunToUpdate(m) PROVE TypeOK'
    <3>1. m \in Event
      OBVIOUS
    <3>2. handler' \in Handler
      BY <2>1, <3>1 DEF GetTestRunToUpdate, Handler
    <3>3. lost' \in SUBSET {"kick", "event"}
      BY <2>1 DEF GetTestRunToUpdate
    <3>4. events' \in SUBSET Event
      BY <2>1 DEF GetTestRunToUpdate
    <3>. QED
      BY <2>1, <3>2, <3>3, <3>4 DEF GetTestRunToUpdate
  <2>2. CASE ProcessRequestEvent
    <3>1. handler.msg \in Event
      BY <2>2 DEF ProcessRequestEvent, Handler, IdleHandler
    <3>2. handler' \in Handler
      BY <2>2, <3>1 DEF ProcessRequestEvent, Handler, IdleHandler
    <3>3. run' \in Entity
      BY <2>2, <3>1 DEF ProcessRequestEvent, Entity, Event
    <3>. QED
      BY <2>2, <3>2, <3>3 DEF ProcessRequestEvent
  <2>3. CASE CheckFinalized
    <3>1. handler' \in Handler
      BY <2>3 DEF CheckFinalized, Handler, IdleHandler
    <3>. QED
      BY <2>3, <3>1 DEF CheckFinalized
  <2>4. CASE AfterTestRunHandler
    <3>1. run' \in Entity
      BY <2>4 DEF AfterTestRunHandler, Entity
    <3>. QED
      BY <2>4, <3>1 DEF AfterTestRunHandler
  <2>. QED
    BY <1>6, <2>1, <2>2, <2>3, <2>4 DEF HandlerStep
<1>7. CASE EventFails
  <2>1. handler.msg \in Event
    BY <1>7 DEF EventFails, Handler, IdleHandler
  <2>2. ASSUME DeliversAgain(handler.msg)
        PROVE  [handler.msg EXCEPT !.retry = @ + 1] \in Event
    <3>1. handler.msg.retry + 1 \in 0 .. EventRetries
      BY <2>1, <2>2, RetryAssumption DEF DeliversAgain, Event
    <3>. QED
      BY <2>1, <3>1 DEF Event
  <2>3. events' \in SUBSET Event /\ lost' \in SUBSET {"kick", "event"}
    BY <1>7, <2>2 DEF EventFails
  <2>. QED
    BY <1>7, <2>3 DEF EventFails
<1>8. CASE Restart
  BY <1>8, BoundAssumption DEF Restart
<1>9. CASE CheckPendingTestRuns
  BY <1>9, AddTaskType DEF CheckPendingTestRuns
<1>10. CASE HandlerDies
  BY <1>10 DEF HandlerDies
<1>11. CASE UNCHANGED vars
  BY <1>11 DEF vars
<1>12. CASE ReconnectPuller
  <2>1. /\ lost' \in SUBSET {"kick", "event"}
        /\ events' \in SUBSET Event
    BY <1>12 DEF ReconnectPuller
  <2>2. queue' \in [Retries -> Nat]
    <3>1. CASE UNCHANGED queue
      BY <3>1
    <3>2. ASSUME NEW gone \in SUBSET Retries,
                 queue' = [r \in Retries |-> IF r \in gone THEN 0 ELSE queue[r]]
          PROVE  queue' \in [Retries -> Nat]
      BY <3>2
    <3>. QED
      BY <1>12, <3>1, <3>2 DEF ReconnectPuller
  <2>. QED
    BY <1>12, <2>1, <2>2 DEF ReconnectPuller
<1>. QED
  BY <1>1, <1>2, <1>3, <1>4, <1>5, <1>6, <1>7, <1>8, <1>9, <1>10, <1>11,
     <1>12
     DEF Next

\* Every variable keeps a value of its kind.
THEOREM TypeCorrect == Spec => []TypeOK
<1>. QED
  BY TypeInit, TypeNext, PTL DEF Spec

-----------------------------------------------------------------------------
(* The inductive invariant                                                 *)

\* The request ids that the stored run, or an entity somebody has read, names.
Ids == {run.request}
         \cup {kicker[k].seen.request : k \in Kickers}
         \cup {setter[s].seen.request : s \in Setters}

\* While the run is PENDING nobody has seen it in another state.
PendingIsFresh ==
  run.state = "PENDING" =>
    /\ run.request = None
    /\ \A k \in Kickers : /\ kicker[k].seen.state = "PENDING"
                          /\ kicker[k].seen.request = None
    /\ \A s \in Setters : setter[s].seen.request = None

\* There is one request id to see, and it is the id of a request of TFC.
OneRequestId ==
  /\ \A p, q \in Ids : p = None \/ q = None \/ p = q
  /\ \A q \in Ids : q # None => tfc[q] # "NONE"

\* What is said about a request is said about one that TFC has.
Reported(m, requests) ==
  requests[m.request] # "NONE" /\ m.time = EventTime(m.state)
RequestsExist ==
  /\ \A k \in Kickers : kicker[k].pc = "adopt" =>
       kicker[k].new \in Requests /\ tfc[kicker[k].new] # "NONE"
  /\ \A m \in events : Reported(m, tfc)
  /\ handler.pc # "idle" => Reported(handler.msg, tfc)
  /\ run.state \in {"QUEUED", "RUNNING", "COMPLETED"} => run.request # None

\* An event that will be applied is not older than the last one.
EventsInOrder ==
  /\ run.state = "RUNNING" => run.eventTime >= EventTime("RUNNING")
  /\ handler.pc = "apply" /\ ~IsFinal(run) =>
       /\ run.request # None
       /\ run.eventTime <= handler.msg.time

\* The mark is_finalized is in final entities only, and no entity that will be
\* put has it.
MarksAreFinal ==
  /\ run.finalized \/ handled > 0 => IsFinal(run)
  /\ handler.pc = "finalize" => IsFinal(run) /\ ~run.finalized
  /\ \A k \in Kickers :
       /\ ~IsFinal(kicker[k].seen) => ~kicker[k].seen.finalized
       /\ kicker[k].pc = "put" => ~IsFinal(kicker[k].seen)
  /\ \A s \in Setters : ~setter[s].seen.finalized
  /\ HandlersOncePerMark

\* A kicker that may build a message for a PENDING run has its resources.
ResourcesAreReady ==
  \A k \in Kickers :
    /\ kicker[k].pc = "create" /\ run.state = "PENDING" => run.prepared
    /\ kicker[k].pc = "submit" => kicker[k].ready

\* As PendingRunIsAttended, with a kicker whose failure the puller will see.
PendingIsWaitedFor ==
  run.state = "PENDING" =>
    \/ enqueuer # "done"
    \/ \E r \in Retries : queue[r] > 0
    \/ \E k \in Kickers : kicker[k].pc # "idle" /\ kicker[k].waited
    \/ setter[Boot].pc # "done"
    \/ "kick" \in lost

IInv ==
  /\ TypeOK
  /\ PendingIsFresh
  /\ OneRequestId
  /\ RequestsExist
  /\ EventsInOrder
  /\ MarksAreFinal
  /\ ResourcesAreReady
  /\ PendingIsWaitedFor

\* The invariant holds when the run has just been created.
LEMMA InitIInv == Init => IInv
<1>. SUFFICES ASSUME Init PROVE IInv
  OBVIOUS
<1>1. TypeOK
  BY TypeInit
<1>2. PendingIsFresh /\ OneRequestId
  BY DEF Init, PendingIsFresh, OneRequestId, Ids, NewRun, IdleKicker,
         ReadySetter, DoneSetter
<1>3. RequestsExist /\ EventsInOrder
  BY DEF Init, RequestsExist, EventsInOrder, NewRun, IdleKicker, IdleHandler
<1>4. MarksAreFinal
  BY DEF Init, MarksAreFinal, HandlersOncePerMark, IsFinal, NewRun, IdleKicker,
         IdleHandler, ReadySetter, DoneSetter
<1>5. ResourcesAreReady /\ PendingIsWaitedFor
  BY DEF Init, ResourcesAreReady, PendingIsWaitedFor, NewRun, IdleKicker
<1>. QED
  BY <1>1, <1>2, <1>3, <1>4, <1>5 DEF IInv

-----------------------------------------------------------------------------
(* How a step may change the state of the run                              *)

\* The handlers that write the run.
LEMMA RunWriters ==
  ASSUME [Next]_vars, run' # run
  PROVE  \/ \E k \in Kickers :
              UpdateTestResources(k) \/ AdoptRequest(k) \/ PutError(k)
         \/ \E s \in Setters : PutCanceled(s)
         \/ ProcessRequestEvent
         \/ AfterTestRunHandler
BY DEF Next, EnqueueTestRun, ReconnectPuller, KickerStep, PrepareTestResources,
       BuildRequest,
       NewRequest, RetryKick, GiveUpKick, ReadForError, KickerFault, KickFails,
       KickFailsForGood, PullerTimesOut, KickerDies, SetterStep, ReadForCancel,
       CancelRequest, RequestAdvances, HandlerStep, GetTestRunToUpdate,
       CheckFinalized, EventFails, HandlerDies, Restart, CheckPendingTestRuns,
       vars

\* The state an event reports is not PENDING, and neither is one that a call of
\* SetTestRunState puts.
LEMMA RunMoves ==
  ASSUME TypeOK, [Next]_vars
  PROVE  /\ IsFinal(run) => IsFinal(run')
         /\ run.state # "PENDING" => run'.state # "PENDING"
         /\ run'.state = "PENDING" => run'.request = run.request
<1>. USE DEF TypeOK, IsFinal
<1>1. ASSUME NEW k \in Kickers, UpdateTestResources(k)
      PROVE  run'.state = run.state /\ run'.request = run.request
  BY <1>1 DEF UpdateTestResources, Entity
<1>2. ASSUME NEW k \in Kickers, AdoptRequest(k)
      PROVE  run' = run \/ (run.state = "PENDING" /\ run'.state = "QUEUED")
  BY <1>2 DEF AdoptRequest, Adopts, Entity
<1>3. ASSUME NEW k \in Kickers, PutError(k) PROVE run'.state = "ERROR"
  BY <1>3 DEF PutError, PutRun, Entity, Kicker
<1>4. ASSUME NEW s \in Setters, PutCanceled(s) PROVE run'.state = "CANCELED"
  BY <1>4 DEF PutCanceled, PutRun, Entity, Setter
<1>5. CASE ProcessRequestEvent
  <2>1. handler.msg \in Event
    BY <1>5 DEF ProcessRequestEvent, Handler, IdleHandler
  <2>. QED
    BY <1>5, <2>1 DEF ProcessRequestEvent, Event, Entity
<1>6. CASE AfterTestRunHandler
  BY <1>6 DEF AfterTestRunHandler, Entity
<1>. QED
  BY <1>1, <1>2, <1>3, <1>4, <1>5, <1>6, RunWriters

\* No stale put, duplicate kick task, late event or restart revives the run.
THEOREM FinalRunsStayFinal == Spec => NeverRevived
<1>1. TypeOK /\ [Next]_vars =>
        [/\ IsFinal(run) => IsFinal(run')
         /\ run.state # "PENDING" => run'.state # "PENDING"]_vars
  BY RunMoves
<1>. QED
  BY <1>1, TypeCorrect, PTL DEF Spec, NeverRevived

-----------------------------------------------------------------------------
(* The ids of requests                                                     *)

\* What a step of a kicker leaves of what the kickers have seen.
LEMMA KickerSees ==
  ASSUME TypeOK, NEW k \in Kickers, KickerStep(k) \/ KickerFault(k)
  PROVE  /\ \A j \in Kickers \ {k} : kicker'[j] = kicker[j]
         /\ kicker'[k].seen \in {kicker[k].seen, run, NewRun}
         /\ setter' = setter
         /\ handler' = handler
<1>. USE DEF TypeOK, Kicker
<1>1. ASSUME NEW r \in Retries, PrepareTestResources(k, r)
      PROVE  /\ \A j \in Kickers \ {k} : kicker'[j] = kicker[j]
             /\ kicker'[k].seen = run
  BY <1>1 DEF PrepareTestResources, IdleKicker
<1>2. CASE ReadForError(k)
  BY <1>2 DEF ReadForError, Returns, IdleKicker
<1>3. ASSUME \/ Returns(k)
             \/ \E pc \in KickerStates : At(k, pc)
             \/ kicker' = [kicker EXCEPT ![k].pc = "submit",
                                         ![k].ready = run.prepared]
             \/ \E q \in Requests :
                  kicker' = [kicker EXCEPT ![k].pc = "adopt", ![k].new = q]
             \/ kicker' = [kicker EXCEPT ![k].waited = FALSE]
      PROVE  /\ \A j \in Kickers \ {k} : kicker'[j] = kicker[j]
             /\ kicker'[k].seen \in {kicker[k].seen, NewRun}
  BY <1>3 DEF Returns, At, IdleKicker
<1>4. CASE KickerStep(k)
  BY <1>1, <1>2, <1>3, <1>4
     DEF KickerStep, UpdateTestResources, BuildRequest, NewRequest,
         AdoptRequest, RetryKick, GiveUpKick, PutError, ReadForError,
         PrepareTestResources, KickerStates, AfterLastRetry
<1>5. CASE KickerFault(k)
  BY <1>3, <1>5
     DEF KickerFault, KickFails, KickFailsForGood, PullerTimesOut, KickerDies,
         KickerStates
<1>. QED
  BY <1>4, <1>5

\* What a call of SetTestRunState(CANCELED) has seen after a step.
LEMMA SetterSees ==
  ASSUME TypeOK, NEW s \in Setters, SetterStep(s)
  PROVE  /\ \A j \in Setters \ {s} : setter'[j] = setter[j]
         /\ setter'[s].seen \in {setter[s].seen, run, NewRun}
         /\ kicker' = kicker
         /\ handler' = handler
BY DEF TypeOK, Setter, SetterStep, ReadForCancel, CancelRequest, PutCanceled,
       DoneSetter

\* No handler leaves a PENDING run with a request or an entity read from it.
LEMMA PendingIsFreshNext ==
  ASSUME TypeOK, PendingIsFresh, [Next]_vars
  PROVE  PendingIsFresh'
<1>. SUFFICES ASSUME run'.state = "PENDING" PROVE PendingIsFresh'
  BY DEF PendingIsFresh
<1>. USE DEF PendingIsFresh
<1>1. run.state = "PENDING" /\ run'.request = None
  BY RunMoves
<1>2. ASSUME NEW k \in Kickers, KickerStep(k) \/ KickerFault(k)
      PROVE  PendingIsFresh'
  BY <1>1, <1>2, KickerSees DEF NewRun
<1>3. ASSUME NEW s \in Setters, SetterStep(s) PROVE PendingIsFresh'
  BY <1>1, <1>3, SetterSees DEF NewRun
<1>4. CASE HandlerStep
  BY <1>1, <1>4
     DEF HandlerStep, GetTestRunToUpdate, ProcessRequestEvent, CheckFinalized,
         AfterTestRunHandler
<1>5. CASE Restart
  BY <1>1, <1>5 DEF Restart, IdleKicker, NewRun, ReadySetter, DoneSetter
<1>6. CASE CheckPendingTestRuns
  BY <1>1, <1>6 DEF CheckPendingTestRuns, ReadySetter, NewRun, TypeOK
<1>7. ASSUME \/ EnqueueTestRun \/ ReconnectPuller \/ EventFails \/ HandlerDies
             \/ UNCHANGED vars
             \/ \E q \in Requests : RequestAdvances(q)
      PROVE  UNCHANGED <<kicker, setter>>
  BY <1>7 DEF EnqueueTestRun, ReconnectPuller, EventFails, HandlerDies, vars,
              RequestAdvances
<1>. QED
  BY <1>1, <1>2, <1>3, <1>4, <1>5, <1>6, <1>7 DEF Next

\* TFC forgets no request.
LEMMA RequestsStay ==
  ASSUME TypeOK, [Next]_vars, NEW q \in Requests, tfc[q] # "NONE"
  PROVE  tfc'[q] # "NONE"
<1>1. ASSUME NEW p \in Requests, RequestAdvances(p) PROVE tfc'[q] # "NONE"
  <2>1. "NONE" \notin Successors(p)
    BY OutcomeAssumption DEF Successors
  <2>. QED
    BY <1>1, <2>1 DEF RequestAdvances, TypeOK
<1>2. ASSUME NEW k \in Kickers, KickerStep(k) PROVE tfc'[q] # "NONE"
  BY <1>2
     DEF KickerStep, PrepareTestResources, UpdateTestResources, BuildRequest,
         NewRequest, AdoptRequest, RetryKick, GiveUpKick, ReadForError,
         PutError, tvars, TypeOK
<1>3. ASSUME NEW k \in Kickers, KickerFault(k) PROVE tfc' = tfc
  BY <1>3
     DEF KickerFault, KickFails, KickFailsForGood, PullerTimesOut, KickerDies,
         tvars
<1>4. ASSUME NEW s \in Setters, SetterStep(s) PROVE tfc' = tfc
  BY <1>4 DEF SetterStep, ReadForCancel, CancelRequest, PutCanceled, tvars
<1>5. ASSUME \/ HandlerStep \/ EventFails \/ HandlerDies \/ Restart
             \/ CheckPendingTestRuns \/ EnqueueTestRun \/ ReconnectPuller
             \/ UNCHANGED vars
      PROVE  tfc' = tfc
  BY <1>5
     DEF HandlerStep, GetTestRunToUpdate, ProcessRequestEvent, CheckFinalized,
         AfterTestRunHandler, EventFails, HandlerDies, Restart,
         CheckPendingTestRuns,
         EnqueueTestRun, ReconnectPuller, vars, tvars
<1>. QED
  BY <1>1, <1>2, <1>3, <1>4, <1>5 DEF Next

\* The run takes a new id while nobody has seen one; otherwise every id comes
\* from an entity seen before.
LEMMA IdsGrow ==
  ASSUME TypeOK, PendingIsFresh, [Next]_vars
  PROVE  \/ Ids' \subseteq Ids \cup {None}
         \/ /\ Ids \subseteq {None}
            /\ \E k \in Kickers : /\ kicker[k].pc = "adopt"
                                  /\ Ids' \subseteq {None, kicker[k].new}
<1>1. ASSUME run'.request \in Ids \cup {None},
             \A k \in Kickers :
               kicker'[k].seen.request \in Ids \cup {None},
             \A s \in Setters :
               setter'[s].seen.request \in Ids \cup {None}
      PROVE  Ids' \subseteq Ids \cup {None}
  BY <1>1 DEF Ids
<1>2. /\ run.request \in Ids
      /\ \A k \in Kickers : kicker[k].seen.request \in Ids
      /\ \A s \in Setters : setter[s].seen.request \in Ids
  BY DEF Ids
<1>3. NewRun.request = None
  BY DEF NewRun
<1>4. ASSUME NEW k \in Kickers, KickerStep(k) \/ KickerFault(k)
      PROVE  /\ \A j \in Kickers :
                  kicker'[j].seen.request \in Ids \cup {None}
             /\ \A s \in Setters :
                  setter'[s].seen.request \in Ids \cup {None}
  BY <1>2, <1>3, <1>4, KickerSees
<1>5. ASSUME NEW k \in Kickers, KickerStep(k) \/ KickerFault(k),
             ~AdoptRequest(k) \/ ~Adopts(run)
      PROVE  Ids' \subseteq Ids \cup {None}
  <2>1. CASE PutError(k)
    <3>1. run'.request = kicker[k].seen.request
      BY <2>1 DEF PutError, PutRun, TypeOK, Kicker, Entity
    <3>. QED
      BY <1>1, <1>2, <1>4, <1>5, <3>1
  <2>2. CASE UpdateTestResources(k)
    <3>1. run'.request = run.request
      BY <2>2 DEF UpdateTestResources, TypeOK, Entity
    <3>. QED
      BY <1>1, <1>2, <1>4, <1>5, <3>1
  <2>3. CASE run' = run
    BY <1>1, <1>2, <1>4, <1>5, <2>3
  <2>. QED
    BY <1>5, <2>1, <2>2, <2>3
       DEF KickerStep, KickerFault, PrepareTestResources, BuildRequest,
           NewRequest, AdoptRequest, RetryKick, GiveUpKick, ReadForError,
           KickFails, KickFailsForGood, PullerTimesOut, KickerDies
<1>6. ASSUME NEW k \in Kickers, AdoptRequest(k), Adopts(run)
      PROVE  Ids \subseteq {None} /\ kicker[k].pc = "adopt"
             /\ Ids' \subseteq {None, kicker[k].new}
  <2>1. Ids \subseteq {None}
    BY <1>6 DEF Adopts, PendingIsFresh, Ids
  <2>2. run'.request = kicker[k].new /\ kicker[k].pc = "adopt"
    BY <1>6 DEF AdoptRequest, TypeOK, Entity
  <2>3. /\ \A j \in Kickers : kicker'[j].seen.request = None
        /\ \A s \in Setters : setter'[s].seen.request = None
    BY <1>4, <1>6, <2>1 DEF KickerStep
  <2>. QED
    BY <2>1, <2>2, <2>3 DEF Ids
<1>7. ASSUME NEW s \in Setters, SetterStep(s)
      PROVE  Ids' \subseteq Ids \cup {None}
  <2>1. run' = run \/ run'.request = setter[s].seen.request
    BY <1>7 DEF SetterStep, ReadForCancel, CancelRequest, PutCanceled, PutRun,
                TypeOK, Setter, Entity
  <2>. QED
    BY <1>1, <1>2, <1>3, <1>7, <2>1, SetterSees
<1>8. CASE HandlerStep
  <2>1. /\ run'.request = run.request
        /\ kicker' = kicker
        /\ setter' = setter
    BY <1>8 DEF HandlerStep, GetTestRunToUpdate, ProcessRequestEvent,
                CheckFinalized, AfterTestRunHandler, TypeOK, Entity
  <2>. QED
    BY <1>1, <1>2, <2>1
<1>9. CASE Restart
  <2>1. /\ run' = run
        /\ \A k \in Kickers : kicker'[k].seen = NewRun
        /\ \A s \in Setters : setter'[s].seen = NewRun
    BY <1>9 DEF Restart, IdleKicker, ReadySetter, DoneSetter
  <2>. QED
    BY <1>1, <1>2, <1>3, <2>1
<1>10. CASE CheckPendingTestRuns
  <2>1. /\ run' = run
        /\ kicker' = kicker
        /\ \A s \in Setters : setter'[s].seen \in {setter[s].seen, NewRun}
    BY <1>10 DEF CheckPendingTestRuns, ReadySetter, TypeOK
  <2>. QED
    BY <1>1, <1>2, <1>3, <2>1
<1>11. ASSUME \/ EnqueueTestRun \/ ReconnectPuller \/ EventFails \/ HandlerDies
              \/ UNCHANGED vars
              \/ \E q \in Requests : RequestAdvances(q)
       PROVE  Ids' = Ids
  BY <1>11 DEF EnqueueTestRun, ReconnectPuller, EventFails, HandlerDies, vars,
               RequestAdvances, Ids
<1>. QED
  BY <1>5, <1>6, <1>7, <1>8, <1>9, <1>10, <1>11 DEF Next

\* The ids that the run and the entities read of it hold are those of requests.
LEMMA IdsType == TypeOK => Ids \subseteq Requests \cup {None}
BY DEF TypeOK, Ids, Kicker, Setter, Entity

\* No handler brings in a second request id.
LEMMA OneRequestIdNext ==
  ASSUME TypeOK, PendingIsFresh, OneRequestId, RequestsExist, [Next]_vars
  PROVE  OneRequestId'
<1>1. \A q \in Requests : tfc[q] # "NONE" => tfc'[q] # "NONE"
  BY RequestsStay
<1>2. \A q \in Ids : q # None => q \in Requests /\ tfc'[q] # "NONE"
  BY <1>1, IdsType DEF OneRequestId
<1>3. \A k \in Kickers : kicker[k].pc = "adopt" => tfc'[kicker[k].new] # "NONE"
  BY <1>1 DEF RequestsExist
<1>4. CASE Ids' \subseteq Ids \cup {None}
  <2>1. \A p, q \in Ids' : p = None \/ q = None \/ p = q
    BY <1>4 DEF OneRequestId
  <2>2. \A q \in Ids' : q # None => tfc'[q] # "NONE"
    BY <1>2, <1>4
  <2>. QED
    BY <2>1, <2>2 DEF OneRequestId
<1>5. ASSUME NEW k \in Kickers, kicker[k].pc = "adopt",
             Ids' \subseteq {None, kicker[k].new}
      PROVE  OneRequestId'
  <2>1. \A p, q \in Ids' : p = None \/ q = None \/ p = q
    BY <1>5
  <2>2. \A q \in Ids' : q # None => tfc'[q] # "NONE"
    BY <1>3, <1>5
  <2>. QED
    BY <2>1, <2>2 DEF OneRequestId
<1>. QED
  BY <1>4, <1>5, IdsGrow

\* The run keeps the request it has; only a put may drop it, and the run is
\* final then.
LEMMA RequestIdStep ==
  ASSUME TypeOK, PendingIsFresh, OneRequestId, [Next]_vars,
         run'.request # run.request, run.request # None
  PROVE  run'.request = None /\ IsFinal(run')
<1>1. /\ \A k \in Kickers : kicker[k].seen.request \in {None, run.request}
      /\ \A s \in Setters : setter[s].seen.request \in {None, run.request}
  BY DEF OneRequestId, Ids
<1>2. run.state # "PENDING"
  BY DEF PendingIsFresh
<1>3. ASSUME NEW k \in Kickers, UpdateTestResources(k) \/ AdoptRequest(k)
      PROVE  run' = run
  BY <1>2, <1>3 DEF UpdateTestResources, AdoptRequest, Adopts
<1>4. ASSUME NEW k \in Kickers, PutError(k)
      PROVE  run'.request = kicker[k].seen.request /\ run'.state = "ERROR"
  BY <1>4 DEF PutError, PutRun, TypeOK, Kicker, Entity
<1>5. ASSUME NEW s \in Setters, PutCanceled(s)
      PROVE  run'.request = setter[s].seen.request /\ run'.state = "CANCELED"
  BY <1>5 DEF PutCanceled, PutRun, TypeOK, Setter, Entity
<1>6. ~ProcessRequestEvent /\ ~AfterTestRunHandler
  BY DEF ProcessRequestEvent, AfterTestRunHandler, TypeOK, Entity
<1>. QED
  BY <1>1, <1>3, <1>4, <1>5, <1>6, RunWriters DEF IsFinal

-----------------------------------------------------------------------------
(* Requests, events and the order of events                                *)

\* No handler leaves a request id in use of a request TFC does not have.
LEMMA RequestsExistNext ==
  ASSUME TypeOK, TypeOK', OneRequestId, RequestsExist, EventsInOrder,
         [Next]_vars
  PROVE  RequestsExist'
<1>. USE DEF TypeOK
<1>1. \A q \in Requests : tfc[q] # "NONE" => tfc'[q] # "NONE"
  BY RequestsStay
<1>2. \A m \in events : Reported(m, tfc')
  BY <1>1 DEF RequestsExist, Reported, Event
<1>3. handler.pc # "idle" => handler.msg \in Event /\ Reported(handler.msg, tfc')
  BY <1>1 DEF RequestsExist, Reported, Event, Handler, IdleHandler
<1>4. \A m \in events' : Reported(m, tfc')
  <2>1. ASSUME NEW q \in Requests, RequestAdvances(q)
        PROVE  \A m \in events' : Reported(m, tfc')
    <3>1. PICK state \in Successors(q) :
            /\ tfc' = [tfc EXCEPT ![q] = state]
            /\ events' = events \cup {[request |-> q, state |-> state,
                                       time |-> EventTime(state),
                                       retry |-> 0]}
      BY <2>1 DEF RequestAdvances
    <3>2. state # "NONE"
      BY OutcomeAssumption DEF Successors
    <3>. QED
      BY <1>2, <3>1, <3>2 DEF RequestsExist, Reported
  <2>2. CASE EventFails
    BY <1>2, <1>3, <2>2 DEF EventFails, RequestsExist, Reported, Event
  <2>3. CASE events' \subseteq events
    BY <1>2, <2>3 DEF RequestsExist
  <2>4. ASSUME NEW k \in Kickers, KickerStep(k) \/ KickerFault(k)
        PROVE  events' = events
    BY <2>4
       DEF KickerStep, PrepareTestResources, UpdateTestResources, BuildRequest,
           NewRequest, AdoptRequest, RetryKick, GiveUpKick, ReadForError,
           PutError, KickerFault, KickFails, KickFailsForGood, PullerTimesOut,
           KickerDies
  <2>5. ASSUME \/ EnqueueTestRun \/ ReconnectPuller \/ HandlerStep \/ HandlerDies
               \/ Restart
               \/ CheckPendingTestRuns \/ UNCHANGED vars
               \/ \E s \in Setters : SetterStep(s)
        PROVE  events' \subseteq events
    BY <2>5
       DEF EnqueueTestRun, ReconnectPuller, HandlerStep, GetTestRunToUpdate,
           ProcessRequestEvent, CheckFinalized, AfterTestRunHandler,
           HandlerDies, Restart, CheckPendingTestRuns, vars, SetterStep,
           ReadForCancel, CancelRequest, PutCanceled
  <2>. QED
    BY <2>1, <2>2, <2>3, <2>4, <2>5 DEF Next
<1>5. handler'.pc # "idle" => Reported(handler'.msg, tfc')
  <2>1. CASE HandlerStep
    BY <1>2, <1>3, <2>1
       DEF HandlerStep, GetTestRunToUpdate, ProcessRequestEvent,
           CheckFinalized, AfterTestRunHandler, IdleHandler, RequestsExist,
           Handler
  <2>2. CASE EventFails \/ HandlerDies \/ Restart
    BY <2>2 DEF EventFails, HandlerDies, Restart, IdleHandler
  <2>3. CASE handler' = handler
    BY <1>3, <2>3
  <2>4. ASSUME NEW k \in Kickers, KickerStep(k) \/ KickerFault(k)
        PROVE  handler' = handler
    BY <2>4, KickerSees
  <2>5. ASSUME NEW s \in Setters, SetterStep(s) PROVE handler' = handler
    BY <2>5, SetterSees
  <2>6. ASSUME \/ EnqueueTestRun \/ ReconnectPuller \/ CheckPendingTestRuns
               \/ UNCHANGED vars
               \/ \E q \in Requests : RequestAdvances(q)
        PROVE  handler' = handler
    BY <2>6 DEF EnqueueTestRun, ReconnectPuller, CheckPendingTestRuns, vars,
                RequestAdvances
  <2>. QED
    BY <2>1, <2>2, <2>3, <2>4, <2>5, <2>6 DEF Next
<1>6. \A k \in Kickers : kicker'[k].pc = "adopt" =>
        kicker'[k].new \in Requests /\ tfc'[kicker'[k].new] # "NONE"
  <2>1. ASSUME NEW k \in Kickers, KickerStep(k) \/ KickerFault(k),
               kicker'[k].pc = "adopt"
        PROVE  kicker'[k].new \in Requests /\ tfc'[kicker'[k].new] # "NONE"
    <3>1. ASSUME NEW q \in Requests, NewRequest(k, q)
          PROVE  kicker'[k].new \in Requests /\ tfc'[kicker'[k].new] # "NONE"
      BY <2>1, <3>1 DEF NewRequest, At, Kicker
    <3>2. CASE PullerTimesOut(k)
      BY <1>1, <2>1, <3>2 DEF PullerTimesOut, RequestsExist, Kicker
    <3>3. ASSUME NEW r \in Retries, PrepareTestResources(k, r) PROVE FALSE
      BY <2>1, <3>3 DEF PrepareTestResources, AfterPrepareRead, IdleKicker
    <3>. QED
      BY <2>1, <3>1, <3>2, <3>3
         DEF KickerStep, UpdateTestResources, BuildRequest, AdoptRequest,
             RetryKick, GiveUpKick, ReadForError, PutError, KickerFault,
             KickFails, KickFailsForGood, KickerDies, At, Returns,
             AfterLastRetry, IdleKicker, Kicker
  <2>2. ASSUME NEW k \in Kickers, KickerStep(k) \/ KickerFault(k),
               NEW j \in Kickers \ {k}
        PROVE  kicker'[j] = kicker[j]
    BY <2>2, KickerSees
  <2>3. CASE \E k \in Kickers : KickerStep(k) \/ KickerFault(k)
    BY <1>1, <2>1, <2>2, <2>3 DEF RequestsExist
  <2>4. CASE kicker' = kicker
    BY <1>1, <2>4 DEF RequestsExist
  <2>5. CASE Restart
    BY <2>5 DEF Restart, IdleKicker
  <2>6. ASSUME NEW s \in Setters, SetterStep(s) PROVE kicker' = kicker
    BY <2>6, SetterSees
  <2>7. ASSUME \/ EnqueueTestRun \/ ReconnectPuller \/ CheckPendingTestRuns
               \/ UNCHANGED vars
               \/ HandlerStep \/ EventFails \/ HandlerDies
               \/ \E q \in Requests : RequestAdvances(q)
        PROVE  kicker' = kicker
    BY <2>7
       DEF EnqueueTestRun, ReconnectPuller, CheckPendingTestRuns, vars,
           RequestAdvances,
           HandlerStep, GetTestRunToUpdate, ProcessRequestEvent,
           CheckFinalized, AfterTestRunHandler, EventFails, HandlerDies
  <2>. QED
    BY <2>3, <2>4, <2>5, <2>6, <2>7 DEF Next
<1>7. run'.state \in {"QUEUED", "RUNNING", "COMPLETED"} => run'.request # None
  <2>1. CASE ProcessRequestEvent
    BY <2>1
       DEF ProcessRequestEvent, EventsInOrder, RequestsExist, IsFinal, Entity
  <2>2. ASSUME NEW k \in Kickers, AdoptRequest(k)
        PROVE  run'.state \in {"QUEUED", "RUNNING", "COMPLETED"} =>
                 run'.request # None
    <3>1. kicker[k].new \in Requests
      BY <2>2 DEF AdoptRequest, RequestsExist
    <3>. QED
      BY <2>2, <3>1, BoundAssumption DEF AdoptRequest, RequestsExist, Entity
  <2>3. ASSUME NEW k \in Kickers, UpdateTestResources(k)
        PROVE  run'.state = run.state /\ run'.request = run.request
    BY <2>3 DEF UpdateTestResources, Entity
  <2>4. ASSUME NEW k \in Kickers, PutError(k) PROVE run'.state = "ERROR"
    BY <2>4 DEF PutError, PutRun, Kicker, Entity
  <2>5. ASSUME NEW s \in Setters, PutCanceled(s) PROVE run'.state = "CANCELED"
    BY <2>5 DEF PutCanceled, PutRun, Setter, Entity
  <2>6. CASE AfterTestRunHandler
    BY <2>6 DEF AfterTestRunHandler, RequestsExist, Entity
  <2>. QED
    BY <2>1, <2>2, <2>3, <2>4, <2>5, <2>6, RunWriters DEF RequestsExist
<1>. QED
  BY <1>4, <1>5, <1>6, <1>7 DEF RequestsExist

\* The moves of the handler.
LEMMA HandlerMoves ==
  ASSUME TypeOK, [Next]_vars, handler'.pc = "apply"
  PROVE  \/ handler' = handler
         \/ /\ run' = run
            /\ run.request = handler'.msg.request
            /\ run.request \in Requests
            /\ run.eventTime <= handler'.msg.time
<1>. USE DEF TypeOK
<1>1. ASSUME NEW m \in events, GetTestRunToUpdate(m)
      PROVE  /\ run' = run
             /\ run.request = handler'.msg.request
             /\ run.request \in Requests
             /\ run.eventTime <= handler'.msg.time
  BY <1>1 DEF GetTestRunToUpdate, TooOld, Event, Entity, IdleHandler
<1>2. ~(ProcessRequestEvent \/ CheckFinalized \/ AfterTestRunHandler)
  BY DEF ProcessRequestEvent, CheckFinalized, AfterTestRunHandler,
         IdleHandler, Handler
<1>3. ~(EventFails \/ HandlerDies \/ Restart)
  BY DEF EventFails, HandlerDies, Restart, IdleHandler
<1>4. ASSUME NEW k \in Kickers, KickerStep(k) \/ KickerFault(k)
      PROVE  handler' = handler
  BY <1>4, KickerSees
<1>5. ASSUME NEW s \in Setters, SetterStep(s) PROVE handler' = handler
  BY <1>5, SetterSees
<1>6. ASSUME \/ EnqueueTestRun \/ ReconnectPuller \/ CheckPendingTestRuns
             \/ UNCHANGED vars
             \/ \E q \in Requests : RequestAdvances(q)
      PROVE  handler' = handler
  BY <1>6 DEF EnqueueTestRun, ReconnectPuller, CheckPendingTestRuns, vars,
              RequestAdvances
<1>. QED
  BY <1>1, <1>2, <1>3, <1>4, <1>5, <1>6 DEF Next, HandlerStep

\* A step keeps the time of the last event, or applies one that is not older,
\* or ends the run; and RUNNING is left for a final state only.
LEMMA EventsStep ==
  ASSUME TypeOK, RequestsExist, EventsInOrder, [Next]_vars, ~IsFinal(run')
  PROVE  /\ ~IsFinal(run)
         /\ run'.eventTime >= run.eventTime
         /\ run.state = "RUNNING" => run'.state = "RUNNING"
         /\ run'.state = "RUNNING" => run'.eventTime >= 2
         /\ run.request # None => run'.request # None
         /\ handler.pc = "apply" =>
              run'.eventTime = run.eventTime \/ ProcessRequestEvent
<1>. USE DEF TypeOK, IsFinal
<1>1. ~IsFinal(run)
  BY RunMoves
<1>2. run.state = "RUNNING" => run.eventTime >= 2
  BY DEF EventsInOrder, EventTime
<1>3. ASSUME NEW k \in Kickers, UpdateTestResources(k)
      PROVE  /\ run'.state = run.state
             /\ run'.request = run.request
             /\ run'.eventTime = run.eventTime
  BY <1>3 DEF UpdateTestResources, Entity
<1>4. ASSUME NEW k \in Kickers, AdoptRequest(k)
      PROVE  \/ run' = run
             \/ /\ run.state = "PENDING"
                /\ run'.state = "QUEUED"
                /\ run'.request = kicker[k].new
                /\ kicker[k].new \in Requests
                /\ run'.eventTime = run.eventTime
  BY <1>4 DEF AdoptRequest, Adopts, Entity, RequestsExist
<1>5. ASSUME NEW k \in Kickers, PutError(k) PROVE FALSE
  BY <1>5 DEF PutError, PutRun, Entity, Kicker
<1>6. ASSUME NEW s \in Setters, PutCanceled(s) PROVE FALSE
  BY <1>6 DEF PutCanceled, PutRun, Entity, Setter
<1>7. CASE ProcessRequestEvent
  <2>1. handler.msg \in Event /\ handler.msg.time = EventTime(handler.msg.state)
    BY <1>7 DEF ProcessRequestEvent, Handler, IdleHandler, RequestsExist,
                Reported
  <2>2. /\ run'.request = run.request
        /\ run'.eventTime = handler.msg.time
        /\ run'.state = handler.msg.state
    BY <1>1, <1>7, <2>1 DEF ProcessRequestEvent, Entity
  <2>3. handler.msg.time >= run.eventTime
    BY <1>1, <1>7, <2>1 DEF ProcessRequestEvent, EventsInOrder, Entity, Event
  <2>4. handler.msg.state = "QUEUED" \/ handler.msg.state = "RUNNING"
    BY <2>1, <2>2 DEF Event
  <2>5. handler.msg.state = "QUEUED" => handler.msg.time = 1
    BY <2>1 DEF EventTime
  <2>6. handler.msg.state = "RUNNING" => handler.msg.time = 2
    BY <2>1 DEF EventTime
  <2>7. run.eventTime \in 0 .. 3
    BY DEF Entity
  <2>. QED
    BY <1>1, <1>2, <1>7, <2>2, <2>3, <2>4, <2>5, <2>6, <2>7
<1>8. CASE AfterTestRunHandler
  BY <1>1, <1>2, <1>8 DEF AfterTestRunHandler, Entity
<1>9. run.eventTime \in 0 .. 3 /\ None \notin Requests
  BY BoundAssumption DEF Entity
<1>10. CASE run' = run
  BY <1>1, <1>2, <1>9, <1>10
<1>11. ASSUME NEW k \in Kickers, UpdateTestResources(k) \/ AdoptRequest(k)
       PROVE  /\ run'.eventTime = run.eventTime
              /\ run.state = "RUNNING" => run'.state = "RUNNING"
              /\ run'.state = "RUNNING" => run.state = "RUNNING"
              /\ run.request # None => run'.request # None
  BY <1>3, <1>4, <1>9, <1>11
<1>12. CASE \E k \in Kickers : UpdateTestResources(k) \/ AdoptRequest(k)
  BY <1>1, <1>2, <1>9, <1>11, <1>12
<1>. QED
  BY <1>5, <1>6, <1>7, <1>8, <1>10, <1>12, RunWriters

\* No handler stores a request state that is later than what TFC has published.
LEMMA EventsInOrderNext ==
  ASSUME TypeOK, TypeOK', RequestsExist, EventsInOrder, [Next]_vars
  PROVE  EventsInOrder'
<1>1. run'.state = "RUNNING" => run'.eventTime >= EventTime("RUNNING")
  BY EventsStep DEF EventTime, IsFinal
<1>2. ASSUME handler'.pc = "apply", ~IsFinal(run')
      PROVE  run'.request # None /\ run'.eventTime <= handler'.msg.time
  <2>1. CASE handler' = handler
    <3>1. ~ProcessRequestEvent
      BY <1>2, <2>1 DEF ProcessRequestEvent, TypeOK, Handler, IdleHandler
    <3>2. run'.eventTime = run.eventTime
      BY <1>2, <2>1, <3>1, EventsStep
    <3>3. ~IsFinal(run) /\ (run.request # None => run'.request # None)
      BY <1>2, EventsStep
    <3>. QED
      BY <1>2, <2>1, <3>2, <3>3 DEF EventsInOrder
  <2>. QED
    BY <1>2, <2>1, HandlerMoves, BoundAssumption
<1>. QED
  BY <1>1, <1>2 DEF EventsInOrder, IsFinal

-----------------------------------------------------------------------------
(* The mark is_finalized                                                   *)

\* A kicker that is about to put an entity has read it as one not final.
LEMMA KickerPuts ==
  ASSUME TypeOK, NEW k \in Kickers, KickerStep(k) \/ KickerFault(k),
         kicker[k].pc = "put" => ~IsFinal(kicker[k].seen),
         kicker'[k].pc = "put"
  PROVE  ~IsFinal(kicker'[k].seen)
<1>. USE DEF TypeOK, Kicker
<1>1. CASE ReadForError(k)
  BY <1>1 DEF ReadForError, Returns, IdleKicker
<1>2. CASE PullerTimesOut(k)
  BY <1>2 DEF PullerTimesOut
<1>3. ASSUME NEW r \in Retries, PrepareTestResources(k, r) PROVE FALSE
  BY <1>3 DEF PrepareTestResources, AfterPrepareRead, IdleKicker
<1>. QED
  BY <1>1, <1>2, <1>3
     DEF KickerStep, UpdateTestResources, BuildRequest, NewRequest,
         AdoptRequest, RetryKick, GiveUpKick, PutError, KickerFault, KickFails,
         KickFailsForGood, KickerDies, At, Returns, IdleKicker, AfterLastRetry

\* What a step does to the marks of the run.
LEMMA MarksStep ==
  ASSUME TypeOK, MarksAreFinal, [Next]_vars
  PROVE  /\ run'.finalized \/ handled' > 0 => IsFinal(run')
         /\ HandlersOncePerMark'
         /\ handler'.pc = "finalize" => IsFinal(run') /\ ~run'.finalized
<1>. USE DEF TypeOK, MarksAreFinal, HandlersOncePerMark, IsFinal
<1>1. ASSUME NEW k \in Kickers, UpdateTestResources(k)
      PROVE  /\ run'.finalized = run.finalized
             /\ run'.state = run.state
             /\ UNCHANGED <<history, handler>>
  BY <1>1 DEF UpdateTestResources, Entity
<1>2. ASSUME NEW k \in Kickers, AdoptRequest(k)
      PROVE  /\ run' = run \/ (~IsFinal(run) /\ run'.finalized = run.finalized)
             /\ UNCHANGED <<history, handler>>
  BY <1>2 DEF AdoptRequest, Adopts, Entity
<1>3. ASSUME NEW e \in Entity, NEW st \in FinalStates, PutRun(e, st),
             ~e.finalized, handled' = handled
      PROVE  /\ IsFinal(run')
             /\ ~run'.finalized
             /\ HandlersOncePerMark'
  BY <1>3 DEF PutRun, Entity
<1>4. ASSUME NEW k \in Kickers, PutError(k)
      PROVE  /\ IsFinal(run')
             /\ ~run'.finalized
             /\ HandlersOncePerMark'
  <2>1. kicker[k].seen \in Entity /\ ~kicker[k].seen.finalized
    BY <1>4 DEF PutError, Kicker
  <2>. QED
    BY <1>3, <1>4, <2>1 DEF PutError
<1>5. ASSUME NEW s \in Setters, PutCanceled(s)
      PROVE  /\ IsFinal(run')
             /\ ~run'.finalized
             /\ HandlersOncePerMark'
  <2>1. setter[s].seen \in Entity /\ ~setter[s].seen.finalized
    BY <1>5 DEF Setter
  <2>. QED
    BY <1>3, <1>5, <2>1 DEF PutCanceled
<1>6. CASE ProcessRequestEvent
  <2>1. /\ run'.finalized = run.finalized
        /\ IsFinal(run) => IsFinal(run')
        /\ handler'.pc = "check"
        /\ handled' = handled /\ overwrote' = overwrote
    BY <1>6 DEF ProcessRequestEvent, Entity, history, Handler, IdleHandler
  <2>. QED
    BY <2>1
<1>7. CASE AfterTestRunHandler
  <2>1. IsFinal(run) /\ ~run.finalized
    BY <1>7 DEF AfterTestRunHandler
  <2>2. /\ run'.finalized
        /\ run'.state = run.state
        /\ handler'.pc = "idle"
        /\ handled' = handled + 1 /\ overwrote' = overwrote
    BY <1>7 DEF AfterTestRunHandler, Entity, IdleHandler
  <2>. QED
    BY <2>1, <2>2
<1>8. CASE run' = run /\ UNCHANGED history
  <2>1. CASE CheckFinalized
    BY <1>8, <2>1 DEF CheckFinalized, NeedsHandlers, IdleHandler, history
  <2>2. CASE handler'.pc = "finalize" => handler' = handler
    BY <1>8, <2>2 DEF history
  <2>3. ASSUME NEW m \in events, GetTestRunToUpdate(m)
        PROVE  handler'.pc # "finalize"
    BY <2>3 DEF GetTestRunToUpdate, IdleHandler
  <2>4. ASSUME EventFails \/ HandlerDies \/ Restart PROVE handler'.pc # "finalize"
    BY <2>4 DEF EventFails, HandlerDies, Restart, IdleHandler
  <2>5. ASSUME NEW k \in Kickers, KickerStep(k) \/ KickerFault(k)
        PROVE  handler' = handler
    BY <2>5, KickerSees
  <2>6. ASSUME NEW s \in Setters, SetterStep(s) PROVE handler' = handler
    BY <2>6, SetterSees
  <2>7. ASSUME \/ EnqueueTestRun \/ ReconnectPuller \/ CheckPendingTestRuns
               \/ UNCHANGED vars
               \/ \E q \in Requests : RequestAdvances(q)
        PROVE  handler' = handler
    BY <2>7 DEF EnqueueTestRun, ReconnectPuller, CheckPendingTestRuns, vars,
                RequestAdvances
  <2>. QED
    BY <1>6, <1>7, <2>1, <2>2, <2>3, <2>4, <2>5, <2>6, <2>7
       DEF Next, HandlerStep
<1>9. ASSUME NEW k \in Kickers, UpdateTestResources(k) \/ AdoptRequest(k)
      PROVE  /\ run'.finalized \/ handled' > 0 => IsFinal(run')
             /\ HandlersOncePerMark'
             /\ handler'.pc = "finalize" => IsFinal(run') /\ ~run'.finalized
  BY <1>1, <1>2, <1>9 DEF history
<1>10. ASSUME \/ \E k \in Kickers : PutError(k)
              \/ \E s \in Setters : PutCanceled(s)
       PROVE  /\ run'.finalized \/ handled' > 0 => IsFinal(run')
              /\ HandlersOncePerMark'
              /\ handler'.pc = "finalize" => IsFinal(run') /\ ~run'.finalized
  BY <1>4, <1>5, <1>10
<1>11. \/ \E k \in Kickers :
            UpdateTestResources(k) \/ AdoptRequest(k) \/ PutError(k)
       \/ \E s \in Setters : PutCanceled(s)
       \/ ProcessRequestEvent
       \/ AfterTestRunHandler
       \/ run' = run /\ UNCHANGED history
  BY DEF Next, EnqueueTestRun, ReconnectPuller, KickerStep,
         PrepareTestResources, BuildRequest,
         NewRequest, RetryKick, GiveUpKick, ReadForError, KickerFault,
         KickFails, KickFailsForGood, PullerTimesOut, KickerDies, SetterStep,
         ReadForCancel, CancelRequest, RequestAdvances, HandlerStep,
         GetTestRunToUpdate, CheckFinalized, EventFails, HandlerDies, Restart,
         CheckPendingTestRuns, vars, history
<1>. QED
  BY <1>6, <1>7, <1>8, <1>9, <1>10, <1>11

\* An entity that may be put has no mark.
LEMMA SeenMarksStep ==
  ASSUME TypeOK, MarksAreFinal, [Next]_vars
  PROVE  /\ \A k \in Kickers :
              /\ ~IsFinal(kicker'[k].seen) => ~kicker'[k].seen.finalized
              /\ kicker'[k].pc = "put" => ~IsFinal(kicker'[k].seen)
         /\ \A s \in Setters : ~setter'[s].seen.finalized
<1>. USE DEF MarksAreFinal
<1>1. ~NewRun.finalized
  BY DEF NewRun
<1>2. ~IsFinal(run) => ~run.finalized
  OBVIOUS
<1>3. ASSUME NEW k \in Kickers, KickerStep(k) \/ KickerFault(k)
      PROVE  /\ \A j \in Kickers :
                  /\ ~IsFinal(kicker'[j].seen) => ~kicker'[j].seen.finalized
                  /\ kicker'[j].pc = "put" => ~IsFinal(kicker'[j].seen)
             /\ setter' = setter
  BY <1>1, <1>2, <1>3, KickerSees, KickerPuts
<1>4. ASSUME NEW s \in Setters, SetterStep(s)
      PROVE  /\ \A j \in Setters : ~setter'[j].seen.finalized
             /\ kicker' = kicker
  BY <1>1, <1>2, <1>4
     DEF SetterStep, ReadForCancel, CancelRequest, PutCanceled, DoneSetter,
         TypeOK, Setter
<1>5. CASE Restart
  BY <1>1, <1>5 DEF Restart, IdleKicker, ReadySetter, DoneSetter
<1>6. CASE CheckPendingTestRuns
  BY <1>1, <1>6 DEF CheckPendingTestRuns, ReadySetter, TypeOK
<1>7. ASSUME \/ EnqueueTestRun \/ ReconnectPuller \/ UNCHANGED vars
             \/ HandlerStep
             \/ EventFails \/ HandlerDies
             \/ \E q \in Requests : RequestAdvances(q)
      PROVE  UNCHANGED <<kicker, setter>>
  BY <1>7
     DEF EnqueueTestRun, ReconnectPuller, vars, RequestAdvances, HandlerStep,
         GetTestRunToUpdate, ProcessRequestEvent, CheckFinalized,
         AfterTestRunHandler, EventFails, HandlerDies
<1>. QED
  BY <1>3, <1>4, <1>5, <1>6, <1>7 DEF Next

\* No handler marks a run that is not final.
LEMMA MarksAreFinalNext ==
  ASSUME TypeOK, MarksAreFinal, [Next]_vars
  PROVE  MarksAreFinal'
BY MarksStep, SeenMarksStep DEF MarksAreFinal, IsFinal

-----------------------------------------------------------------------------
(* Resources, and the care for a PENDING run                               *)

\* How a kicker comes to build and to send the message of a request.
LEMMA KickerBuilds ==
  ASSUME TypeOK, NEW k \in Kickers, KickerStep(k) \/ KickerFault(k)
  PROVE  /\ kicker'[k].pc = "create" =>
              \/ kicker[k].pc = "create"
              \/ UpdateTestResources(k)
              \/ run.state = "CANCELED"
         /\ kicker'[k].pc = "submit" =>
              \/ kicker'[k].ready = kicker[k].ready /\ kicker[k].pc = "submit"
              \/ /\ kicker'[k].ready = run.prepared
                 /\ kicker[k].pc = "create"
                 /\ run.state = "PENDING"
<1>. USE DEF TypeOK, Kicker
<1>1. ASSUME NEW r \in Retries, PrepareTestResources(k, r)
      PROVE  /\ kicker'[k].pc = AfterPrepareRead(run.state)
             /\ kicker'[k].pc # "submit"
             /\ kicker'[k].pc = "create" => run.state = "CANCELED"
  <2>1. kicker'[k].pc = AfterPrepareRead(run.state)
    BY <1>1 DEF PrepareTestResources, IdleKicker
  <2>. QED
    BY <2>1 DEF AfterPrepareRead
<1>2. CASE BuildRequest(k)
  <2>1. CASE run.state = "PENDING"
    BY <1>2, <2>1 DEF BuildRequest
  <2>. QED
    BY <1>2, <2>1 DEF BuildRequest, Returns, At, IdleKicker
<1>3. CASE PullerTimesOut(k)
  <2>1. /\ kicker'[k].pc = kicker[k].pc
        /\ kicker'[k].ready = kicker[k].ready
    BY <1>3 DEF PullerTimesOut
  <2>. QED
    BY <2>1
<1>4. CASE UpdateTestResources(k)
  <2>1. kicker'[k].pc = "create"
    BY <1>4 DEF UpdateTestResources, At
  <2>. QED
    BY <1>4, <2>1
<1>5. ASSUME \/ \E q \in Requests : NewRequest(k, q)
             \/ AdoptRequest(k) \/ RetryKick(k) \/ GiveUpKick(k)
             \/ ReadForError(k) \/ PutError(k) \/ KickFails(k)
             \/ KickFailsForGood(k) \/ KickerDies(k)
      PROVE  kicker'[k].pc \notin {"create", "submit"}
  BY <1>5
     DEF NewRequest, AdoptRequest, RetryKick, GiveUpKick, ReadForError,
         PutError, KickFails, KickFailsForGood, KickerDies, At, Returns,
         IdleKicker, AfterLastRetry
<1>. QED
  BY <1>1, <1>2, <1>3, <1>4, <1>5 DEF KickerStep, KickerFault

\* The resources of a PENDING run stay prepared.
LEMMA PreparedStays ==
  ASSUME TypeOK, [Next]_vars, run'.state = "PENDING"
  PROVE  run.prepared => run'.prepared
<1>. USE DEF TypeOK
<1>1. ASSUME NEW k \in Kickers, UpdateTestResources(k)
      PROVE  run.prepared => run'.prepared
  BY <1>1 DEF UpdateTestResources, Entity
<1>2. ASSUME NEW k \in Kickers, AdoptRequest(k) PROVE run' = run
  BY <1>2 DEF AdoptRequest, Adopts, Entity
<1>3. ASSUME NEW k \in Kickers, PutError(k) PROVE FALSE
  BY <1>3 DEF PutError, PutRun, Entity, Kicker
<1>4. ASSUME NEW s \in Setters, PutCanceled(s) PROVE FALSE
  BY <1>4 DEF PutCanceled, PutRun, Entity, Setter
<1>5. CASE ProcessRequestEvent \/ AfterTestRunHandler
  BY <1>5 DEF ProcessRequestEvent, AfterTestRunHandler, Entity
<1>. QED
  BY <1>1, <1>2, <1>3, <1>4, <1>5, RunWriters

\* No handler comes to a request without the resources.
LEMMA ResourcesAreReadyNext ==
  ASSUME TypeOK, ResourcesAreReady, [Next]_vars
  PROVE  ResourcesAreReady'
<1>. USE DEF ResourcesAreReady
<1>1. run'.state = "PENDING" =>
        run.state = "PENDING" /\ (run.prepared => run'.prepared)
  BY RunMoves, PreparedStays
<1>2. ASSUME NEW k \in Kickers, UpdateTestResources(k), run.state = "PENDING"
      PROVE  run'.prepared
  BY <1>2 DEF UpdateTestResources, TypeOK, Entity
<1>3. ASSUME NEW k \in Kickers, KickerStep(k) \/ KickerFault(k)
      PROVE  ResourcesAreReady'
  <2>1. \A j \in Kickers \ {k} : kicker'[j] = kicker[j]
    BY <1>3, KickerSees
  <2>2. kicker'[k].pc = "create" /\ run'.state = "PENDING" => run'.prepared
    BY <1>1, <1>2, <1>3, KickerBuilds
  <2>3. kicker'[k].pc = "submit" => kicker'[k].ready
    BY <1>3, KickerBuilds
  <2>. QED
    BY <1>1, <2>1, <2>2, <2>3
<1>4. CASE Restart
  BY <1>4 DEF Restart, IdleKicker
<1>5. CASE kicker' = kicker
  BY <1>1, <1>5
<1>6. ASSUME NEW s \in Setters, SetterStep(s) PROVE kicker' = kicker
  BY <1>6, SetterSees
<1>7. ASSUME \/ EnqueueTestRun \/ ReconnectPuller \/ CheckPendingTestRuns
             \/ UNCHANGED vars
             \/ HandlerStep \/ EventFails \/ HandlerDies
             \/ \E q \in Requests : RequestAdvances(q)
      PROVE  kicker' = kicker
  BY <1>7
     DEF EnqueueTestRun, ReconnectPuller, CheckPendingTestRuns, vars,
         RequestAdvances,
         HandlerStep, GetTestRunToUpdate, ProcessRequestEvent, CheckFinalized,
         AfterTestRunHandler, EventFails, HandlerDies
<1>. QED
  BY <1>3, <1>4, <1>5, <1>6, <1>7 DEF Next

\* A failed call that the puller waits for leaves a task or a lost message.
LEMMA RedeliverLeaves ==
  ASSUME TypeOK, NEW k \in Kickers, Redeliver(k)
  PROVE  /\ kicker[k].waited =>
              (\E r \in Retries : queue'[r] > 0) \/ "kick" \in lost'
         /\ (\E r \in Retries : queue[r] > 0) =>
              (\E r \in Retries : queue'[r] > 0)
         /\ lost \subseteq lost'
<1>. USE DEF TypeOK, Kicker
<1>1. CASE ~kicker[k].waited /\ UNCHANGED <<queue, lost>>
  BY <1>1
<1>2. CASE /\ kicker[k].retry < PullRetries
           /\ queue' = [queue EXCEPT ![kicker[k].retry + 1] = @ + 1]
           /\ UNCHANGED lost
  <2>1. kicker[k].retry + 1 \in Retries
    BY <1>2, RetryAssumption
  <2>2. queue'[kicker[k].retry + 1] > 0
    BY <1>2, <2>1
  <2>. QED
    BY <1>2, <2>1, <2>2
<1>3. CASE lost' = lost \cup {"kick"} /\ UNCHANGED queue
  BY <1>3
<1>. QED
  BY <1>1, <1>2, <1>3 DEF Redeliver

\* No handler leaves a PENDING run that nothing will take care of.
LEMMA PendingIsWaitedForNext ==
  ASSUME TypeOK, PendingIsFresh, PendingIsWaitedFor, [Next]_vars
  PROVE  PendingIsWaitedFor'
<1>. SUFFICES ASSUME run'.state = "PENDING" PROVE PendingIsWaitedFor'
  BY DEF PendingIsWaitedFor
<1>. DEFINE Queued == \E r \in Retries : queue[r] > 0
            Kicked == \E k \in Kickers :
                        kicker[k].pc # "idle" /\ kicker[k].waited
<1>. USE DEF TypeOK
<1>1. run.state = "PENDING"
  BY RunMoves
<1>2. \/ enqueuer # "done" \/ Queued \/ Kicked
      \/ setter[Boot].pc # "done" \/ "kick" \in lost
  BY <1>1 DEF PendingIsWaitedFor
<1>3. ASSUME \/ enqueuer' # "done" \/ Queued' \/ Kicked'
             \/ setter'[Boot].pc # "done" \/ "kick" \in lost'
      PROVE  PendingIsWaitedFor'
  BY <1>3 DEF PendingIsWaitedFor
<1>. HIDE DEF Queued, Kicked
<1>4. ASSUME NEW k \in Kickers, NEW r \in Retries, PrepareTestResources(k, r)
      PROVE  PendingIsWaitedFor'
  <2>1. kicker'[k].pc = AfterPrepareRead(run.state) /\ kicker'[k].waited
    BY <1>4 DEF PrepareTestResources, IdleKicker, Kicker
  <2>2. Kicked'
    BY <1>1, <2>1 DEF Kicked, AfterPrepareRead
  <2>. QED
    BY <1>3, <2>2
<1>5. ASSUME NEW k \in Kickers, RetryKick(k) \/ PullerTimesOut(k)
      PROVE  PendingIsWaitedFor'
  <2>1. /\ Redeliver(k)
        /\ UNCHANGED <<enqueuer, setter>>
        /\ \A j \in Kickers \ {k} : kicker'[j] = kicker[j]
    BY <1>5 DEF RetryKick, PullerTimesOut, Returns
  <2>2. kicker[k].waited => Queued' \/ "kick" \in lost'
    BY <2>1, RedeliverLeaves DEF Queued
  <2>3. Queued => Queued'
    BY <2>1, RedeliverLeaves DEF Queued
  <2>4. lost \subseteq lost'
    BY <2>1, RedeliverLeaves
  <2>5. Kicked => Kicked' \/ kicker[k].waited
    BY <2>1 DEF Kicked
  <2>. QED
    BY <1>2, <1>3, <2>1, <2>2, <2>3, <2>4, <2>5
<1>6. ASSUME NEW k \in Kickers, kicker'[k].pc # "idle",
             kicker'[k].waited = kicker[k].waited,
             \A j \in Kickers \ {k} : kicker'[j] = kicker[j],
             UNCHANGED <<queue, lost, enqueuer, setter>>
      PROVE  PendingIsWaitedFor'
  <2>1. Kicked => Kicked'
    BY <1>6 DEF Kicked
  <2>2. Queued => Queued'
    BY <1>6 DEF Queued
  <2>. QED
    BY <1>2, <1>3, <1>6, <2>1, <2>2
<1>7. ASSUME NEW k \in Kickers,
             \/ UpdateTestResources(k) \/ BuildRequest(k) \/ GiveUpKick(k)
             \/ KickFails(k) \/ KickFailsForGood(k)
             \/ \E q \in Requests : NewRequest(k, q)
             \/ ReadForError(k)
      PROVE  PendingIsWaitedFor'
  <2>1. UNCHANGED <<queue, lost, enqueuer, setter>>
    BY <1>7 DEF UpdateTestResources, BuildRequest, GiveUpKick, KickFails,
                KickFailsForGood, NewRequest, ReadForError
  <2>2. \A j \in Kickers \ {k} : kicker'[j] = kicker[j]
    BY <1>7, KickerSees DEF KickerStep, KickerFault
  <2>3. kicker[k].seen.state = "PENDING"
    BY <1>1 DEF PendingIsFresh
  <2>4. kicker'[k].pc # "idle" /\ kicker'[k].waited = kicker[k].waited
    <3>1. CASE ReadForError(k)
      BY <1>1, <2>3, <3>1 DEF ReadForError, IsFinal, Kicker
    <3>2. CASE BuildRequest(k)
      BY <1>1, <3>2 DEF BuildRequest, At, Kicker
    <3>3. CASE \E q \in Requests : NewRequest(k, q)
      BY <3>3 DEF NewRequest, At, Kicker
    <3>. QED
      BY <1>7, <3>1, <3>2, <3>3
         DEF UpdateTestResources, GiveUpKick, KickFails, KickFailsForGood, At,
             AfterLastRetry, Kicker
  <2>. QED
    BY <1>6, <2>1, <2>2, <2>4
<1>8. ASSUME NEW k \in Kickers PROVE ~AdoptRequest(k) /\ ~PutError(k)
  BY <1>1 DEF AdoptRequest, Adopts, PutError, PutRun, Kicker, Entity
<1>9. CASE UNCHANGED <<queue, kicker, setter, enqueuer>> /\ lost \subseteq lost'
  <2>1. (Kicked => Kicked') /\ (Queued => Queued')
    BY <1>9 DEF Kicked, Queued
  <2>. QED
    BY <1>2, <1>3, <1>9, <2>1
<1>10. ASSUME NEW s \in Setters, SetterStep(s) PROVE PendingIsWaitedFor'
  <2>1. ~PutCanceled(s)
    BY DEF PutCanceled, PutRun, Setter, Entity
  <2>2. setter[s].seen.request = None
    BY <1>1 DEF PendingIsFresh
  <2>3. setter'[s].pc # "done" /\ \A j \in Setters \ {s} : setter'[j] = setter[j]
    BY <1>1, <1>10, <2>1, <2>2
       DEF SetterStep, ReadForCancel, CancelRequest, Setter, IsFinal
  <2>4. UNCHANGED <<queue, kicker, enqueuer, lost>>
    BY <1>10, <2>1 DEF SetterStep, ReadForCancel, CancelRequest
  <2>5. (Kicked => Kicked') /\ (Queued => Queued')
    BY <2>4 DEF Kicked, Queued
  <2>. QED
    BY <1>2, <1>3, <2>3, <2>4, <2>5
<1>11. ASSUME AddTask PROVE PendingIsWaitedFor'
  <2>1. CASE queue' = [queue EXCEPT ![0] = @ + 1]
    <3>1. queue'[0] > 0 /\ 0 \in Retries
      BY <2>1, RetryAssumption
    <3>. QED
      BY <1>3, <3>1 DEF Queued
  <2>2. CASE "kick" \in lost'
    BY <1>3, <2>2
  <2>. QED
    BY <1>11, <2>1, <2>2 DEF AddTask
<1>12. CASE EnqueueTestRun
  BY <1>12, <1>11 DEF EnqueueTestRun
<1>13. CASE Restart
  BY <1>3, <1>13 DEF Restart
<1>14. CASE CheckPendingTestRuns
  <2>1. CASE AddTask
    BY <1>11, <2>1
  <2>2. CASE setter' = [setter EXCEPT ![Boot] = ReadySetter]
    BY <1>3, <2>2 DEF ReadySetter
  <2>. QED
    BY <1>1, <1>14, <2>1, <2>2 DEF CheckPendingTestRuns
<1>15. ASSUME \/ HandlerStep \/ EventFails \/ HandlerDies \/ UNCHANGED vars
              \/ \E q \in Requests : RequestAdvances(q)
       PROVE  UNCHANGED <<queue, kicker, setter, enqueuer>> /\ lost \subseteq lost'
  BY <1>15
     DEF HandlerStep, GetTestRunToUpdate, ProcessRequestEvent, CheckFinalized,
         AfterTestRunHandler, EventFails, HandlerDies, vars, RequestAdvances
<1>16. CASE ReconnectPuller
  <2>1. CASE "kick" \in lost'
    BY <1>3, <2>1
  <2>2. CASE UNCHANGED <<queue, kicker, setter, enqueuer>> /\ lost \subseteq lost'
    BY <1>9, <2>2
  <2>. QED
    BY <1>16, <2>1, <2>2 DEF ReconnectPuller
<1>17. ASSUME NEW k \in Kickers, KickerDies(k) PROVE PendingIsWaitedFor'
  <2>1. /\ UNCHANGED <<queue, enqueuer, setter>>
        /\ lost \subseteq lost'
        /\ kicker[k].waited => "kick" \in lost'
        /\ \A j \in Kickers \ {k} : kicker'[j] = kicker[j]
    BY <1>17 DEF KickerDies, Returns
  <2>2. (Kicked => Kicked' \/ kicker[k].waited) /\ (Queued => Queued')
    BY <2>1 DEF Kicked, Queued
  <2>. QED
    BY <1>2, <1>3, <2>1, <2>2
<1>18. ASSUME NEW k \in Kickers, KickerStep(k) \/ KickerFault(k)
       PROVE  PendingIsWaitedFor'
  BY <1>4, <1>5, <1>7, <1>8, <1>17, <1>18 DEF KickerStep, KickerFault
<1>. QED
  BY <1>9, <1>10, <1>12, <1>13, <1>14, <1>15, <1>18, <1>16 DEF Next

-----------------------------------------------------------------------------
(* The theorems                                                            *)

\* The inductive invariant holds in every state of every behaviour.
THEOREM Invariance == Spec => []IInv
<1>1. IInv /\ [Next]_vars => IInv'
  <2>. SUFFICES ASSUME IInv, [Next]_vars PROVE IInv'
    OBVIOUS
  <2>1. TypeOK'
    BY TypeNext DEF IInv
  <2>. QED
    BY <2>1, PendingIsFreshNext, OneRequestIdNext, RequestsExistNext,
       EventsInOrderNext, MarksAreFinalNext, ResourcesAreReadyNext,
       PendingIsWaitedForNext
       DEF IInv
<1>. QED
  BY <1>1, InitIInv, PTL DEF Spec

\* A run that TFC executes names the request: Cancel and the events reach it.
THEOREM LiveRuns == Spec => []LiveRunHasRequest
<1>1. IInv => LiveRunHasRequest
  BY DEF IInv, TypeOK, Entity, OneRequestId, Ids, RequestsExist,
         LiveRunHasRequest
<1>. QED
  BY <1>1, Invariance, PTL

\* Every request names cached resources.
THEOREM Resources == Spec => []RequestsUseCachedResources
<1>1. IInv => RequestsUseCachedResources
  BY DEF IInv, ResourcesAreReady, RequestsUseCachedResources
<1>. QED
  BY <1>1, Invariance, PTL

\* The post-run handlers are scheduled for final runs only.
THEOREM Handlers == Spec => []HandlersOnlyWhenFinal
<1>1. IInv => HandlersOnlyWhenFinal
  BY DEF IInv, MarksAreFinal, HandlersOnlyWhenFinal
<1>. QED
  BY <1>1, Invariance, PTL

\* They are scheduled once, but for the marks SetTestRunState erases.
THEOREM HandlersOnce == Spec => []HandlersOncePerMark
<1>1. IInv => HandlersOncePerMark
  BY DEF IInv, MarksAreFinal
<1>. QED
  BY <1>1, Invariance, PTL

\* A PENDING run has a task, a call or a restart that will take care of it.
THEOREM Attended == Spec => []PendingRunIsAttended
<1>1. IInv => PendingRunIsAttended
  BY DEF IInv, PendingIsWaitedFor, PendingRunIsAttended
<1>. QED
  BY <1>1, Invariance, PTL

\* Duplicate kick tasks never replace the request of the run.
THEOREM RequestIdKept == Spec => RequestIdStable
<1>1. IInv /\ [Next]_vars =>
        [run'.request # run.request /\ run.request # None =>
           run'.request = None /\ IsFinal(run')]_vars
  BY RequestIdStep DEF IInv
<1>. QED
  BY <1>1, Invariance, PTL DEF Spec, RequestIdStable

\* Late and repeated events do not set a live run back.
THEOREM EventsForward == Spec => EventsMoveForward
<1>1. IInv /\ [Next]_vars =>
        [~IsFinal(run') =>
           /\ run'.eventTime >= run.eventTime
           /\ run.state = "RUNNING" => run'.state = "RUNNING"]_vars
  BY EventsStep DEF IInv
<1>. QED
  BY <1>1, Invariance, PTL DEF Spec, EventsMoveForward

=============================================================================
