-------------------------- MODULE TestRunLifecycle --------------------------
(***************************************************************************)
(* One test run of the Android Test Station server, from the moment        *)
(* CreateTestRun has stored it to the moment its post-run handlers have    *)
(* been scheduled.  Everything that writes its state, its request id or    *)
(* its mark is_finalized is here: the kick tasks of test-kicker-queue      *)
(* (test_kicker.py), the callers of SetTestRunState                        *)
(* (test_run_manager.py), the handler of tfc-event-queue                   *)
(* (tfc_event_handler.py) and the restart of the server (core/app.py).     *)
(* Runs share no state but the resource cache, so one run is enough.       *)
(*                                                                         *)
(* A datastore transaction is one step.  Code that reads an entity outside *)
(* a transaction and puts it back later takes two steps, and the put       *)
(* writes the whole entity it read.                                        *)
(*                                                                         *)
(* The tradefed cluster (TFC) that executes requests is not part of the    *)
(* repository: it is modelled by what the code in src/ expects of it.      *)
(***************************************************************************)
EXTENDS Integers, FiniteSets

CONSTANTS
  Kickers,      \* workers serving test-kicker-queue
  Users,        \* API calls that cancel the run
  Boot,         \* the SetTestRunState call CheckPendingTestRuns makes
  KickRetries,  \* MAX_RETRY_COUNT of test_kicker.py
  PullRetries,  \* MAX_RETRY_COUNT of rabbitmq_puller.py, for kick tasks
  EventRetries, \* the same constant, for request events
  Outcomes,     \* the final states a TFC request may reach
  MaxRequests,  \* bound on the TFC requests created for the run
  MaxRestarts   \* bound on the number of server restarts

ASSUME RetryAssumption ==
  /\ KickRetries \in Nat
  /\ PullRetries \in Nat
  /\ EventRetries \in Nat
  /\ KickRetries <= PullRetries

ASSUME BoundAssumption == MaxRequests \in Nat /\ MaxRestarts \in Nat

ASSUME OutcomeAssumption == Outcomes \subseteq {"COMPLETED", "CANCELED", "ERROR"}

ASSUME SetterAssumption == Boot \notin Users

Requests == 1 .. MaxRequests
None == 0
Retries == 0 .. PullRetries
Setters == Users \cup {Boot}

FinalStates == {"COMPLETED", "CANCELED", "ERROR"}
RunStates == {"PENDING", "QUEUED", "RUNNING"} \cup FinalStates

\* A request publishes an event when it becomes QUEUED, RUNNING and final, each
\* with a later event_time; 0 stands for "no event yet".
Times == 0 .. 3
EventTime(state) ==
  CASE state = "QUEUED" -> 1 [] state = "RUNNING" -> 2 [] OTHER -> 3

\* The fields of the TestRun entity that the handlers read or overwrite.
\* "prepared" says that its test resources carry the URLs of cached files.
Entity == [state : RunStates, request : Requests \cup {None},
           prepared : BOOLEAN, finalized : BOOLEAN, eventTime : Times]

Event == [request : Requests, state : RunStates \ {"PENDING"}, time : Times,
          retry : 0 .. EventRetries]

\* The entity CreateTestRun stores.
NewRun == [state |-> "PENDING", request |-> None, prepared |-> FALSE,
           finalized |-> FALSE, eventTime |-> 0]

VARIABLES
  run,        \* the TestRun entity in the datastore
  queue,      \* queue[r]: kick tasks waiting that were tried r times before
  kicker,     \* the call of HandleTask each kicker serves
  setter,     \* each call of SetTestRunState(CANCELED)
  tfc,        \* the state of each TFC request
  asked,      \* the TFC requests that ATS has asked to cancel
  events,     \* messages of tfc-event-queue
  handler,    \* the event being handled
  enqueuer,   \* "create" or "boot" while a call will still enqueue the run
  restarts,   \* restarts so far
  handled,    \* how often the post-run handlers were scheduled
  overwrote,  \* how often SetTestRunState put an entity over a finalized one
  lost        \* kinds of message dropped; a restart makes up for the kick task

tvars == <<tfc, asked>>
history == <<handled, overwrote>>
vars == <<run, queue, kicker, setter, tvars, events, handler, enqueuer,
          restarts, history, lost>>

KickerStates ==
  {"idle", "download", "create", "submit", "adopt", "raise", "error", "put"}

\* retry: the retry count of the task; waited: the puller waits for an answer;
\* seen: the entity the ndb context of the call caches, later the one it puts;
\* ready: the request it built names cached resources only; new: the request
\* TFC has created for it.
Kicker == [pc : KickerStates, retry : Retries, waited : BOOLEAN,
           seen : Entity, ready : BOOLEAN, new : Requests \cup {None}]

IdleKicker == [pc |-> "idle", retry |-> 0, waited |-> FALSE, seen |-> NewRun,
               ready |-> FALSE, new |-> None]

\* seen: the entity the call has read and will put.
Setter == [pc : {"ready", "cancel", "put", "done"}, seen : Entity]

ReadySetter == [pc |-> "ready", seen |-> NewRun]
DoneSetter == [pc |-> "done", seen |-> NewRun]

NoEvent == [request |-> None, state |-> "PENDING", time |-> 0, retry |-> 0]

IdleHandler == [pc |-> "idle", msg |-> NoEvent]

Handler == [pc : {"apply", "check", "finalize"}, msg : Event]
             \cup {IdleHandler}

Init ==
  /\ run = NewRun
  /\ queue = [r \in Retries |-> 0]
  /\ kicker = [k \in Kickers |-> IdleKicker]
  /\ setter = [s \in Setters |-> IF s = Boot THEN DoneSetter ELSE ReadySetter]
  /\ tfc = [q \in Requests |-> "NONE"]
  /\ asked = {}
  /\ events = {}
  /\ handler = IdleHandler
  /\ enqueuer = "create"
  /\ restarts = 0
  /\ handled = 0
  /\ overwrote = 0
  /\ lost = {}

IsFinal(r) == r.state \in FinalStates

\* The definitions below are the decisions the code takes.  One whose name
\* starts with Mut is a bug the code could have in the place of the definition
\* that follows it; nothing uses it but the mutation runs.

\* The check of the transaction in _CreateTFCRequest.
MutAdoptsUnlessCanceled(r) == r.state # "CANCELED"
MutAdoptsAlways(r) == TRUE
Adopts(r) == r.state = "PENDING"

\* The check on an event's time in _GetTestRunToUpdate.
MutNeverTooOld(m, r) == FALSE
MutTooOldWhenRepeated(m, r) == m.time <= r.eventTime
TooOld(m, r) == m.time < r.eventTime

\* The check before _AfterTestRunHandler in ProcessRequestEvent.
MutNeedsHandlersAgain(r) == IsFinal(r)
MutNeedsHandlersEarly(r) == ~r.finalized
NeedsHandlers(r) == IsFinal(r) /\ ~r.finalized

\* Where the state that _PrepareTestResources reads sends the kick task.
MutSkipDownloads(state) ==
  IF state \in {"CANCELED", "PENDING"} THEN "create" ELSE "raise"
AfterPrepareRead(state) ==
  CASE state = "CANCELED" -> "create"
    [] state = "PENDING" -> "download"
    [] OTHER -> "raise"

\* Whether the puller will deliver an event again that its handler failed on.
MutDeliversAgain(m) == m.retry <= EventRetries
DeliversAgain(m) == m.retry < EventRetries

\* Where HandleTask goes once the queue will not try again.
MutAfterLastRetry == "idle"
AfterLastRetry == "error"

-----------------------------------------------------------------------------
(* The kick task: test_kicker.py                                           *)

\* AddTask(TEST_KICKER_QUEUE): a broker that does not answer raises, or the
\* process dies before the call; nobody tries again until the next restart.
AddTask ==
  \/ /\ queue' = [queue EXCEPT ![0] = @ + 1]
     /\ UNCHANGED lost
  \/ /\ lost' = lost \cup {"kick"}
     /\ UNCHANGED queue

\* EnqueueTestRun at the end of CreateTestRun.  The run is already stored.
EnqueueTestRun ==
  /\ enqueuer = "create"
  /\ enqueuer' = "done"
  /\ AddTask
  /\ UNCHANGED <<run, kicker, setter, tvars, events, handler, restarts,
                 history>>

At(k, pc) == kicker' = [kicker EXCEPT ![k].pc = pc]
Returns(k) == kicker' = [kicker EXCEPT ![k] = IdleKicker]

\* The puller's answer to a failed call: try again later, or give up.  It also
\* gives up when its connection broke during the call: delay_message raises.
Redeliver(k) ==
  \/ /\ ~kicker[k].waited
     /\ UNCHANGED <<queue, lost>>
  \/ /\ kicker[k].waited /\ kicker[k].retry < PullRetries
     /\ queue' = [queue EXCEPT ![kicker[k].retry + 1] = @ + 1]
     /\ UNCHANGED lost
  \/ /\ kicker[k].waited
     /\ lost' = lost \cup {"kick"}
     /\ UNCHANGED queue

\* HandleTask starts and _PrepareTestResources reads the run.  A canceled run
\* skips the download; a run that was already kicked fails the assertion.
PrepareTestResources(k, r) ==
  /\ kicker[k].pc = "idle"
  /\ queue[r] > 0
  /\ queue' = [queue EXCEPT ![r] = @ - 1]
  /\ kicker' = [kicker EXCEPT ![k] =
                  [IdleKicker EXCEPT !.pc = AfterPrepareRead(run.state),
                                     !.retry = r, !.waited = TRUE,
                                     !.seen = run]]
  /\ UNCHANGED <<run, setter, tvars, events, handler, enqueuer, restarts,
                 history, lost>>

\* The downloads are over; _UpdateTestResources stores the cache URLs.
UpdateTestResources(k) ==
  /\ kicker[k].pc = "download"
  /\ run' = IF run.state = "PENDING" THEN [run EXCEPT !.prepared = TRUE]
                                     ELSE run
  /\ At(k, "create")
  /\ UNCHANGED <<queue, setter, tvars, events, handler, enqueuer, restarts,
                 history, lost>>

\* _CreateTFCRequest reads the run again and builds the request message.
BuildRequest(k) ==
  /\ kicker[k].pc = "create"
  /\ \/ run.state = "CANCELED" /\ Returns(k)
     \/ /\ run.state = "PENDING"
        /\ kicker' = [kicker EXCEPT ![k].pc = "submit",
                                    ![k].ready = run.prepared]
     \/ run.state \notin {"CANCELED", "PENDING"} /\ At(k, "raise")
  /\ UNCHANGED <<run, queue, setter, tvars, events, handler, enqueuer,
                 restarts, history, lost>>

\* tfc_client.NewRequest: TFC stores a new request.  The answer may be lost.
NewRequest(k, q) ==
  /\ kicker[k].pc = "submit"
  /\ tfc[q] = "NONE"
  /\ \A p \in 1 .. q - 1 : tfc[p] # "NONE"
  /\ tfc' = [tfc EXCEPT ![q] = "NEW"]
  /\ \/ kicker' = [kicker EXCEPT ![k].pc = "adopt", ![k].new = q]
     \/ At(k, "raise")
  /\ UNCHANGED <<run, queue, setter, asked, events, handler, enqueuer,
                 restarts, history, lost>>

\* _Txn: the run adopts the request, unless it has left PENDING meanwhile.
AdoptRequest(k) ==
  /\ kicker[k].pc = "adopt"
  /\ run' = IF Adopts(run)
              THEN [run EXCEPT !.request = kicker[k].new, !.state = "QUEUED"]
              ELSE run
  /\ Returns(k)
  /\ UNCHANGED <<queue, setter, tvars, events, handler, enqueuer, restarts,
                 history, lost>>

\* Downloading, building, submitting or the transaction raises.
KickFails(k) ==
  /\ kicker[k].pc \in {"download", "create", "submit", "adopt"}
  /\ At(k, "raise")
  /\ UNCHANGED <<run, queue, setter, tvars, events, handler, enqueuer,
                 restarts, history, lost>>

\* An error that no retry will cure: a non-retriable BaseError of a download,
\* a ValidationError of the message, a 400 from TFC.
KickFailsForGood(k) ==
  /\ kicker[k].pc \in {"download", "create", "submit"}
  /\ At(k, "error")
  /\ UNCHANGED <<run, queue, setter, tvars, events, handler, enqueuer,
                 restarts, history, lost>>

\* HandleTask lets the exception out, so that the queue tries again.
RetryKick(k) ==
  /\ kicker[k].pc = "raise"
  /\ kicker[k].retry < KickRetries
  /\ Redeliver(k)
  /\ Returns(k)
  /\ UNCHANGED <<run, setter, tvars, events, handler, enqueuer, restarts,
                 history>>

\* The retries are used up.
GiveUpKick(k) ==
  /\ kicker[k].pc = "raise"
  /\ kicker[k].retry >= KickRetries
  /\ At(k, AfterLastRetry)
  /\ UNCHANGED <<run, queue, setter, tvars, events, handler, enqueuer,
                 restarts, history, lost>>

\* SetTestRunState(ERROR) reads the run: the entity that the ndb context of
\* this call still caches, or the stored one.
ReadForError(k) ==
  /\ kicker[k].pc = "error"
  /\ \E e \in {kicker[k].seen, run} :
       \/ IsFinal(e) /\ Returns(k)
       \/ /\ ~IsFinal(e)
          /\ kicker' = [kicker EXCEPT ![k].pc = "put", ![k].seen = e]
  /\ UNCHANGED <<run, queue, setter, tvars, events, handler, enqueuer,
                 restarts, history, lost>>

\* A put of SetTestRunState: the entity read before, with its new state.
\* The Mut variant repairs the state only, and keeps the other stale fields.
MutPutKeepsFinalState(entity, state) ==
  /\ run' = [entity EXCEPT !.state = IF IsFinal(run) THEN run.state ELSE state]
  /\ overwrote' = IF run.finalized THEN overwrote + 1 ELSE overwrote
PutRun(entity, state) ==
  /\ run' = [entity EXCEPT !.state = state]
  /\ overwrote' = IF run.finalized THEN overwrote + 1 ELSE overwrote

PutError(k) ==
  /\ kicker[k].pc = "put"
  /\ PutRun(kicker[k].seen, "ERROR")
  /\ Returns(k)
  /\ UNCHANGED <<queue, setter, tvars, events, handler, enqueuer, restarts,
                 handled, lost>>

\* The puller's call times out while the handler keeps working.
PullerTimesOut(k) ==
  /\ kicker[k].pc # "idle"
  /\ kicker[k].waited
  /\ Redeliver(k)
  /\ kicker' = [kicker EXCEPT ![k].waited = FALSE]
  /\ UNCHANGED <<run, setter, tvars, events, handler, enqueuer, restarts,
                 history>>

\* The process serving the task dies.  The puller sees the connection end
\* without an answer: neither an HTTP error nor a timeout, so that the message,
\* acknowledged when it was taken, is gone.
KickerDies(k) ==
  /\ kicker[k].pc # "idle"
  /\ lost' = IF kicker[k].waited THEN lost \cup {"kick"} ELSE lost
  /\ Returns(k)
  /\ UNCHANGED <<run, queue, setter, tvars, events, handler, enqueuer,
                 restarts, history>>

-----------------------------------------------------------------------------
(* SetTestRunState(CANCELED): test_run_manager.py                          *)

\* A final run stays as it is.
ReadForCancel(s) ==
  /\ setter[s].pc = "ready"
  /\ setter' = [setter EXCEPT ![s] = IF IsFinal(run) THEN DoneSetter
                                     ELSE [pc |-> "cancel", seen |-> run]]
  /\ UNCHANGED <<run, queue, kicker, tvars, events, handler, enqueuer,
                 restarts, history, lost>>

\* CancelRequest, if the entity read has a request; an HTTP error ends the
\* call here.
CancelRequest(s) ==
  LET request == setter[s].seen.request
  IN
  /\ setter[s].pc = "cancel"
  /\ \/ /\ asked' = IF request = None THEN asked ELSE asked \cup {request}
        /\ setter' = [setter EXCEPT ![s].pc = "put"]
     \/ /\ request # None
        /\ setter' = [setter EXCEPT ![s] = DoneSetter]
        /\ UNCHANGED asked
  /\ UNCHANGED <<run, queue, kicker, tfc, events, handler, enqueuer,
                 restarts, history, lost>>

PutCanceled(s) ==
  /\ setter[s].pc = "put"
  /\ PutRun(setter[s].seen, "CANCELED")
  /\ setter' = [setter EXCEPT ![s] = DoneSetter]
  /\ UNCHANGED <<queue, kicker, tvars, events, handler, enqueuer, restarts,
                 handled, lost>>

-----------------------------------------------------------------------------
(* TFC (external): a request moves on and publishes the new state.         *)

Successors(q) ==
  CASE tfc[q] = "NEW"     -> {"QUEUED"} \cup Outcomes
    [] tfc[q] = "QUEUED"  -> {"RUNNING"} \cup Outcomes
    [] tfc[q] = "RUNNING" -> Outcomes
    [] OTHER              -> {}

RequestAdvances(q) ==
  \E state \in Successors(q) :
    /\ tfc' = [tfc EXCEPT ![q] = state]
    /\ events' = events \cup {[request |-> q, state |-> state,
                               time |-> EventTime(state), retry |-> 0]}
    /\ UNCHANGED <<run, queue, kicker, setter, asked, handler, enqueuer,
                   restarts, history, lost>>

-----------------------------------------------------------------------------
(* Request events: tfc_event_handler.py.  One puller serves the queue, so  *)
(* there is one handler; a message that failed is delivered again later,   *)
(* after messages published after it.                                      *)

\* _GetTestRunToUpdate: the message is dropped when no run has its request,
\* or when it is older than the last one.  "lost" records the drop of an event
\* whose request a kicker is about to store in the run.
GetTestRunToUpdate(m) ==
  /\ handler.pc = "idle"
  /\ events' = events \ {m}
  /\ handler' = IF run.request = m.request /\ ~TooOld(m, run)
                  THEN [pc |-> "apply", msg |-> m] ELSE IdleHandler
  /\ lost' = IF \E k \in Kickers :
                  kicker[k].pc = "adopt" /\ kicker[k].new = m.request
               THEN lost \cup {"event"} ELSE lost
  /\ UNCHANGED <<run, queue, kicker, setter, tvars, enqueuer, restarts,
                 history>>

\* The transaction _ProcessRequestEvent.
ProcessRequestEvent ==
  /\ handler.pc = "apply"
  /\ run' = [run EXCEPT
               !.eventTime = handler.msg.time,
               !.state = IF IsFinal(run) THEN run.state ELSE handler.msg.state]
  /\ handler' = [handler EXCEPT !.pc = "check"]
  /\ UNCHANGED <<queue, kicker, setter, tvars, events, enqueuer, restarts,
                 history, lost>>

\* ProcessRequestEvent reads the run again: is there anything left to do?
CheckFinalized ==
  /\ handler.pc = "check"
  /\ handler' = IF NeedsHandlers(run) THEN [handler EXCEPT !.pc = "finalize"]
                                      ELSE IdleHandler
  /\ UNCHANGED <<run, queue, kicker, setter, tvars, events, enqueuer,
                 restarts, history, lost>>

\* The transaction _AfterTestRunHandler, with the tasks it schedules.
AfterTestRunHandler ==
  /\ handler.pc = "finalize"
  /\ run' = [run EXCEPT !.finalized = TRUE]
  /\ handled' = handled + 1
  /\ handler' = IdleHandler
  /\ UNCHANGED <<queue, kicker, setter, tvars, events, enqueuer, restarts,
                 overwrote, lost>>

\* The handler raises (TFC or the database does not answer): the puller
\* delivers the message again, or gives it up: the retries are used up, or its
\* connection broke during the call.
EventFails ==
  /\ handler.pc # "idle"
  /\ handler' = IdleHandler
  /\ \/ /\ DeliversAgain(handler.msg)
        /\ events' = events \cup {[handler.msg EXCEPT !.retry = @ + 1]}
        /\ UNCHANGED lost
     \/ /\ lost' = lost \cup {"event"}
        /\ UNCHANGED events
  /\ UNCHANGED <<run, queue, kicker, setter, tvars, enqueuer, restarts,
                 history>>

\* The process serving the event dies, and the message with it.
HandlerDies ==
  /\ handler.pc # "idle"
  /\ handler' = IdleHandler
  /\ lost' = lost \cup {"event"}
  /\ UNCHANGED <<run, queue, kicker, setter, tvars, events, enqueuer,
                 restarts, history>>

-----------------------------------------------------------------------------
(* The pullers: rabbitmq_puller.py                                         *)

\* A puller that lost its connection to RabbitMQ connects again, and purges the
\* queue it serves.  Messages that wait in a delay queue, or that a puller had
\* already been sent, are not in it.
ReconnectPuller ==
  /\ \/ \E gone \in SUBSET {r \in Retries : queue[r] > 0} \ {{}} :
          /\ queue' = [r \in Retries |-> IF r \in gone THEN 0 ELSE queue[r]]
          /\ lost' = lost \cup {"kick"}
          /\ UNCHANGED events
     \/ \E gone \in SUBSET events \ {{}} :
          /\ events' = events \ gone
          /\ lost' = lost \cup {"event"}
          /\ UNCHANGED queue
  /\ UNCHANGED <<run, kicker, setter, tvars, handler, enqueuer, restarts,
                 history>>

-----------------------------------------------------------------------------
(* Restart of the server: core/app.py, test_scheduler.CheckPendingTestRuns *)

\* Handlers in progress and the messages of both queues are gone, but
\* CheckPendingTestRuns will look for the run.
Restart ==
  /\ restarts < MaxRestarts
  /\ restarts' = restarts + 1
  /\ queue' = [r \in Retries |-> 0]
  /\ kicker' = [k \in Kickers |-> IdleKicker]
  /\ setter' = [s \in Setters |->
                  IF s # Boot /\ setter[s].pc = "ready" THEN ReadySetter
                                                        ELSE DoneSetter]
  /\ events' = {}
  /\ handler' = IdleHandler
  /\ enqueuer' = "boot"
  /\ lost' = {"event"}
  /\ UNCHANGED <<run, tvars, history>>

\* The start-up handler that looks at no run.
MutCheckPendingTestRuns ==
  /\ enqueuer = "boot"
  /\ enqueuer' = "done"
  /\ UNCHANGED <<run, queue, kicker, setter, tvars, events, handler, restarts,
                 history, lost>>

\* A run that is still PENDING is queued again, or canceled when it is older
\* than _PENDING_TEST_RUN_TTL.
CheckPendingTestRuns ==
  /\ enqueuer = "boot"
  /\ enqueuer' = "done"
  /\ \/ /\ run.state = "PENDING"
        /\ AddTask
        /\ UNCHANGED setter
     \/ /\ run.state = "PENDING"
        /\ setter' = [setter EXCEPT ![Boot] = ReadySetter]
        /\ UNCHANGED <<queue, lost>>
     \/ /\ run.state # "PENDING"
        /\ UNCHANGED <<queue, setter, lost>>
  /\ UNCHANGED <<run, kicker, tvars, events, handler, restarts, history>>

-----------------------------------------------------------------------------

KickerStep(k) ==
  \/ \E r \in Retries : PrepareTestResources(k, r)
  \/ UpdateTestResources(k)
  \/ BuildRequest(k)
  \/ \E q \in Requests : NewRequest(k, q)
  \/ AdoptRequest(k)
  \/ RetryKick(k)
  \/ GiveUpKick(k)
  \/ ReadForError(k)
  \/ PutError(k)

KickerFault(k) ==
  \/ KickFails(k)
  \/ KickFailsForGood(k)
  \/ PullerTimesOut(k)
  \/ KickerDies(k)

SetterStep(s) == ReadForCancel(s) \/ CancelRequest(s) \/ PutCanceled(s)

HandlerStep ==
  \/ \E m \in events : GetTestRunToUpdate(m)
  \/ ProcessRequestEvent
  \/ CheckFinalized
  \/ AfterTestRunHandler

Next ==
  \/ EnqueueTestRun
  \/ \E k \in Kickers : KickerStep(k) \/ KickerFault(k)
  \/ \E s \in Setters : SetterStep(s)
  \/ \E q \in Requests : RequestAdvances(q)
  \/ HandlerStep
  \/ EventFails
  \/ HandlerDies
  \/ ReconnectPuller
  \/ Restart
  \/ CheckPendingTestRuns

\* The pullers keep delivering, the handlers keep running, TFC keeps working.
\* Faults, cancellations, reconnections and restarts need not happen; the
\* enqueue of a call that was made does, or fails.
Fairness ==
  /\ WF_vars(EnqueueTestRun)
  /\ WF_vars(CheckPendingTestRuns)
  /\ \A k \in Kickers : WF_vars(KickerStep(k))
  /\ \A s \in Setters :
       WF_vars((s = Boot \/ setter[s].pc # "ready") /\ SetterStep(s))
  /\ \A q \in Requests : WF_vars(RequestAdvances(q))
  /\ WF_vars(HandlerStep)

Spec == Init /\ [][Next]_vars

FairSpec == Spec /\ Fairness

-----------------------------------------------------------------------------
(* Properties                                                              *)

\* Every variable has a value of its kind: the entity that test_kicker.py,
\* test_run_manager.py and tfc_event_handler.py read and store, the tasks of
\* the two queues, and the place of each handler in its function.
TypeOK ==
  /\ run \in Entity
  /\ queue \in [Retries -> Nat]
  /\ kicker \in [Kickers -> Kicker]
  /\ setter \in [Setters -> Setter]
  /\ tfc \in [Requests -> RunStates \cup {"NONE", "NEW"}]
  /\ asked \in SUBSET Requests
  /\ events \in SUBSET Event
  /\ handler \in Handler
  /\ enqueuer \in {"create", "boot", "done"}
  /\ restarts \in 0 .. MaxRestarts
  /\ handled \in Nat
  /\ overwrote \in Nat
  /\ lost \in SUBSET {"kick", "event"}

\* A run that TFC executes, or has completed, names the TFC request that
\* does: without it neither Cancel nor an event could reach the request.
\* SetTestRunState puts back whole stale entities, so that this rests on the
\* state such a put writes.
LiveRunHasRequest ==
  run.state \in {"QUEUED", "RUNNING", "COMPLETED"} =>
    /\ run.request \in Requests
    /\ tfc[run.request] # "NONE"

\* Every request message _CreateTFCRequest sends was built from an entity whose
\* resources _UpdateTestResources had filled in, although a task that finds the
\* run canceled skips the download and goes on to _CreateTFCRequest.
RequestsUseCachedResources ==
  \A k \in Kickers : kicker[k].pc = "submit" => kicker[k].ready

\* The post-run handlers are scheduled only for a run in a final state, and it
\* stays in one (_AfterTestRunHandler does not look at the state itself).
HandlersOnlyWhenFinal ==
  run.finalized \/ handled > 0 => IsFinal(run)

\* The post-run handlers are scheduled once, and once more for every put of
\* SetTestRunState that erased the mark is_finalized of the run.
HandlersOncePerMark ==
  handled <= overwrote + (IF run.finalized THEN 1 ELSE 0)

\* No PENDING run is forgotten: a call is about to enqueue it, a task for it
\* waits or is being handled, or the restart is canceling it.  The exception
\* is a kick task dropped since the last start: AddTask failed, the puller gave
\* it up or purged it when it connected again, or it died with its process.
PendingRunIsAttended ==
  run.state = "PENDING" =>
    \/ enqueuer # "done"
    \/ \E r \in Retries : queue[r] > 0
    \/ \E k \in Kickers : kicker[k].pc # "idle"
    \/ setter[Boot].pc # "done"
    \/ "kick" \in lost

\* No step takes a run out of the final states, or back to PENDING: not a stale
\* put, a duplicate kick task, a late event or a restart.
NeverRevived ==
  [][/\ IsFinal(run) => IsFinal(run')
     /\ run.state # "PENDING" => run'.state # "PENDING"]_vars

\* The run never changes from one TFC request to another, however many its
\* duplicate kick tasks create; it can only lose the id by a stale put, and is
\* final then.
RequestIdStable ==
  [][run'.request # run.request /\ run.request # None =>
       run'.request = None /\ IsFinal(run')]_vars

\* A run that is not final never goes back in time: request_event_time does
\* not decrease, and RUNNING never becomes QUEUED, whatever the order in which
\* events and their redeliveries arrive.
EventsMoveForward ==
  [][~IsFinal(run') =>
       /\ run'.eventTime >= run.eventTime
       /\ run.state = "RUNNING" => run'.state = "RUNNING"]_vars

\* A run ends in a final state, if TFC ends its requests and no message is
\* dropped: retries, give-up and the event handler leave no run behind.
RunEventuallyFinal == <>(IsFinal(run) \/ lost # {})

\* Once the final event of the run's request has reached its handler, the
\* post-run handlers will be scheduled, however often the handler fails short
\* of the retry limit, unless a stale put has removed the request id.
FinalEventIsHandled ==
  handler.pc = "apply" /\ handler.msg.state \in FinalStates ~>
    handled > 0 \/ lost # {} \/ run.request = None

\* "final test run state is immutable" (test_run_manager_test.py).
FinalStateImmutable ==
  [][IsFinal(run) => run'.state = run.state]_vars

\* "switching to CANCELED state will also cancel the TFC request"
\* (test_run_manager_test.py): when every call has returned, and no process died
\* on the way, no request of a canceled run is still alive without having been
\* asked to stop.
CanceledRunLeavesNoRequest ==
  /\ lost = {}
  /\ run.state = "CANCELED"
  /\ \A k \in Kickers : kicker[k].pc = "idle"
  /\ \A s \in Setters : setter[s].pc \in {"ready", "done"}
  => \A q \in Requests :
       tfc[q] \in {"NEW", "QUEUED", "RUNNING"} => q \in asked

\* "After a test run is in one of the final states, MTT needs to do the
\* following: ... Invoke after run hooks" (tfc_event_handler.py).
FinalRunIsHandled == IsFinal(run) ~> handled > 0 \/ lost # {}
=============================================================================
