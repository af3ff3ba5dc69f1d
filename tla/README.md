# A TLA+ model of Android Test Station

Android Test Station (ATS, in the code still `multitest_transport`, MTT) runs
test suites on the devices of a lab host. A user, or the schedule of a test
plan, creates *test runs*; the server downloads the resources a run needs,
submits a request to the tradefed cluster (TFC) that executes it, follows the
request's events, and does what is to be done when the run is over: merge
reports, invoke hooks, start the next run of a *sequence*. Its handlers are
HTTP requests that RabbitMQ pullers make for the tasks of queues, API calls and
cron jobs, served by several processes with several threads each
(`app_helper/launcher.py`: two gunicorn workers of ten threads). They share
state through a datastore, in which some accesses are transactions and some are
not, and through files.

Users work with it through a web interface (`ui2/`), an Angular application
that is most of the code of the repository. It keeps a state of its own - in
its components, in the address, in the storage of the browser - which follows
what the servers hold with calls that are answered later, in any order, or
fail, while the user goes on.

These modules describe both: what the handlers of the server read and write, in
which steps, and what the pages of the web interface do with the answers of
their calls; what goes wrong, or must not go wrong, between the steps. All paths
below are relative to `src/multitest_transport/`.

## 1. The system's parts

| Part | Source | State | Operations | Hard behaviour |
|---|---|---|---|---|
| Test run lifecycle | `test_scheduler/test_kicker.py`, `test_run_manager.py`, `tfc_event_handler.py`, `core/app.py` | `TestRun` entity: state, request id, resources with cache URLs, `is_finalized`, event times | create and enqueue, kick (download, hooks, TFC request), set to ERROR or CANCELED, process request events, post-run handlers, requeue at a start | duplicate and late tasks, non-transactional read and put, events out of order, crashes |
| Test run sequences | `test_scheduler/test_scheduler.py` | `TestRunSequence` entity: state, configs, finished run ids | create the first run, schedule the next one | repeated and concurrent tasks, a failure after the commit |
| Resource download | `test_scheduler/download_util.py` | `TestResourceTracker` entity (a lock), the cache file | download or wait, release of idle locks, removal of old files | concurrent calls, death of the writer, stale trackers |
| Task queues | `app_helper/rabbitmq_puller.py`, `rabbitmq_plugin.py` | messages, retry counts | publish, deliver, retry with backoff, delay to an ETA, purge | acknowledged when received, purged on connecting, 3600 s timeout, five pullers for `test-kicker-queue` |
| Test plan kicker | `test_scheduler/test_plan_kicker.py` | `TestPlanStatus`: next task name and time, last runs | schedule a kick, kick, check for missed kicks | the task before its name is stored, stale puts |
| Cron kicker | `core/cron_kicker.py` | the task of each job | kick and schedule again | a chain that ends when a kick fails for good |
| Test result handler | `test_scheduler/test_result_handler.py` | SQL results, merged report | store, summarize, merge | races with finalization |
| Sharding | `test_scheduler/sharding_strategies.py` | none | split modules into commands | arithmetic at the limit |
| File server | `file_server/file_server.py` | files, temporary upload files | read, upload in chunks, delete, list | uploads of one path that follow or overtake each other |
| TFC client | `util/tfc_client.py` | none (TFC is external) | requests to TFC | lost answers |
| Data models | `models/ndb_models.py`, `messages.py` | the entities | conversions | - |
| Build channels, plugins, hooks | `models/build.py`, `plugins/`, `models/test_run_hook.py` | credentials, configuration | access to remote storage, calls after a run | external services |
| Config sets, start-up, file cleaner, API, CLI, utilities | `models/config_set_helper.py`, `core/`, `file_cleaner/`, `api/`, `cli/`, `util/` | see section 8 | | sequential |

The web interface, below `ui2/app/`:

| Part | Source | State | Operations | Hard behaviour |
|---|---|---|---|---|
| Device list, host list | `devices/device_list.ts`, `hosts/host_list.ts`, `shared/filterbar_util.ts`, `table_rows_select.ts`, `paginator.ts` | rows, tokens, selection, filter bar; address, local storage, pages cached in session storage | filter, turn pages, refresh (by a timer too), select, remove, mark, read notes | overlapping loads, hints that arrive while the user filters, three copies of the selection |
| Offline hosts | `hosts/offline_host_*.ts`, `host_list_table.ts`, `shared/multi_select.ts` | hosts of a lab, filters, tables | filter, sort, select, assign, verify, remove, go to recovery | rows change under a selection, the address abbreviates the filters |
| Recovery | `recovery/` | hosts to recover, the focused one, its devices | focus, select, mark as recovered, notes, removal | two components that follow one focus |
| Notes | `notes/` | forms of a dialog, pages of notes, predefined messages | create, edit, delete, list | chained calls, a dialog that is closed with calls under way |
| Details, history | `hosts/host_details*.ts`, `devices/device_details*.ts` | one host or device, its panels, devices and records | choose another, refresh, remove, mark, sort | answers of the subject before |
| New test run, test plans | `test_runs/new_test_run_page.ts`, `test_run_config_editor.ts`, `test_plans/test_plan_edit_page.ts` | a config and what follows from it: actions, resources | choose test, devices, actions, files; add configs; start, save | what is derived from several steps must follow each |
| Test run page, console | `test_runs/test_run_detail.ts`, `test_run_progress.ts`, `test_run_console.ts` | the run, its commands, the end of a log | poll, expand, cancel, delete, switch logs | timers, calls under way when the log changes |
| Build picker, local files | `build_channels/build_picker.ts`, `shared/local_file_store.ts`, `services/file_service.ts` | search bar, list, resource URL, upload | browse, scroll, authorize, select, upload, cancel | pages appended late, chunks that are not taken back |

How they interact:

- `CreateTestRun` puts a PENDING `TestRun` and adds a task to
  `test-kicker-queue`. A puller posts the task to `HandleTask`, which downloads
  the run's resources (calls of `DownloadResource` in a thread pool, shared by
  all runs through the tracker), creates a TFC request, and stores its id in a
  transaction.
- TFC publishes request events to `tfc-event-queue`; `ProcessRequestEvent`
  finds the run by its request id, updates it and, for a final run, calls
  `_AfterTestRunHandler`, which adds the tasks for reports, hooks and
  `ScheduleNextTestRun`.
- `ScheduleNextTestRun` creates the next run of the sequence with
  `CreateTestRun`, which closes the loop.
- The API cancels a run with `SetTestRunState(CANCELED)`, at any time.
- When the server starts, `AppStartHandler` deletes the download trackers and
  enqueues PENDING runs again; connecting pullers purge their queues.
- A page of the web interface calls the ATS server (`services/mtt_client.ts`),
  TFC (`tfc_client.ts`) and the file server (`file_service.ts`). It opens
  dialogs and other pages, which give their results back by a callback, and is
  opened again with what the address and the browser's storage kept.

What makes each part correct is stated in section 3 for what is modelled, and
in section 7 for what is planned.

## 2. The modules

| Module | Models |
|---|---|
| `TestRunLifecycle` | one run, and everything that writes its state, request id or `is_finalized` |
| `TestRunLifecycle_proofs` | theorems about it |
| `SequencePromise` | abstract specification: what a sequence promises |
| `TestRunSequence` | the tasks and calls that drive one sequence; implements `SequencePromise` |
| `TestRunSequence_proofs` | theorems about it, the refinement among them |
| `ResourceDownload` | the cache of one URL: its lock, its file, its callers and its cleaners |
| `ResourceDownload_proofs` | theorems about it |
| `Lists` | what the code does to arrays (filter, splice, reverse, join), as operators |
| `UiPage` | what all pages have: a component, the browser, calls under way, the services |
| `UiPage_proofs` | lemmas about lists and the calls of a page |
| `FilterBar`, `TableRowsSelect`, `PagedList`, `MultiSelect`, `HostFilters` | shared widgets, as operators on their state |
| `DeviceList`, `HostList` | the two long lists, with filter bar, pages and cache |
| `DeviceList_proofs` | theorems about the list of devices |
| `OfflineHosts`, `Recovery` | offline hosts, their assignment, their recovery |
| `NotesDialog`, `NoteList`, `SubjectHistory` | the dialog of notes, and two pages that open it (both EXTEND it) |
| `HostDetails`, `HostDevices`, `PredefinedMessages` | details of a host or device, the devices of a host, the predefined messages |
| `RunConfigForm`, `NewTestRun`, `TestPlanEditor` | the form of a test run config, and two pages that are built on it |
| `TestRunPage` | the page of a test run with its tree of commands |
| `TestRunConsole`, `BuildPicker` | the console of a run, the choice of a file on a build channel |
| `FileStore` | local files and their upload to the file server |
| `LabPages`, `RunPages` | the pages of a lab and those of test runs: instances of the modules above, each with a record of its parameters |
| `WebPages` | the web interface: the user is at one of the fourteen pages, and what each promises |
| `LabPages_proofs`, `RunPages_proofs` | the inductive invariant of each page, preserved by its steps |
| `WebPages_proofs` | the theorems about the web interface; the invariants of the two pages with the dialog of notes |
| `MC_TestRunLifecycle`, `MC_TestRunSequence`, `MC_ResourceDownload`, `MC_DeviceList` | model values and symmetry for TLC |
| `MC_WebPages` | small labs, test runs, channels and files for `WebPages` |

The modules compose by assumption, each replacing the other by what it says of
it: `TestRunSequence` lets a run end with any outcome, change it as stale puts
can, and add its task several times, which is what `TestRunLifecycle` allows;
`TestRunLifecycle` lets a download succeed or fail, which is what
`ResourceDownload` shows of a call.

Conventions. A datastore transaction is one step. Code that reads an entity
outside a transaction and puts it later takes two steps, and the put writes the
whole entity it read. A call to TFC is a step whose answer may be lost. Where a
definition is one decision of the code (a check, the place a function goes next),
it has a variant whose name begins with `Mut`: a bug the code could have there,
used to show that a property depends on the decision.

### TestRunLifecycle

| TLA+ | Code |
|---|---|
| `run` | the `TestRun` entity (the fields that are read or overwritten by a handler) |
| `queue[r]`, `kicker[k]` | messages of `test-kicker-queue` with retry count `r`; the call of `HandleTask` a worker serves, with the entity its ndb context caches |
| `setter[s]` | a call of `SetTestRunState(CANCELED)`: by a user, or by `CheckPendingTestRuns` (`Boot`) |
| `tfc`, `asked` | the requests in TFC and those asked to cancel (external) |
| `events`, `handler` | messages of `tfc-event-queue`, and the one being handled (there is one puller) |
| `enqueuer` | a call that has yet to enqueue the run: `CreateTestRun`, or the start |
| `handled`, `overwrote` | history: post-run handlers scheduled, finalized entities overwritten |
| `lost` | history: kinds of messages dropped: not added, given up, purged, or gone with their process |
| `EnqueueTestRun`, `AddTask` | the end of `CreateTestRun`, which has stored the run; the broker may not take the task, or the process die before |
| `PrepareTestResources`, `UpdateTestResources` | `_PrepareTestResources`: the read with its two checks; the transaction with the cache URLs |
| `BuildRequest`, `NewRequest`, `AdoptRequest` | `_CreateTFCRequest`: read and message, the call to TFC, the transaction `_Txn` |
| `KickFails`, `KickFailsForGood`, `RetryKick`, `GiveUpKick` | the `except` clause of `HandleTask` |
| `ReadForError`, `PutError`, `ReadForCancel`, `CancelRequest`, `PutCanceled` | `SetTestRunState` |
| `PullerTimesOut`, `KickerDies`, `HandlerDies`, `EventFails` | `MessagePuller.on_message`: timeout, a connection that breaks, an error answer |
| `GetTestRunToUpdate`, `ProcessRequestEvent`, `CheckFinalized`, `AfterTestRunHandler` | `ProcessRequestEvent` and what it calls |
| `ReconnectPuller` | `MessagePuller.run` after a broken connection: it purges its queue again |
| `Restart`, `CheckPendingTestRuns` | a restart of the server and `AppStartHandler` |

A start makes up for the kick tasks that were lost before it, and only a start does:
`Restart` takes them out of `lost`, `ReconnectPuller` puts them in. That is the one
exception of `PendingRunIsAttended` and of the liveness properties, so that a way to
lose a task which is not one of these would violate them.

`ReadForError` chooses between the entity that the ndb context of the request
still caches and the stored one, since both reads happen.

### TestRunSequence and SequencePromise

`SequencePromise` knows the outcomes each config's run has had, how many runs
the sequence has seen end, and its status: `Start`, `Outcome`, `Finish`.
`TestRunSequence` has the entity with its list of finished run ids, the runs
`CreateTestRun` has put, the tasks that were added (and added again), and the
calls of `ScheduleNextTestRun`, each in two steps after its read: the
transaction `_GetNextTestRunConfig`, and `CreateTestRun`. The refinement maps
`finished` to the length of the list and `results` to the outcomes of the runs.
A stale put of `SetTestRunState` can replace the outcome of a run that has ended
(`RunOverwritten`); the sequence may then act on either outcome, which is why
`SequencePromise` keeps a set of outcomes for each run.

### ResourceDownload

A call looks the resource up (`DownloadResource`), compares it with the cache
(`CheckCache`), acquires the tracker in a transaction or waits
(`TryAcquireDownloadLock`, `PollDownload`), truncates the file, writes chunk by
chunk and stores the progress after each (`OpenFile`, `WriteChunk`,
`TrackProgress`), and completes the tracker (`CompleteDownload`) or stores the
error (`StoreError`). The cron jobs are `ReleaseIdleLock`, and `ListOldFiles`
with `DeleteOldFile`. The contents of a chunk is the version of the resource it
comes from; a file's modification time is the version published at that time,
because the code only compares it with the time of publication. `Timely` says
that every chunk takes less than `MAX_DOWNLOAD_IDLE_TIME`, so that a lock in use
is never released as idle. `swept` records that the cleaner, which does not look
again before it deletes, took a file away from under a call or a completed
download; nothing in the code excludes it, and the properties excuse what
follows.

### The web pages

A component of the web interface runs one handler at a time: a click, the tick of
a timer, an answer. So a handler is one step, with everything it calls until it
returns, and what is interleaved are handlers. `UiPage` has the five variables of
all pages:

| TLA+ | Code |
|---|---|
| `page` | the fields of the component and of its dialogs |
| `browser` | what outlives the component: address, local and session storage |
| `requests` | the calls under way, each *sent*, then *ok* with an answer or *error*; a step of the component takes any of them |
| `api` | what the services hold (external): hosts, notes, runs, files |
| `spent` | counts what the user, timers, other users and faults do, for `MaxSteps` |

`Serve` is the service handling a call, some time after it was sent and before it
is answered; `Fail` is a call that fails. Calls overlap, overtake each other, and
are heard by the component that is there when they are answered: which fields of
`page` they find is the matter of most properties. `takeUntil(destroy)` and
`unsubscribe` remove a call from `requests`, or turn it into one that the service
still handles and nobody hears (`OrphanedCalls` in `NotesDialog`, `Turn` in
`FileStore`).

A page's operators take the state of a handler as a record `s` and return it
changed (`Send(s, kind, arg)`, `LoadFiles(s)`), so that a handler that calls others
is the composition of theirs, in the order of the code; `Becomes(s)` ends the
step. Names are those of the methods. Data is abstracted to what decisions
tell apart: a host is a number or a name with the attributes it is filtered by, a
note a text of two, a build channel two directories of a few items, a byte of a file
its place in it.

The file server answers with twenty threads (`serve.sh:106-120`) that lock nothing, so
that in `FileStore` a chunk that is put takes several steps, which those of others
interleave: `CheckOffset`, `OpenTemporary` (which truncates for a first chunk),
`WriteChunk` (all of it, or what has come of it when the connection breaks), `MoveToPlace`.
What is written 4 KB at a time is one step: two writers of a path are told apart by when
they open and end. A thread whose file is moved from under it is *astray*: it writes to
the file that was moved, if that is still in its place, or to one that has no name.
`ConnectionLost` is the page hearing of a failure while the server goes on.

`DeviceList` was written with variables of its own, of the same kind, and
`HostList` is the same idea on `UiPage`: their filter bars, caches and
searches differ in many details, which are those of the two source files.
`WebPages` composes the pages by the router (`app.ts`): a variable `route` says
at which the user is. Pages share no state but what `NotesDialog` shares with the
pages that open it, and `RunConfigForm` with its two, so that nothing is lost by
checking them one after another in one run.

## 3. The runs

| Run | Instance | What it shows |
|---|---|---|
| `lifecycle_duplicates` | two kickers, two requests, one retry | duplicates of a kick task and puller timeouts never revive the run or replace its request (`NeverRevived`, `RequestIdStable`), no request names resources that are not cached (`RequestsUseCachedResources`), no PENDING run is forgotten (`PendingRunIsAttended`) |
| `lifecycle_restart` | one kicker, a user, a restart, all outcomes, an event delivered again | with cancellations, restarts and events out of order: `LiveRunHasRequest`, `HandlersOnlyWhenFinal`, `HandlersOncePerMark`, `EventsMoveForward`, and again `PendingRunIsAttended` and `NeverRevived`, now with stale puts |
| `lifecycle_liveness` | one kicker, a user, fairness | the run becomes final, and a final event leads to the post-run handlers, unless a message is given up |
| `lifecycle_final_immutable` | violation | see finding 1 |
| `lifecycle_cancel_request` | violation | see finding 2 |
| `lifecycle_after_run` | violation, with fairness | see finding 3 |
| `sequence` | three configs, two calls at a time, two tasks for each run | `ConfigsInOrder`, `OneRunAtATime`, `StoppedForGood`, and the refinement `Promise` |
| `sequence_scheduled` | violation | see finding 4 |
| `download` | three calls, two chunks, two versions, fairness | `OneWriter`, `ReturnedFileIsWhole`, and that every call ends (`CallsEnd`) |
| `download_outdated` | violation | see finding 5 |
| `device_list` | two devices in two pools, two calls under way, three steps of the user | `TypeOK`, `TableShowsSelection` (the selection handed on, counted and ticked are one), `PagerAgrees`, `GoingBackSkipsNothing` |
| `web_pages` | fourteen pages, two calls under way when another is made, three steps of the user (four or six on some pages) | one property of each page, below |

Type invariants are checked in `lifecycle_restart`, `sequence`, `download` and `device_list`.

What `web_pages` shows of each page:

| Page | Property | It says |
|---|---|---|
| host list | `MenuShowsOneColumn` | the menu of the filter bar shows the columns, or the values of one, whatever was typed and toggled while hints arrived |
| offline hosts | `TablesSelectShownHosts` | what is selected, to be assigned or verified, is in its list |
| | `AddressChoosesTheSameHosts` | the abbreviated address, read by a page that is opened with the hosts loaded, chooses every host of its lab with offline devices that is shown; and exactly those, if the options offered are those of the hosts |
| recovery | `OneTargetOfRecovery` | either a host is focused or hosts are selected, and the rows of the list of devices are devices of the focused host, unless it was focused during the load of another (section 6) |
| notes, history | `DialogReportsStoredNotes` | a dialog that reports saved notes has a note stored for each device or host |
| details | `MaskedOnlyWhileLoading` | the page is masked only while a call is under way |
| predefined messages | `FilterIsRemembered` | what the browser stores is the filter that is selected |
| devices of a host | `SelectedDevicesAreShown` | selected devices are rows; rows are sorted, each once |
| new test run, test plan | `ResourcesFitTheRun`, `ResourcesFitThePlan` | the form asks for exactly the resources that its test, actions and devices need |
| test run | `UpdatesUntilFinal` | the page stops polling only if the run is final |
| console | `OutputIsOfTheLog` | what is shown is of the selected log, nothing twice or out of order |
| build picker | `ListIsOfTheSearchBar` | the list is a prefix of the directory in the search bar, and it is known where it goes on |
| local files | `FileHasNoGap` | an uploaded file has every byte in its place, however uploads are canceled, broken off, retried or late, unless two chunks of its path were under way at once (section 6) |

Bounds. Two kickers are enough for every pair of handlers of one run to
interleave, and with one retry a third delivery follows a timeout; the theorems
of section 5 cover any number. `MaxRequests` bounds the requests that TFC
creates for one run: when it is used up a kicker stops before `NewRequest`,
where its failure stays possible. Symmetry is used where kickers or workers are
interchangeable and only safety and action properties are checked. `RequestIdStable` and `RequestsUseCachedResources` are
checked where kickers interleave, without restarts, which the theorems include. `MaxTasks`
bounds the tasks for one run of a sequence, `MaxCalls` the calls of a download,
`MaxVersions` the versions published, `MaxRestarts` the restarts. Three configs
have a first, a middle and a last one. Two chunks make a partly written file;
three calls are a writer that fails or dies, one that waits, and one that comes
later. On the web pages `MaxRequests` bounds the calls under way when
the user makes another (a handler may make several, so that more can overlap), and
`MaxSteps` what is done besides serving and hearing calls: three steps are a choice,
another one while the first is being answered, and a fault or a third. Pages whose
hazards need a longer sequence (a note is opened, typed and saved; a log is read in
parts) have one to three steps more. For these bounds each of the properties is
violated by a plausible change of the code (the operators named `Mut`...), which is
how it was seen that the interesting cases occur. Deadlock is not checked where the system may stop: a run, or a sequence,
that is over leaves nothing to do. It is checked in the runs of
`ResourceDownload`, which may always restart.

### Findings

1. `SetTestRunState` reads, checks `IsFinal` and puts outside a transaction
   (`test_run_manager.py:39-61`), so that a cancellation can overwrite the final
   state an event has stored, with its event time and `is_finalized`
   (`FinalStateImmutable`).
2. A cancellation that reads the run before its request id is stored asks
   nobody to cancel the request that is being created; the run is CANCELED, and
   the request goes on (`CanceledRunLeavesNoRequest`).
3. `_AfterTestRunHandler` is called for request events only. A run that becomes
   final without a request (canceled early, or given up by `HandleTask`) gets no
   post-run handlers, and a sequence it belongs to stays RUNNING
   (`FinalRunIsHandled`).
4. `ScheduleNextTestRun` commits the finished run's id before it creates the next
   run. If the creation fails, the repeated task takes the id for a sign that it
   was already done (`RerunAlreadyScheduled`).
5. The tracker of a completed download stays until it is idle for ten minutes,
   and a call that found the file out of date takes it for a download to wait
   for: it returns the old file (`OutdatedFileIsDownloaded`).

## 4. Fairness

Weak fairness is assumed of what the server keeps doing on its own. Pullers
loop for ever and connect again after an error (`rabbitmq_puller.py:80-109`), a
message that waits is delivered, and a handler that has started goes on: each
step of a kicker, a setter that was called, and the event handler. TFC
(external) is assumed to finish its requests. In `ResourceDownload`, calls go on
and the cron job that releases idle trackers keeps running
(`gae_configs/cron_ext.yaml:26-29`, every ten minutes). No fault, cancellation,
restart or publication is ever assumed to happen, and no retry is assumed to
succeed. No property of the web pages needs fairness: an answer may be late for
ever. A message that is given up after its last retry, or dies with the
process that handles it, is really lost; the liveness properties name that
exception (`lost`), as they do for what was purged or never added.

## 5. What is proved

TLAPS proves the following for every value of the constants that satisfies the
assumptions named in the modules (`RetryAssumption`: the kicker's retry count
does not exceed the puller's, as both are `MAX_RETRY_COUNT` there and here;
`LengthAssumption`: a sequence has at least two configs; and that bounds are
natural numbers).

**TestRunLifecycle.** All safety and action properties that the passing runs
check: `TypeOK`, `NeverRevived`, `LiveRunHasRequest`,
`RequestsUseCachedResources`, `HandlersOnlyWhenFinal`, `HandlersOncePerMark`,
`PendingRunIsAttended`, `RequestIdStable`, `EventsMoveForward`. `NeverRevived`
follows from the types; the others are not inductive as they stand, because what
a handler writes depends on what it read some steps ago. `IInv` adds what is
true of those copies:

- `PendingIsFresh`: while the run is PENDING nobody has seen it in another
  state or with a request.
- `OneRequestId`: among the stored run and all copies read of it there is one
  request id at most. This makes the id stable although duplicates create
  several requests.
- `RequestsExist`: an id in use, in the run, a message or a handler, is one of a
  request that TFC has.
- `EventsInOrder`: an event that is about to be applied is not older than the
  last one.
- `MarksAreFinal`: `is_finalized` is in final entities only, and no entity that
  will be put has it.
- `ResourcesAreReady`: a kicker that may build a message for a PENDING run has
  its resources.
- `PendingIsWaitedFor`: as `PendingRunIsAttended`, but with a kicker whose
  failure the puller will see.

Each part is preserved by a lemma of its own, which treats the actions one by
one where they matter to it. Two facts carry most of the argument: a kicker's
transaction adopts a request only while the run is PENDING, and a stale put
always writes a final state.

**TestRunSequence.** `IInv` says that the list of finished ids is `1 .. n` with
all runs but at most the last in it (`ListIsPrefix`), that the state fits the
list (`StateFits`), that each run is that of its config (`RunsFit`), that only
final runs are in the list, have tasks or calls (`OnlyFinalRuns`), and that a
call about to create a run is the only one (`OneCreator`). From it follow
`ConfigsInOrder`, `OneRunAtATime`, `StoppedForGood` and the refinement
`KeepsPromise`: every step of the detailed specification is a step of
`SequencePromise` or leaves its variables unchanged.

**ResourceDownload.** Under `Timely`, `IInv` says that a call between the
acquisition of the lock and the end of its download is the only one and finds
the tracker open (`LockIsHeld`), and that the file is of one version and as long
as its writer believes, and complete when the tracker says so (`FileFits`). From
it follow `OneWriter` and `ReturnedFileIsWhole`. Without `Timely` only the types
are proved, and `OneWriter` is false: the cleaner releases a lock in use.

**DeviceList.** The four invariants its run checks: `TypeOK`, `TableShowsSelection`,
`PagerAgrees` and `GoingBackSkipsNothing`, for any devices, labs, columns, sizes of
pages and calls under way. `IInv` says of every state of a handler that its values
are of their kinds, that what the component hands on is what the table has in view
and has selected (`OneSelection`), and that the token that goes back precedes the
rows (`Precedes`), which the pages the session holds and the answers under way must
do as well (`Pages`). That the buttons agree with the tokens is kept apart
(`InStep`): a handler breaks it until its last line. The proof follows the code:
each operator on the state of a handler keeps these, so that every composition of
them does.

**WebPages.** All thirteen invariants and the action property of the pages, for any
parameters of each page, any number of calls under way and any number of steps. A
theorem of a page is `Spec => []P` of the whole interface: a step is one of the page
at which the user is, and keeps the invariant of that page. A component cannot see
what calls will be answered, so that an invariant says of each call under way what
its answer will fit:

| Page | Invariant | What it adds to the property |
|---|---|---|
| host list | `GoodMenu` | the bar's options in every state of a handler: all but those of the open column, and of columns that are typed, are hidden |
| offline hosts | `GoodTables`, `GoodFinds` | a table that is not behind has the rows of its list; what calls find are hosts with what is known of them |
| | `GoodAddress` | what is selected is offered (`FiltersFit`); address and local storage have it, or the one value for as many as there are (`AreRemembered`). That the abbreviation loses nothing is counting: a part of a finite set that has as many members is the set |
| recovery | `GoodRecovery` | one load of devices at most is under way (`LoadsOnce`), for the host the list is of unless it is stale (`FitsList`), and its answer has devices of that host |
| notes, history | `GoodNotes`, `GoodDialogCall` | a call of the dialog is of the dialog that is open, and once answered it has stored the notes of the subjects it names; stored notes stay stored |
| details | `GoodDetails` | which calls will unmask the page (`Awaited`): the data or the removal of a host, the summary of a device |
| messages | `GoodMessages` | the filter is what is remembered, or a load is under way that stores it |
| devices of a host | `GoodDevices`, `GoodAnswers`, `GoodService` | a table lists each device once, in its direction, and so do the answers under way |
| new test run | `GoodNewRun` | form and dialog ask for what they show; configs to rerun are configs |
| test plan | `GoodPlan` | the same of the dialog, and of the stored sequences |
| test run | `RunIInv` | an answer under way that shows a final run was given when the run was final (`AnswersLast`), and the run stays final, as `TestRunLifecycle` promises |
| console | `GoodConsole`, `OneCall`, `GoodLog` | one call at most, for the selected log from where the output ends; every byte that is shown precedes that place; an attempt before the last is final |
| build picker | `GoodList`, `GoodTab`, `GoodParts` | one call for the list at most, for the part after those that are shown (`Continues`), unless the list is about to start again (`Settles`); an answer is the part its call names |
| local files | `Sound`, `FilesStored` | each chunk under way, of the current or of a canceled upload, is a part of a file of that name (`IsChunk`); a temporary file has its bytes in place (`InPlace`). Where no two were under way at once, the server works on one chunk of a path at most (`UploadsFit`), which continues what is there and ends it once written (`FitsFile`) |

For the build picker the lists of parts have to be joined, which is recursive. That
a list of `n + 1` parts is that of `n` and one more (`JoinedMore`) is proved without
an induction theorem: a set of numbers has a least one because inclusion of finite
sets is well-founded, a fact of the library about sets and not about an operator, so
that a least counterexample leads to a contradiction (`LeastNumber`,
`JoiningExists`, `JoiningIsUnique`).

The modules of proofs are split by what they are about, pages of a lab and pages of
test runs, and rest on `UiPage_proofs`: what sending, hearing, answering and failing
do to the sequence of calls, and what sorting, filtering and removal do to a list,
whatever the page.

Assumptions. Besides those named above, the pages assume what the code and its services
have by construction. Sizes of pages, of parts and of files are natural numbers, and not
zero where nothing would be read. There are finitely many hosts, devices, commands and
run targets; a host is offline for run targets it has; an id of a device or command is
not zero, the value for none. A config that is stored or run again has the fields of a
config, and each test and action names the resources it needs (`NewTestRunAssumption`,
`TestPlanEditorAssumption`, `RunConfigFormAssumption`); the panels of the details have a
summary (`HostDetailsAssumption`); channels, directories and their parts are lists
(`PickerPageAssumption`). TLC evaluates each in the runs.

The inductive invariants of the server's modules were checked with TLC on the instances
above before they were proved. Those of the pages speak of sequences over any set, which
TLC cannot enumerate: their properties were checked, and what had to be added was found
by the proofs. One property was restated on the way: `AddressChoosesTheSameHosts` was
false for a host that is offline itself and has no offline device (section 6), which
the instance of TLC did not have; it has one now.

So all safety and action properties of the passing runs are theorems. Only
model-checked, and out of the prover's reach, are the liveness properties
`RunEventuallyFinal`, `FinalEventIsHandled` and `CallsEnd`.

## 6. Abstractions

- One run, one sequence, one URL at a time: runs share no state but the cache,
  sequences none at all, and the tracker and file of a URL are its own.
- The timeout of a puller (3600 s) is modelled for kicks, which download and may take
  that long, and not for request events, which read and write a few entities: two
  handlers of events never overlap.
- Of a test resource the form of a new run keeps name and URL; its default URL is left out.
- The cleaner that removes temporary files an hour old (`gunicorn_config.py:59-68`) is
  left out: it would take a file away from an upload that pauses for as long, whose next
  chunk is then refused.
- The before-run hooks of a kick are part of its steps; they change none of the
  modelled state and may fail as the steps around them.
- What a TFC request message holds is abstracted to whether its resources have
  cache URLs. Attempt events update counters that no decision reads.
- The backoff of a retry is a delay of any length. Message ETAs are left out:
  the tasks modelled here have none.
- A test package's information is read with the download that provides it.
- A handler of the web interface is one step: change detection and rendering follow
  it without a decision, except where a child component takes its inputs later
  (`behind` in `OfflineHosts`). Debounced input (`SearchUpdated` in `BuildPicker`)
  is a step of its own.
- The options of a filter bar are a set, as are the dialogs that stored a note: their
  order is not looked at.
- Columns that are displayed, widths, focus, labels and messages are left out.
- The services answer by what the pages expect of them; whether TFC filters and
  pages as modelled is not part of the repository.

What the exceptions of the properties stand for, and happens:

- Lifecycle: a PENDING run stays so, with nobody to kick it, until the next start of the
  server, if its task could not be added (`test_kicker.py:269-273`), or was waiting when
  the puller connected again (`rabbitmq_puller.py:83-105`: it purges the queue, and only
  `AppStartHandler` enqueues). A final event that is purged so is never handled: the run
  goes on for ever, or keeps its post-run handlers waiting. A kick that fails while the
  connection is broken is not delivered again.
- Offline hosts: the list page overrides only the setter of `isLoading`
  (`offline_host_list.ts:54-57`), so that the guard of `reload()` (`:176`) reads
  `undefined` and loads overlap. If labs A, B and A are chosen and A's first answer
  comes last, or B's, the list is of another lab than the one selected. The guard works
  on the page of assignments.
- Offline hosts: after a change of the time filter (`refresh(false)`) the options are
  those of the hosts before. With one group `g` offered and selected, and hosts of `g`
  and `k` loaded, the page shows those of `g`; the address says *all*, since as many are
  selected as offered, and opened again shows `g` and `k`
  (`base_offline_host_list.ts:178`, `:358`).
- Recovery: a host that is focused while the devices of another are loading is not asked
  for its own, since `load()` returns at once (`recovery_device_list.ts:110`): the devices
  of the other host are listed under it, and one that is removed there is removed with
  the name of the wrong host (`:250`). A load that fails leaves the list of the host before.
- Local files: `file_server.py:125` says that content is appended *if the offsets match*.
  The check and the append are not one: a late chunk of a canceled upload passes the
  check, a new upload truncates the file, the chunk is appended and, if it was the last,
  moved into place: a file with a gap. Two last chunks of a path at once can also move the
  file from under the one that writes.

Modelling the pages showed more that can happen and that no comment or test
denies, so that it is described here and not claimed:

- Offline hosts: the address that stands for all run targets is read again as the list
  of them (`base_offline_host_list.ts:318`), which leaves out a host that is offline and
  has no offline device (`offline_host_filter.ts:79`).
- Lists: a late answer of an older load replaces the newer one and is cached under
  the newer key (`device_list.ts:528`); the timer's refresh goes back to the first
  page number; a failed load leaves the host list masked.
- Notes: while the notes of a confirmed new message are being saved, saving is
  possible again (`notes_editor.ts:328`), which stores the notes twice.
- Details: the answer to a removal marks the host shown by then as hidden
  (`host_details.ts:164`).
- New test run: what is edited while the disk is being checked is sent without
  validation (`new_test_run_page.ts:368`); an answer with the previous run that
  arrives late replaces what was edited (`:240`).
- Test plan: submit stays enabled while the plan is saved (`test_plan_edit_page.ts:236`).
- Test run page: a load that was answered before the final one and arrives after it
  is shown for good, since the updates have stopped.
- Console: the last lines of a log that are written after the last poll of a final
  attempt are not fetched.
- Local files: a chunk of a canceled upload that is still under way is appended to
  a new upload of the same name if its offset fits (`file_server.py:124-133`): the
  file has no gap, but its bytes are of two files.

## 7. Plan

Done: `TestRunLifecycle`, `TestRunSequence` with `SequencePromise`,
`ResourceDownload`, the pages of section 2 on `UiPage`, and the theorems of section
5. In this order, next:

1. `TestRunList` and `ModuleResultList`: paged lists with filters and caches, on
   `UiPage` and `PagedList`.
2. `TestPlanKicker`: a plan's status entity, its chain of tasks, the creation of
   its runs with retries. Properties: a plan with a schedule always has a task
   that will kick it or a status that `CheckTestPlanNextRuns` finds; at most one
   chain is live; a failing kick leaves no run that is not canceled.
3. `TaskQueue`: `MessagePuller` with ETA, delayed messages, retries, purge and
   reconnection, as an implementation of the at-least-once-or-lost delivery the
   other modules assume; `CronKicker`: one chain for each job.
4. `ShardModules`, a pure function: every module is in one command, and there
   are no more commands than the limit.
5. `MergeReports`: results stored around finalization end up in the report; and
   the deletion of runs as an action of `TestRunLifecycle`.

Theorems planned: the types and safety properties of each of these, by inductive
invariants as above; that `TaskQueue` implements its abstract specification; the
bounds on the results of `ShardModules` where no recursion is involved.

## 8. What is not modelled

External or input and output only: TFC beyond what the code expects of it, build
channels and their plugins, hooks, the file cleaner, utilities, the command line
interface (it manages containers over SSH), the tool that records and replays
touches over USB (`tools/webaoa`).
Of the web interface: pages that load, save and delete one kind of entity with one
call at a time (tests, actions, build channels, settings, file cleaner, set-up
wizard), the shell of the application, wrappers of HTTP and storage, pipes; and, so
far, the lists of test runs and of results (see the plan).
Sequential without decisions that matter here: conversion of entities to
messages, config sets, start-up checks and upgrades, the event log and SQL
queries, the API's translation of requests, the URLs of the cron jobs
(`sidekicks/`). Generated: the schedule grammar in
`core/cron`. `PROJECT.json` lists each with its reason.
