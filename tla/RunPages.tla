------------------------------ MODULE RunPages ------------------------------
(***************************************************************************)
(* The pages of test runs: a new run, a plan, a run and its logs, and the  *)
(* files a run is given.  Each is opened with a record of the parameters   *)
(* of its module.  Some have little to do at first: they have a step more, *)
(* and a log takes a step for every part that is read.                     *)
(***************************************************************************)
EXTENDS UiPage

CONSTANTS NewRunPage, PlanPage, RunPage, ConsolePage, PickerPage, LocalFilesPage

NewRun == INSTANCE NewTestRun WITH
  Tests <- NewRunPage.Tests, DeviceActions <- NewRunPage.DeviceActions,
  RunActions <- NewRunPage.RunActions, Devices <- NewRunPage.Devices,
  NeededBy <- NewRunPage.NeededBy, AutoFor <- NewRunPage.AutoFor,
  NodeUrls <- NewRunPage.NodeUrls, PreviousConfig <- NewRunPage.PreviousConfig,
  MaxSteps <- MaxSteps + 1

Plan == INSTANCE TestPlanEditor WITH
  Tests <- PlanPage.Tests, DeviceActions <- PlanPage.DeviceActions,
  RunActions <- PlanPage.RunActions, Devices <- PlanPage.Devices,
  NeededBy <- PlanPage.NeededBy, AutoFor <- PlanPage.AutoFor,
  StoredSequences <- PlanPage.StoredSequences, MaxSteps <- MaxSteps + 1

Run == INSTANCE TestRunPage WITH
  Commands <- RunPage.Commands, CommandPage <- RunPage.CommandPage,
  MaxSteps <- MaxSteps + 1

Console == INSTANCE TestRunConsole WITH
  LastAttempt <- ConsolePage.LastAttempt, LogTypes <- ConsolePage.LogTypes,
  MaxBytes <- ConsolePage.MaxBytes, ReadLength <- ConsolePage.ReadLength,
  MaxLines <- ConsolePage.MaxLines, MaxSteps <- MaxSteps + 3

IsLocalChannel(c) == c \in PickerPage.Local
IsUrlChannel(c) == c \in PickerPage.ByUrl
IsPattern(p) == p \in PickerPage.Patterns
PagesOf(c, p) ==
  IF <<c, p>> \in DOMAIN PickerPage.Pages THEN PickerPage.Pages[<<c, p>>] ELSE <<>>

Picker == INSTANCE BuildPicker WITH
  Channels <- PickerPage.Channels, IsLocal <- IsLocalChannel, IsUrl <- IsUrlChannel,
  Pages <- PagesOf, TypedPaths <- PickerPage.TypedPaths,
  TypedNames <- PickerPage.TypedNames, FileUrls <- PickerPage.FileUrls,
  IsGlob <- IsPattern, Authorized <- PickerPage.Authorized,
  Opened <- PickerPage.Opened, MaxSteps <- MaxSteps + 1

NameOfFile(f) == LocalFilesPage.NameOf[f]
SizeOfFile(f) == LocalFilesPage.Size[f]

LocalFiles == INSTANCE FileStore WITH
  Directories <- LocalFilesPage.Directories, Root <- LocalFilesPage.Root,
  Files <- LocalFilesPage.Files, NameOf <- NameOfFile, Size <- SizeOfFile,
  FirstFiles <- LocalFilesPage.FirstFiles, MinChunk <- LocalFilesPage.MinChunk,
  MaxChunk <- LocalFilesPage.MaxChunk, InitialChunk <- LocalFilesPage.InitialChunk,
  MaxSteps <- MaxSteps + 1

\* The channels are a list, and so are the parts of a directory and each part of it.
IsList(s) == s \in Seq(Range(s))
ASSUME PickerPageAssumption ==
  /\ IsList(PickerPage.Channels)
  /\ \A cp \in DOMAIN PickerPage.Pages :
       /\ IsList(PickerPage.Pages[cp])
       /\ \A k \in DOMAIN PickerPage.Pages[cp] : IsList(PickerPage.Pages[cp][k])

\* What the constants have to be: what the other pages need.
ASSUME RunPagesAssumption ==
  /\ NewRun!RunConfigFormAssumption /\ NewRun!NewTestRunAssumption
  /\ Plan!RunConfigFormAssumption /\ Plan!TestPlanEditorAssumption
  /\ Run!TestRunPageAssumption /\ Console!TestRunConsoleAssumption
  /\ LocalFiles!FileStoreAssumption
=============================================================================
