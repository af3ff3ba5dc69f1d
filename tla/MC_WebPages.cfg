\* The pages of a lab and of test runs.
CONSTANTS
  MaxRequests = 2
  MaxSteps = 3
  HostListPage <- MCHostListPage
  OfflineHostsPage <- MCOfflineHostsPage
  RecoveryPage <- MCRecoveryPage
  NotesPage <- MCNotesPage
  HistoryPage <- MCHistoryPage
  DetailsPage <- MCDetailsPage
  MessagesPage <- MCMessagesPage
  DevicesPage <- MCDevicesPage
  NewRunPage <- MCNewRunPage
  PlanPage <- MCPlanPage
  RunPage <- MCRunPage
  ConsolePage <- MCConsolePage
  PickerPage <- MCPickerPage
  LocalFilesPage <- MCLocalFilesPage
SPECIFICATION Spec
INVARIANTS
  MenuShowsOneColumn
  TablesSelectShownHosts
  AddressChoosesTheSameHosts
  OneTargetOfRecovery
  MaskedOnlyWhileLoading
  FilterIsRemembered
  SelectedDevicesAreShown
  ResourcesFitTheRun
  ResourcesFitThePlan
  UpdatesUntilFinal
  OutputIsOfTheLog
  ListIsOfTheSearchBar
  FileHasNoGap
PROPERTIES
  DialogReportsStoredNotes
CHECK_DEADLOCK FALSE
