------------------------------ MODULE LabPages ------------------------------
(***************************************************************************)
(* The pages of a lab: its hosts, their devices, notes and messages.  Each *)
(* is opened with a record of the parameters of its module.  Some have     *)
(* little to do at first: they have a step more.                           *)
(***************************************************************************)
EXTENDS UiPage

CONSTANTS
  HostListPage, OfflineHostsPage, RecoveryPage, NotesPage, HistoryPage, DetailsPage,
  MessagesPage, DevicesPage

ListOfHosts == INSTANCE HostList WITH
  N <- HostListPage.N, Columns <- HostListPage.Columns,
  UrlColumns <- HostListPage.UrlColumns, InputColumns <- HostListPage.InputColumns,
  AttributeOf <- HostListPage.AttributeOf,
  MaxDisplayOptions <- HostListPage.MaxDisplayOptions,
  PageSizes <- HostListPage.PageSizes, DefaultPageSize <- HostListPage.DefaultPageSize

ListsOfOfflineHosts == INSTANCE OfflineHosts WITH
  Hosts <- OfflineHostsPage.Hosts, Info <- OfflineHostsPage.Info,
  Me <- OfflineHostsPage.Me, Others <- OfflineHostsPage.Others

HostsToRecover == INSTANCE Recovery WITH
  Hosts <- RecoveryPage.Hosts, Devices <- RecoveryPage.Devices,
  Info <- RecoveryPage.Info, HostOf <- RecoveryPage.HostOf, MaxSteps <- MaxSteps + 1

Notes == INSTANCE NoteList WITH
  Subjects <- NotesPage.Subjects, Hosts <- NotesPage.Hosts, HostOf <- NotesPage.HostOf,
  FirstNote <- NotesPage.FirstNote, Texts <- NotesPage.Texts,
  DefaultPageSize <- NotesPage.DefaultPageSize, PageSizes <- NotesPage.PageSizes,
  MaxSteps <- MaxSteps + 1

History == INSTANCE SubjectHistory WITH
  Subjects <- HistoryPage.Subjects, Hosts <- HistoryPage.Hosts,
  FirstNote <- HistoryPage.FirstNote, Records <- HistoryPage.Records,
  RecordsWithNote <- HistoryPage.RecordsWithNote, Texts <- HistoryPage.Texts,
  DefaultPageSize <- HistoryPage.DefaultPageSize, PageSizes <- HistoryPage.PageSizes

Details == INSTANCE HostDetails WITH
  Subjects <- DetailsPage.Subjects, Hosts <- DetailsPage.Hosts,
  Panels <- DetailsPage.Panels, Me <- DetailsPage.Me

Messages == INSTANCE PredefinedMessages WITH
  Labs <- MessagesPage.Labs, Categories <- MessagesPage.Categories,
  Types <- MessagesPage.Types, DefaultLab <- MessagesPage.DefaultLab,
  DefaultCategory <- MessagesPage.DefaultCategory,
  DefaultType <- MessagesPage.DefaultType, MaxSteps <- MaxSteps + 1

HostOfDevice(d) == DevicesPage.HostOf[d]

DevicesOfHost == INSTANCE HostDevices WITH
  Devices <- DevicesPage.Devices, Hosts <- DevicesPage.Hosts, HostOf <- HostOfDevice,
  FirstHost <- DevicesPage.FirstHost, MaxNote <- DevicesPage.MaxNote

\* What the constants have to be: what the pages need.
ASSUME LabPagesAssumption ==
  /\ ListOfHosts!HostListAssumption
  /\ ListsOfOfflineHosts!OfflineHostsAssumption
  /\ HostsToRecover!RecoveryAssumption
  /\ Notes!NotesDialogAssumption /\ Notes!NoteListAssumption
  /\ History!NotesDialogAssumption /\ History!SubjectHistoryAssumption
  /\ Details!HostDetailsAssumption
  /\ Messages!PredefinedMessagesAssumption
  /\ DevicesOfHost!HostDevicesAssumption
=============================================================================
