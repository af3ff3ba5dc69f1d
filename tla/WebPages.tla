------------------------------ MODULE WebPages ------------------------------
(***************************************************************************)
(* The web interface: the user is at one of its pages, with the dialogs of *)
(* that page, and what a page promises holds while the user is there.      *)
(***************************************************************************)
EXTENDS LabPages, RunPages

VARIABLE route

pageVars == <<vars, route>>

-----------------------------------------------------------------------------
(* The user is at one of the pages.                                        *)

Init ==
  \/ route = "hosts" /\ ListOfHosts!Init
  \/ route = "offline hosts" /\ ListsOfOfflineHosts!Init
  \/ route = "recovery" /\ HostsToRecover!Init
  \/ route = "notes" /\ Notes!Init
  \/ route = "history" /\ History!Init
  \/ route = "details" /\ Details!Init
  \/ route = "messages" /\ Messages!Init
  \/ route = "devices" /\ DevicesOfHost!Init
  \/ route = "new run" /\ NewRun!Init
  \/ route = "plan" /\ Plan!Init
  \/ route = "run" /\ Run!Init
  \/ route = "console" /\ Console!Init
  \/ route = "picker" /\ Picker!Init
  \/ route = "local files" /\ LocalFiles!Init

Next ==
  /\ \/ route = "hosts" /\ ListOfHosts!Next
     \/ route = "offline hosts" /\ ListsOfOfflineHosts!Next
     \/ route = "recovery" /\ HostsToRecover!Next
     \/ route = "notes" /\ Notes!Next
     \/ route = "history" /\ History!Next
     \/ route = "details" /\ Details!Next
     \/ route = "messages" /\ Messages!Next
     \/ route = "devices" /\ DevicesOfHost!Next
     \/ route = "new run" /\ NewRun!Next
     \/ route = "plan" /\ Plan!Next
     \/ route = "run" /\ Run!Next
     \/ route = "console" /\ Console!Next
     \/ route = "picker" /\ Picker!Next
     \/ route = "local files" /\ LocalFiles!Next
  /\ UNCHANGED route

Spec == Init /\ [][Next]_pageVars

-----------------------------------------------------------------------------
(* The properties of the pages.                                            *)

\* The menu of the host list shows the columns, or the values of the one that is open,
\* whatever was typed, toggled and loaded before.
MenuShowsOneColumn == route = "hosts" => ListOfHosts!MenuShowsOneColumn

\* Hosts are assigned and verified only from the list they were selected in.
TablesSelectShownHosts ==
  route = "offline hosts" => ListsOfOfflineHosts!TablesSelectShownHosts

\* A page opened from the address of the offline hosts shows again the hosts of its lab
\* that are shown, and no others if its filters have the same options.
AddressChoosesTheSameHosts ==
  route = "offline hosts" => ListsOfOfflineHosts!AddressChoosesTheSameHosts

\* The recovery page marks either the focused host or the selected ones, and the devices
\* listed beside the focused host are its own, unless its load was passed over or failed.
OneTargetOfRecovery == route = "recovery" => HostsToRecover!OneTargetOfRecovery

\* What a step of the dialog of either page may not do.
NoFalseReport ==
  /\ route = "notes" => Notes!DialogReportsStoredNotes
  /\ route = "history" => History!DialogReportsStoredNotes

\* A dialog says that notes are saved only if the service stored them, from the list
\* of notes and from the history alike.
DialogReportsStoredNotes == [][NoFalseReport]_pageVars

\* The page of a host or device is masked only while a call is under way.
MaskedOnlyWhileLoading == route = "details" => Details!MaskedOnlyWhileLoading

\* The filter of the predefined messages is what the browser remembers of it.
FilterIsRemembered == route = "messages" => Messages!FilterIsRemembered

\* A note is added to devices that are shown, in a table that is sorted.
SelectedDevicesAreShown == route = "devices" => DevicesOfHost!SelectedDevicesAreShown

\* The forms of a new run ask for exactly the resources of what they show as selected.
ResourcesFitTheRun == route = "new run" => NewRun!ResourcesFitTheRun

\* So does the dialog that edits a config of a test plan.
ResourcesFitThePlan == route = "plan" => Plan!ResourcesFitThePlan

\* The page of a test run updates itself until the run is final.
UpdatesUntilFinal == route = "run" => Run!UpdatesUntilFinal

\* The console shows the selected log, no byte of it twice or before an earlier one.
OutputIsOfTheLog == route = "console" => Console!OutputIsOfTheLog

\* The build picker lists what its search bar says, without a gap.
ListIsOfTheSearchBar == route = "picker" => Picker!ListIsOfTheSearchBar

\* An uploaded file has every byte where the upload had it, none missing or twice, unless
\* two chunks for its path were under way at once.
FileHasNoGap == route = "local files" => LocalFiles!FileHasNoGap
=============================================================================
