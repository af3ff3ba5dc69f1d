------------------------------ MODULE Recovery ------------------------------
(***************************************************************************)
(* The recovery page (recovery/recovery_page.ts): the offline hosts        *)
(* assigned to the user (recovery/recovery_host_list.ts) and, beside them, *)
(* the devices of the one that is focused (recovery/                       *)
(* recovery_device_list.ts).  Of the dialog of notes the page only knows   *)
(* with which result it closes.                                            *)
(***************************************************************************)
EXTENDS HostFilters, TableRowsSelect, UiPage

CONSTANTS
  Hosts,
  Devices,  \* numbers: the order in which the API lists them
  HostOf    \* for a device its host

\* What the constants have to be.
RecoveryAssumption ==
  Devices \subseteq Nat /\ IsFiniteSet(Devices) /\ HostOf \in [Devices -> Hosts]

NoHost == ""
NoList == [hostName |-> NoHost]
NoNote == 0

\* The dialog of notes: whose notes, and which hosts or devices.
Dialog(of, ids) == [of |-> of, ids |-> ids]
NoDialog == Dialog("none", {})

Row(h) == [host |-> h, targets |-> Info[h].targets]
HostsOf(rows) == {r.host : r \in rows}
DevicesOf(host) == {d \in Devices : HostOf[d] = host}

\* The filters come from the address and do not change.
Params ==
  [lab : {Info[h].lab : h \in Hosts}, groups : {{AllOptions}, {"g"}},
   targets : {{AllOptions}, {"t"}}]

FreshPage(params) ==
  [params |-> params, focusedHostName |-> NoHost, hostInfos |-> {},
   hostsLoading |-> FALSE, selection |-> {}, devices |-> NoList, dialog |-> NoDialog]

-----------------------------------------------------------------------------
(* The list of hosts.                                                      *)

LoadHosts(s) ==
  IF s.page.hostsLoading THEN s
  ELSE LET params == s.page.params
           groups == IF AllOptions \in params.groups THEN {} ELSE params.groups
       IN Send([s EXCEPT !.page.hostsLoading = TRUE], "hosts",
               [lab |-> params.lab, groups |-> groups])

Init ==
  /\ \E params \in Params :
       LET s == LoadHosts([page |-> FreshPage(params), browser |-> {}, requests |-> <<>>])
       IN page = s.page /\ browser = s.browser /\ requests = s.requests
  /\ api = [mine |-> Hosts, notes |-> [d \in Devices |-> NoNote], removals |-> {}]
  /\ spent = 0

HostsArrive(i) ==
  \/ /\ Hears(i, "hosts", "ok")
     /\ LET rows == FilterHostListDataSource(requests[i].answer, page.params.groups,
                                             page.params.targets, "", TRUE)
        IN Becomes([Heard(i) EXCEPT !.page.hostInfos = rows, !.page.hostsLoading = FALSE])
  \/ /\ Hears(i, "hosts", "error")
     /\ Becomes([Heard(i) EXCEPT !.page.hostsLoading = FALSE])

-----------------------------------------------------------------------------
(* The list of devices lives while a host is focused.  It keeps no account *)
(* of what it shows: that the devices may be those of another host, since  *)
(* the host was changed during a load or the load failed, is recorded as   *)
(* stale.                                                                  *)

LoadDevices(s) ==
  IF s.page.devices.isLoading THEN s
  ELSE Send([s EXCEPT !.page.devices.isLoading = TRUE, !.page.devices.stale = FALSE],
            "devices", s.page.devices.hostName)

\* A mutant: a list that is destroyed leaves its load to the next one.
MutFocusDevices(s, host) ==
  IF host = NoHost
  THEN [s EXCEPT !.page.devices = NoList]
  ELSE IF s.page.devices = NoList
  THEN LoadDevices([s EXCEPT !.page.devices =
         [hostName |-> host, table |-> EmptyTable, isLoading |-> FALSE, stale |-> FALSE,
          notes |-> [d \in Devices |-> NoNote]]])
  ELSE LoadDevices([s EXCEPT
         !.page.devices.hostName = host,
         !.page.devices.stale = s.page.devices.isLoading,
         !.page.devices.table = ResetPrevClickedRowIndex(ClearSelection(@))])

\* Its input changes, or it is created or destroyed with what it waits for; a
\* removal that was asked for may yet be done.
FocusDevices(s, host) ==
  IF host = NoHost
  THEN LET kept == Kept(s.requests, {i \in DOMAIN s.requests :
                     s.requests[i].kind \notin {"devices", "latestNotes"}})
       IN [s EXCEPT !.page.devices = NoList,
                    !.requests = [k \in DOMAIN kept |->
                      IF kept[k].kind = "removeDevice"
                      THEN [kept[k] EXCEPT !.kind = "unheard"] ELSE kept[k]]]
  ELSE IF s.page.devices = NoList
  THEN LoadDevices([s EXCEPT !.page.devices =
         [hostName |-> host, table |-> EmptyTable, isLoading |-> FALSE, stale |-> FALSE,
          notes |-> [d \in Devices |-> NoNote]]])
  ELSE LoadDevices([s EXCEPT
         !.page.devices.hostName = host,
         !.page.devices.stale = s.page.devices.isLoading,
         !.page.devices.table = ResetPrevClickedRowIndex(ClearSelection(@))])

SetFocus(s, host) ==
  LET t == [s EXCEPT !.page.focusedHostName = host]
  IN IF host = s.page.focusedHostName THEN t ELSE FocusDevices(t, host)

DevicesArrive(i) ==
  \/ /\ Hears(i, "devices", "ok")
     /\ LET serials == Ascending(requests[i].answer)
            s == [Heard(i) EXCEPT !.page.devices.isLoading = FALSE,
                                  !.page.devices.table.rows = serials,
                                  !.page.devices.notes = [d \in Devices |-> NoNote]]
        IN Becomes(IF serials = <<>> THEN s
                   ELSE Send(s, "latestNotes", requests[i].answer))
  \/ /\ Hears(i, "devices", "error")
     /\ Becomes([Heard(i) EXCEPT !.page.devices.isLoading = FALSE,
                                 !.page.devices.stale = TRUE])

\* The notes go to the devices they were asked for.
LatestNotesArrive(i) ==
  \/ /\ Hears(i, "latestNotes", "ok")
     /\ Becomes([Heard(i) EXCEPT !.page.devices.notes =
          [d \in Devices |-> IF d \in requests[i].arg /\ requests[i].answer[d] # NoNote
                             THEN requests[i].answer[d] ELSE @[d]]])
  \/ Hears(i, "latestNotes", "error") /\ Becomes(Heard(i))

-----------------------------------------------------------------------------
(* What the user does.                                                     *)

InFront == page.dialog = NoDialog
AtHosts == InFront /\ ~ page.hostsLoading
AtDevices == InFront /\ page.devices # NoList /\ ~ page.devices.isLoading

FocusHost(host) ==
  /\ AtHosts /\ host \in HostsOf(page.hostInfos) /\ Calling
  /\ Becomes(SetFocus([State EXCEPT !.page.selection = {}], host)) /\ UNCHANGED api

\* What is selected takes the place of what is focused.
Selected(selection) ==
  LET s == [State EXCEPT !.page.selection = selection]
  IN Spend /\ UNCHANGED api /\ Becomes(IF selection = {} THEN s ELSE SetFocus(s, NoHost))

OnSelectionChange(host) ==
  /\ AtHosts /\ host \in HostsOf(page.hostInfos)
  /\ Selected(IF host \in page.selection THEN page.selection \ {host}
              ELSE page.selection \cup {host})

\* All rows are taken to be selected if as many hosts are.
ToggleSelection ==
  /\ AtHosts
  /\ Selected(IF Cardinality(page.selection) = Cardinality(page.hostInfos) THEN {}
              ELSE page.selection \cup HostsOf(page.hostInfos))

UnfocusHost ==
  /\ InFront /\ page.devices # NoList /\ Spend
  /\ Becomes(SetFocus(State, NoHost)) /\ UNCHANGED api

ReloadHosts ==
  /\ InFront /\ page.focusedHostName = NoHost /\ Calling
  /\ Becomes(LoadHosts(State)) /\ UNCHANGED api

ReloadDevices ==
  /\ InFront /\ page.devices # NoList /\ Calling
  /\ Becomes(LoadDevices(State)) /\ UNCHANGED api

\* The focused host, or else those selected or that of the row.
MarkAsRecovered ==
  /\ InFront /\ Calling
  /\ \/ /\ page.focusedHostName # NoHost
        /\ Becomes(Send(State, "recovered", {page.focusedHostName}))
     \/ /\ page.focusedHostName = NoHost /\ page.selection # {}
        /\ Becomes(Send(State, "recovered", page.selection))
     \/ /\ page.focusedHostName = NoHost /\ ~ page.hostsLoading
        /\ \E h \in HostsOf(page.hostInfos) : Becomes(Send(State, "recovered", {h}))
  /\ UNCHANGED api

\* The hosts leave the list and nothing is selected; a focused host stays so.
HostsRecovered(i) ==
  \/ /\ Hears(i, "recovered", "ok")
     /\ Becomes([Heard(i) EXCEPT
          !.page.hostInfos = {r \in @ : r.host \notin requests[i].arg},
          !.page.selection = {}])
  \/ Hears(i, "recovered", "error") /\ Becomes(Heard(i))

\* Notes of hosts change nothing on the page; the latest note of a host is asked
\* for before the dialog to edit it opens.
OpenHostNotes ==
  /\ AtHosts /\ page.focusedHostName = NoHost /\ Calling
  /\ \/ page.selection # {} /\ Becomes([State EXCEPT !.page.dialog = Dialog("hosts", page.selection)])
     \/ \E h \in HostsOf(page.hostInfos) :
          \/ Becomes([State EXCEPT !.page.dialog = Dialog("hosts", {h})])
          \/ Becomes(Send(State, "hostNote", h))
  /\ UNCHANGED api

HostNoteArrives(i) ==
  \/ /\ Hears(i, "hostNote", "ok")
     /\ Becomes([Heard(i) EXCEPT !.page.dialog = Dialog("hosts", {requests[i].arg})])
  \/ Hears(i, "hostNote", "error") /\ Becomes(Heard(i))

Rows == Range(page.devices.table.rows)

\* Of the devices selected those that are in the list, one of them, or its latest
\* note to edit.
OpenDeviceNotes ==
  /\ AtDevices /\ Spend
  /\ \/ /\ page.devices.table.selection \cap Rows # {}
        /\ Shows([page EXCEPT
             !.dialog = Dialog("devices", page.devices.table.selection \cap Rows)])
     \/ \E d \in Rows : Shows([page EXCEPT !.dialog = Dialog("devices", {d})])

\* With a result the latest notes of the devices are loaded anew.
CloseDialog(result) ==
  /\ ~ InFront /\ Calling
  /\ LET s == [State EXCEPT !.page.dialog = NoDialog]
         saved == IF page.dialog.of = "devices" THEN page.dialog.ids ELSE {}
     IN /\ Becomes(IF result /\ page.devices # NoList /\ saved # {}
                   THEN Send(s, "latestNotes", saved) ELSE s)
        /\ api' = IF result
                  THEN [api EXCEPT !.notes = [d \in Devices |->
                          IF d \in saved THEN @[d] + 1 ELSE @[d]]]
                  ELSE api

SelectDevice(index, shift) ==
  /\ AtDevices /\ index \in DOMAIN page.devices.table.rows
  /\ shift => page.devices.table.prevClicked > 0
  /\ Spend /\ Shows([page EXCEPT !.devices.table = ClickRow(@, index, shift)])

SelectAllDevices ==
  /\ AtDevices /\ Spend
  /\ Shows([page EXCEPT !.devices.table = ToggleAllSelection(@)])

\* The host that is focused is named, whatever host the list is of.
RemoveDevice(device) ==
  /\ AtDevices /\ device \in Rows /\ Calling
  /\ Becomes(Send(State, "removeDevice",
                  [device |-> device, host |-> page.devices.hostName]))
  /\ UNCHANGED api

DeviceRemoved(i) ==
  \/ /\ Hears(i, "removeDevice", "ok")
     /\ LET rows == page.devices.table.rows
            left == {k \in DOMAIN rows : rows[k] # requests[i].arg.device}
        IN Becomes([Heard(i) EXCEPT !.page.devices.table =
             ResetSelection([@ EXCEPT !.rows = Kept(rows, left)])])
  \/ Hears(i, "removeDevice", "error") /\ Becomes(Heard(i))

-----------------------------------------------------------------------------
(* The TFC API.                                                            *)

RemovedDevices == {r.device : r \in api.removals}

Serve(i) ==
  /\ IsSent(i)
  /\ LET arg == requests[i].arg
     IN \/ /\ requests[i].kind = "hosts" /\ UNCHANGED api
           /\ Answer(i, {Row(h) : h \in {g \in api.mine : Info[g].lab = arg.lab /\
                           (arg.groups = {} \/ Info[g].group \in arg.groups)}})
        \/ /\ requests[i].kind = "devices" /\ UNCHANGED api
           /\ Answer(i, DevicesOf(arg) \ RemovedDevices)
        \/ requests[i].kind = "latestNotes" /\ UNCHANGED api /\ Answer(i, api.notes)
        \/ requests[i].kind = "hostNote" /\ UNCHANGED api /\ Answer(i, {})
        \/ /\ requests[i].kind = "recovered" /\ Answer(i, {})
           /\ api' = [api EXCEPT !.mine = @ \ arg]
        \/ /\ requests[i].kind = "removeDevice" /\ Answer(i, {})
           /\ api' = [api EXCEPT !.removals = @ \cup {arg}]
        \/ /\ requests[i].kind = "unheard" /\ requests' = RemoveAt(requests, i)
           /\ api' = [api EXCEPT !.removals = @ \cup {arg}]
  /\ UNCHANGED <<page, browser, spent>>

Next ==
  \/ \E i \in DOMAIN requests : HostsArrive(i)
  \/ \E i \in DOMAIN requests : DevicesArrive(i)
  \/ \E i \in DOMAIN requests : LatestNotesArrive(i)
  \/ \E h \in Hosts : FocusHost(h)
  \/ \E h \in Hosts : OnSelectionChange(h)
  \/ ToggleSelection
  \/ UnfocusHost
  \/ ReloadHosts
  \/ ReloadDevices
  \/ MarkAsRecovered
  \/ \E i \in DOMAIN requests : HostsRecovered(i)
  \/ OpenHostNotes
  \/ \E i \in DOMAIN requests : HostNoteArrives(i)
  \/ OpenDeviceNotes
  \/ \E b \in BOOLEAN : CloseDialog(b)
  \/ \E k \in 1 .. Cardinality(Devices), b \in BOOLEAN : SelectDevice(k, b)
  \/ SelectAllDevices
  \/ \E d \in Devices : RemoveDevice(d)
  \/ \E i \in DOMAIN requests : DeviceRemoved(i)
  \/ \E i \in DOMAIN requests : Serve(i)
  \/ \E i \in DOMAIN requests : requests[i].kind # "unheard" /\ Fail(i)

-----------------------------------------------------------------------------
(* What must hold.                                                         *)

\* The button that marks hosts as recovered takes the focused host if there is one:
\* then no host is selected that the user might mean.  And the devices listed beside
\* it, of which one is removed in its name, are devices of that host: no answer comes
\* late from a host that was focused before.  Except that a host which is focused while
\* the devices of another are loading is not asked for its own (load() returns at once,
\* recovery_device_list.ts:110), and a load that fails leaves the list as it is.
OneTargetOfRecovery ==
  /\ page.selection = {} \/ page.focusedHostName = NoHost
  /\ page.devices # NoList /\ ~ page.devices.isLoading /\ ~ page.devices.stale
       => Rows \subseteq DevicesOf(page.focusedHostName)
=============================================================================
