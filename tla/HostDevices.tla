----------------------------- MODULE HostDevices -----------------------------
(***************************************************************************)
(* The devices of a host on its page (hosts/host_details_device_list.ts)   *)
(* in the table of devices (devices/device_list_table.ts).  The list is    *)
(* the page's, the table keeps what it shows of it; the devices themselves *)
(* are shared by both, until the list is loaded again.  Devices are        *)
(* numbered in the order of their serials.                                 *)
(***************************************************************************)
EXTENDS UiPage, TableRowsSelect

CONSTANTS
  Devices, Hosts,
  HostOf(_),    \* the host a device is connected to
  FirstHost,
  MaxNote       \* bound on the notes of a device

\* What the constants have to be.
HostDevicesAssumption == Devices \subseteq Nat \ {0} /\ IsFiniteSet(Devices)

NoDevice == 0
Directions == {"none", "up", "down"}

-----------------------------------------------------------------------------
(* The table.                                                              *)

\* No device is there twice.
InDirection(rows, direction) ==
  CASE direction = "up" -> Ascending(Range(rows))
    [] direction = "down" -> Reversed(Ascending(Range(rows)))
    [] OTHER -> rows

WithoutDevice(rows, d) == Kept(rows, {k \in DOMAIN rows : rows[k] # d})

\* Sorted in place: the rows of the page's list as well, if it is the same list.
SortData(p) ==
  LET rows == InDirection(p.table.rows, p.direction)
      sorted == [ResetPrevClickedRowIndex(p.table) EXCEPT !.rows = rows]
  IN IF p.direction = "none" THEN p
     ELSE [p EXCEPT !.table = sorted,
                    !.infos = IF p.isShared THEN rows ELSE @]

\* The table is given the list of the page: all that was selected is not any more.
DataSource(p) ==
  [SortData([p EXCEPT !.table.rows = p.infos, !.isShared = TRUE])
     EXCEPT !.table = ResetPrevClickedRowIndex(ClearSelection(@))]

MutRemoved(p, d) ==
  LET table == [p.table EXCEPT !.rows = WithoutDevice(@, d)]
  IN SortData([p EXCEPT !.isShared = FALSE, !.table = table])

\* The table leaves out the device, the list of the page keeps it.
Removed(p, d) ==
  LET table == [p.table EXCEPT !.rows = WithoutDevice(@, d)]
      left == SortData([p EXCEPT !.isShared = FALSE, !.table = table])
  IN [left EXCEPT !.table = ResetSelection(@)]

-----------------------------------------------------------------------------
(* Loading.                                                                *)

Load(s) == Send([s EXCEPT !.page.isLoading = TRUE], "devices", [host |-> s.page.id])

Init ==
  LET s == Load([requests |-> <<>>, browser |-> <<>>, page |->
             [id |-> FirstHost, infos |-> <<>>, note |-> [d \in Devices |-> 0],
              fixed |-> {}, loads |-> 0, hostMap |-> <<>>, isLoading |-> FALSE,
              table |-> EmptyTable, isShared |-> FALSE, direction |-> "none",
              asks |-> NoDevice]])
  IN /\ page = s.page /\ browser = s.browser /\ requests = s.requests
     /\ api = [present |-> Devices, fixed |-> {}, note |-> [d \in Devices |-> 0]]
     /\ spent = 0

\* The devices are new, and have no notes before the call for them is answered; for
\* none there is no call.
DevicesArrive(i) ==
  \/ /\ Hears(i, "devices", "ok")
     /\ LET answer == requests[i].answer
            p == [page EXCEPT !.infos = answer.devices, !.fixed = answer.fixed,
                              !.note = [d \in Devices |-> 0], !.loads = @ + 1]
            s == [Heard(i) EXCEPT !.page = DataSource(p)]
        IN Becomes(IF answer.devices = <<>> THEN [s EXCEPT !.page.isLoading = FALSE]
                   ELSE Send(s, "notes", [devices |-> Range(answer.devices),
                                          isLoad |-> TRUE]))
  \/ Hears(i, "devices", "error") /\ Becomes([Heard(i) EXCEPT !.page.isLoading = FALSE])

\* The notes go to the devices that are listed by now, in a new list if there are any.
SetDeviceNotes(p, notes) ==
  LET listed == DOMAIN notes \cap Range(p.infos)
      noted == [d \in Devices |-> IF d \in listed THEN notes[d] ELSE p.note[d]]
  IN IF DOMAIN notes = {} THEN p ELSE DataSource([p EXCEPT !.note = noted])

\* After a load each device there is by now is of the host there is by now.
NotesArrive(i) ==
  LET arg == requests[i].arg
      s == [Heard(i) EXCEPT !.page.isLoading = @ /\ ~ arg.isLoad]
      map == IF arg.isLoad THEN [d \in Range(page.infos) |-> page.id] ELSE page.hostMap
  IN \/ /\ Hears(i, "notes", "ok")
        /\ Becomes([s EXCEPT !.page =
             SetDeviceNotes([@ EXCEPT !.hostMap = map], requests[i].answer)])
     \/ Hears(i, "notes", "error") /\ Becomes(s)

Refresh == page.asks = NoDevice /\ Calling /\ Becomes(Load(State)) /\ UNCHANGED api

SelectHost(h) ==
  /\ page.asks = NoDevice /\ h # page.id /\ Calling
  /\ Becomes(Load([State EXCEPT !.page.id = h])) /\ UNCHANGED api

-----------------------------------------------------------------------------
(* The rows.                                                               *)

AtRows == page.asks = NoDevice /\ page.table.rows # <<>>

SelectRow(k, shift) ==
  /\ AtRows /\ Spend /\ Shows([page EXCEPT !.table = ClickRow(@, k, shift)])

SelectAllRows ==
  AtRows /\ Spend /\ Shows([page EXCEPT !.table = ToggleAllSelection(@)])

ChangeSort(direction) ==
  /\ AtRows /\ direction # page.direction /\ Spend
  /\ Shows(SortData([page EXCEPT !.direction = direction]))

RemoveDevice(k) ==
  AtRows /\ Spend /\ Shows([page EXCEPT !.asks = page.table.rows[k]])

Confirm(isConfirmed) ==
  /\ page.asks # NoDevice /\ Calling
  /\ LET s == [State EXCEPT !.page.asks = NoDevice]
     IN Becomes(IF isConfirmed THEN Send(s, "remove", [device |-> page.asks]) ELSE s)
  /\ UNCHANGED api

DeviceRemoved(i) ==
  \/ /\ Hears(i, "remove", "ok")
     /\ Becomes([Heard(i) EXCEPT !.page = Removed(@, requests[i].arg.device)])
  \/ Hears(i, "remove", "error") /\ Becomes(Heard(i))

ToggleDeviceFixedState(k) ==
  /\ AtRows /\ Calling
  /\ LET d == page.table.rows[k]
     IN Becomes(Send(State, "mark", [device |-> d, isFixed |-> d \notin page.fixed,
                                     loads |-> page.loads]))
  /\ UNCHANGED api

\* The device that is marked is the one that was clicked; if the list was loaded again
\* it is not shown any more.
DeviceMarked(i) ==
  LET arg == requests[i].arg
      fixed == CASE arg.loads # page.loads -> page.fixed
                 [] arg.isFixed -> page.fixed \cup {arg.device}
                 [] OTHER -> page.fixed \ {arg.device}
  IN \/ Hears(i, "mark", "ok") /\ Becomes([Heard(i) EXCEPT !.page.fixed = fixed])
     \/ Hears(i, "mark", "error") /\ Becomes(Heard(i))

\* The dialog of the notes has saved a note of the selected devices, which are told to
\* be of the hosts of the map.
AddNotes ==
  /\ AtRows /\ page.table.selection # {} /\ Calling
  /\ LET selected == page.table.selection
     IN /\ \A d \in selected : api.note[d] < MaxNote
        /\ api' = [api EXCEPT !.note =
             [d \in Devices |-> IF d \in selected THEN @[d] + 1 ELSE @[d]]]
        /\ Becomes(Send(State, "notes", [devices |-> selected, isLoad |-> FALSE]))

-----------------------------------------------------------------------------
(* The service.                                                            *)

Serve(i) ==
  /\ IsSent(i)
  /\ LET r == requests[i]
     IN \/ /\ r.kind = "devices" /\ UNCHANGED api
           /\ LET found == {d \in api.present : HostOf(d) = r.arg.host}
              IN Answer(i, [devices |-> Ascending(found),
                            fixed |-> api.fixed \cap found])
        \/ /\ r.kind = "notes" /\ UNCHANGED api
           /\ Answer(i, [d \in {e \in r.arg.devices : api.note[e] > 0} |-> api.note[d]])
        \/ /\ r.kind = "remove" /\ Answer(i, {})
           /\ api' = [api EXCEPT !.present = @ \ {r.arg.device}]
        \/ /\ r.kind = "mark" /\ Answer(i, {})
           /\ api' = [api EXCEPT !.fixed = IF r.arg.isFixed THEN @ \cup {r.arg.device}
                                           ELSE @ \ {r.arg.device}]
  /\ UNCHANGED <<page, browser, spent>>

Next ==
  \/ \E i \in DOMAIN requests : DevicesArrive(i)
  \/ \E i \in DOMAIN requests : requests[i].kind = "notes" /\ NotesArrive(i)
  \/ Refresh
  \/ \E h \in Hosts : SelectHost(h)
  \/ \E k \in DOMAIN page.table.rows : \E shift \in BOOLEAN : SelectRow(k, shift)
  \/ SelectAllRows
  \/ \E direction \in Directions : ChangeSort(direction)
  \/ \E k \in DOMAIN page.table.rows : RemoveDevice(k)
  \/ \E b \in BOOLEAN : Confirm(b)
  \/ \E i \in DOMAIN requests : DeviceRemoved(i)
  \/ \E k \in DOMAIN page.table.rows : ToggleDeviceFixedState(k)
  \/ \E i \in DOMAIN requests : requests[i].kind = "mark" /\ DeviceMarked(i)
  \/ AddNotes
  \/ \E i \in DOMAIN requests : Serve(i)
  \/ \E i \in DOMAIN requests : Fail(i)

-----------------------------------------------------------------------------
(* What must hold.                                                         *)

\* However loads, removals and notes of several hosts overtake each other: the devices
\* a note would be added to are rows of the table, and what the table shows of a sorted
\* list is sorted, each device once.
SelectedDevicesAreShown ==
  /\ page.table.selection \subseteq Range(page.table.rows)
  /\ page.table.view = page.table.selection
  /\ IsInjective(page.table.rows)
  /\ page.table.rows = InDirection(page.table.rows, page.direction)
=============================================================================
