----------------------------- MODULE OfflineHosts -----------------------------
(***************************************************************************)
(* The page that lists the offline hosts of a lab                          *)
(* (hosts/offline_host_list.ts) and the page that assigns them to users    *)
(* (hosts/offline_host_assignments_page.ts), both on                       *)
(* hosts/base_offline_host_list.ts, with the tables of hosts they show     *)
(* (hosts/host_list_table.ts) and the filters of hosts                     *)
(* (hosts/offline_host_filter.ts, shared/time_input_filter.ts).            *)
(***************************************************************************)
EXTENDS HostFilters, MultiSelect, TableRowsSelect, UiPage

CONSTANTS
  Hosts,  \* numbers: the order in which a table sorts them
  Me,     \* the user
  Others  \* the users that the owners of a lab may assign hosts to as well

Nobody == ""
Labs == {Info[h].lab : h \in Hosts}

\* What the constants have to be.
OfflineHostsAssumption ==
  /\ Hosts \subseteq Nat /\ IsFiniteSet(Hosts) /\ Hosts # {}
  /\ \A h \in Hosts : Info[h].offline \subseteq Info[h].targets
  /\ IsFiniteSet(UNION {Info[h].targets : h \in Hosts})
  /\ Nobody \notin Others \cup {Me} /\ Me \notin Others

\* The filters as the address and the local storage hold them.
NoParams == [lab |-> "", groups |-> {}, targets |-> {}, harness |-> "",
             operator |-> "", hours |-> 0]

Row(h) == [host |-> h, assignee |-> api.assignee[h], state |-> api.state[h],
           targets |-> Info[h].targets]
HostsOf(rows) == {r.host : r \in rows}

FreshOfflineHosts(assignments, params) ==
  LET lists == IF assignments THEN {"unassigned", "me", "others"} ELSE {"hosts"}
  IN [assignments   |-> assignments,
      urlParams     |-> params,
      selectedLab   |-> "",
      hostGroups    |-> Picker({}, {}),
      runTargets    |-> Picker({}, {}),
      harnesses     |-> {},
      harness       |-> "",
      operator      |-> AllOptions,
      hours         |-> 0,
      timestamp     |-> 0,
      offlineHosts  |-> {},
      assignedHosts |-> {},
      isLoading     |-> TRUE,
      lists         |-> [l \in lists |-> {}],
      tables        |-> [l \in lists |-> EmptyTable],
      behind        |-> {}]     \* the tables that have not taken over their list

-----------------------------------------------------------------------------
(* The filters.                                                            *)

Filtered(p, rows, isOfflineOnly) ==
  FilterHostListDataSource(rows, p.hostGroups.selected, p.runTargets.selected,
                           p.harness, isOfflineOnly)

OfLab(p) == {r.host : r \in {q \in p.offlineHosts : Info[q.host].lab = p.selectedLab}}
GetHostGroups(p) == {Info[h].group : h \in OfLab(p)}
GetRunTargets(p) == UNION {Info[h].targets : h \in OfLab(p)}
GetTestHarnesses(p) == {Info[h].harness : h \in OfLab(p)}

\* One value: that of the address, the stored one, or a default.
GetDefaultValue(url, stored, options, default) ==
  IF url \in options \cup {AllOptions} THEN url
  ELSE IF stored \in options \cup {AllOptions} THEN stored
  ELSE default

\* Several values: those of the address that are options, else the stored ones.
GetDefaultValues(url, stored, options) ==
  IF AllOptions \in url THEN options
  ELSE IF options \cap url # {} THEN options \cap url
  ELSE IF AllOptions \in stored THEN options
  ELSE IF options \cap stored # {} THEN options \cap stored
  ELSE {AllOptions}

InitGroups(p, url, stored) ==
  Picker(GetHostGroups(p), GetDefaultValues(url.groups, stored.groups, GetHostGroups(p)))
InitTargets(p, url, stored) ==
  Picker(GetRunTargets(p), GetDefaultValues(url.targets, stored.targets, GetRunTargets(p)))

\* The filters of a page opened with these parameters.
InitSelections(p, url, stored) ==
  [p EXCEPT
     !.hostGroups = InitGroups(p, url, stored),
     !.runTargets = InitTargets(p, url, stored),
     !.harnesses = GetTestHarnesses(p),
     !.harness =
       GetDefaultValue(url.harness, stored.harness, GetTestHarnesses(p), AllOptions)]

\* A refresh keeps what is selected and still offered; the value that stands for
\* all options is not offered.
KeepSelections(p) ==
  [p EXCEPT
     !.hostGroups = Picker(GetHostGroups(p), @.selected \cap GetHostGroups(p)),
     !.runTargets = Picker(GetRunTargets(p), @.selected \cap GetRunTargets(p)),
     !.harnesses = GetTestHarnesses(p),
     !.harness = IF @ \in GetTestHarnesses(p) THEN @ ELSE AllOptions]

\* Another lab on the list of offline hosts.
ResetSelections(p) ==
  [KeepSelections(p) EXCEPT
     !.hostGroups = Picker(GetHostGroups(p), {AllOptions}),
     !.runTargets = Picker(GetRunTargets(p), {AllOptions})]

InitLastCheckInSelection(p, url, stored) ==
  LET operator == IF url.operator # "" THEN url.operator
                  ELSE IF stored.operator # "" THEN stored.operator ELSE AllOptions
      hours == IF url.hours # 0 THEN url.hours ELSE stored.hours
  IN [p EXCEPT !.operator = operator, !.hours = hours,
               !.timestamp = IF hours # 0 THEN hours ELSE @]

\* What the address says; all options are one value if as many are selected.
ComposeFilterParams(p) ==
  [lab |-> p.selectedLab,
   groups |-> ConvertedSelection(p.hostGroups, p.hostGroups.selected),
   targets |-> ConvertedSelection(p.runTargets, p.runTargets.selected),
   harness |-> p.harness, operator |-> p.operator, hours |-> p.hours]

\* The local storage holds all options as one value only if they were taken as a
\* default: the two lists are the same object then.
UpdateLocalStorage(s, sameObject) ==
  LET p == s.page
      Stored(picker) == IF sameObject /\ picker.selected = picker.items THEN {AllOptions}
                        ELSE picker.selected
  IN [s EXCEPT !.browser.criteria =
        [ComposeFilterParams(p) EXCEPT !.groups = Stored(p.hostGroups),
                                       !.targets = Stored(p.runTargets)]]

ReplaceState(s) == [s EXCEPT !.browser.url = ComposeFilterParams(s.page)]

FilterHostListsDataSources(s) ==
  LET p == s.page
      hosts == Filtered(p, p.offlineHosts, TRUE)
      assigned == Filtered(p, p.assignedHosts, FALSE)
      Source(l) == CASE l = "hosts" -> hosts
                       [] l = "unassigned" -> {r \in hosts : r.assignee = Nobody}
                       [] l = "me" -> {r \in assigned : r.assignee = Me}
                       [] OTHER -> {r \in assigned : r.assignee \notin {Me, Nobody}}
  IN [s EXCEPT !.page.lists = [l \in DOMAIN @ |-> Source(l)],
               !.page.behind = DOMAIN p.lists]

\* A mutant: another choice of filters does not change the address.
MutReloadHosts(s) == UpdateLocalStorage(FilterHostListsDataSources(s), FALSE)

\* reloadHosts: the list page asks the table to drop what is not shown any more,
\* before the table has the rows that are shown.
ReloadHosts(s) ==
  LET shown == FilterHostListsDataSources(ReplaceState(s))
      told == IF s.page.assignments THEN shown
              ELSE [shown EXCEPT !.page.tables["hosts"] = ResetSelection(@)]
  IN UpdateLocalStorage(told, FALSE)

-----------------------------------------------------------------------------
(* Loading.                                                                *)

GetHosts(s, next) ==
  Send(s, "hosts", [next |-> next, lab |-> s.page.selectedLab,
                    operator |-> s.page.operator, timestamp |-> s.page.timestamp])

\* reload: the page of assignments asks for nothing while something is loading.  The
\* list page overrides how isLoading is set only, and so reads it as undefined there.
Reload(s, next) ==
  IF s.page.assignments /\ s.page.isLoading THEN s
  ELSE GetHosts([s EXCEPT !.page.isLoading = TRUE], next)

Open(s, assignments, params) ==
  LET fresh == FreshOfflineHosts(assignments, params)
  IN Send([s EXCEPT !.page = InitLastCheckInSelection(fresh, params, s.browser.criteria),
                    !.requests = <<>>], "labs", {})

Init ==
  /\ browser = [criteria |-> NoParams, url |-> NoParams]
  /\ \E assignments \in BOOLEAN :
       /\ page = InitLastCheckInSelection(
                   FreshOfflineHosts(assignments, NoParams), NoParams, NoParams)
       /\ requests = <<Request("labs", {})>>
  /\ api = [assignee |-> [h \in Hosts |-> Nobody],
            state |-> [h \in Hosts |-> "UNKNOWN"], offline |-> Hosts]
  /\ spent = 0

LabsArrive(i) ==
  /\ Hears(i, "labs", "ok")
  /\ \E first \in Labs :
       LET lab == GetDefaultValue(page.urlParams.lab, browser.criteria.lab, Labs, first)
       IN Becomes(GetHosts([Heard(i) EXCEPT !.page.selectedLab = lab], "load"))

\* What follows when the hosts of the lab are there.
TakeHosts(s, answer, next) ==
  LET p == [s.page EXCEPT !.offlineHosts = answer.offline,
                          !.assignedHosts = answer.assigned, !.isLoading = FALSE]
      inited == InitSelections(p, p.urlParams, s.browser.criteria)
      timed == IF p.assignments
               THEN InitLastCheckInSelection(inited, p.urlParams, s.browser.criteria)
               ELSE inited
  IN CASE next = "load" ->
            UpdateLocalStorage(
              FilterHostListsDataSources(ReplaceState([s EXCEPT !.page = timed])), TRUE)
       [] next = "lab" ->
            UpdateLocalStorage(FilterHostListsDataSources(
              ReplaceState([s EXCEPT !.page = ResetSelections(p)])), FALSE)
       [] next = "filters" -> ReloadHosts([s EXCEPT !.page = KeepSelections(p)])
       [] OTHER -> ReloadHosts([s EXCEPT !.page = p])

HostsArrive(i) ==
  /\ Hears(i, "hosts", "ok")
  /\ Becomes(TakeHosts(Heard(i), requests[i].answer, requests[i].arg.next))

CallFails(i) ==
  /\ \E kind \in {"labs", "hosts", "recovery"} : Hears(i, kind, "error")
  /\ Becomes([Heard(i) EXCEPT !.page.isLoading = @ /\ requests[i].kind = "recovery"])

-----------------------------------------------------------------------------
(* What the user does.                                                     *)

\* While the page opens there is nothing to choose from.
Opened == page.selectedLab # ""

\* The list page resets the filters, the other keeps them.
SelectLab(lab) ==
  /\ Opened /\ lab \in Labs \ {page.selectedLab} /\ Calling
  /\ Becomes(Reload([State EXCEPT !.page.selectedLab = lab],
                    IF page.assignments THEN "filters" ELSE "lab"))
  /\ UNCHANGED api

Chooses(p) == Spend /\ Becomes(ReloadHosts([State EXCEPT !.page = p])) /\ UNCHANGED api

SelectRunTargets ==
  /\ Opened
  /\ \/ \E v \in page.runTargets.shown :
          Chooses([page EXCEPT !.runTargets = ToggleOption(@, v)])
     \/ \E all \in BOOLEAN :
          Chooses([page EXCEPT !.runTargets = ToggleAllSelected(@, all)])
     \/ /\ page.runTargets.shown # page.runTargets.items
        /\ Chooses([page EXCEPT !.runTargets = ToggleFilteredSelection(@)])

FilterRunTargets(text) ==
  /\ Opened /\ text \in SUBSET page.runTargets.items \ {{}} /\ Spend
  /\ Shows([page EXCEPT !.runTargets = DoFilter(@, text)])

SetHostGroups(group) ==
  /\ Opened /\ group \in page.hostGroups.items
  /\ Chooses([page EXCEPT !.hostGroups = ToggleOption(@, group)])

SelectTestHarness(harness) ==
  /\ Opened /\ harness \in (page.harnesses \cup {AllOptions}) \ {page.harness}
  /\ Chooses([page EXCEPT !.harness = harness])

\* The time filter: hours are needed for an operator, and kept without one.
SetLastCheckInTime(operator, hours) ==
  /\ Opened /\ operator # page.operator
  /\ operator # AllOptions => hours > 0
  /\ Calling
  /\ LET timed == IF operator = AllOptions THEN page
                  ELSE [page EXCEPT !.hours = hours, !.timestamp = hours]
     IN Becomes(Reload([State EXCEPT !.page = [timed EXCEPT !.operator = operator]],
                       "hosts"))
  /\ UNCHANGED api

Refresh == Opened /\ Calling /\ Becomes(Reload(State, "filters")) /\ UNCHANGED api

-----------------------------------------------------------------------------
(* The tables of hosts.                                                    *)

\* A mutant: the table takes the rows and keeps its selection.
MutTableTakesRows(l) ==
  /\ l \in page.behind
  /\ Shows([page EXCEPT !.behind = @ \ {l},
                        !.tables[l].rows = Ascending(HostsOf(page.lists[l]))])
  /\ UNCHANGED spent

\* ngOnChanges: after the list changed, by a timer.
TableTakesRows(l) ==
  /\ l \in page.behind
  /\ LET rows == Ascending(HostsOf(page.lists[l]))
     IN Shows([page EXCEPT !.behind = @ \ {l},
                           !.tables[l] = ResetSelection([@ EXCEPT !.rows = rows])])
  /\ UNCHANGED spent

SelectRow(l, index, shift) ==
  /\ page.behind = {} /\ index \in DOMAIN page.tables[l].rows
  /\ shift => page.tables[l].prevClicked > 0
  /\ Spend /\ Shows([page EXCEPT !.tables[l] = ClickRow(@, index, shift)])

SelectAllRows(l) ==
  /\ page.behind = {} /\ page.lists[l] # {}
  /\ Spend /\ Shows([page EXCEPT !.tables[l] = ToggleAllSelection(@)])

\* A sort turns the rows round and forgets the row clicked last.
TurnedRound(table) == ResetPrevClickedRowIndex([table EXCEPT !.rows = Reversed(@)])

SortRows(l) ==
  /\ page.behind = {} /\ Len(page.tables[l].rows) > 1 /\ Spend
  /\ Shows([page EXCEPT !.tables[l] = TurnedRound(@)])

\* The rows of the table, selected to be assigned, verified or recovered.
Chosen(l) == page.tables[l].selection

SetRecoveryStates(hosts, state, assignee, next) ==
  Send(State, "recovery",
       [hosts |-> hosts, state |-> state, assignee |-> assignee, next |-> next])

\* The list page: the hosts selected become the user's, then the recovery page
\* is opened with the filters.
StartRecovering ==
  /\ ~ page.assignments /\ Opened /\ Calling
  /\ Becomes(IF Chosen("hosts") = {} THEN Open(State, FALSE, ComposeFilterParams(page))
             ELSE SetRecoveryStates(Chosen("hosts"), "ASSIGNED", Me, "recovery page"))
  /\ UNCHANGED api

AssignHostsTo(l, user) ==
  /\ page.assignments /\ Chosen(l) # {} /\ Calling
  /\ Becomes(SetRecoveryStates(Chosen(l), "ASSIGNED", user, "refresh"))
  /\ UNCHANGED api

MarkHostsAsVerified ==
  /\ page.assignments /\ Chosen("me") # {} /\ Calling
  /\ Becomes(SetRecoveryStates(Chosen("me"), "VERIFIED", Nobody, "remove"))
  /\ UNCHANGED api

\* Only the list of the unassigned hosts is refreshed after this.
ToggleHostFixedState(row, next) ==
  /\ page.assignments /\ Calling
  /\ Becomes(SetRecoveryStates({row.host},
               IF row.state = "FIXED" THEN "ASSIGNED" ELSE "FIXED", Me, next))
  /\ UNCHANGED api

\* The hosts that are selected now leave the list of the user.
RemoveSelectedHosts(s) ==
  [s EXCEPT !.page.lists["me"] = {r \in @ : r.host \notin Chosen("me")},
            !.page.tables["me"] = ResetSelection(@),
            !.page.behind = @ \cup {"me"}]

CommandDone(i) ==
  /\ Hears(i, "recovery", "ok")
  /\ \/ /\ requests[i].arg.next = "refresh"
        /\ Becomes(Reload(Heard(i), "filters"))
     \/ /\ requests[i].arg.next = "remove"
        /\ Becomes(RemoveSelectedHosts(Heard(i)))
     \/ /\ requests[i].arg.next = "recovery page"
        /\ Becomes(Open(Heard(i), FALSE, ComposeFilterParams(page)))
     \/ /\ requests[i].arg.next = "nothing"
        /\ Becomes(Heard(i))

-----------------------------------------------------------------------------
(* The TFC API.                                                            *)

InTime(h, arg) ==
  \/ arg.operator = AllOptions \/ arg.timestamp = 0
  \/ arg.operator = "Within" /\ Info[h].recent
  \/ arg.operator = "Greater than" /\ ~ Info[h].recent

Found(arg) == {h \in Hosts : Info[h].lab = arg.lab /\ InTime(h, arg)}

\* The two queries of the page of assignments are served one after the other.
Serve(i) ==
  LET arg == requests[i].arg
      offline == {Row(h) : h \in Found(arg) \cap api.offline}
      assigned == {Row(h) : h \in {g \in Found(arg) : api.state[g] \in {"ASSIGNED", "FIXED"}}}
  IN /\ \/ /\ requests[i].kind = "labs" /\ IsSent(i)
           /\ Answer(i, {}) /\ UNCHANGED api
        \/ /\ requests[i].kind = "hosts" /\ IsSent(i) /\ ~ page.assignments
           /\ Answer(i, [offline |-> offline, assigned |-> {}]) /\ UNCHANGED api
        \/ /\ requests[i].kind = "hosts" /\ IsSent(i) /\ page.assignments
           /\ requests' = [requests EXCEPT ![i].status = "half", ![i].answer = offline]
           /\ UNCHANGED api
        \/ /\ requests[i].status = "half"
           /\ Answer(i, [offline |-> requests[i].answer, assigned |-> assigned])
           /\ UNCHANGED api
        \/ /\ requests[i].kind = "recovery" /\ IsSent(i)
           /\ Answer(i, {})
           /\ api' = [api EXCEPT
                !.assignee = [h \in Hosts |-> IF h \in arg.hosts THEN arg.assignee ELSE @[h]],
                !.state = [h \in Hosts |-> IF h \in arg.hosts THEN arg.state ELSE @[h]]]
     /\ UNCHANGED <<page, browser, spent>>

HostComesBack(h) ==
  /\ h \in api.offline /\ Spend
  /\ api' = [api EXCEPT !.offline = @ \ {h}]
  /\ UNCHANGED <<page, browser, requests>>

Reopen(assignments) ==
  Spend /\ Becomes(Open(State, assignments, browser.url)) /\ UNCHANGED api

Lists == DOMAIN page.lists
RowsOf(l) == IF l \in Lists THEN page.lists[l] ELSE {}

Next ==
  \/ \E i \in DOMAIN requests : LabsArrive(i)
  \/ \E i \in DOMAIN requests : HostsArrive(i)
  \/ \E i \in DOMAIN requests : CallFails(i)
  \/ \E i \in DOMAIN requests : CommandDone(i)
  \/ \E i \in DOMAIN requests : Serve(i)
  \/ \E i \in DOMAIN requests : Fail(i)
  \/ \E lab \in Labs : SelectLab(lab)
  \/ SelectRunTargets
  \/ \E v \in page.runTargets.items : FilterRunTargets({v})
  \/ \E g \in page.hostGroups.items : SetHostGroups(g)
  \/ \E t \in page.harnesses \cup {AllOptions} : SelectTestHarness(t)
  \/ \E operator \in {AllOptions, "Within", "Greater than"} : SetLastCheckInTime(operator, 1)
  \/ Refresh
  \/ \E l \in Lists : TableTakesRows(l)
  \/ \E l \in Lists, k \in 1 .. Cardinality(Hosts), b \in BOOLEAN : SelectRow(l, k, b)
  \/ \E l \in Lists : SelectAllRows(l)
  \/ \E l \in Lists : SortRows(l)
  \/ StartRecovering
  \/ \E l \in Lists, user \in Others \cup {Me} : AssignHostsTo(l, user)
  \/ MarkHostsAsVerified
  \/ \E row \in RowsOf("unassigned") : ToggleHostFixedState(row, "refresh")
  \/ \E row \in RowsOf("me") : ToggleHostFixedState(row, "nothing")
  \/ \E h \in Hosts : HostComesBack(h)
  \/ \E assignments \in BOOLEAN : Reopen(assignments)

-----------------------------------------------------------------------------
(* What must hold.                                                         *)

\* What is selected, to be assigned or verified, is in the list it was selected
\* in, whatever was loaded and filtered since.
TablesSelectShownHosts ==
  \A l \in DOMAIN page.lists \ page.behind :
    page.tables[l].selection \subseteq HostsOf(page.lists[l])

\* The page opened from the address, with those of the loaded hosts that are of its lab.
Reopened ==
  LET opened == [page EXCEPT
        !.selectedLab = browser.url.lab,
        !.offlineHosts = {r \in @ : Info[r.host].lab = browser.url.lab}]
  IN InitSelections(opened, browser.url, browser.criteria)

\* Not so after another time was chosen, which loads hosts under the options of those
\* before, nor after loads of two labs were answered in another order.
FiltersAreThoseOf(p) ==
  /\ page.offlineHosts = p.offlineHosts
  /\ page.hostGroups.items = p.hostGroups.items
  /\ page.runTargets.items = p.runTargets.items
  /\ page.harnesses = p.harnesses

\* The rows a page shows whose hosts have offline devices.
ShownWithOfflineDevices(p) ==
  {r \in Filtered(p, p.offlineHosts, TRUE) : Info[r.host].offline # {}}

\* The address, which abbreviates the groups and run targets, chooses all hosts of its
\* lab that the page shows with offline devices, even under old options; and no others
\* if the options are those of the hosts.  (All run targets are read as a list of them,
\* which leaves out a host that is offline without such a device.)
AddressChoosesTheSameHosts ==
  LET reopened == Reopened
      shown == ShownWithOfflineDevices(page)
      shownAgain == ShownWithOfflineDevices(reopened)
  IN page.harness # "" =>
       /\ {h \in HostsOf(shown) : Info[h].lab = browser.url.lab} \subseteq HostsOf(shownAgain)
       /\ FiltersAreThoseOf(reopened) => shownAgain = shown

Spec == Init /\ [][Next]_vars
=============================================================================
