----------------------------- MODULE DeviceList -----------------------------
(***************************************************************************)
(* The page that lists the devices of a lab (devices/device_list.ts): a    *)
(* filter bar, a table of one page of devices whose rows can be selected,  *)
(* a paginator, and the answers of the TFC API, which arrive in any order  *)
(* and late, while the user and a timer go on.                             *)
(*                                                                         *)
(* list is the component, browser what outlives it in the browser, and     *)
(* requests the calls that are not answered or whose answer has not been   *)
(* handled.  Handlers call one another, so that each is an operator on the *)
(* state of these three.                                                   *)
(***************************************************************************)
EXTENDS FilterBar, PagedList, TableRowsSelect, TLC

CONSTANTS
  N,               \* the devices are 1 .. N
  AttributeOf,     \* the value of a column for a device
  LabOf,           \* the lab of a device
  PageSizes,
  DefaultPageSize,
  NotesBatch,      \* how many devices one query for notes names
  Apps,            \* the instances: a lab or not, with or without validation
  MaxRequests,     \* bound on the calls under way when the user makes another
  MaxSteps         \* bound on what the user, the timer, others and faults do

Serials == 1 .. N
AllLabs == "All"
Labs == {LabOf[d] : d \in Serials}
Hints == Columns \cup {"Lab"}
Attributes(column) == {AttributeOf[column][d] : d \in Serials}

ASSUME DeviceListAssumption ==
  /\ N \in Nat \ {0}
  /\ DefaultPageSize \in PageSizes /\ 3 \notin PageSizes /\ PageSizes \subseteq Nat \ {0}
  /\ NotesBatch \in Nat \ {0}
  /\ Apps \subseteq [isAtsLabInstance : BOOLEAN, validation : BOOLEAN]

VARIABLES
  list,      \* the component
  browser,   \* sessionStorage, localStorage and the address of the page
  requests,  \* the calls to the TFC API under way
  server,    \* the devices, their notes and their recovery states
  app,       \* the kind of the instance, and whether the selection is validated
  spent      \* how many of the bounded steps were taken

vars == <<list, browser, requests, server, app, spent>>

State == [list |-> list, browser |-> browser, requests |-> requests]

NoCriteria == [filters |-> [c \in FilterColumns |-> {}], lab |-> ""]
NoUrl == [criteria |-> NoCriteria, token |-> NoToken, size |-> DefaultPageSize,
          empty |-> TRUE]
OddUrl == [NoUrl EXCEPT !.size = 3, !.empty = FALSE]   \* a size that is not offered
NoKey == <<>>

FreshList(url) ==
  [bar           |-> InitFilterbarRoots,
   rows          |-> <<>>,
   prevPageToken |-> NoToken,
   nextPageToken |-> NoToken,
   isLoading     |-> FALSE,
   paginator     |-> Paginator(DefaultPageSize),
   table         |-> EmptyTable,
   selected      |-> {},
   lab           |-> "",
   key           |-> NoKey,
   url           |-> url,        \* the parameters the router opened the page with
   hints         |-> Hints]      \* the hints not answered yet

\* An instance that is not a lab refreshes its list and does not cache notes.
LabInstance == app.isAtsLabInstance
AutoUpdate == ~ LabInstance

GetSearchCriteria(s) ==
  [filters |-> SearchCriteria(s.list.bar), lab |-> s.list.lab]

Matching(criteria, api) ==
  {d \in api.present :
     /\ criteria.lab \in {"", AllLabs, LabOf[d]}
     /\ \A c \in FilterColumns : \/ criteria.filters[c] = {}
                                 \/ AttributeOf[c][d] \in criteria.filters[c]}

SerialsOf(rows) == [i \in DOMAIN rows |-> rows[i].serial]

\* What the API answers to a query, or nothing to a command.
AnswerOf(kind, arg, api) ==
  CASE kind = "page" ->
         LET page == QueryPage(Matching(arg.criteria, api), arg.query)
             Row(d) == [serial |-> d, note |-> 0, fixed |-> api.fixed[d]]
         IN [rows |-> [i \in DOMAIN page.items |-> Row(page.items[i])],
             prevToken |-> page.prevToken, nextToken |-> page.nextToken]
    [] kind = "notes" -> [d \in Range(arg) \cap api.present |-> api.note[d]]
    [] kind = "validate" -> arg \cap api.present
    [] OTHER -> {}

Request(kind, arg, api) ==
  [kind |-> kind, arg |-> arg, answer |-> AnswerOf(kind, arg, api), done |-> FALSE]

Send(s, kind, arg) == [s EXCEPT !.requests = Append(@, Request(kind, arg, server))]

\* One query for each NotesBatch devices; none if there are no devices.
BatchGetDevicesLatestNotes(s, serials, api) ==
  LET Rest(k) == SubSeq(serials, (k - 1) * NotesBatch + 1, Len(serials))
  IN [s EXCEPT !.requests = @ \o
        [k \in 1 .. (Len(serials) + NotesBatch - 1) \div NotesBatch |->
           Request("notes", First(Rest(k), NotesBatch), api)]]

GetDeviceNotes(s) == BatchGetDevicesLatestNotes(s, SerialsOf(s.list.rows), server)

SetSessionStorageKey(s) ==
  [s EXCEPT !.list.key =
     <<GetSearchCriteria(s), s.list.paginator.pageSize, s.list.paginator.pageIndex>>]

Page(s) == [rows |-> s.list.rows, prevToken |-> s.list.prevPageToken,
            nextToken |-> s.list.nextPageToken]

Store(s, page) == [s EXCEPT !.browser.session = Cached(@, s.list.key, page)]
IsStored(s) == s.list.key \in DOMAIN s.browser.session
Stored(s) == s.browser.session[s.list.key]

\* What is not chosen any more stays as the router opened the page with it.
PatchQueryParams(s) ==
  LET criteria == GetSearchCriteria(s)
      Merged(c) == IF c \notin Columns THEN {}
                   ELSE IF criteria.filters[c] # {} THEN criteria.filters[c]
                   ELSE s.list.url.criteria.filters[c]
  IN [s EXCEPT !.browser.url =
        [criteria |-> [filters |-> [c \in FilterColumns |-> Merged(c)],
                       lab |-> IF criteria.lab # "" THEN criteria.lab
                               ELSE s.list.url.criteria.lab],
         token    |-> IF s.list.prevPageToken # NoToken THEN s.list.prevPageToken
                      ELSE s.list.url.token,
         size     |-> IF s.list.paginator.pageSize # DefaultPageSize
                      THEN s.list.paginator.pageSize ELSE s.list.url.size,
         empty    |-> FALSE]]

\* A mutant: only the button that goes on is refreshed.
MutRefreshPaginator(s) ==
  LET patched == PatchQueryParams([s EXCEPT
        !.list.paginator.hasNext = s.list.nextPageToken # NoToken])
  IN [patched EXCEPT !.browser.criteria = GetSearchCriteria(s),
                     !.browser.lab = s.list.lab]

RefreshPaginator(s) ==
  LET patched == PatchQueryParams([s EXCEPT !.list.paginator =
                   SetTokens(@, s.list.prevPageToken, s.list.nextPageToken)])
  IN [patched EXCEPT !.browser.criteria = GetSearchCriteria(s),
                     !.browser.lab = s.list.lab]

\* A call that marks a device keeps the row it was made for; new rows are
\* other objects.
Detach(s) ==
  [s EXCEPT !.requests = [i \in DOMAIN @ |->
     IF @[i].kind = "fixed" THEN [@[i] EXCEPT !.arg.attached = FALSE] ELSE @[i]]]

\* A mutant: the selection made on other pages is not shown again.
MutShowTable(s) ==
  [s EXCEPT !.list.table = ResetPrevClickedRowIndex(
     ClearSelection([@ EXCEPT !.rows = SerialsOf(s.list.rows)]))]

ShowTable(s) ==
  LET rows == [s.list.table EXCEPT !.rows = SerialsOf(s.list.rows)]
      table == ResetPrevClickedRowIndex(
                 SelectSelection(ClearSelection(rows), s.list.selected))
  IN [s EXCEPT !.list.table = table, !.list.selected = table.view]

\* A mutant: a cached page keeps the token of the page before it.
MutAfterDataloaded(s, page, fromStorage) ==
  LET loaded == [Detach(s) EXCEPT !.list.rows = page.rows,
                                  !.list.prevPageToken =
                                    IF fromStorage THEN @ ELSE page.prevToken,
                                  !.list.nextPageToken = page.nextToken,
                                  !.list.isLoading = FALSE,
                                  !.list.bar.filterChanged = FALSE]
      shown == ShowTable(RefreshPaginator(loaded))
  IN IF fromStorage THEN shown ELSE Store(shown, page)

AfterDataloaded(s, page, fromStorage) ==
  LET loaded == [Detach(s) EXCEPT !.list.rows = page.rows,
                                  !.list.prevPageToken = page.prevToken,
                                  !.list.nextPageToken = page.nextToken,
                                  !.list.isLoading = FALSE,
                                  !.list.bar.filterChanged = FALSE]
      shown == ShowTable(RefreshPaginator(loaded))
  IN IF fromStorage THEN shown ELSE Store(shown, page)

GetPageToken(s, diff, force) ==
  IF force \/ diff = -1 THEN s.list.prevPageToken
  ELSE IF diff = 1 THEN s.list.nextPageToken
  ELSE NoToken

QueryDeviceInfos(s, token, backwards) ==
  Send(s, "page", [criteria |-> GetSearchCriteria(s),
                   query    |-> PageQuery(s.list.paginator.pageSize, token, backwards)])

Load(s, diff, force) ==
  LET reset == [s EXCEPT !.list.isLoading = TRUE,
                         !.list.bar = ResetSearchSteps(@),
                         !.list.paginator = IF diff = 0 THEN ResetPageIndex(@) ELSE @]
      patched == PatchQueryParams(SetSessionStorageKey(reset))
  IN IF IsStored(patched) /\ ~ force
     THEN AfterDataloaded(patched, Stored(patched), TRUE)
     ELSE QueryDeviceInfos(patched, GetPageToken(s, diff, force), diff = -1)

SetDeviceNotes(s, notes) ==
  LET Noted(row) == IF row.serial \in DOMAIN notes
                    THEN [row EXCEPT !.note = notes[row.serial]] ELSE row
      noted == [s EXCEPT !.list.rows = [i \in DOMAIN @ |-> Noted(@[i])]]
  IN IF noted.list.key # NoKey /\ LabInstance THEN Store(noted, Page(noted)) ELSE noted

-----------------------------------------------------------------------------
(* The first load, when the last hint is answered.                         *)

\* The parameters of the address, or what was stored if there are none.
StartValues(s, column) ==
  LET fromUrl == s.list.url.criteria.filters[column]
  IN IF fromUrl # {} \/ (column \in Columns /\ ~ s.list.url.empty) THEN fromUrl
     ELSE s.browser.criteria.filters[column]

SetFilterHintSelectedValues(s) ==
  [s EXCEPT !.list.bar =
     SetFilterOptionsSelected(@, [c \in Columns |-> StartValues(s, c)])]

LoadNonFilterHintTypeCriteria(s) ==
  LET typed == {c \in InputColumns : StartValues(s, c) # {}}
  IN [s EXCEPT !.list.bar = AddNewFilterOptions(@,
        [c \in typed |-> CHOOSE v \in StartValues(s, c) : TRUE])]

\* The lab of the address, if it is one, else the one stored, else all.
SelectLab(s) ==
  LET Known(lab) == lab \in Labs \cup {AllLabs}
      fromUrl == s.list.url.criteria.lab
  IN [s EXCEPT !.list.lab = IF Known(fromUrl) THEN fromUrl
                            ELSE IF Known(s.browser.lab) THEN s.browser.lab
                            ELSE AllLabs]

\* A mutant: any size in the address is taken.
MutStartSize(s) == s.list.url.size

\* A size that is not offered is not taken.
StartSize(s) ==
  IF s.list.url.size \in PageSizes THEN s.list.url.size ELSE DefaultPageSize

UpdatePaginatorParamsAndLoad(s) ==
  LET start == [SelectLab(s) EXCEPT !.list.prevPageToken = NoToken,
                                    !.list.nextPageToken = s.list.url.token,
                                    !.list.paginator.pageSize = StartSize(s)]
      keyed == SetSessionStorageKey(
                 LoadNonFilterHintTypeCriteria(SetFilterHintSelectedValues(start)))
  IN IF IsStored(keyed)
     THEN GetDeviceNotes(AfterDataloaded(keyed, Stored(keyed), FALSE))
     ELSE QueryDeviceInfos([keyed EXCEPT !.list.isLoading = TRUE],
                           s.list.url.token, FALSE)

\* The options of the hints that are in the local storage are shown at once.
WithCachedHints(s) ==
  [s EXCEPT !.list.bar.options = @ \cup
     UNION {CreateFilterOptions(Attributes(c), c, TRUE) : c \in s.browser.hints}]

Open(s, url) ==
  LET start == [s EXCEPT !.list = FreshList(url), !.requests = <<>>]
      rooted == WithCachedHints(start)
  IN [rooted EXCEPT !.list.bar = FilterSearchOptions(@, Everything(@), NoColumn)]

Init ==
  /\ browser = [session |-> <<>>, criteria |-> NoCriteria, lab |-> "", hints |-> {},
                url |-> NoUrl]
  /\ requests = <<>>
  /\ list = Open([list |-> FreshList(NoUrl), browser |-> browser, requests |-> <<>>],
                 NoUrl).list
  /\ server = [present |-> Serials, note |-> [d \in Serials |-> 0],
               fixed |-> [d \in Serials |-> FALSE]]
  /\ app \in Apps
  /\ spent = 0

-----------------------------------------------------------------------------
Becomes(s) ==
  /\ list' = s.list /\ browser' = s.browser /\ requests' = s.requests
  /\ UNCHANGED app

Spend == spent < MaxSteps /\ spent' = spent + 1

Calling == Spend /\ Len(requests) < MaxRequests

\* A filter hint is answered.  The last one starts the list.
HintArrives(hint) ==
  LET heard == [State EXCEPT !.list.hints = @ \ {hint}]
      synced == [heard EXCEPT
        !.list.bar = UpdateFilterOptions(@,
           CreateFilterOptions(Attributes(hint), hint, TRUE), hint),
        !.browser.hints = @ \cup {hint}]
      next == IF hint = "Lab" THEN heard ELSE synced
  IN /\ hint \in list.hints
     /\ Becomes(IF next.list.hints # {} THEN next
                ELSE UpdatePaginatorParamsAndLoad(next))
     /\ UNCHANGED <<server, spent>>

\* A mask covers the table and the paginator while the list is loading.
Unmasked == ~ list.isLoading

ClickNext ==
  /\ Unmasked /\ list.paginator.hasNext /\ Calling
  /\ Becomes(Load([State EXCEPT !.list.paginator = NextPage(@)], 1, FALSE))
  /\ UNCHANGED server

ClickPrevious ==
  /\ Unmasked /\ list.paginator.hasPrevious /\ Calling
  /\ Becomes(Load([State EXCEPT !.list.paginator = PreviousPage(@)], -1, FALSE))
  /\ UNCHANGED server

\* resetPageTokenAndReload
ClickPageSize(size) ==
  /\ Unmasked /\ size # list.paginator.pageSize /\ Calling
  /\ Becomes(Load([State EXCEPT !.list.paginator = ChangePageSize(@, size),
                                !.list.prevPageToken = NoToken,
                                !.list.nextPageToken = NoToken], 0, FALSE))
  /\ UNCHANGED server

ClickRefresh ==
  Calling /\ Becomes(Load(State, 0, TRUE)) /\ UNCHANGED server

\* Every thirty seconds, from the moment the page is opened.
TimerFires ==
  AutoUpdate /\ Calling /\ Becomes(Load(State, 0, TRUE)) /\ UNCHANGED server

SelectLabOption(lab) ==
  /\ "Lab" \notin list.hints /\ lab # list.lab /\ Calling
  /\ Becomes(Load([State EXCEPT !.list.lab = lab], 0, FALSE))
  /\ UNCHANGED server

-----------------------------------------------------------------------------
(* The filter bar.                                                         *)

InBar(bar) == Becomes([State EXCEPT !.list.bar = bar]) /\ UNCHANGED server

\* toggleSelection and dispatchHandler: a column is opened, a value is toggled.
ToggleSelection(option) ==
  /\ option \in VisibleOptions(list.bar) /\ Spend
  /\ InBar(IF option.type = Root THEN DisplayLeafFilterOptions(list.bar, option.value)
           ELSE ToggleFilterOption(list.bar, option.type, option.value))

ToggleSelectAll ==
  /\ list.bar.selectedColumn \in Columns /\ Spend
  /\ InBar(ToggleAll(list.bar))

BackToRoot ==
  /\ list.bar.selectedColumn # NoColumn /\ Spend
  /\ InBar(DisplayRootFilterOptions([list.bar EXCEPT !.selectedColumn = NoColumn]))

AddInputOption(value) ==
  /\ list.bar.selectedColumn \in InputColumns /\ Spend
  /\ InBar(AddNewFilterOption(list.bar, value, list.bar.selectedColumn))

\* The value control: what is typed hides the options that do not contain it.
TypeText(text) ==
  /\ text \subseteq ValuesOf(list.bar, IF list.bar.selectedColumn = NoColumn THEN Root
                                      ELSE list.bar.selectedColumn)
  /\ Spend /\ InBar(FilterSearchOptions(list.bar, text, list.bar.selectedColumn))

CloseOn(s) ==
  LET closed == [s EXCEPT !.list.bar = ResetSearchSteps(@)]
  IN IF closed.list.bar.filterChanged THEN Load(closed, 0, FALSE) ELSE closed

RenderSelectedOptionsAndResetFilterbar ==
  /\ list.bar.filterChanged \/ list.bar.selectedColumn # NoColumn
  /\ Calling /\ Becomes(CloseOn(State))
  /\ UNCHANGED server

ResetFilters ==
  /\ HasFilter(list.bar) /\ Calling
  /\ Becomes(CloseOn([State EXCEPT !.list.bar =
               [ResetFilterOptions(@) EXCEPT !.filterChanged = TRUE]]))
  /\ UNCHANGED server

\* submit: the text names a column and what is typed for it, one value or none.
SubmitText(column, values) ==
  /\ Calling
  /\ values # GetSearchCriteria(State).filters[column]
  /\ Becomes(Load([State EXCEPT !.list.bar = ParseColumn(@, column, values)], 0, FALSE))
  /\ UNCHANGED server

-----------------------------------------------------------------------------
(* The rows.                                                               *)

\* The table emits its selection, which becomes that of the component.
Selecting(table) ==
  /\ Spend
  /\ Becomes([State EXCEPT !.list.table = table, !.list.selected = table.view])
  /\ UNCHANGED server

SelectRow(index, shift) ==
  /\ Unmasked /\ index \in DOMAIN list.table.rows
  /\ shift => list.table.prevClicked > 0
  /\ Selecting(ClickRow(list.table, index, shift))

SelectAllRows == Unmasked /\ Selecting(ToggleAllSelection(list.table))

ValidateSelection(s) ==
  IF s.list.selected = {} THEN s ELSE Send(s, "validate", s.list.selected)

\* The page around the list gives it another selection.
InitialSelectionChanges(ids) ==
  /\ ids # list.selected /\ Calling
  /\ LET table == SelectSelection(ClearSelection(list.table), ids)
         given == [State EXCEPT !.list.table = table, !.list.selected = table.view]
     IN Becomes(IF app.validation THEN ValidateSelection(given) ELSE given)
  /\ UNCHANGED server

RemoveDevice(d) ==
  /\ Unmasked /\ d \in Range(list.table.rows) /\ Calling
  /\ Becomes(Send(State, "remove", d))
  /\ UNCHANGED server

ToggleDeviceFixedState(i) ==
  /\ Unmasked /\ i \in DOMAIN list.rows /\ Calling
  /\ Becomes(Send(State, "fixed", [serial |-> list.rows[i].serial,
                                   to |-> ~ list.rows[i].fixed, attached |-> TRUE]))
  /\ UNCHANGED server

\* The dialog that adds notes is closed.  The query for the notes takes the
\* serials out of the list it is given, which is that of the selection.
LoadDeviceNotes ==
  /\ LabInstance /\ list.selected # {} /\ Calling
  /\ server' = [server EXCEPT !.note = [d \in Serials |->
                  IF d \in list.selected THEN @[d] + 1 ELSE @[d]]]
  /\ Becomes([BatchGetDevicesLatestNotes(State, Ascending(list.selected), server')
                EXCEPT !.list.selected = {}, !.list.table.view = {}])

-----------------------------------------------------------------------------
(* The TFC API, and what its answers do.  A call that fails only shows a   *)
(* message: the list goes on as if it were never answered.                 *)

Effect(kind, arg) ==
  IF kind = "remove" THEN [server EXCEPT !.present = @ \ {arg}]
  ELSE [server EXCEPT !.fixed[arg.serial] = arg.to]

\* A command takes effect; its answer is on the way.
Perform(i) ==
  /\ requests[i].kind \in {"remove", "fixed"} /\ ~ requests[i].done
  /\ requests' = [requests EXCEPT ![i].done = TRUE]
  /\ server' = Effect(requests[i].kind, requests[i].arg)
  /\ UNCHANGED <<list, browser, app, spent>>

Heard(i) == [State EXCEPT !.requests = RemoveAt(@, i)]

Deliver(i, kind) ==
  /\ i \in DOMAIN requests /\ requests[i].kind = kind
  /\ kind \in {"remove", "fixed"} => requests[i].done
  /\ UNCHANGED <<server, spent>>

\* A query saw the devices as they were when it was made or as they are now.
Answers(i) ==
  {requests[i].answer, AnswerOf(requests[i].kind, requests[i].arg, server)}

PageArrives(i) ==
  /\ Deliver(i, "page")
  /\ \E page \in Answers(i) :
       Becomes(GetDeviceNotes(AfterDataloaded(Heard(i), page, FALSE)))

NotesArrive(i) ==
  /\ Deliver(i, "notes")
  /\ \E notes \in Answers(i) : Becomes(SetDeviceNotes(Heard(i), notes))

DeviceRemoved(i) ==
  /\ Deliver(i, "remove")
  /\ LET places == {j \in DOMAIN list.rows : list.rows[j].serial = requests[i].arg}
     IN Becomes(Load([Heard(i) EXCEPT !.list.rows = WithoutRow(@, places)], 0, TRUE))

DeviceMarked(i) ==
  /\ Deliver(i, "fixed")
  /\ LET mark == requests[i].arg
     IN Becomes(IF ~ mark.attached THEN Heard(i)
                ELSE [Heard(i) EXCEPT !.list.rows = [j \in DOMAIN @ |->
                        IF @[j].serial = mark.serial
                        THEN [@[j] EXCEPT !.fixed = mark.to] ELSE @[j]]])

\* The serials that are still selected and were not found are dropped, but the
\* table is told only if the last of those asked for was one of them.
SelectionValidated(i) ==
  /\ Deliver(i, "validate")
  /\ \E found \in Answers(i) :
       LET unknown == requests[i].arg \ found
           kept == list.selected \ unknown
           last == CHOOSE d \in requests[i].arg : \A e \in requests[i].arg : e <= d
           told == SelectSelection(ClearSelection(list.table), kept)
       IN Becomes([Heard(i) EXCEPT
            !.list.selected = kept,
            !.list.table = IF last \in unknown \cap list.selected THEN told
                           ELSE [@ EXCEPT !.view = kept]])

\* Others remove a device.
OthersRemove(d) ==
  /\ d \in server.present /\ Spend
  /\ server' = [server EXCEPT !.present = @ \ {d}]
  /\ UNCHANGED <<list, browser, app, requests>>

\* The user leaves the page and comes back, by a link or to its address.
Reopen(url) ==
  /\ Spend
  /\ Becomes(Open(State, url))
  /\ UNCHANGED server

Next ==
  \/ \E hint \in Hints : HintArrives(hint)
  \/ ClickNext
  \/ ClickPrevious
  \/ \E size \in PageSizes : ClickPageSize(size)
  \/ ClickRefresh
  \/ TimerFires
  \/ \E lab \in Labs \cup {AllLabs} : SelectLabOption(lab)
  \/ \E option \in list.bar.options : ToggleSelection(option)
  \/ ToggleSelectAll
  \/ BackToRoot
  \/ \E c \in InputColumns : \E value \in Attributes(c) : AddInputOption(value)
  \/ \E value \in Everything(list.bar) : TypeText({value})
  \/ RenderSelectedOptionsAndResetFilterbar
  \/ ResetFilters
  \/ \E c \in FilterColumns : SubmitText(c, {})
  \/ \E c \in FilterColumns : \E v \in Attributes(c) : SubmitText(c, {v})
  \/ \E i \in 1 .. N, shift \in BOOLEAN : SelectRow(i, shift)
  \/ SelectAllRows
  \/ \E ids \in {{}, Serials} : InitialSelectionChanges(ids)
  \/ \E d \in Serials : RemoveDevice(d)
  \/ \E i \in 1 .. N : ToggleDeviceFixedState(i)
  \/ LoadDeviceNotes
  \/ \E i \in DOMAIN requests : Perform(i)
  \/ \E i \in DOMAIN requests : PageArrives(i)
  \/ \E i \in DOMAIN requests : NotesArrive(i)
  \/ \E i \in DOMAIN requests : DeviceRemoved(i)
  \/ \E i \in DOMAIN requests : DeviceMarked(i)
  \/ \E i \in DOMAIN requests : SelectionValidated(i)
  \/ OthersRemove(N)
  \/ \E url \in {NoUrl, OddUrl, browser.url} : Reopen(url)

-----------------------------------------------------------------------------
(* What must hold.                                                         *)

\* The rows, the selection and the options are devices, columns and values, and
\* the size of a page is one of those offered, whatever the address says.
TypeOK ==
  /\ Range(SerialsOf(list.rows)) \cup list.selected \cup list.table.selection
       \subseteq Serials
  /\ list.isLoading \in BOOLEAN /\ list.hints \subseteq Hints
  /\ list.paginator.pageIndex \in Int /\ list.paginator.pageSize \in PageSizes
  /\ list.bar.options \subseteq
       Options(FilterColumns \cup {Root},
               FilterColumns \cup UNION {Attributes(c) : c \in FilterColumns})
  /\ server.present \subseteq Serials

\* The selection that the component hands to the page around it is the one that
\* its table counts, and is ticked in it, on whatever page it was made.
TableShowsSelection ==
  /\ list.selected = list.table.view
  /\ list.table.view \subseteq list.table.selection

\* The buttons of the paginator are those of the tokens that the next query
\* uses, whatever answers came in whatever order.
PagerAgrees ==
  ~ list.isLoading =>
    /\ list.paginator.hasPrevious <=> list.prevPageToken # NoToken
    /\ list.paginator.hasNext <=> list.nextPageToken # NoToken

\* The token that goes back from a page precedes all its rows, so that going back
\* skips no device: in the list, whatever it waits for, and in every cached page.
BackTokenPrecedes(page) ==
  \A i \in DOMAIN page.rows : page.prevToken < page.rows[i].serial
GoingBackSkipsNothing ==
  /\ BackTokenPrecedes(Page(State))
  /\ \A key \in DOMAIN browser.session : BackTokenPrecedes(browser.session[key])

Spec == Init /\ [][Next]_vars
=============================================================================
