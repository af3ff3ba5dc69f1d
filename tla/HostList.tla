------------------------------ MODULE HostList ------------------------------
(***************************************************************************)
(* The page that lists the hosts of a lab (hosts/host_list.ts): the filter *)
(* bar with its menu and its text, the addresses and the stored criteria   *)
(* it starts from, and the pages of hosts.                                 *)
(***************************************************************************)
EXTENDS FilterBar, PagedList, UiPage

CONSTANTS
  N,            \* the hosts are 1 .. N
  AttributeOf,  \* the value of a column for a host
  UrlColumns,   \* the columns that the address names
  PageSizes,
  DefaultPageSize

AllLabs == "All"
Hints == Columns
Attributes(column) == {AttributeOf[column][h] : h \in 1 .. N}

\* What the constants have to be.
HostListAssumption ==
  /\ N \in Nat \ {0} /\ UrlColumns \subseteq Columns
  /\ DefaultPageSize \in PageSizes /\ PageSizes \subseteq Nat \ {0}

NoCriteria == [c \in FilterColumns |-> {}]
NoUrl == [criteria |-> NoCriteria, token |-> NoToken, size |-> DefaultPageSize,
          empty |-> TRUE]
NoKey == <<>>

FreshList(url) ==
  [bar           |-> InitFilterbarRoots,
   text          |-> NoColumn,    \* the column that the text of the bar names
   rows          |-> <<>>,
   prevPageToken |-> NoToken,
   nextPageToken |-> NoToken,
   isLoading     |-> TRUE,
   paginator     |-> Paginator(DefaultPageSize),
   key           |-> NoKey,
   url           |-> url,         \* the parameters the router opened the page with
   hints         |-> Hints,       \* the hints not there yet
   asked         |-> NoCriteria]  \* what the rows shown were asked for

GetSearchCriteria(s) == SearchCriteria(s.page.bar)

Matching(criteria) ==
  {h \in api.present : \A c \in FilterColumns :
     criteria[c] = {} \/ AttributeOf[c][h] \in criteria[c]}

SetSessionStorageKey(s) ==
  [s EXCEPT !.page.key =
     <<GetSearchCriteria(s), s.page.paginator.pageSize, s.page.paginator.pageIndex>>]

IsStored(s) == s.page.key \in DOMAIN s.browser.session
Stored(s) == s.browser.session[s.page.key]

\* What is not chosen any more stays as the router opened the page with it.
PatchQueryParams(s) ==
  LET criteria == GetSearchCriteria(s)
      Merged(c) == IF c \in UrlColumns \cup InputColumns /\ criteria[c] # {}
                   THEN criteria[c] ELSE s.page.url.criteria[c]
  IN [s EXCEPT !.browser.url =
        [criteria |-> [c \in FilterColumns |-> Merged(c)],
         token    |-> IF s.page.prevPageToken # NoToken THEN s.page.prevPageToken
                      ELSE s.page.url.token,
         size     |-> IF s.page.paginator.pageSize # DefaultPageSize
                      THEN s.page.paginator.pageSize ELSE s.page.url.size,
         empty    |-> FALSE]]

RefreshPaginator(s) ==
  [PatchQueryParams([s EXCEPT !.page.paginator =
     SetTokens(@, s.page.prevPageToken, s.page.nextPageToken)])
   EXCEPT !.browser.criteria = GetSearchCriteria(s)]

AfterDataloaded(s, result, fromStorage) ==
  LET shown == RefreshPaginator(
        [s EXCEPT !.page.rows = result.rows,
                  !.page.prevPageToken = result.prevToken,
                  !.page.nextPageToken = result.nextToken,
                  !.page.asked = result.asked,
                  !.page.isLoading = FALSE,
                  !.page.bar.filterChanged = FALSE])
  IN IF fromStorage THEN shown
     ELSE [shown EXCEPT !.browser.session = Cached(@, s.page.key, result)]

GetPageToken(s, diff, force) ==
  IF force \/ diff = -1 THEN s.page.prevPageToken
  ELSE IF diff = 1 THEN s.page.nextPageToken
  ELSE NoToken

GetHostInfos(s, token, backwards, opening) ==
  Send(s, "hosts",
       [criteria |-> GetSearchCriteria(s),
        query    |-> PageQuery(s.page.paginator.pageSize, token, backwards),
        opening  |-> opening])

Load(s, diff, force) ==
  LET reset == [s EXCEPT !.page.isLoading = TRUE,
                         !.page.bar = ResetSearchSteps(@),
                         !.page.paginator = IF diff = 0 THEN ResetPageIndex(@) ELSE @]
      patched == PatchQueryParams(SetSessionStorageKey(reset))
  IN IF IsStored(patched) /\ ~ force
     THEN AfterDataloaded(patched, Stored(patched), TRUE)
     ELSE GetHostInfos(patched, GetPageToken(s, diff, force), diff = -1, FALSE)

\* The text of the bar shows what is selected, or the column to choose from.
RenderSelectedOptions(s) == [s EXCEPT !.page.text = NoColumn]

-----------------------------------------------------------------------------
(* Opening the page.                                                       *)

StartValues(s, column) ==
  LET fromUrl == s.page.url.criteria[column]
  IN IF fromUrl # {} \/ (column \in Columns /\ ~ s.page.url.empty) THEN fromUrl
     ELSE s.browser.criteria[column]

SetFilterHintSelectedValues(s, bar) ==
  SetFilterOptionsSelected(bar, [c \in Columns |-> StartValues(s, c)])

LoadNonFilterHintTypeCriteria(s, bar) ==
  LET typed == {c \in InputColumns : StartValues(s, c) # {}}
  IN AddNewFilterOptions(bar, [c \in typed |-> CHOOSE v \in StartValues(s, c) : TRUE])

\* The key is still empty: the first result is cached under it, and found again
\* by every later visit, whatever that asks for.
UpdatePaginatorParamsAndLoad(s) ==
  LET chosen == SetFilterHintSelectedValues(s, s.page.bar)
      start == RenderSelectedOptions(
        [s EXCEPT !.page.bar = LoadNonFilterHintTypeCriteria(s, chosen),
                  !.page.prevPageToken = NoToken,
                  !.page.nextPageToken = s.page.url.token,
                  !.page.paginator.pageSize =
                    IF s.page.url.size \in PageSizes THEN s.page.url.size
                    ELSE DefaultPageSize])
  IN IF IsStored(start) THEN AfterDataloaded(start, Stored(start), FALSE)
     ELSE GetHostInfos([start EXCEPT !.page.isLoading = TRUE],
                       s.page.url.token, FALSE, TRUE)

\* The options of a column are those of the session, or those of the TFC API.
AppendHints(s, hints) ==
  [s EXCEPT !.page.bar.options = @ \cup
              UNION {CreateFilterOptions(Attributes(c), c, TRUE) : c \in hints},
            !.page.hints = @ \ hints,
            !.browser.hints = @ \cup hints]

StartIfComplete(s) ==
  IF s.page.hints = {} THEN UpdatePaginatorParamsAndLoad(s) ELSE s

Open(s, url) ==
  LET fresh == [s EXCEPT !.page = FreshList(url), !.requests = <<>>]
  IN StartIfComplete(AppendHints(fresh, s.browser.hints))

Init ==
  /\ browser = [session |-> <<>>, criteria |-> NoCriteria, hints |-> {}, url |-> NoUrl]
  /\ requests = <<>>
  /\ page = FreshList(NoUrl)
  /\ api = [present |-> 1 .. N]
  /\ spent = 0

HintArrives(hint) ==
  /\ hint \in page.hints
  /\ Becomes(StartIfComplete(AppendHints(State, {hint})))
  /\ UNCHANGED <<api, spent>>

\* The hints or the first page cannot be had: the mask is taken away.
InitFilterBarFails ==
  /\ page.hints # {} /\ page.isLoading /\ Spend
  /\ Shows([page EXCEPT !.isLoading = FALSE])

-----------------------------------------------------------------------------
(* The filter bar.                                                         *)

InBar(bar, text) == Spend /\ Shows([page EXCEPT !.bar = bar, !.text = text])

\* toggleSelection: the values of a column are listed, or one is toggled.
ToggleSelection(type, value) ==
  IF type = Root
  THEN InBar(DisplayLeafFilterOptions(page.bar, value), value)
  ELSE InBar(ToggleFilterOption(page.bar, type, value), page.text)

ClickOption(option) ==
  option \in VisibleOptions(page.bar) /\ ToggleSelection(option.type, option.value)

ToggleSelectAll ==
  page.bar.selectedColumn \in Columns /\ InBar(ToggleAll(page.bar), page.text)

\* A mutant: the menu goes back without hiding the values.
MutBackToRoot ==
  /\ page.bar.selectedColumn # NoColumn
  /\ InBar([page.bar EXCEPT !.selectedColumn = NoColumn], NoColumn)

BackToRoot ==
  /\ page.bar.selectedColumn # NoColumn
  /\ InBar(DisplayRootFilterOptions([page.bar EXCEPT !.selectedColumn = NoColumn]),
           NoColumn)

\* dispatchHandler for what was typed: a column is opened, or its value is added.
DispatchTyped(value) ==
  \/ /\ page.bar.selectedColumn = NoColumn /\ value \in FilterColumns
     /\ ToggleSelection(Root, value)
  \/ /\ page.bar.selectedColumn \in InputColumns
     /\ value \in Attributes(page.bar.selectedColumn)
     /\ InBar(AddNewFilterOption(page.bar, value, page.bar.selectedColumn), NoColumn)

\* The value control: what is typed hides the options that do not contain it.
TypeText(value) ==
  /\ value \in Everything(page.bar)
  /\ InBar(FilterSearchOptions(page.bar, {value}, page.bar.selectedColumn), page.text)

CloseOn(s) ==
  LET closed == RenderSelectedOptions([s EXCEPT !.page.bar = ResetSearchSteps(@)])
  IN IF closed.page.bar.filterChanged THEN Load(closed, 0, FALSE) ELSE closed

RenderSelectedOptionsAndResetFilterbar ==
  /\ page.bar.filterChanged \/ page.bar.selectedColumn # NoColumn
  /\ Calling /\ Becomes(CloseOn(State))
  /\ UNCHANGED api

ResetSelection ==
  /\ HasFilter(page.bar) /\ Calling
  /\ Becomes(CloseOn([State EXCEPT !.page.bar =
               [ResetFilterOptions(@) EXCEPT !.filterChanged = TRUE]]))
  /\ UNCHANGED api

\* submit of a text that names a column and one value for it, or none: a typed
\* column that is not named keeps its value.
ParseInputValue(column, values) ==
  IF column \in InputColumns /\ values = {} THEN page.bar
  ELSE ParseColumn(page.bar, column, values)

Submit(column, values) ==
  /\ page.bar.selectedColumn \notin InputColumns
  /\ values # GetSearchCriteria(State)[column]
  /\ Calling
  /\ Becomes(RenderSelectedOptions(
       Load([State EXCEPT !.page.bar = ParseInputValue(column, values)], 0, FALSE)))
  /\ UNCHANGED api

-----------------------------------------------------------------------------
(* The pages.                                                              *)

Unmasked == ~ page.isLoading

ClickNext ==
  /\ Unmasked /\ page.paginator.hasNext /\ Calling
  /\ Becomes(Load([State EXCEPT !.page.paginator = NextPage(@)], 1, FALSE))
  /\ UNCHANGED api

ClickPrevious ==
  /\ Unmasked /\ page.paginator.hasPrevious /\ Calling
  /\ Becomes(Load([State EXCEPT !.page.paginator = PreviousPage(@)], -1, FALSE))
  /\ UNCHANGED api

ResetPageTokenAndReload(size) ==
  /\ Unmasked /\ size # page.paginator.pageSize /\ Calling
  /\ Becomes(Load([State EXCEPT !.page.paginator = ChangePageSize(@, size),
                                !.page.prevPageToken = NoToken,
                                !.page.nextPageToken = NoToken], 0, FALSE))
  /\ UNCHANGED api

Refresh == Calling /\ Becomes(Load(State, 0, TRUE)) /\ UNCHANGED api

RemoveHost(h) ==
  /\ Unmasked /\ h \in Range(page.rows) /\ Calling
  /\ Becomes(Send(State, "remove", h))
  /\ UNCHANGED api

HostRemoved(i) ==
  /\ Hears(i, "remove", "ok")
  /\ LET places == {j \in DOMAIN page.rows : page.rows[j] = requests[i].arg}
     IN Becomes(Load([Heard(i) EXCEPT !.page.rows = WithoutRow(@, places)], 0, TRUE))

HostsArrive(i) ==
  /\ Hears(i, "hosts", "ok")
  /\ Becomes(AfterDataloaded(Heard(i), requests[i].answer, FALSE))

\* The error is shown, and the list stays masked unless it is the first.
CallFails(i) ==
  \/ Hears(i, "remove", "error") /\ Becomes(Heard(i))
  \/ /\ Hears(i, "hosts", "error")
     /\ Becomes([Heard(i) EXCEPT !.page.isLoading = @ /\ ~ requests[i].arg.opening])

\* The TFC API lists or removes hosts.
Serve(i) ==
  /\ IsSent(i)
  /\ \/ /\ requests[i].kind = "hosts"
        /\ LET asked == requests[i].arg.criteria
               found == QueryPage(Matching(asked), requests[i].arg.query)
           IN Answer(i, [rows |-> found.items, prevToken |-> found.prevToken,
                         nextToken |-> found.nextToken, asked |-> asked])
        /\ UNCHANGED api
     \/ /\ requests[i].kind = "remove"
        /\ Answer(i, {})
        /\ api' = [api EXCEPT !.present = @ \ {requests[i].arg}]
  /\ UNCHANGED <<page, browser, spent>>

\* The user leaves the page and comes back, by a link or to its address.
Reopen(url) == Spend /\ Becomes(Open(State, url)) /\ UNCHANGED api

Next ==
  \/ \E hint \in Hints : HintArrives(hint)
  \/ InitFilterBarFails
  \/ \E option \in page.bar.options : ClickOption(option)
  \/ ToggleSelectAll
  \/ BackToRoot
  \/ \E value \in Everything(page.bar) \cup UNION {Attributes(c) : c \in InputColumns} :
       DispatchTyped(value) \/ TypeText(value)
  \/ RenderSelectedOptionsAndResetFilterbar
  \/ ResetSelection
  \/ \E c \in FilterColumns : Submit(c, {})
  \/ \E c \in FilterColumns : \E v \in Attributes(c) : Submit(c, {v})
  \/ ClickNext
  \/ ClickPrevious
  \/ \E size \in PageSizes : ResetPageTokenAndReload(size)
  \/ Refresh
  \/ \E h \in 1 .. N : RemoveHost(h)
  \/ \E i \in DOMAIN requests : HostRemoved(i)
  \/ \E i \in DOMAIN requests : HostsArrive(i)
  \/ \E i \in DOMAIN requests : CallFails(i)
  \/ \E i \in DOMAIN requests : Serve(i)
  \/ \E i \in DOMAIN requests : Fail(i)
  \/ \E url \in {NoUrl, browser.url} : Reopen(url)

Spec == Init /\ [][Next]_vars
-----------------------------------------------------------------------------
(* What must hold.                                                         *)

\* The menu shows the columns, or the values of the one that is open, whatever
\* was typed, toggled and loaded before; a typed value is an entry of its own.
MenuShowsOneColumn ==
  \A o \in VisibleOptions(page.bar) :
    \/ o.type = IF page.bar.selectedColumn = NoColumn THEN Root
                ELSE page.bar.selectedColumn
    \/ o.type \in InputColumns
=============================================================================
