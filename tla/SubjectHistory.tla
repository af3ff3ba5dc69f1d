--------------------------- MODULE SubjectHistory ---------------------------
(***************************************************************************)
(* The history of a host (hosts/host_details_history.ts) or of a device    *)
(* (devices/device_details_history.ts), with the notes its records name    *)
(* and the dialog that edits them.                                         *)
(***************************************************************************)
EXTENDS NotesDialog, PagedList

CONSTANTS
  Hosts,            \* the subjects that are hosts
  Records,          \* for a subject its records, numbered in the API's order
  RecordsWithNote,  \* those that name a note, the first of their subject
  DefaultPageSize,
  PageSizes

\* What the constants have to be.
SubjectHistoryAssumption ==
  /\ Hosts \subseteq Subjects /\ Records \in [Subjects -> SUBSET (Nat \ {0})]
  /\ \A s, t \in Subjects : s # t => Records[s] \cap Records[t] = {}
  /\ DefaultPageSize \in PageSizes /\ PageSizes \subseteq Nat \ {0}

IsHost == page.id \in Hosts

\* The page and its size as an address holds them.
NoParams == [historyPageToken |-> NoToken, historyPageSize |-> 0]

\* The pager belongs to the page and lives as long as it.
FreshHistory(id) ==
  [id |-> id, historyList |-> <<>>, notes |-> {}, prevPageToken |-> NoToken,
   nextPageToken |-> NoToken, pager |-> Paginator(DefaultPageSize),
   isLoading |-> FALSE, dialog |-> Closed, updated |-> FALSE]

-----------------------------------------------------------------------------
(* Loading.                                                                *)

\* Forward is the page after the one shown, or the one whose place the address has.
LoadHistory(s, previous) ==
  LET p == s.page
      token == IF previous THEN p.prevPageToken ELSE p.nextPageToken
  IN Send([s EXCEPT !.page.isLoading = p.id \notin Hosts],
          "history", [id |-> p.id, query |-> PageQuery(p.pager.pageSize, token, previous)])

\* The parameters of the route have changed: of a new page, or of a navigation.
TakeRouteParams(s) ==
  LET params == s.browser.route
      size == IF params.historyPageSize = 0 THEN DefaultPageSize ELSE params.historyPageSize
  IN LoadHistory([s EXCEPT !.page.prevPageToken = NoToken,
                           !.page.nextPageToken = params.historyPageToken,
                           !.page.pager.pageSize = size], FALSE)

ResetPageTokenAndReload(s) ==
  LoadHistory([s EXCEPT !.page.prevPageToken = NoToken,
                        !.page.nextPageToken = NoToken], FALSE)

OpenHistory(s, id) ==
  TakeRouteParams([s EXCEPT !.page = FreshHistory(id), !.requests = <<>>,
                            !.browser.route = s.browser.url])

Init ==
  \E id \in Subjects :
    LET s == OpenHistory([page |-> FreshHistory(id), requests |-> <<>>,
                          browser |-> [url |-> NoParams, route |-> NoParams]], id)
    IN /\ page = s.page /\ browser = s.browser /\ requests = s.requests
       /\ api = InitialNotes
       /\ spent = 0

\* Step 1: the records, then their notes are asked for.
HistoryArrives(i) ==
  \/ /\ Hears(i, "history", "ok")
     /\ LET answer == requests[i].answer
            id == requests[i].arg.id
        IN Becomes(Send(
             [Heard(i) EXCEPT !.page.historyList = answer.items, !.page.notes = {},
                              !.page.prevPageToken = answer.prevToken,
                              !.page.nextPageToken = answer.nextToken],
             "notes", [id |-> id, records |-> Range(answer.items) \cap RecordsWithNote]))
  \/ /\ \E kind \in {"history", "notes"} : Hears(i, kind, "error")
     /\ Becomes(Heard(i))

\* refreshPaginator: the address keeps the place before the page.
RefreshPaginator(s) ==
  LET p == s.page
  IN [s EXCEPT
       !.page.pager = SetTokens(@, p.prevPageToken, p.nextPageToken),
       !.browser.url =
         [historyPageToken |-> p.prevPageToken,
          historyPageSize |-> IF p.pager.pageSize = DefaultPageSize THEN 0
                              ELSE p.pager.pageSize]]

\* Step 2: the notes join the records that name them, in the list there is now.
NotesArrive(i) ==
  /\ Hears(i, "notes", "ok")
  /\ LET found == {r \in requests[i].answer : r \in Range(page.historyList)}
     IN Becomes(RefreshPaginator(
          [Heard(i) EXCEPT !.page.notes = @ \cup found, !.page.isLoading = FALSE]))

-----------------------------------------------------------------------------
(* What the user does while no dialog is in front.                         *)

AtHistory == ~ IsOpen /\ Calling

LoadPage ==
  /\ AtHistory
  /\ \/ /\ page.pager.hasPrevious
        /\ Becomes(LoadHistory([State EXCEPT !.page.pager = PreviousPage(@)], TRUE))
     \/ /\ page.pager.hasNext
        /\ Becomes(LoadHistory([State EXCEPT !.page.pager = NextPage(@)], FALSE))
     \/ \E size \in PageSizes \ {page.pager.pageSize} :
          Becomes(ResetPageTokenAndReload(
            [State EXCEPT !.page.pager = ChangePageSize(@, size)]))
  /\ UNCHANGED api

EditNote ==
  /\ AtHistory /\ page.notes # {}
  /\ Becomes(OpenDialog(State, {page.id}, FirstNote[page.id]))
  /\ UNCHANGED api

\* load(): meant for paging, it goes on to the page that follows.
NotesSaved(i) ==
  /\ Hears(i, "save", "ok")
  /\ Becomes(LoadHistory(CloseWithSaved(Heard(i)), FALSE))

\* Another subject of the kind: the route loses its parameters, and is heard of only
\* if it had any.
ShowSubject(id) ==
  /\ AtHistory /\ id # page.id /\ (id \in Hosts <=> IsHost)
  /\ LET s == LoadHistory([State EXCEPT !.page.id = id, !.browser.route = NoParams,
                                        !.browser.url = NoParams], FALSE)
     IN Becomes(IF browser.route = NoParams THEN s ELSE TakeRouteParams(s))
  /\ UNCHANGED api

Reopen == AtHistory /\ Becomes(OpenHistory(State, page.id)) /\ UNCHANGED api

-----------------------------------------------------------------------------
(* The TFC API.                                                            *)

Serve(i) ==
  /\ IsSent(i)
  /\ LET arg == requests[i].arg
     IN \/ /\ requests[i].kind = "history"
           /\ Answer(i, QueryPage(Records[arg.id], arg.query))
        \/ /\ requests[i].kind = "notes" /\ Answer(i, arg.records)
  /\ UNCHANGED <<page, browser, api, spent>>

Next ==
  \/ DialogNext
  \/ \E i \in DOMAIN requests : HistoryArrives(i)
  \/ \E i \in DOMAIN requests : NotesArrive(i)
  \/ LoadPage
  \/ EditNote
  \/ \E i \in DOMAIN requests : NotesSaved(i)
  \/ \E id \in Subjects : ShowSubject(id)
  \/ Reopen
  \/ \E i \in DOMAIN requests : Serve(i)
  \/ \E i \in DOMAIN requests : requests[i].kind \notin {"messages", "unheard"} /\ Fail(i)
=============================================================================
