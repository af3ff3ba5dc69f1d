------------------------------ MODULE NoteList ------------------------------
(***************************************************************************)
(* The list of the notes of a host, with those of its devices, or of a     *)
(* device (notes/note_list.ts), and the dialog that adds and edits them.   *)
(***************************************************************************)
EXTENDS NotesDialog, PagedList

CONSTANTS
  Hosts,            \* the subjects that are hosts
  HostOf,           \* for a device its host
  DefaultPageSize,
  PageSizes

\* What the constants have to be.
NoteListAssumption ==
  /\ Hosts \subseteq Subjects /\ HostOf \in [Subjects \ Hosts -> Hosts]
  /\ DefaultPageSize \in PageSizes /\ PageSizes \subseteq Nat \ {0}

FreshNoteList(id, size) ==
  [id |-> id, labName |-> "", includeDeviceNotes |-> TRUE,
   noteList |-> <<>>, prevPageToken |-> NoToken, nextPageToken |-> NoToken,
   pager |-> Paginator(size), isLoading |-> TRUE, removing |-> {},
   dialog |-> Closed, updated |-> FALSE]

\* initPageTokensAndLab: the token of the address is put where the first load does
\* not look for it.
OpenNoteList(s, id) ==
  LET size == IF s.browser.notePageSize = 0 THEN DefaultPageSize
              ELSE s.browser.notePageSize
  IN Send([s EXCEPT
       !.page = [FreshNoteList(id, size) EXCEPT !.nextPageToken = s.browser.notePageToken],
       !.requests = <<>>], "info", id)

Init ==
  \E id \in Subjects :
    /\ page = FreshNoteList(id, DefaultPageSize)
    /\ browser = [notePageToken |-> NoToken, notePageSize |-> 0]
    /\ requests = <<Request("info", id)>>
    /\ api = InitialNotes
    /\ spent = 0

-----------------------------------------------------------------------------
(* Loading.                                                                *)

\* A refresh asks again for what follows the place before the page shown.
GetPageToken(p, diff, refresh) ==
  IF refresh \/ diff = -1 THEN p.prevPageToken
  ELSE IF diff = 1 THEN p.nextPageToken ELSE NoToken

LoadNoteList(s, diff, refresh) ==
  LET p == s.page
  IN Send(s, "notes",
       [id |-> p.id, include |-> p.includeDeviceNotes,
        query |-> PageQuery(p.pager.pageSize, GetPageToken(p, diff, refresh), diff = -1)])

ResetPageTokenAndReload(s) ==
  LoadNoteList([s EXCEPT !.page.prevPageToken = NoToken,
                         !.page.nextPageToken = NoToken], 0, FALSE)

InfoArrives(i) ==
  \/ /\ Hears(i, "info", "ok")
     /\ Becomes(LoadNoteList([Heard(i) EXCEPT !.page.labName = "lab"], 0, FALSE))
  \/ Hears(i, "info", "error") /\ Becomes(Heard(i))

\* refreshPaginator: the address keeps the place before the page.
RefreshPaginator(s) ==
  LET p == s.page
  IN [s EXCEPT
       !.page.pager = SetTokens(@, p.prevPageToken, p.nextPageToken),
       !.browser.notePageToken = p.prevPageToken,
       !.browser.notePageSize = IF p.pager.pageSize = DefaultPageSize THEN 0
                                ELSE p.pager.pageSize]

NotesArrive(i) ==
  \/ /\ Hears(i, "notes", "ok")
     /\ LET answer == requests[i].answer
        IN Becomes(RefreshPaginator([Heard(i) EXCEPT
             !.page.noteList = answer.items, !.page.prevPageToken = answer.prevToken,
             !.page.nextPageToken = answer.nextToken, !.page.isLoading = FALSE]))
  \/ /\ Hears(i, "notes", "error")
     /\ Becomes([Heard(i) EXCEPT !.page.isLoading = FALSE])

-----------------------------------------------------------------------------
(* What the user does while no dialog is in front.                         *)

AtList == ~ IsOpen /\ page.removing = {} /\ Calling

\* Paging, the refresh button, the check box and another page size.
LoadPage ==
  /\ AtList
  /\ \/ /\ page.pager.hasPrevious
        /\ Becomes(LoadNoteList([State EXCEPT !.page.pager = PreviousPage(@)], -1, FALSE))
     \/ /\ page.pager.hasNext
        /\ Becomes(LoadNoteList([State EXCEPT !.page.pager = NextPage(@)], 1, FALSE))
     \/ Becomes(LoadNoteList(State, 0, TRUE))
     \/ /\ page.id \in Hosts
        /\ Becomes(LoadNoteList(
             [State EXCEPT !.page.includeDeviceNotes = ~ @], 0, FALSE))
     \/ \E size \in PageSizes \ {page.pager.pageSize} :
          Becomes(ResetPageTokenAndReload(
            [State EXCEPT !.page.pager = ChangePageSize(@, size)]))
  /\ UNCHANGED api

\* The subjects of the notes in the list; numbers are never used twice.
ListedNotes == {n \in api.notes : n.number \in Range(page.noteList)}

EditNote ==
  /\ AtList /\ page.labName # ""
  /\ \/ \E n \in ListedNotes : Becomes(OpenDialog(State, {n.on}, n.number))
     \/ Becomes(OpenDialog(State, {page.id}, NoNote))
  /\ UNCHANGED api

\* The dialog is closed as saved: an edit refreshes the page, a new note shows the
\* first page.
NotesSaved(i) ==
  /\ Hears(i, "save", "ok")
  /\ LET s == CloseWithSaved(Heard(i))
     IN Becomes(IF page.dialog.noteId # NoNote THEN LoadNoteList(s, 0, TRUE)
                ELSE ResetPageTokenAndReload(s))

RemoveNote(note) ==
  /\ AtList /\ page.labName # ""
  /\ Shows([page EXCEPT !.removing = {<<note.on, note.number>>}])

ConfirmRemoval(isConfirmed) ==
  /\ page.removing # {} /\ Calling
  /\ LET s == [State EXCEPT !.page.removing = {}, !.page.isLoading = FALSE]
     IN Becomes(IF isConfirmed THEN Send(s, "delete", page.removing) ELSE s)
  /\ UNCHANGED api

NoteRemoved(i) ==
  \/ Hears(i, "delete", "ok") /\ Becomes(LoadNoteList(Heard(i), 0, FALSE))
  \/ Hears(i, "delete", "error") /\ Becomes(Heard(i))

\* The details page shows another subject of the kind; the lab's name stays.
ShowSubject(id) ==
  /\ AtList /\ id # page.id /\ (id \in Hosts <=> page.id \in Hosts)
  /\ Becomes(LoadNoteList([State EXCEPT !.page.id = id], 0, FALSE))
  /\ UNCHANGED api

Reopen == AtList /\ Becomes(OpenNoteList(State, page.id)) /\ UNCHANGED api

-----------------------------------------------------------------------------
(* The TFC API.                                                            *)

NotesOf(arg) ==
  {n.number : n \in {m \in api.notes :
     /\ ~ m.removed
     /\ \/ m.on = arg.id
        \/ arg.include /\ m.on \notin Hosts /\ HostOf[m.on] = arg.id}}

Serve(i) ==
  /\ IsSent(i)
  /\ LET arg == requests[i].arg
     IN \/ requests[i].kind = "info" /\ Answer(i, {}) /\ UNCHANGED api
        \/ /\ requests[i].kind = "notes"
           /\ Answer(i, QueryPage(NotesOf(arg), arg.query)) /\ UNCHANGED api
        \/ /\ requests[i].kind = "delete"
           /\ Answer(i, {})
           /\ api' = [api EXCEPT !.notes =
                {[n EXCEPT !.removed = @ \/ <<n.on, n.number>> \in arg] : n \in @}]
  /\ UNCHANGED <<page, browser, spent>>

Next ==
  \/ DialogNext
  \/ \E i \in DOMAIN requests : InfoArrives(i)
  \/ \E i \in DOMAIN requests : NotesArrive(i)
  \/ LoadPage
  \/ EditNote
  \/ \E i \in DOMAIN requests : NotesSaved(i)
  \/ \E n \in ListedNotes : RemoveNote(n)
  \/ \E b \in BOOLEAN : ConfirmRemoval(b)
  \/ \E i \in DOMAIN requests : NoteRemoved(i)
  \/ \E id \in Subjects : ShowSubject(id)
  \/ Reopen
  \/ \E i \in DOMAIN requests : Serve(i)
  \/ \E i \in DOMAIN requests : requests[i].kind \notin {"messages", "unheard"} /\ Fail(i)
=============================================================================
