---------------------------- MODULE NotesDialog ----------------------------
(***************************************************************************)
(* The dialog that adds notes to devices or hosts or edits one             *)
(* (notes/notes_dialog.ts, notes/notes_editor.ts), for the pages that open *)
(* it: page.dialog is Closed or the state of the editor.                   *)
(***************************************************************************)
EXTENDS UiPage

CONSTANTS
  Subjects,  \* the devices and the hosts
  FirstNote, \* for each the number of its first note
  Texts      \* what a user types; "new" is no predefined message

NoNote == 0

\* Notes are numbered downwards: the newest is the first of a list.
\* What the constants have to be.
NotesDialogAssumption ==
  /\ IsFiniteSet(Subjects) /\ FirstNote \in [Subjects -> {n \in Nat : n > MaxSteps + 1}]
  /\ \A s, t \in Subjects : FirstNote[s] = FirstNote[t] => s = t
Closed == [ids |-> {}]
IsOpen == page.dialog # Closed

Trim(text) == IF text = "blank" THEN "" ELSE text
Fields == {"offlineReason", "recoveryAction", "message"}
NoTime == [date |-> "", control |-> "", dirty |-> FALSE, editing |-> FALSE]

\* What the service holds at first.  Of each note it is known which dialogs stored
\* it: the call of a dialog that nobody waits for may be served after those of another.
InitialNotes ==
  LET First(s) == [on |-> s, number |-> FirstNote[s], removed |-> FALSE,
                   dialogs |-> {}, time |-> "",
                   content |-> [f \in Fields |-> IF f = "message" THEN "" ELSE "known"]]
  IN [notes    |-> {First(s) : s \in Subjects},
      next     |-> MaxSteps + 1,
      messages |-> [f \in Fields |-> {"known"}]]

-----------------------------------------------------------------------------

\* The dialog opens; its editor asks for the predefined messages.  It is told
\* from the others by the steps taken before it.
OpenDialog(s, ids, noteId) ==
  Send([s EXCEPT !.page.updated = FALSE, !.page.dialog =
          [ids |-> ids, noteId |-> noteId, opened |-> spent,
           forms |-> [f \in Fields |-> ""], dirty |-> FALSE, time |-> NoTime,
           messages |-> [f \in Fields |-> {}],
           loading |-> FALSE, confirming |-> FALSE]],
       "messages", {})

\* The calls of a dialog that closes are heard by nobody, a save may yet be done.
OrphanedCalls(calls) ==
  LET kept == Kept(calls, {i \in DOMAIN calls : calls[i].kind \notin {"messages", "note"}})
  IN [k \in DOMAIN kept |-> IF kept[k].kind = "save"
                            THEN [kept[k] EXCEPT !.kind = "unheard"] ELSE kept[k]]

CloseDialog(s) ==
  [s EXCEPT !.page.dialog = Closed, !.requests = OrphanedCalls(@)]

\* saved(true): the dialog closes and tells its caller.
CloseWithSaved(s) == [CloseDialog(s) EXCEPT !.page.updated = TRUE]

\* A query for messages that fails counts as one that finds none.
MessagesArrive(i) ==
  /\ Hears(i, "messages", "ok")
  /\ LET s == [Heard(i) EXCEPT !.page.dialog.messages = requests[i].answer]
         dialog == page.dialog
     IN Becomes(IF dialog.noteId = NoNote THEN s
                ELSE Send([s EXCEPT !.page.dialog.loading = TRUE], "note",
                          [on |-> dialog.ids, number |-> dialog.noteId]))

\* setDefaultValue: what the note has replaces what was typed meanwhile.
NoteArrives(i) ==
  \/ /\ Hears(i, "note", "ok")
     /\ LET note == requests[i].answer
        IN Becomes([Heard(i) EXCEPT
             !.page.dialog.loading = FALSE,
             !.page.dialog.forms = [f \in Fields |-> IF note.content[f] = "" THEN @[f]
                                                     ELSE note.content[f]],
             !.page.dialog.time = IF note.time = "" THEN @
                                  ELSE [@ EXCEPT !.date = note.time, !.control = note.time]])
  \/ /\ Hears(i, "note", "error")
     /\ Becomes([Heard(i) EXCEPT !.page.dialog.loading = FALSE])

Type(field, text) ==
  /\ IsOpen /\ ~ page.dialog.loading /\ ~ page.dialog.confirming
  /\ page.dialog.forms[field] # text /\ Spend
  /\ Shows([page EXCEPT !.dialog.forms[field] = text, !.dialog.dirty = TRUE])

AddEventTime ==
  /\ IsOpen /\ page.dialog.time.date = "" /\ Spend
  /\ Shows([page EXCEPT !.dialog.time =
              [NoTime EXCEPT !.date = "now", !.control = "now", !.dirty = TRUE]])

EditEventTime ==
  /\ IsOpen /\ page.dialog.time.date # "" /\ ~ page.dialog.time.editing /\ Spend
  /\ Shows([page EXCEPT !.dialog.time.editing = TRUE])

\* Ok takes a valid text over, Cancel leaves the text in the control.
UpdateEventTime(text) ==
  /\ IsOpen /\ page.dialog.time.editing /\ Spend
  /\ \/ /\ text # "bad"
        /\ Shows([page EXCEPT !.dialog.time = [@ EXCEPT !.date = text,
                    !.control = text, !.dirty = TRUE, !.editing = FALSE]])
     \/ Shows([page EXCEPT !.dialog.time = [@ EXCEPT !.control = text,
                 !.dirty = TRUE, !.editing = FALSE]])

RemoveEventTime ==
  /\ IsOpen /\ page.dialog.time.date # "" /\ ~ page.dialog.time.editing /\ Spend
  /\ Shows([page EXCEPT !.dialog.time = [NoTime EXCEPT !.dirty = TRUE]])

-----------------------------------------------------------------------------

\* The Save button: the validator looks at the texts before they are trimmed.
CanSave(d) ==
  /\ ~ d.loading /\ ~ d.confirming /\ ~ d.time.editing
  /\ d.dirty \/ d.time.dirty
  /\ \E f \in Fields : d.forms[f] # ""
  /\ ~ (d.time.date # "" /\ d.time.control = "bad")

NotesInfo(d) ==
  [ids |-> d.ids, noteId |-> d.noteId, dialog |-> d.opened, time |-> d.time.date,
   content |-> [f \in Fields |-> Trim(d.forms[f])]]

\* A reason or an action that is no predefined message is to be confirmed.
HasNewMessage(d) ==
  \E f \in Fields \ {"message"} :
    /\ Trim(d.forms[f]) # ""
    /\ Trim(d.forms[f]) \notin d.messages[f]

SaveNotes ==
  /\ IsOpen /\ CanSave(page.dialog)
  /\ LET s == [State EXCEPT !.page.dialog.loading = TRUE]
     IN IF HasNewMessage(page.dialog)
        THEN Spend /\ Becomes([s EXCEPT !.page.dialog.confirming = TRUE])
        ELSE Calling /\ Becomes(Send(s, "save", NotesInfo(page.dialog)))
  /\ UNCHANGED api

\* The confirmation is over when the save is sent: the editor loads no more.
ConfirmNewMessage(isConfirmed) ==
  /\ IsOpen /\ page.dialog.confirming /\ Calling
  /\ LET s == [State EXCEPT !.page.dialog.confirming = FALSE,
                            !.page.dialog.loading = FALSE]
     IN Becomes(IF isConfirmed THEN Send(s, "save", NotesInfo(page.dialog)) ELSE s)
  /\ UNCHANGED api

\* A mutant: the editor says that the notes are saved whatever the answer.
MutSaveFails(i) ==
  /\ Hears(i, "save", "error")
  /\ Becomes(CloseWithSaved(Heard(i)))

\* saved(false): the editor stays open.
SaveFails(i) ==
  /\ Hears(i, "save", "error")
  /\ Becomes([Heard(i) EXCEPT !.page.dialog.loading = FALSE])

\* The dialog is closed without a result, by its button or from the keyboard.
DismissDialog ==
  /\ IsOpen /\ ~ page.dialog.confirming /\ Spend
  /\ Becomes(CloseDialog(State)) /\ UNCHANGED api

-----------------------------------------------------------------------------
(* The TFC API.                                                            *)

\* A note is changed, or each device or host gets a new one.
Store(info) ==
  LET Stored(on, number) == {n \in api.notes : n.on = on /\ n.number = number}
      Written(on, number) ==
        [on |-> on, number |-> number, removed |-> FALSE,
         dialogs |-> {info.dialog} \cup UNION {n.dialogs : n \in Stored(on, number)},
         content |-> info.content, time |-> info.time]
  IN IF info.noteId # NoNote
     THEN {n \in api.notes : n.on \notin info.ids \/ n.number # info.noteId}
            \cup {Written(s, info.noteId) : s \in info.ids}
     ELSE api.notes \cup {Written(s, api.next) : s \in info.ids}

\* One of the two queries for messages may fail alone.
ServeMessages(i) ==
  /\ requests[i].kind = "messages" /\ IsSent(i)
  /\ \E failing \in SUBSET (Fields \ {"message"}) :
       /\ IF failing = {} THEN UNCHANGED spent ELSE Spend
       /\ Answer(i, [f \in Fields |-> IF f \in failing THEN {} ELSE api.messages[f]])
  /\ UNCHANGED <<page, browser, api>>

ServeNote(i) ==
  /\ requests[i].kind = "note" /\ IsSent(i)
  /\ \E n \in api.notes :
       /\ n.on \in requests[i].arg.on /\ n.number = requests[i].arg.number
       /\ ~ n.removed
       /\ Answer(i, n)
  /\ UNCHANGED <<page, browser, api, spent>>

\* A note that was removed cannot be changed.
ServeSave(i) ==
  /\ requests[i].kind \in {"save", "unheard"} /\ IsSent(i)
  /\ LET info == requests[i].arg
     IN /\ info.noteId # NoNote =>
             \E n \in api.notes : n.on \in info.ids /\ n.number = info.noteId /\ ~ n.removed
        /\ api' = [api EXCEPT
             !.notes = Store(info),
             !.next = IF info.noteId = NoNote THEN @ - 1 ELSE @,
             !.messages = [f \in Fields |-> @[f] \cup ({info.content[f]} \ {""})]]
        /\ IF requests[i].kind = "save" THEN Answer(i, {})
           ELSE requests' = RemoveAt(requests, i)
  /\ UNCHANGED <<page, browser, spent>>

DialogNext ==
  \/ \E i \in DOMAIN requests : MessagesArrive(i)
  \/ \E i \in DOMAIN requests : NoteArrives(i)
  \/ \E f \in Fields, t \in Texts : Type(f, t)
  \/ AddEventTime
  \/ EditEventTime
  \/ \E t \in {"then", "bad"} : UpdateEventTime(t)
  \/ RemoveEventTime
  \/ SaveNotes
  \/ \E b \in BOOLEAN : ConfirmNewMessage(b)
  \/ \E i \in DOMAIN requests : SaveFails(i)
  \/ DismissDialog
  \/ \E i \in DOMAIN requests : ServeMessages(i)
  \/ \E i \in DOMAIN requests : ServeNote(i)
  \/ \E i \in DOMAIN requests : ServeSave(i)

-----------------------------------------------------------------------------
(* What must hold.                                                         *)

\* The caller of a dialog loads its notes anew because the dialog said that they
\* are saved: then the service has stored a note of that dialog for each device or
\* host, whatever failed before and however often the user saved.
DialogReportsStoredNotes ==
  (IsOpen /\ page'.dialog = Closed /\ page'.updated) =>
    \A on \in page.dialog.ids :
      \E n \in api.notes : n.on = on /\ page.dialog.opened \in n.dialogs
=============================================================================
