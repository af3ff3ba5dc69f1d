-------------------------- MODULE WebPages_proofs --------------------------
(***************************************************************************)
(* What the pages promise holds wherever the user is: a step of the        *)
(* interface is one of the page the user is at, and keeps the inductive    *)
(* invariant of that page.  What the dialogs of notes and of the history   *)
(* need, which two pages open, comes first.                                *)
(***************************************************************************)
EXTENDS WebPages, LabPages_proofs, RunPages_proofs, TLAPS

-----------------------------------------------------------------------------
(* The dialog that adds and edits notes: what it saves.                    *)

NoDialog == [ids |-> {}]
DialogFields ==
  {"ids", "noteId", "opened", "forms", "dirty", "time", "messages", "loading", "confirming"}

\* For each device or host the dialog has stored a note.
StoredFor(notes, d) == \A on \in d.ids : \E n \in notes : n.on = on /\ d.opened \in n.dialogs

AreNotes(notes) == \A n \in notes : "on" \in DOMAIN n /\ "dialogs" \in DOMAIN n

\* What a dialog has stored stays stored, by a note that may be another by then.
NotesGrow(m, n) ==
  AreNotes(n) /\ \A x \in m : \E y \in n : y.on = x.on /\ x.dialogs \subseteq y.dialogs

\* A call of the dialog is of the dialog that is open; one that saves names its subjects
\* and, when it is answered, has stored their notes.
GoodDialogCall(c, d, notes) ==
  /\ DOMAIN c = CallFields
  /\ c.kind \in {"messages", "note", "save"} => d # NoDialog
  /\ c.kind = "save" => c.arg.ids = d.ids /\ c.arg.dialog = d.opened
  /\ c.kind = "save" /\ c.status = "ok" => StoredFor(notes, d)

GoodNotes(p, q, notes) ==
  /\ "dialog" \in DOMAIN p /\ "updated" \in DOMAIN p
  /\ p.dialog # NoDialog => DOMAIN p.dialog = DialogFields /\ p.updated = FALSE
  /\ IsSeq(q) /\ \A i \in DOMAIN q : GoodDialogCall(q[i], p.dialog, notes)
  /\ AreNotes(notes)

\* The same dialog is open, or none as before.
DialogKept(p, r) ==
  /\ DOMAIN r = DOMAIN p /\ r.updated = p.updated
  /\ \/ r.dialog = p.dialog
     \/ /\ p.dialog # NoDialog /\ DOMAIN r.dialog = DOMAIN p.dialog
        /\ r.dialog.ids = p.dialog.ids /\ r.dialog.opened = p.dialog.opened

GoodIn(s, notes) == DOMAIN s = StateFields /\ GoodNotes(s.page, s.requests, notes)

ShownIn(s, t) ==
  DOMAIN t = StateFields /\ t.requests = s.requests /\ DialogKept(s.page, t.page)

\* No dialog has closed as saved on the way from s to t.
NoneSaved(s, t) == t.page.dialog = NoDialog => s.page.dialog = NoDialog \/ ~ t.page.updated

LEMMA DialogStays ==
  ASSUME NEW p, NEW q, NEW notes, GoodNotes(p, q, notes), NEW r, DialogKept(p, r)
  PROVE  GoodNotes(r, q, notes) /\ (r.dialog = NoDialog <=> p.dialog = NoDialog)
<1>1. DOMAIN NoDialog = {"ids"} BY DEF NoDialog
<1>2. CASE r.dialog = p.dialog BY <1>2 DEF GoodNotes, DialogKept
<1>3. CASE /\ p.dialog # NoDialog /\ DOMAIN r.dialog = DOMAIN p.dialog
           /\ r.dialog.ids = p.dialog.ids /\ r.dialog.opened = p.dialog.opened
  <2>1. DOMAIN r.dialog = DialogFields BY <1>3 DEF GoodNotes
  <2>2. "opened" \in DialogFields /\ "opened" \notin {"ids"} BY DEF DialogFields
  <2>3. r.dialog # NoDialog BY <1>1, <2>1, <2>2
  <2>4. \A c : GoodDialogCall(c, p.dialog, notes) => GoodDialogCall(c, r.dialog, notes)
    BY <1>3, <2>3 DEF GoodDialogCall, StoredFor
  <2> QED BY <1>3, <2>1, <2>3, <2>4 DEF GoodNotes, DialogKept
<1> QED BY <1>2, <1>3 DEF DialogKept

LEMMA DialogShown ==
  ASSUME NEW s, NEW notes, GoodIn(s, notes), NEW t, ShownIn(s, t)
  PROVE  GoodIn(t, notes) /\ (t.page.dialog = NoDialog <=> s.page.dialog = NoDialog)
BY DialogStays DEF GoodIn, ShownIn

\* Fewer calls are under way, one more, or one has another answer.
LEMMA CallsLeft ==
  ASSUME NEW p, NEW q, NEW notes, GoodNotes(p, q, notes),
         NEW r, IsSeq(r), \A k \in DOMAIN r : \E j \in DOMAIN q : r[k] = q[j]
  PROVE  GoodNotes(p, r, notes)
BY DEF GoodNotes

LEMMA CallMade ==
  ASSUME NEW p, NEW q, NEW notes, GoodNotes(p, q, notes),
         NEW c, GoodDialogCall(c, p.dialog, notes)
  PROVE  GoodNotes(p, Append(q, c), notes)
<1>1. PICK r : r = Append(q, c) OBVIOUS
<1>2. /\ IsSeq(r) /\ DOMAIN r = DOMAIN q \cup {Len(q) + 1}
      /\ \A i \in DOMAIN q : r[i] = q[i]
      /\ r[Len(q) + 1] = c
  BY <1>1, AppendCall DEF GoodNotes
<1>3. GoodNotes(p, r, notes) BY <1>2 DEF GoodNotes
<1> QED BY <1>1, <1>3

LEMMA CallAnswered ==
  ASSUME NEW p, NEW q, NEW notes, GoodNotes(p, q, notes), NEW i \in DOMAIN q,
         NEW c, GoodDialogCall(c, p.dialog, notes)
  PROVE  GoodNotes(p, [q EXCEPT ![i] = c], notes)
<1>1. IsSeq([q EXCEPT ![i] = c]) BY ChangeCall DEF GoodNotes
<1> QED BY <1>1 DEF GoodNotes

\* What was stored stays stored.
LEMMA NotesStay ==
  ASSUME NEW p, NEW q, NEW m, GoodNotes(p, q, m), NEW n, NotesGrow(m, n)
  PROVE  GoodNotes(p, q, n)
<1>1. ASSUME NEW d, StoredFor(m, d) PROVE StoredFor(n, d)
  <2>1. ASSUME NEW on \in d.ids PROVE \E y \in n : y.on = on /\ d.opened \in y.dialogs
    <3>1. PICK x \in m : x.on = on /\ d.opened \in x.dialogs BY <1>1 DEF StoredFor
    <3>2. PICK y \in n : y.on = x.on /\ x.dialogs \subseteq y.dialogs BY DEF NotesGrow
    <3> QED BY <3>1, <3>2
  <2> QED BY <2>1 DEF StoredFor
<1> QED BY <1>1 DEF GoodNotes, GoodDialogCall, NotesGrow

-----------------------------------------------------------------------------
(* The dialog of the list of notes.                                          *)

\* The next state is as it has to be, and a dialog that said so has stored its notes.
AfterList ==
  /\ "notes" \in DOMAIN api' /\ GoodNotes(page', requests', api'.notes)
  /\ Notes!DialogReportsStoredNotes

LEMMA ClosedOfList == Notes!Closed = NoDialog BY DEF Notes!Closed, NoDialog

\* A handler that closes no dialog as saved.
LEMMA BecomeOfList ==
  ASSUME NEW s, s.page = page, NEW t, Notes!Becomes(t), UNCHANGED api,
         "notes" \in DOMAIN api, GoodIn(t, api.notes), NoneSaved(s, t)
  PROVE  AfterList
BY ClosedOfList DEF AfterList, Notes!Becomes, GoodIn, NoneSaved, Notes!DialogReportsStoredNotes, Notes!IsOpen

LEMMA HeardOfList ==
  ASSUME NEW i \in DOMAIN requests, NEW notes, GoodNotes(page, requests, notes)
  PROVE  /\ GoodIn(Notes!Heard(i), notes) /\ Notes!Heard(i).page = page
         /\ GoodIn(Notes!State, notes) /\ Notes!State.page = page
<1>1. /\ Notes!State.page = page /\ Notes!State.requests = requests
      /\ DOMAIN Notes!State = StateFields
  BY DEF Notes!State, StateFields
<1>2. PICK r : r = RemoveAt(requests, i) OBVIOUS
<1>3. Notes!RemoveAt(requests, i) = r BY <1>2 DEF Notes!RemoveAt, RemoveAt
<1>4. /\ Notes!Heard(i).page = page /\ Notes!Heard(i).requests = r
      /\ DOMAIN Notes!Heard(i) = StateFields
  BY <1>1, <1>3 DEF Notes!Heard, StateFields
<1>5. GoodNotes(page, r, notes)
  <2>1. IsSeq(requests) BY DEF GoodNotes
  <2>2. IsSeq(r) /\ \A k \in DOMAIN r : \E j \in DOMAIN requests : r[k] = requests[j]
    BY <1>2, <2>1, RemoveCall
  <2> QED BY <2>2, CallsLeft
<1> QED BY <1>1, <1>4, <1>5 DEF GoodIn

LEMMA StateOfList ==
  ASSUME NEW notes, GoodNotes(page, requests, notes)
  PROVE  GoodIn(Notes!State, notes) /\ Notes!State.page = page
BY DEF Notes!State, StateFields, GoodIn

LEMMA SendOfList ==
  ASSUME NEW s, NEW notes, GoodIn(s, notes), NEW kind, NEW arg,
         \/ kind \notin {"messages", "note", "save"}
         \/ kind # "save" /\ s.page.dialog # NoDialog
         \/ /\ s.page.dialog # NoDialog
            /\ arg.ids = s.page.dialog.ids /\ arg.dialog = s.page.dialog.opened,
         NEW t, t = Notes!Send(s, kind, arg)
  PROVE  GoodIn(t, notes) /\ t.page = s.page
<1>1. PICK c : c = Notes!Request(kind, arg) OBVIOUS
<1>2. /\ DOMAIN c = CallFields /\ c.kind = kind /\ c.arg = arg /\ c.status = "sent"
  BY <1>1 DEF Notes!Request, CallFields
<1>3. GoodDialogCall(c, s.page.dialog, notes) BY <1>2 DEF GoodDialogCall
<1>4. PICK r : r = Append(s.requests, c) OBVIOUS
<1>5. t.page = s.page /\ DOMAIN t = StateFields /\ t.requests = r
  BY <1>1, <1>4 DEF Notes!Send, GoodIn, StateFields
<1>6. GoodNotes(s.page, r, notes) BY <1>3, <1>4, CallMade DEF GoodIn
<1> QED BY <1>5, <1>6 DEF GoodIn

\* The dialog opens with nothing saved, and closes with nobody to hear of its calls.
LEMMA OpenOfList ==
  ASSUME NEW s, NEW notes, GoodIn(s, notes), s.page.dialog = NoDialog,
         NEW ids, NEW noteId, NEW t, t = Notes!OpenDialog(s, ids, noteId)
  PROVE  GoodIn(t, notes) /\ t.page.dialog # NoDialog
<1>1. PICK d : d = [ids |-> ids, noteId |-> noteId, opened |-> spent,
           forms |-> [f \in Notes!Fields |-> ""], dirty |-> FALSE, time |-> Notes!NoTime,
           messages |-> [f \in Notes!Fields |-> {}],
           loading |-> FALSE, confirming |-> FALSE]
  OBVIOUS
<1>2. PICK u : u = [s EXCEPT !.page.updated = FALSE, !.page.dialog = d] OBVIOUS
<1>3. t = Notes!Send(u, "messages", {}) BY <1>1, <1>2 DEF Notes!OpenDialog
<1>4. DOMAIN d = DialogFields BY <1>1 DEF DialogFields
<1>5. d # NoDialog BY <1>4 DEF DialogFields, NoDialog
<1>6. /\ DOMAIN u = StateFields /\ u.requests = s.requests
      /\ DOMAIN u.page = DOMAIN s.page /\ u.page.dialog = d /\ u.page.updated = FALSE
  BY <1>2 DEF GoodIn, StateFields, GoodNotes
<1>7. ASSUME NEW c, GoodDialogCall(c, s.page.dialog, notes)
      PROVE  GoodDialogCall(c, d, notes)
  BY <1>7 DEF GoodDialogCall
<1>8. GoodIn(u, notes) BY <1>4, <1>6, <1>7 DEF GoodIn, GoodNotes
<1> QED BY <1>3, <1>5, <1>6, <1>8, SendOfList

LEMMA CloseOfList ==
  ASSUME NEW s, NEW notes, GoodIn(s, notes), NEW t, t = Notes!CloseDialog(s)
  PROVE  GoodIn(t, notes) /\ t.page.dialog = NoDialog /\ t.page.updated = s.page.updated
<1>1. PICK q : q = s.requests OBVIOUS
<1>2. PICK places : places = {i \in DOMAIN q : q[i].kind \notin {"messages", "note"}} OBVIOUS
<1>3. PICK kept : kept = Kept(q, places) OBVIOUS
<1>4. PICK r : r = [k \in DOMAIN kept |-> IF kept[k].kind = "save"
                            THEN [kept[k] EXCEPT !.kind = "unheard"] ELSE kept[k]]
  OBVIOUS
<1>5. Notes!OrphanedCalls(q) = r
  <2>1. Notes!Kept(q, places) = kept
    BY <1>3 DEF Notes!Kept, Kept, Notes!Ascending, Ascending, Notes!Cardinality, Cardinality,
       Notes!IsFiniteSet, IsFiniteSet
  <2> QED BY <1>2, <1>4, <2>1 DEF Notes!OrphanedCalls
<1>6. /\ IsSeq(kept)
      /\ \A k \in DOMAIN kept : \E j \in DOMAIN q :
           kept[k] = q[j] /\ q[j].kind \notin {"messages", "note"}
  <2>1. IsSeq(q) /\ places \in SUBSET DOMAIN q BY <1>1, <1>2 DEF GoodIn, GoodNotes
  <2>2. /\ IsSeq(kept) /\ \A k \in DOMAIN kept : \E j \in places : kept[k] = q[j]
    BY <1>3, <2>1, KeptFacts
  <2> QED BY <1>2, <2>2
<1>7. IsSeq(r) /\ DOMAIN r = DOMAIN kept
  <2>1. PICK S : kept \in Seq(S) BY <1>6 DEF IsSeq
  <2>2. DOMAIN r = 1 .. Len(kept) /\ Len(kept) \in Nat BY <1>4, <2>1
  <2>3. r \in Seq({r[k] : k \in DOMAIN r}) BY <1>4, <2>2
  <2>4. DOMAIN r = DOMAIN kept BY <1>4
  <2> QED BY <2>3, <2>4 DEF IsSeq
<1>8. ASSUME NEW k \in DOMAIN r PROVE GoodDialogCall(r[k], NoDialog, notes)
  <2>1. PICK j \in DOMAIN q : kept[k] = q[j] /\ q[j].kind \notin {"messages", "note"}
    BY <1>6, <1>7
  <2>2. DOMAIN q[j] = CallFields BY <1>1 DEF GoodIn, GoodNotes, GoodDialogCall
  <2>3. PICK c : c = r[k] OBVIOUS
  <2>4. c = IF q[j].kind = "save" THEN [q[j] EXCEPT !.kind = "unheard"] ELSE q[j]
    BY <1>4, <1>7, <2>1, <2>3
  <2>5. DOMAIN c = CallFields /\ c.kind \notin {"messages", "note", "save"}
    BY <2>1, <2>2, <2>4 DEF CallFields
  <2>6. GoodDialogCall(c, NoDialog, notes) BY <2>5 DEF GoodDialogCall
  <2> QED BY <2>3, <2>6
<1>9. /\ DOMAIN t = StateFields /\ t.requests = r /\ t.page.dialog = NoDialog
      /\ DOMAIN t.page = DOMAIN s.page /\ t.page.updated = s.page.updated
  BY <1>1, <1>5, ClosedOfList DEF Notes!CloseDialog, GoodIn, StateFields, GoodNotes
<1> QED BY <1>7, <1>8, <1>9 DEF GoodIn, GoodNotes

\* Who hears that the notes are saved finds them stored.
LEMMA SavedOfList ==
  ASSUME NEW i \in DOMAIN requests, "notes" \in DOMAIN api,
         GoodNotes(page, requests, api.notes), Notes!Hears(i, "save", "ok"),
         NEW s, s = Notes!CloseWithSaved(Notes!Heard(i))
  PROVE  /\ GoodIn(s, api.notes) /\ UNCHANGED api
         /\ Notes!DialogReportsStoredNotes
<1>1. PICK h : h = Notes!Heard(i) OBVIOUS
<1>2. GoodIn(h, api.notes) BY <1>1, HeardOfList
<1>3. PICK t : t = Notes!CloseDialog(h) OBVIOUS
<1>4. GoodIn(t, api.notes) /\ t.page.dialog = NoDialog BY <1>2, <1>3, CloseOfList
<1>5. s = [t EXCEPT !.page.updated = TRUE] BY <1>1, <1>3 DEF Notes!CloseWithSaved
<1>6. /\ DOMAIN s = StateFields /\ s.requests = t.requests /\ s.page.dialog = NoDialog
      /\ DOMAIN s.page = DOMAIN t.page
  BY <1>4, <1>5 DEF GoodIn, StateFields, GoodNotes
<1>7. GoodIn(s, api.notes) BY <1>4, <1>6 DEF GoodIn, GoodNotes
<1>8. StoredFor(api.notes, page.dialog) BY DEF GoodNotes, GoodDialogCall, Notes!Hears
<1>9. Notes!DialogReportsStoredNotes BY <1>8 DEF StoredFor, Notes!DialogReportsStoredNotes
<1> QED BY <1>7, <1>9 DEF Notes!Hears

-----------------------------------------------------------------------------

\* The dialog hears of answers, and of a save that has failed.
LEMMA DialogHearsList ==
  ASSUME NEW i \in DOMAIN requests, "notes" \in DOMAIN api,
         GoodNotes(page, requests, api.notes),
         Notes!MessagesArrive(i) \/ Notes!NoteArrives(i) \/ Notes!SaveFails(i)
  PROVE  AfterList
<1>1. PICK h : h = Notes!Heard(i) OBVIOUS
<1>2. GoodIn(h, api.notes) /\ h.page = page /\ UNCHANGED api
  BY <1>1, HeardOfList DEF Notes!MessagesArrive, Notes!NoteArrives, Notes!SaveFails, Notes!Hears
<1>3. page.dialog # NoDialog /\ DOMAIN page.dialog = DialogFields
        /\ "dialog" \in DOMAIN page /\ "updated" \in DOMAIN page
  BY DEF GoodNotes, GoodDialogCall, Notes!MessagesArrive, Notes!NoteArrives, Notes!SaveFails,
     Notes!Hears
<1>4. ASSUME NEW t, ShownIn(h, t), Notes!Becomes(t) PROVE AfterList
  BY <1>2, <1>3, <1>4, DialogShown, BecomeOfList DEF NoneSaved
<1>5. CASE Notes!MessagesArrive(i)
  <2>1. PICK s : s = [h EXCEPT !.page.dialog.messages = requests[i].answer] OBVIOUS
  <2>2. ShownIn(h, s)
    BY <1>2, <1>3, <2>1 DEF ShownIn, DialogKept, GoodIn, StateFields, DialogFields
  <2>3. CASE Notes!Becomes(s) BY <1>4, <2>2, <2>3
  <2>4. CASE \E arg : Notes!Becomes(Notes!Send([s EXCEPT !.page.dialog.loading = TRUE], "note", arg))
    <3>1. PICK u : u = [s EXCEPT !.page.dialog.loading = TRUE] OBVIOUS
    <3>2. GoodIn(s, api.notes) /\ s.page.dialog # NoDialog BY <1>2, <1>3, <2>2, DialogShown
    <3>3. /\ DOMAIN s.page.dialog = DialogFields
          /\ "dialog" \in DOMAIN s.page /\ "updated" \in DOMAIN s.page
      BY <3>2 DEF GoodIn, GoodNotes
    <3>4. ShownIn(s, u)
      BY <3>1, <3>2, <3>3 DEF ShownIn, DialogKept, GoodIn, StateFields, DialogFields
    <3>5. GoodIn(u, api.notes) /\ u.page.dialog # NoDialog BY <3>2, <3>4, DialogShown
    <3>6. PICK arg : Notes!Becomes(Notes!Send(u, "note", arg)) BY <2>4, <3>1
    <3>7. PICK t : t = Notes!Send(u, "note", arg) OBVIOUS
    <3>8. GoodIn(t, api.notes) /\ t.page = u.page BY <3>5, <3>7, SendOfList
    <3>9. Notes!Becomes(t) BY <3>6, <3>7
    <3> QED BY <1>2, <3>5, <3>8, <3>9, BecomeOfList DEF NoneSaved
  <2> QED BY <1>1, <1>5, <2>1, <2>3, <2>4 DEF Notes!MessagesArrive
<1>6. CASE Notes!NoteArrives(i)
  <2>1. \/ \E forms, time : Notes!Becomes([h EXCEPT !.page.dialog.loading = FALSE,
             !.page.dialog.forms = forms, !.page.dialog.time = time])
        \/ Notes!Becomes([h EXCEPT !.page.dialog.loading = FALSE])
    BY <1>1, <1>6 DEF Notes!NoteArrives
  <2>2. CASE Notes!Becomes([h EXCEPT !.page.dialog.loading = FALSE])
    <3>1. PICK t : t = [h EXCEPT !.page.dialog.loading = FALSE] OBVIOUS
    <3>2. ShownIn(h, t)
      BY <1>2, <1>3, <3>1 DEF ShownIn, DialogKept, GoodIn, StateFields, DialogFields
    <3> QED BY <1>4, <2>2, <3>1, <3>2
  <2>3. ASSUME NEW forms, NEW time, Notes!Becomes([h EXCEPT !.page.dialog.loading = FALSE,
             !.page.dialog.forms = forms, !.page.dialog.time = time])
        PROVE  AfterList
    <3>1. PICK t : t = [h EXCEPT !.page.dialog.loading = FALSE,
             !.page.dialog.forms = forms, !.page.dialog.time = time]
      OBVIOUS
    <3>2. ShownIn(h, t)
      BY <1>2, <1>3, <3>1 DEF ShownIn, DialogKept, GoodIn, StateFields, DialogFields
    <3> QED BY <1>4, <2>3, <3>1, <3>2
  <2> QED BY <2>1, <2>2, <2>3
<1>7. CASE Notes!SaveFails(i)
  <2>1. PICK t : t = [h EXCEPT !.page.dialog.loading = FALSE] OBVIOUS
  <2>2. ShownIn(h, t)
    BY <1>2, <1>3, <2>1 DEF ShownIn, DialogKept, GoodIn, StateFields, DialogFields
  <2>3. Notes!Becomes(t) BY <1>1, <1>7, <2>1 DEF Notes!SaveFails
  <2> QED BY <1>4, <2>2, <2>3
<1> QED BY <1>5, <1>6, <1>7

\* What the user does in the dialog.
LEMMA DialogEditsList ==
  ASSUME "notes" \in DOMAIN api, GoodNotes(page, requests, api.notes),
         \/ \E f, t : Notes!Type(f, t)
         \/ Notes!AddEventTime \/ Notes!EditEventTime \/ Notes!RemoveEventTime
         \/ \E t : Notes!UpdateEventTime(t)
  PROVE  AfterList
<1>1. /\ page.dialog # NoDialog /\ DOMAIN page.dialog = DialogFields
      /\ "dialog" \in DOMAIN page /\ "updated" \in DOMAIN page
  BY ClosedOfList DEF GoodNotes, Notes!IsOpen, Notes!Type, Notes!AddEventTime, Notes!EditEventTime,
     Notes!RemoveEventTime, Notes!UpdateEventTime
<1>2. ASSUME NEW p, page' = p, UNCHANGED <<requests, api>>, DialogKept(page, p)
      PROVE  AfterList
  BY <1>1, <1>2, DialogStays, ClosedOfList
     DEF AfterList, Notes!DialogReportsStoredNotes
<1>3. ASSUME NEW f, NEW t, Notes!Type(f, t) PROVE AfterList
  <2>1. PICK p : p = [page EXCEPT !.dialog.forms[f] = t, !.dialog.dirty = TRUE] OBVIOUS
  <2>2. DialogKept(page, p) BY <1>1, <2>1 DEF DialogKept, DialogFields
  <2> QED BY <1>2, <1>3, <2>1, <2>2 DEF Notes!Type, Notes!Shows
<1>4. ASSUME NEW time, Notes!Shows([page EXCEPT !.dialog.time = time]) PROVE AfterList
  <2>1. PICK p : p = [page EXCEPT !.dialog.time = time] OBVIOUS
  <2>2. DialogKept(page, p) BY <1>1, <2>1 DEF DialogKept, DialogFields
  <2> QED BY <1>2, <1>4, <2>1, <2>2 DEF Notes!Shows
<1>5. CASE Notes!AddEventTime BY <1>4, <1>5 DEF Notes!AddEventTime
<1>6. CASE Notes!EditEventTime
  <2>1. PICK p : p = [page EXCEPT !.dialog.time.editing = TRUE] OBVIOUS
  <2>2. DialogKept(page, p) BY <1>1, <2>1 DEF DialogKept, DialogFields
  <2> QED BY <1>2, <1>6, <2>1, <2>2 DEF Notes!EditEventTime, Notes!Shows
<1>7. CASE Notes!RemoveEventTime BY <1>4, <1>7 DEF Notes!RemoveEventTime
<1>8. ASSUME NEW t, Notes!UpdateEventTime(t) PROVE AfterList
  <2>1. \E time : Notes!Shows([page EXCEPT !.dialog.time = time])
    BY <1>8 DEF Notes!UpdateEventTime
  <2> QED BY <1>4, <2>1
<1> QED BY <1>3, <1>5, <1>6, <1>7, <1>8

\* The dialog saves, or asks first, or closes.
LEMMA DialogSavesList ==
  ASSUME "notes" \in DOMAIN api, GoodNotes(page, requests, api.notes),
         Notes!SaveNotes \/ (\E b : Notes!ConfirmNewMessage(b)) \/ Notes!DismissDialog
  PROVE  AfterList
<1>1. /\ page.dialog # NoDialog /\ DOMAIN page.dialog = DialogFields
      /\ "dialog" \in DOMAIN page /\ "updated" \in DOMAIN page
  BY ClosedOfList DEF GoodNotes, Notes!IsOpen, Notes!SaveNotes, Notes!ConfirmNewMessage,
     Notes!DismissDialog
<1>2. PICK h : h = Notes!State OBVIOUS
<1>3. GoodIn(h, api.notes) /\ h.page = page BY <1>2, StateOfList
<1>4. UNCHANGED api
  BY DEF Notes!SaveNotes, Notes!ConfirmNewMessage, Notes!DismissDialog
<1>5. ASSUME NEW t, ShownIn(h, t), Notes!Becomes(t) PROVE AfterList
  BY <1>1, <1>3, <1>4, <1>5, DialogShown, BecomeOfList DEF NoneSaved
<1>6. PICK info : info = Notes!NotesInfo(page.dialog) OBVIOUS
<1>7. info.ids = page.dialog.ids /\ info.dialog = page.dialog.opened
  BY <1>6 DEF Notes!NotesInfo
<1>8. ASSUME NEW s, ShownIn(h, s), Notes!Becomes(Notes!Send(s, "save", info)) PROVE AfterList
  <2>1. /\ GoodIn(s, api.notes) /\ s.page.dialog # NoDialog
        /\ s.page.dialog.ids = page.dialog.ids /\ s.page.dialog.opened = page.dialog.opened
    BY <1>1, <1>3, <1>8, DialogShown DEF ShownIn, DialogKept
  <2>2. PICK t : t = Notes!Send(s, "save", info) OBVIOUS
  <2>3. GoodIn(t, api.notes) /\ t.page = s.page BY <1>7, <2>1, <2>2, SendOfList
  <2>4. Notes!Becomes(t) BY <1>8, <2>2
  <2> QED BY <1>3, <1>4, <2>1, <2>3, <2>4, BecomeOfList DEF NoneSaved
<1>9. CASE Notes!SaveNotes
  <2>1. PICK s : s = [h EXCEPT !.page.dialog.loading = TRUE] OBVIOUS
  <2>2. PICK t : t = [s EXCEPT !.page.dialog.confirming = TRUE] OBVIOUS
  <2>3. ShownIn(h, s)
    BY <1>1, <1>3, <2>1 DEF ShownIn, DialogKept, GoodIn, StateFields, DialogFields
  <2>4. t = [h EXCEPT !.page.dialog.loading = TRUE, !.page.dialog.confirming = TRUE]
    BY <2>1, <2>2
  <2>5. ShownIn(h, t)
    BY <1>1, <1>3, <2>4 DEF ShownIn, DialogKept, GoodIn, StateFields, DialogFields
  <2>6. Notes!Becomes(t) \/ Notes!Becomes(Notes!Send(s, "save", info))
    BY <1>2, <1>6, <1>9, <2>1, <2>2 DEF Notes!SaveNotes
  <2> QED BY <1>5, <1>8, <2>3, <2>5, <2>6
<1>10. ASSUME NEW b, Notes!ConfirmNewMessage(b) PROVE AfterList
  <2>1. PICK s : s = [h EXCEPT !.page.dialog.confirming = FALSE,
                               !.page.dialog.loading = FALSE]
    OBVIOUS
  <2>2. ShownIn(h, s)
    BY <1>1, <1>3, <2>1 DEF ShownIn, DialogKept, GoodIn, StateFields, DialogFields
  <2>3. Notes!Becomes(s) \/ Notes!Becomes(Notes!Send(s, "save", info))
    BY <1>2, <1>6, <1>10, <2>1 DEF Notes!ConfirmNewMessage
  <2> QED BY <1>5, <1>8, <2>2, <2>3
<1>11. CASE Notes!DismissDialog
  <2>1. PICK t : t = Notes!CloseDialog(h) OBVIOUS
  <2>2. GoodIn(t, api.notes) /\ t.page.updated = page.updated BY <1>3, <2>1, CloseOfList
  <2>3. page.updated = FALSE BY <1>1 DEF GoodNotes
  <2>4. Notes!Becomes(t) BY <1>2, <1>11, <2>1 DEF Notes!DismissDialog
  <2> QED BY <1>3, <1>4, <2>2, <2>3, <2>4, BecomeOfList DEF NoneSaved
<1> QED BY <1>9, <1>10, <1>11

\* What is stored: a note that was there is kept, or is written anew by one more.
LEMMA StoreOfList ==
  ASSUME NEW info, AreNotes(api.notes)
  PROVE  /\ NotesGrow(api.notes, Notes!Store(info))
         /\ \A on \in info.ids : \E n \in Notes!Store(info) :
              n.on = on /\ info.dialog \in n.dialogs
<1> DEFINE Stored(on, number) == {n \in api.notes : n.on = on /\ n.number = number}
           Written(on, number) ==
             [on |-> on, number |-> number, removed |-> FALSE,
              dialogs |-> {info.dialog} \cup UNION {n.dialogs : n \in Stored(on, number)},
              content |-> info.content, time |-> info.time]
           Old == {n \in api.notes : n.on \notin info.ids \/ n.number # info.noteId}
           Changed == Old \cup {Written(s, info.noteId) : s \in info.ids}
           Added == api.notes \cup {Written(s, api.next) : s \in info.ids}
<1>1. Notes!Store(info) = IF info.noteId # Notes!NoNote THEN Changed ELSE Added
  BY DEF Notes!Store
<1>2. \A on, number : LET n == Written(on, number)
                      IN /\ n.on = on /\ info.dialog \in n.dialogs
                         /\ "on" \in DOMAIN n /\ "dialogs" \in DOMAIN n
                         /\ \A x \in Stored(on, number) : x.dialogs \subseteq n.dialogs
  OBVIOUS
<1> HIDE DEF Written
<1>3. ASSUME NEW x \in api.notes, x \notin Old
      PROVE  \E y \in Changed : y.on = x.on /\ x.dialogs \subseteq y.dialogs
  <2>1. x.on \in info.ids /\ x \in Stored(x.on, info.noteId) BY <1>3
  <2>2. Written(x.on, info.noteId) \in Changed BY <2>1
  <2> QED BY <1>2, <2>1, <2>2
<1>4. NotesGrow(api.notes, Changed)
  <2>1. AreNotes(Changed) BY <1>2 DEF AreNotes
  <2>2. \A x \in api.notes : \E y \in Changed : y.on = x.on /\ x.dialogs \subseteq y.dialogs
    BY <1>3
  <2> QED BY <2>1, <2>2 DEF NotesGrow
<1>5. NotesGrow(api.notes, Added)
  <2>1. AreNotes(Added) BY <1>2 DEF AreNotes
  <2> QED BY <2>1 DEF NotesGrow
<1>6. \A on \in info.ids : \E n \in Changed : n.on = on /\ info.dialog \in n.dialogs
  BY <1>2
<1>7. \A on \in info.ids : \E n \in Added : n.on = on /\ info.dialog \in n.dialogs
  BY <1>2
<1> QED BY <1>1, <1>4, <1>5, <1>6, <1>7

\* The calls change, the page does not.
LEMMA ServedOfList ==
  ASSUME "notes" \in DOMAIN api', GoodNotes(page, requests', api'.notes), page' = page
  PROVE  AfterList
BY DEF AfterList, Notes!DialogReportsStoredNotes, Notes!IsOpen

\* An answer of a call that does not save, and a failure.
LEMMA AnswerOfList ==
  ASSUME NEW i \in DOMAIN requests, NEW notes, GoodNotes(page, requests, notes)
  PROVE  /\ Notes!Fail(i) => GoodNotes(page, requests', notes)
         /\ \A answer : Notes!Answer(i, answer)
              /\ (requests[i].kind = "save" => StoredFor(notes, page.dialog))
              => GoodNotes(page, requests', notes)
<1>1. PICK c : c = requests[i] OBVIOUS
<1>2. GoodDialogCall(c, page.dialog, notes) BY <1>1 DEF GoodNotes
<1>3. ASSUME Notes!Fail(i) PROVE GoodNotes(page, requests', notes)
  <2>1. PICK e : e = [c EXCEPT !.status = "error"] OBVIOUS
  <2>2. DOMAIN e = CallFields /\ e.kind = c.kind /\ e.arg = c.arg /\ e.status = "error"
    BY <1>2, <2>1 DEF GoodDialogCall, CallFields
  <2>3. GoodDialogCall(e, page.dialog, notes) BY <1>2, <2>2 DEF GoodDialogCall
  <2>4. requests' = [requests EXCEPT ![i] = e] BY <1>1, <1>3, <2>1 DEF Notes!Fail
  <2> QED BY <2>3, <2>4, CallAnswered
<1>4. ASSUME NEW answer, Notes!Answer(i, answer), c.kind = "save" => StoredFor(notes, page.dialog)
      PROVE  GoodNotes(page, requests', notes)
  <2>1. PICK e : e = [c EXCEPT !.status = "ok", !.answer = answer] OBVIOUS
  <2>2. DOMAIN e = CallFields /\ e.kind = c.kind /\ e.arg = c.arg
    BY <1>2, <2>1 DEF GoodDialogCall, CallFields
  <2>3. GoodDialogCall(e, page.dialog, notes) BY <1>2, <1>4, <2>2 DEF GoodDialogCall
  <2>4. requests' = [requests EXCEPT ![i] = e] BY <1>1, <1>4, <2>1 DEF Notes!Answer
  <2> QED BY <2>3, <2>4, CallAnswered
<1> QED BY <1>1, <1>3, <1>4

LEMMA DialogServedList ==
  ASSUME NEW i \in DOMAIN requests, "notes" \in DOMAIN api,
         GoodNotes(page, requests, api.notes),
         Notes!ServeMessages(i) \/ Notes!ServeNote(i) \/ Notes!ServeSave(i)
  PROVE  AfterList
<1>1. CASE Notes!ServeMessages(i) \/ Notes!ServeNote(i)
  <2>1. /\ page' = page /\ api' = api /\ requests[i].kind # "save"
        /\ \E answer : Notes!Answer(i, answer)
    BY <1>1 DEF Notes!ServeMessages, Notes!ServeNote
  <2>2. GoodNotes(page, requests', api.notes) BY <2>1, AnswerOfList
  <2> QED BY <2>1, <2>2, ServedOfList
<1>2. CASE Notes!ServeSave(i)
  <2>1. PICK info : info = requests[i].arg OBVIOUS
  <2>2. PICK n : n = Notes!Store(info) OBVIOUS
  <2>3. /\ page' = page /\ requests[i].kind \in {"save", "unheard"}
        /\ \E a, b : api' = [api EXCEPT !.notes = n, !.next = a, !.messages = b]
        /\ IF requests[i].kind = "save" THEN Notes!Answer(i, {})
           ELSE requests' = Notes!RemoveAt(requests, i)
    BY <1>2, <2>1, <2>2 DEF Notes!ServeSave
  <2>4. "notes" \in DOMAIN api' /\ api'.notes = n BY <2>3
  <2>5. /\ NotesGrow(api.notes, n)
        /\ \A on \in info.ids : \E x \in n : x.on = on /\ info.dialog \in x.dialogs
    BY <2>2, StoreOfList DEF GoodNotes
  <2>6. GoodNotes(page, requests, n) BY <2>5, NotesStay
  <2>7. CASE requests[i].kind = "save"
    <3>1. info.ids = page.dialog.ids /\ info.dialog = page.dialog.opened
      BY <2>1, <2>7 DEF GoodNotes, GoodDialogCall
    <3>2. StoredFor(n, page.dialog) BY <2>5, <3>1 DEF StoredFor
    <3>3. GoodNotes(page, requests', n) BY <2>3, <2>6, <2>7, <3>2, AnswerOfList
    <3> QED BY <2>3, <2>4, <3>3, ServedOfList
  <2>8. CASE requests[i].kind # "save"
    <3>1. requests' = RemoveAt(requests, i)
      BY <2>3, <2>8 DEF Notes!RemoveAt, RemoveAt
    <3>2. PICK r : r = RemoveAt(requests, i) OBVIOUS
    <3>3. IsSeq(r) /\ \A k \in DOMAIN r : \E j \in DOMAIN requests : r[k] = requests[j]
      <4>1. IsSeq(requests) BY DEF GoodNotes
      <4> QED BY <3>2, <4>1, RemoveCall
    <3>4. GoodNotes(page, r, n) BY <2>6, <3>3, CallsLeft
    <3> QED BY <2>3, <2>4, <3>1, <3>2, <3>4, ServedOfList
  <2> QED BY <2>7, <2>8
<1> QED BY <1>1, <1>2

LEMMA DialogNextOfList ==
  ASSUME "notes" \in DOMAIN api, GoodNotes(page, requests, api.notes), Notes!DialogNext
  PROVE  AfterList
BY DialogHearsList, DialogEditsList, DialogSavesList, DialogServedList DEF Notes!DialogNext

LEMMA FirstNotesOfList == "notes" \in DOMAIN Notes!InitialNotes /\ AreNotes(Notes!InitialNotes.notes)
<1> DEFINE First(s) == [on |-> s, number |-> NotesPage.FirstNote[s], removed |-> FALSE,
                        dialogs |-> {}, time |-> "",
                        content |-> [f \in Notes!Fields |-> IF f = "message" THEN "" ELSE "known"]]
<1>1. /\ "notes" \in DOMAIN Notes!InitialNotes
      /\ Notes!InitialNotes.notes = {First(s) : s \in NotesPage.Subjects}
  BY DEF Notes!InitialNotes
<1>2. \A s : "on" \in DOMAIN First(s) /\ "dialogs" \in DOMAIN First(s) OBVIOUS
<1> HIDE DEF First
<1> QED BY <1>1, <1>2 DEF AreNotes

-----------------------------------------------------------------------------
(* The list of notes.                                                      *)

NotesGood == "notes" \in DOMAIN api /\ GoodNotes(page, requests, api.notes)

LEMMA LoadOfList ==
  ASSUME NEW s, GoodIn(s, api.notes), NEW diff, NEW refresh,
         NEW t, t = Notes!LoadNoteList(s, diff, refresh)
  PROVE  GoodIn(t, api.notes) /\ t.page = s.page
<1>1. PICK arg : t = Notes!Send(s, "notes", arg) BY DEF Notes!LoadNoteList
<1> QED BY <1>1, SendOfList

LEMMA ResetOfList ==
  ASSUME NEW s, GoodIn(s, api.notes), NEW t, t = Notes!ResetPageTokenAndReload(s)
  PROVE  /\ GoodIn(t, api.notes) /\ (t.page.dialog = NoDialog <=> s.page.dialog = NoDialog)
<1>1. PICK u : u = [s EXCEPT !.page.prevPageToken = Notes!NoToken,
                             !.page.nextPageToken = Notes!NoToken]
  OBVIOUS
<1>2. ShownIn(s, u)
  BY <1>1 DEF ShownIn, DialogKept, GoodIn, GoodNotes, StateFields
<1>3. PICK arg : t = Notes!Send(u, "notes", arg)
  BY <1>1 DEF Notes!ResetPageTokenAndReload, Notes!LoadNoteList
<1> QED BY <1>2, <1>3, DialogShown, SendOfList

LEMMA ListHears ==
  ASSUME NotesGood, NEW i \in DOMAIN requests,
         \/ Notes!InfoArrives(i) \/ Notes!NotesArrive(i) \/ Notes!NoteRemoved(i)
  PROVE  AfterList
<1>1. PICK h : h = Notes!Heard(i) OBVIOUS
<1>2. GoodIn(h, api.notes) /\ h.page = page /\ UNCHANGED api
  BY <1>1, HeardOfList DEF NotesGood, Notes!InfoArrives, Notes!NotesArrive, Notes!NoteRemoved, Notes!Hears
<1>3. ASSUME NEW t, GoodIn(t, api.notes), t.page.dialog = NoDialog <=> page.dialog = NoDialog,
             Notes!Becomes(t)
      PROVE  AfterList
  BY <1>2, <1>3, BecomeOfList DEF NotesGood, NoneSaved
<1>4. CASE Notes!Becomes(h) BY <1>2, <1>3, <1>4
<1>5. ASSUME NEW s, ShownIn(h, s), Notes!Becomes(Notes!LoadNoteList(s, 0, FALSE))
      PROVE  AfterList
  <2>1. GoodIn(s, api.notes) /\ (s.page.dialog = NoDialog <=> page.dialog = NoDialog)
    BY <1>2, <1>5, DialogShown
  <2>2. PICK arg : Notes!Becomes(Notes!Send(s, "notes", arg)) BY <1>5 DEF Notes!LoadNoteList
  <2>3. PICK t : t = Notes!Send(s, "notes", arg) OBVIOUS
  <2>4. GoodIn(t, api.notes) /\ t.page = s.page BY <2>1, <2>3, SendOfList
  <2> QED BY <1>3, <2>1, <2>2, <2>3, <2>4
<1>6. "dialog" \in DOMAIN page /\ "updated" \in DOMAIN page BY DEF NotesGood, GoodNotes
<1>7. ShownIn(h, h) BY <1>2 DEF ShownIn, DialogKept, GoodIn
<1>8. CASE Notes!InfoArrives(i)
  <2>1. PICK s : s = [h EXCEPT !.page.labName = "lab"] OBVIOUS
  <2>2. ShownIn(h, s)
    BY <1>2, <1>6, <2>1 DEF ShownIn, DialogKept, GoodIn, StateFields
  <2>3. Notes!Becomes(h) \/ Notes!Becomes(Notes!LoadNoteList(s, 0, FALSE))
    BY <1>1, <1>8, <2>1 DEF Notes!InfoArrives
  <2> QED BY <1>4, <1>5, <2>2, <2>3
<1>9. CASE Notes!NotesArrive(i)
  <2>1. CASE \E s : /\ s = [h EXCEPT !.page.isLoading = FALSE]
                    /\ Notes!Becomes(s)
    <3>1. PICK s : s = [h EXCEPT !.page.isLoading = FALSE] /\ Notes!Becomes(s) BY <2>1
    <3>2. ShownIn(h, s) BY <1>2, <1>6, <3>1 DEF ShownIn, DialogKept, GoodIn, StateFields
    <3> QED BY <1>2, <1>3, <3>1, <3>2, DialogShown
  <2>2. CASE Notes!Hears(i, "notes", "ok")
    <3>1. PICK answer : answer = requests[i].answer OBVIOUS
    <3>2. PICK s : s = [h EXCEPT
             !.page.noteList = answer.items, !.page.prevPageToken = answer.prevToken,
             !.page.nextPageToken = answer.nextToken, !.page.isLoading = FALSE]
      OBVIOUS
    <3>3. ShownIn(h, s) BY <1>2, <1>6, <3>2 DEF ShownIn, DialogKept, GoodIn, StateFields
    <3>4. GoodIn(s, api.notes) /\ (s.page.dialog = NoDialog <=> page.dialog = NoDialog)
      BY <1>2, <3>3, DialogShown
    <3>5. PICK t : t = Notes!RefreshPaginator(s) OBVIOUS
    <3>6. ShownIn(s, t)
      BY <3>4, <3>5 DEF ShownIn, DialogKept, GoodIn, GoodNotes, StateFields, Notes!RefreshPaginator
    <3>7. GoodIn(t, api.notes) /\ (t.page.dialog = NoDialog <=> page.dialog = NoDialog)
      BY <3>4, <3>6, DialogShown
    <3>8. ~ Notes!Hears(i, "notes", "error") BY <2>2 DEF Notes!Hears
    <3>9. Notes!Becomes(t) BY <1>1, <1>9, <3>1, <3>2, <3>5, <3>8 DEF Notes!NotesArrive
    <3> QED BY <1>3, <3>7, <3>9
  <2> QED BY <1>1, <1>9, <2>1, <2>2 DEF Notes!NotesArrive
<1>10. CASE Notes!NoteRemoved(i)
  <2>1. Notes!Becomes(h) \/ Notes!Becomes(Notes!LoadNoteList(h, 0, FALSE))
    BY <1>1, <1>10 DEF Notes!NoteRemoved
  <2> QED BY <1>4, <1>5, <1>7, <2>1
<1> QED BY <1>8, <1>9, <1>10

LEMMA ListSaved ==
  ASSUME NotesGood, NEW i \in DOMAIN requests, Notes!NotesSaved(i)
  PROVE  AfterList
<1>1. PICK s : s = Notes!CloseWithSaved(Notes!Heard(i)) OBVIOUS
<1>2. GoodIn(s, api.notes) /\ UNCHANGED api /\ Notes!DialogReportsStoredNotes
  BY <1>1, SavedOfList DEF NotesGood, Notes!NotesSaved
<1>3. PICK t, u : t = Notes!LoadNoteList(s, 0, TRUE) /\ u = Notes!ResetPageTokenAndReload(s)
  OBVIOUS
<1>4. Notes!Becomes(t) \/ Notes!Becomes(u) BY <1>1, <1>3 DEF Notes!NotesSaved
<1>5. GoodIn(t, api.notes) /\ GoodIn(u, api.notes) BY <1>2, <1>3, LoadOfList, ResetOfList
<1> QED BY <1>2, <1>4, <1>5 DEF AfterList, NotesGood, GoodIn, Notes!Becomes

LEMMA ListUsed ==
  ASSUME NotesGood,
         \/ Notes!LoadPage \/ Notes!EditNote \/ (\E n : Notes!RemoveNote(n))
         \/ (\E b : Notes!ConfirmRemoval(b)) \/ (\E id : Notes!ShowSubject(id))
         \/ Notes!Reopen
  PROVE  AfterList
<1>1. PICK h : h = Notes!State OBVIOUS
<1>2. GoodIn(h, api.notes) /\ h.page = page BY <1>1, StateOfList DEF NotesGood
<1>3. "dialog" \in DOMAIN page /\ "updated" \in DOMAIN page BY DEF NotesGood, GoodNotes
<1>4. ASSUME NEW t, GoodIn(t, api.notes), Notes!Becomes(t), UNCHANGED api,
             t.page.dialog = NoDialog => page.dialog = NoDialog
      PROVE  AfterList
  BY <1>2, <1>4, BecomeOfList DEF NotesGood, NoneSaved
<1>5. ASSUME NEW s, ShownIn(h, s), NEW kind, NEW arg, kind \notin {"messages", "note", "save"},
             Notes!Becomes(Notes!Send(s, kind, arg)), UNCHANGED api
      PROVE  AfterList
  <2>1. GoodIn(s, api.notes) /\ (s.page.dialog = NoDialog <=> page.dialog = NoDialog)
    BY <1>2, <1>5, DialogShown
  <2>2. PICK t : t = Notes!Send(s, kind, arg) OBVIOUS
  <2>3. GoodIn(t, api.notes) /\ t.page = s.page BY <1>5, <2>1, <2>2, SendOfList
  <2> QED BY <1>4, <1>5, <2>1, <2>2, <2>3
<1>6. ASSUME NEW s, ShownIn(h, s), NEW diff, NEW refresh,
             Notes!Becomes(Notes!LoadNoteList(s, diff, refresh)), UNCHANGED api
      PROVE  AfterList
  <2>1. PICK arg : Notes!Becomes(Notes!Send(s, "notes", arg))
    BY <1>6 DEF Notes!LoadNoteList
  <2> QED BY <1>5, <1>6, <2>1
<1>7. ShownIn(h, h) BY <1>2 DEF ShownIn, DialogKept, GoodIn
<1>8. CASE Notes!LoadPage
  <2>1. UNCHANGED api BY <1>8 DEF Notes!LoadPage
  <2>2. \/ \E pager, diff : Notes!Becomes(Notes!LoadNoteList([h EXCEPT !.page.pager = pager], diff, FALSE))
        \/ Notes!Becomes(Notes!LoadNoteList(h, 0, TRUE))
        \/ \E b : Notes!Becomes(Notes!LoadNoteList([h EXCEPT !.page.includeDeviceNotes = b], 0, FALSE))
        \/ \E pager : Notes!Becomes(Notes!ResetPageTokenAndReload([h EXCEPT !.page.pager = pager]))
    BY <1>1, <1>8 DEF Notes!LoadPage
  <2>3. ASSUME NEW pager, NEW diff,
               Notes!Becomes(Notes!LoadNoteList([h EXCEPT !.page.pager = pager], diff, FALSE))
        PROVE  AfterList
    <3>1. PICK s : s = [h EXCEPT !.page.pager = pager] OBVIOUS
    <3>2. ShownIn(h, s) BY <1>2, <1>3, <3>1 DEF ShownIn, DialogKept, GoodIn, StateFields
    <3> QED BY <1>6, <2>1, <2>3, <3>1, <3>2
  <2>4. CASE Notes!Becomes(Notes!LoadNoteList(h, 0, TRUE)) BY <1>6, <1>7, <2>1, <2>4
  <2>5. ASSUME NEW b,
               Notes!Becomes(Notes!LoadNoteList([h EXCEPT !.page.includeDeviceNotes = b], 0, FALSE))
        PROVE  AfterList
    <3>1. PICK s : s = [h EXCEPT !.page.includeDeviceNotes = b] OBVIOUS
    <3>2. ShownIn(h, s) BY <1>2, <1>3, <3>1 DEF ShownIn, DialogKept, GoodIn, StateFields
    <3> QED BY <1>6, <2>1, <2>5, <3>1, <3>2
  <2>6. ASSUME NEW pager,
               Notes!Becomes(Notes!ResetPageTokenAndReload([h EXCEPT !.page.pager = pager]))
        PROVE  AfterList
    <3>1. PICK s : s = [h EXCEPT !.page.pager = pager] OBVIOUS
    <3>2. ShownIn(h, s) BY <1>2, <1>3, <3>1 DEF ShownIn, DialogKept, GoodIn, StateFields
    <3>3. GoodIn(s, api.notes) /\ (s.page.dialog = NoDialog <=> page.dialog = NoDialog)
      BY <1>2, <3>2, DialogShown
    <3>4. PICK t : t = Notes!ResetPageTokenAndReload(s) OBVIOUS
    <3>5. GoodIn(t, api.notes) /\ (t.page.dialog = NoDialog <=> s.page.dialog = NoDialog)
      BY <3>3, <3>4, ResetOfList
    <3>6. Notes!Becomes(t) BY <2>6, <3>1, <3>4
    <3> QED BY <1>4, <2>1, <3>3, <3>5, <3>6
  <2> QED BY <2>2, <2>3, <2>4, <2>5, <2>6
<1>9. CASE Notes!EditNote
  <2>1. page.dialog = NoDialog /\ UNCHANGED api
    BY <1>9, ClosedOfList DEF Notes!EditNote, Notes!AtList, Notes!IsOpen
  <2>2. PICK ids, noteId : Notes!Becomes(Notes!OpenDialog(h, ids, noteId))
    BY <1>1, <1>9 DEF Notes!EditNote
  <2>3. PICK t : t = Notes!OpenDialog(h, ids, noteId) OBVIOUS
  <2>4. GoodIn(t, api.notes) BY <1>2, <2>1, <2>3, OpenOfList
  <2> QED BY <1>4, <2>1, <2>2, <2>3, <2>4
<1>10. ASSUME NEW n, Notes!RemoveNote(n) PROVE AfterList
  <2>1. PICK p : /\ p = [page EXCEPT !.removing = {<<n.on, n.number>>}]
                 /\ page' = p /\ UNCHANGED <<requests, api>>
    BY <1>10 DEF Notes!RemoveNote, Notes!Shows
  <2>2. DialogKept(page, p) BY <1>3, <2>1 DEF DialogKept
  <2>3. /\ GoodNotes(page', requests', api'.notes)
        /\ page'.dialog = NoDialog <=> page.dialog = NoDialog
    BY <2>1, <2>2, DialogStays DEF NotesGood
  <2> QED BY <2>1, <2>3, ClosedOfList
      DEF AfterList, NotesGood, Notes!DialogReportsStoredNotes, Notes!IsOpen
<1>11. ASSUME NEW b, Notes!ConfirmRemoval(b) PROVE AfterList
  <2>1. PICK s : s = [h EXCEPT !.page.removing = {}, !.page.isLoading = FALSE] OBVIOUS
  <2>2. ShownIn(h, s) BY <1>2, <1>3, <2>1 DEF ShownIn, DialogKept, GoodIn, StateFields
  <2>3. /\ Notes!Becomes(s) \/ \E arg : Notes!Becomes(Notes!Send(s, "delete", arg))
        /\ UNCHANGED api
    BY <1>1, <1>11, <2>1 DEF Notes!ConfirmRemoval
  <2>4. CASE Notes!Becomes(s) BY <1>2, <1>4, <2>2, <2>3, <2>4, DialogShown
  <2> QED BY <1>5, <2>2, <2>3, <2>4
<1>12. ASSUME NEW id, Notes!ShowSubject(id) PROVE AfterList
  <2>1. PICK s : s = [h EXCEPT !.page.id = id] OBVIOUS
  <2>2. ShownIn(h, s) BY <1>2, <1>3, <2>1 DEF ShownIn, DialogKept, GoodIn, StateFields
  <2>3. Notes!Becomes(Notes!LoadNoteList(s, 0, FALSE)) /\ UNCHANGED api
    BY <1>1, <1>12, <2>1 DEF Notes!ShowSubject
  <2> QED BY <1>6, <2>2, <2>3
<1>13. CASE Notes!Reopen
  <2>1. PICK p : p = [Notes!FreshNoteList(page.id,
                        IF browser.notePageSize = 0 THEN NotesPage.DefaultPageSize
                        ELSE browser.notePageSize)
                        EXCEPT !.nextPageToken = browser.notePageToken]
    OBVIOUS
  <2>2. PICK s : s = [h EXCEPT !.page = p, !.requests = <<>>] OBVIOUS
  <2>3. h.browser = browser BY <1>1 DEF Notes!State
  <2>4. Notes!Becomes(Notes!Send(s, "info", page.id)) /\ UNCHANGED api
    BY <1>1, <1>13, <2>1, <2>2, <2>3 DEF Notes!Reopen, Notes!OpenNoteList
  <2>5. page.dialog = NoDialog
    BY <1>13, ClosedOfList DEF Notes!Reopen, Notes!AtList, Notes!IsOpen
  <2>6. GoodIn(s, api.notes)
    <3>1. "dialog" \in DOMAIN p /\ "updated" \in DOMAIN p /\ p.dialog = NoDialog
      BY <2>1, ClosedOfList DEF Notes!FreshNoteList
    <3>2. DOMAIN s = StateFields /\ s.page = p /\ s.requests = <<>>
      BY <1>2, <2>2 DEF GoodIn, StateFields
    <3>3. IsSeq(<<>>) BY NoCalls DEF Calls
    <3> QED BY <3>1, <3>2, <3>3 DEF GoodIn, GoodNotes, NotesGood
  <2>7. PICK t : t = Notes!Send(s, "info", page.id) OBVIOUS
  <2>8. GoodIn(t, api.notes) BY <2>6, <2>7, SendOfList
  <2> QED BY <1>4, <2>4, <2>5, <2>7, <2>8
<1> QED BY <1>8, <1>9, <1>10, <1>11, <1>12, <1>13

\* The service: it removes notes too, which stay stored.
LEMMA ListServed ==
  ASSUME NotesGood, NEW i \in DOMAIN requests, Notes!Serve(i) \/ Notes!Fail(i)
  PROVE  AfterList
<1>1. GoodNotes(page, requests, api.notes) /\ AreNotes(api.notes) BY DEF NotesGood, GoodNotes
<1>2. CASE Notes!Fail(i)
  <2>1. GoodNotes(page, requests', api.notes) BY <1>1, <1>2, AnswerOfList
  <2> QED BY <1>2, <2>1, ServedOfList DEF Notes!Fail, NotesGood
<1>3. CASE Notes!Serve(i)
  <2>1. requests[i].kind # "save" /\ page' = page /\ \E answer : Notes!Answer(i, answer)
    BY <1>3 DEF Notes!Serve
  <2>2. CASE UNCHANGED api
    <3>1. GoodNotes(page, requests', api.notes) BY <1>1, <2>1, AnswerOfList
    <3> QED BY <2>1, <2>2, <3>1, ServedOfList DEF NotesGood
  <2>3. CASE UNCHANGED api => FALSE
    <3>1. PICK arg : arg = requests[i].arg OBVIOUS
    <3>2. PICK m : m = {[n EXCEPT !.removed = n.removed \/ <<n.on, n.number>> \in arg] :
                          n \in api.notes}
      OBVIOUS
    <3>3. api' = [api EXCEPT !.notes = m] BY <1>3, <2>3, <3>1, <3>2 DEF Notes!Serve
    <3>4. "notes" \in DOMAIN api' /\ api'.notes = m BY <3>3 DEF NotesGood
    <3>5. NotesGrow(api.notes, m)
      <4>1. ASSUME NEW y \in m
            PROVE  \E x \in api.notes : DOMAIN y = DOMAIN x
        BY <3>2
      <4>2. AreNotes(m) BY <1>1, <4>1 DEF AreNotes
      <4>3. ASSUME NEW x \in api.notes
            PROVE  \E y \in m : y.on = x.on /\ x.dialogs \subseteq y.dialogs
        <5>1. PICK y : y = [x EXCEPT !.removed = x.removed \/ <<x.on, x.number>> \in arg]
          OBVIOUS
        <5>2. y \in m BY <3>2, <5>1
        <5>3. y.on = x.on /\ y.dialogs = x.dialogs BY <1>1, <5>1 DEF AreNotes
        <5> QED BY <5>2, <5>3
      <4> QED BY <4>2, <4>3 DEF NotesGrow
    <3>6. GoodNotes(page, requests, m) BY <1>1, <3>5, NotesStay
    <3>7. GoodNotes(page, requests', m) BY <2>1, <3>6, AnswerOfList
    <3> QED BY <2>1, <3>4, <3>7, ServedOfList
  <2> QED BY <2>2, <2>3
<1> QED BY <1>2, <1>3

LEMMA NotesInit ==
  ASSUME Notes!Init
  PROVE  NotesGood
<1>1. PICK id \in NotesPage.Subjects :
        /\ page = Notes!FreshNoteList(id, NotesPage.DefaultPageSize)
        /\ requests = <<Notes!Request("info", id)>>
        /\ api = Notes!InitialNotes
  BY DEF Notes!Init
<1>2. "dialog" \in DOMAIN page /\ "updated" \in DOMAIN page /\ page.dialog = NoDialog
  BY <1>1, ClosedOfList DEF Notes!FreshNoteList
<1>3. "notes" \in DOMAIN api /\ AreNotes(api.notes) BY <1>1, FirstNotesOfList
<1>4. PICK c : c = Notes!Request("info", id) OBVIOUS
<1>5. DOMAIN c = CallFields /\ c.kind = "info" BY <1>4 DEF Notes!Request, CallFields
<1>6. GoodDialogCall(c, page.dialog, api.notes) BY <1>5 DEF GoodDialogCall
<1>7. GoodNotes(page, <<>>, api.notes) BY <1>2, <1>3, NoCalls DEF Calls, GoodNotes
<1>8. GoodNotes(page, Append(<<>>, c), api.notes) BY <1>6, <1>7, CallMade
<1>9. requests = Append(<<>>, c) BY <1>1, <1>4
<1> QED BY <1>3, <1>8, <1>9 DEF NotesGood

LEMMA NotesNext ==
  ASSUME NotesGood, Notes!Next
  PROVE  NotesGood' /\ Notes!DialogReportsStoredNotes
<1>1. AfterList
  <2>1. CASE Notes!DialogNext BY <2>1, DialogNextOfList DEF NotesGood
  <2> QED BY <2>1, ListHears, ListSaved, ListUsed, ListServed DEF Notes!Next
<1> QED BY <1>1 DEF AfterList, NotesGood

-----------------------------------------------------------------------------
(* The dialog of the history.                                          *)

\* The next state is as it has to be, and a dialog that said so has stored its notes.
AfterHistory ==
  /\ "notes" \in DOMAIN api' /\ GoodNotes(page', requests', api'.notes)
  /\ History!DialogReportsStoredNotes

LEMMA ClosedOfHistory == History!Closed = NoDialog BY DEF History!Closed, NoDialog

\* A handler that closes no dialog as saved.
LEMMA BecomeOfHistory ==
  ASSUME NEW s, s.page = page, NEW t, History!Becomes(t), UNCHANGED api,
         "notes" \in DOMAIN api, GoodIn(t, api.notes), NoneSaved(s, t)
  PROVE  AfterHistory
BY ClosedOfHistory DEF AfterHistory, History!Becomes, GoodIn, NoneSaved, History!DialogReportsStoredNotes, History!IsOpen

LEMMA HeardOfHistory ==
  ASSUME NEW i \in DOMAIN requests, NEW notes, GoodNotes(page, requests, notes)
  PROVE  /\ GoodIn(History!Heard(i), notes) /\ History!Heard(i).page = page
         /\ GoodIn(History!State, notes) /\ History!State.page = page
<1>1. /\ History!State.page = page /\ History!State.requests = requests
      /\ DOMAIN History!State = StateFields
  BY DEF History!State, StateFields
<1>2. PICK r : r = RemoveAt(requests, i) OBVIOUS
<1>3. History!RemoveAt(requests, i) = r BY <1>2 DEF History!RemoveAt, RemoveAt
<1>4. /\ History!Heard(i).page = page /\ History!Heard(i).requests = r
      /\ DOMAIN History!Heard(i) = StateFields
  BY <1>1, <1>3 DEF History!Heard, StateFields
<1>5. GoodNotes(page, r, notes)
  <2>1. IsSeq(requests) BY DEF GoodNotes
  <2>2. IsSeq(r) /\ \A k \in DOMAIN r : \E j \in DOMAIN requests : r[k] = requests[j]
    BY <1>2, <2>1, RemoveCall
  <2> QED BY <2>2, CallsLeft
<1> QED BY <1>1, <1>4, <1>5 DEF GoodIn

LEMMA StateOfHistory ==
  ASSUME NEW notes, GoodNotes(page, requests, notes)
  PROVE  GoodIn(History!State, notes) /\ History!State.page = page
BY DEF History!State, StateFields, GoodIn

LEMMA SendOfHistory ==
  ASSUME NEW s, NEW notes, GoodIn(s, notes), NEW kind, NEW arg,
         \/ kind \notin {"messages", "note", "save"}
         \/ kind # "save" /\ s.page.dialog # NoDialog
         \/ /\ s.page.dialog # NoDialog
            /\ arg.ids = s.page.dialog.ids /\ arg.dialog = s.page.dialog.opened,
         NEW t, t = History!Send(s, kind, arg)
  PROVE  GoodIn(t, notes) /\ t.page = s.page
<1>1. PICK c : c = History!Request(kind, arg) OBVIOUS
<1>2. /\ DOMAIN c = CallFields /\ c.kind = kind /\ c.arg = arg /\ c.status = "sent"
  BY <1>1 DEF History!Request, CallFields
<1>3. GoodDialogCall(c, s.page.dialog, notes) BY <1>2 DEF GoodDialogCall
<1>4. PICK r : r = Append(s.requests, c) OBVIOUS
<1>5. t.page = s.page /\ DOMAIN t = StateFields /\ t.requests = r
  BY <1>1, <1>4 DEF History!Send, GoodIn, StateFields
<1>6. GoodNotes(s.page, r, notes) BY <1>3, <1>4, CallMade DEF GoodIn
<1> QED BY <1>5, <1>6 DEF GoodIn

\* The dialog opens with nothing saved, and closes with nobody to hear of its calls.
LEMMA OpenOfHistory ==
  ASSUME NEW s, NEW notes, GoodIn(s, notes), s.page.dialog = NoDialog,
         NEW ids, NEW noteId, NEW t, t = History!OpenDialog(s, ids, noteId)
  PROVE  GoodIn(t, notes) /\ t.page.dialog # NoDialog
<1>1. PICK d : d = [ids |-> ids, noteId |-> noteId, opened |-> spent,
           forms |-> [f \in History!Fields |-> ""], dirty |-> FALSE, time |-> History!NoTime,
           messages |-> [f \in History!Fields |-> {}],
           loading |-> FALSE, confirming |-> FALSE]
  OBVIOUS
<1>2. PICK u : u = [s EXCEPT !.page.updated = FALSE, !.page.dialog = d] OBVIOUS
<1>3. t = History!Send(u, "messages", {}) BY <1>1, <1>2 DEF History!OpenDialog
<1>4. DOMAIN d = DialogFields BY <1>1 DEF DialogFields
<1>5. d # NoDialog BY <1>4 DEF DialogFields, NoDialog
<1>6. /\ DOMAIN u = StateFields /\ u.requests = s.requests
      /\ DOMAIN u.page = DOMAIN s.page /\ u.page.dialog = d /\ u.page.updated = FALSE
  BY <1>2 DEF GoodIn, StateFields, GoodNotes
<1>7. ASSUME NEW c, GoodDialogCall(c, s.page.dialog, notes)
      PROVE  GoodDialogCall(c, d, notes)
  BY <1>7 DEF GoodDialogCall
<1>8. GoodIn(u, notes) BY <1>4, <1>6, <1>7 DEF GoodIn, GoodNotes
<1> QED BY <1>3, <1>5, <1>6, <1>8, SendOfHistory

LEMMA CloseOfHistory ==
  ASSUME NEW s, NEW notes, GoodIn(s, notes), NEW t, t = History!CloseDialog(s)
  PROVE  GoodIn(t, notes) /\ t.page.dialog = NoDialog /\ t.page.updated = s.page.updated
<1>1. PICK q : q = s.requests OBVIOUS
<1>2. PICK places : places = {i \in DOMAIN q : q[i].kind \notin {"messages", "note"}} OBVIOUS
<1>3. PICK kept : kept = Kept(q, places) OBVIOUS
<1>4. PICK r : r = [k \in DOMAIN kept |-> IF kept[k].kind = "save"
                            THEN [kept[k] EXCEPT !.kind = "unheard"] ELSE kept[k]]
  OBVIOUS
<1>5. History!OrphanedCalls(q) = r
  <2>1. History!Kept(q, places) = kept
    BY <1>3 DEF History!Kept, Kept, History!Ascending, Ascending, History!Cardinality, Cardinality,
       History!IsFiniteSet, IsFiniteSet
  <2> QED BY <1>2, <1>4, <2>1 DEF History!OrphanedCalls
<1>6. /\ IsSeq(kept)
      /\ \A k \in DOMAIN kept : \E j \in DOMAIN q :
           kept[k] = q[j] /\ q[j].kind \notin {"messages", "note"}
  <2>1. IsSeq(q) /\ places \in SUBSET DOMAIN q BY <1>1, <1>2 DEF GoodIn, GoodNotes
  <2>2. /\ IsSeq(kept) /\ \A k \in DOMAIN kept : \E j \in places : kept[k] = q[j]
    BY <1>3, <2>1, KeptFacts
  <2> QED BY <1>2, <2>2
<1>7. IsSeq(r) /\ DOMAIN r = DOMAIN kept
  <2>1. PICK S : kept \in Seq(S) BY <1>6 DEF IsSeq
  <2>2. DOMAIN r = 1 .. Len(kept) /\ Len(kept) \in Nat BY <1>4, <2>1
  <2>3. r \in Seq({r[k] : k \in DOMAIN r}) BY <1>4, <2>2
  <2>4. DOMAIN r = DOMAIN kept BY <1>4
  <2> QED BY <2>3, <2>4 DEF IsSeq
<1>8. ASSUME NEW k \in DOMAIN r PROVE GoodDialogCall(r[k], NoDialog, notes)
  <2>1. PICK j \in DOMAIN q : kept[k] = q[j] /\ q[j].kind \notin {"messages", "note"}
    BY <1>6, <1>7
  <2>2. DOMAIN q[j] = CallFields BY <1>1 DEF GoodIn, GoodNotes, GoodDialogCall
  <2>3. PICK c : c = r[k] OBVIOUS
  <2>4. c = IF q[j].kind = "save" THEN [q[j] EXCEPT !.kind = "unheard"] ELSE q[j]
    BY <1>4, <1>7, <2>1, <2>3
  <2>5. DOMAIN c = CallFields /\ c.kind \notin {"messages", "note", "save"}
    BY <2>1, <2>2, <2>4 DEF CallFields
  <2>6. GoodDialogCall(c, NoDialog, notes) BY <2>5 DEF GoodDialogCall
  <2> QED BY <2>3, <2>6
<1>9. /\ DOMAIN t = StateFields /\ t.requests = r /\ t.page.dialog = NoDialog
      /\ DOMAIN t.page = DOMAIN s.page /\ t.page.updated = s.page.updated
  BY <1>1, <1>5, ClosedOfHistory DEF History!CloseDialog, GoodIn, StateFields, GoodNotes
<1> QED BY <1>7, <1>8, <1>9 DEF GoodIn, GoodNotes

\* Who hears that the notes are saved finds them stored.
LEMMA SavedOfHistory ==
  ASSUME NEW i \in DOMAIN requests, "notes" \in DOMAIN api,
         GoodNotes(page, requests, api.notes), History!Hears(i, "save", "ok"),
         NEW s, s = History!CloseWithSaved(History!Heard(i))
  PROVE  /\ GoodIn(s, api.notes) /\ UNCHANGED api
         /\ History!DialogReportsStoredNotes
<1>1. PICK h : h = History!Heard(i) OBVIOUS
<1>2. GoodIn(h, api.notes) BY <1>1, HeardOfHistory
<1>3. PICK t : t = History!CloseDialog(h) OBVIOUS
<1>4. GoodIn(t, api.notes) /\ t.page.dialog = NoDialog BY <1>2, <1>3, CloseOfHistory
<1>5. s = [t EXCEPT !.page.updated = TRUE] BY <1>1, <1>3 DEF History!CloseWithSaved
<1>6. /\ DOMAIN s = StateFields /\ s.requests = t.requests /\ s.page.dialog = NoDialog
      /\ DOMAIN s.page = DOMAIN t.page
  BY <1>4, <1>5 DEF GoodIn, StateFields, GoodNotes
<1>7. GoodIn(s, api.notes) BY <1>4, <1>6 DEF GoodIn, GoodNotes
<1>8. StoredFor(api.notes, page.dialog) BY DEF GoodNotes, GoodDialogCall, History!Hears
<1>9. History!DialogReportsStoredNotes BY <1>8 DEF StoredFor, History!DialogReportsStoredNotes
<1> QED BY <1>7, <1>9 DEF History!Hears

-----------------------------------------------------------------------------

\* The dialog hears of answers, and of a save that has failed.
LEMMA DialogHearsHistory ==
  ASSUME NEW i \in DOMAIN requests, "notes" \in DOMAIN api,
         GoodNotes(page, requests, api.notes),
         History!MessagesArrive(i) \/ History!NoteArrives(i) \/ History!SaveFails(i)
  PROVE  AfterHistory
<1>1. PICK h : h = History!Heard(i) OBVIOUS
<1>2. GoodIn(h, api.notes) /\ h.page = page /\ UNCHANGED api
  BY <1>1, HeardOfHistory DEF History!MessagesArrive, History!NoteArrives, History!SaveFails, History!Hears
<1>3. page.dialog # NoDialog /\ DOMAIN page.dialog = DialogFields
        /\ "dialog" \in DOMAIN page /\ "updated" \in DOMAIN page
  BY DEF GoodNotes, GoodDialogCall, History!MessagesArrive, History!NoteArrives, History!SaveFails,
     History!Hears
<1>4. ASSUME NEW t, ShownIn(h, t), History!Becomes(t) PROVE AfterHistory
  BY <1>2, <1>3, <1>4, DialogShown, BecomeOfHistory DEF NoneSaved
<1>5. CASE History!MessagesArrive(i)
  <2>1. PICK s : s = [h EXCEPT !.page.dialog.messages = requests[i].answer] OBVIOUS
  <2>2. ShownIn(h, s)
    BY <1>2, <1>3, <2>1 DEF ShownIn, DialogKept, GoodIn, StateFields, DialogFields
  <2>3. CASE History!Becomes(s) BY <1>4, <2>2, <2>3
  <2>4. CASE \E arg : History!Becomes(History!Send([s EXCEPT !.page.dialog.loading = TRUE], "note", arg))
    <3>1. PICK u : u = [s EXCEPT !.page.dialog.loading = TRUE] OBVIOUS
    <3>2. GoodIn(s, api.notes) /\ s.page.dialog # NoDialog BY <1>2, <1>3, <2>2, DialogShown
    <3>3. /\ DOMAIN s.page.dialog = DialogFields
          /\ "dialog" \in DOMAIN s.page /\ "updated" \in DOMAIN s.page
      BY <3>2 DEF GoodIn, GoodNotes
    <3>4. ShownIn(s, u)
      BY <3>1, <3>2, <3>3 DEF ShownIn, DialogKept, GoodIn, StateFields, DialogFields
    <3>5. GoodIn(u, api.notes) /\ u.page.dialog # NoDialog BY <3>2, <3>4, DialogShown
    <3>6. PICK arg : History!Becomes(History!Send(u, "note", arg)) BY <2>4, <3>1
    <3>7. PICK t : t = History!Send(u, "note", arg) OBVIOUS
    <3>8. GoodIn(t, api.notes) /\ t.page = u.page BY <3>5, <3>7, SendOfHistory
    <3>9. History!Becomes(t) BY <3>6, <3>7
    <3> QED BY <1>2, <3>5, <3>8, <3>9, BecomeOfHistory DEF NoneSaved
  <2> QED BY <1>1, <1>5, <2>1, <2>3, <2>4 DEF History!MessagesArrive
<1>6. CASE History!NoteArrives(i)
  <2>1. \/ \E forms, time : History!Becomes([h EXCEPT !.page.dialog.loading = FALSE,
             !.page.dialog.forms = forms, !.page.dialog.time = time])
        \/ History!Becomes([h EXCEPT !.page.dialog.loading = FALSE])
    BY <1>1, <1>6 DEF History!NoteArrives
  <2>2. CASE History!Becomes([h EXCEPT !.page.dialog.loading = FALSE])
    <3>1. PICK t : t = [h EXCEPT !.page.dialog.loading = FALSE] OBVIOUS
    <3>2. ShownIn(h, t)
      BY <1>2, <1>3, <3>1 DEF ShownIn, DialogKept, GoodIn, StateFields, DialogFields
    <3> QED BY <1>4, <2>2, <3>1, <3>2
  <2>3. ASSUME NEW forms, NEW time, History!Becomes([h EXCEPT !.page.dialog.loading = FALSE,
             !.page.dialog.forms = forms, !.page.dialog.time = time])
        PROVE  AfterHistory
    <3>1. PICK t : t = [h EXCEPT !.page.dialog.loading = FALSE,
             !.page.dialog.forms = forms, !.page.dialog.time = time]
      OBVIOUS
    <3>2. ShownIn(h, t)
      BY <1>2, <1>3, <3>1 DEF ShownIn, DialogKept, GoodIn, StateFields, DialogFields
    <3> QED BY <1>4, <2>3, <3>1, <3>2
  <2> QED BY <2>1, <2>2, <2>3
<1>7. CASE History!SaveFails(i)
  <2>1. PICK t : t = [h EXCEPT !.page.dialog.loading = FALSE] OBVIOUS
  <2>2. ShownIn(h, t)
    BY <1>2, <1>3, <2>1 DEF ShownIn, DialogKept, GoodIn, StateFields, DialogFields
  <2>3. History!Becomes(t) BY <1>1, <1>7, <2>1 DEF History!SaveFails
  <2> QED BY <1>4, <2>2, <2>3
<1> QED BY <1>5, <1>6, <1>7

\* What the user does in the dialog.
LEMMA DialogEditsHistory ==
  ASSUME "notes" \in DOMAIN api, GoodNotes(page, requests, api.notes),
         \/ \E f, t : History!Type(f, t)
         \/ History!AddEventTime \/ History!EditEventTime \/ History!RemoveEventTime
         \/ \E t : History!UpdateEventTime(t)
  PROVE  AfterHistory
<1>1. /\ page.dialog # NoDialog /\ DOMAIN page.dialog = DialogFields
      /\ "dialog" \in DOMAIN page /\ "updated" \in DOMAIN page
  BY ClosedOfHistory DEF GoodNotes, History!IsOpen, History!Type, History!AddEventTime, History!EditEventTime,
     History!RemoveEventTime, History!UpdateEventTime
<1>2. ASSUME NEW p, page' = p, UNCHANGED <<requests, api>>, DialogKept(page, p)
      PROVE  AfterHistory
  BY <1>1, <1>2, DialogStays, ClosedOfHistory
     DEF AfterHistory, History!DialogReportsStoredNotes
<1>3. ASSUME NEW f, NEW t, History!Type(f, t) PROVE AfterHistory
  <2>1. PICK p : p = [page EXCEPT !.dialog.forms[f] = t, !.dialog.dirty = TRUE] OBVIOUS
  <2>2. DialogKept(page, p) BY <1>1, <2>1 DEF DialogKept, DialogFields
  <2> QED BY <1>2, <1>3, <2>1, <2>2 DEF History!Type, History!Shows
<1>4. ASSUME NEW time, History!Shows([page EXCEPT !.dialog.time = time]) PROVE AfterHistory
  <2>1. PICK p : p = [page EXCEPT !.dialog.time = time] OBVIOUS
  <2>2. DialogKept(page, p) BY <1>1, <2>1 DEF DialogKept, DialogFields
  <2> QED BY <1>2, <1>4, <2>1, <2>2 DEF History!Shows
<1>5. CASE History!AddEventTime BY <1>4, <1>5 DEF History!AddEventTime
<1>6. CASE History!EditEventTime
  <2>1. PICK p : p = [page EXCEPT !.dialog.time.editing = TRUE] OBVIOUS
  <2>2. DialogKept(page, p) BY <1>1, <2>1 DEF DialogKept, DialogFields
  <2> QED BY <1>2, <1>6, <2>1, <2>2 DEF History!EditEventTime, History!Shows
<1>7. CASE History!RemoveEventTime BY <1>4, <1>7 DEF History!RemoveEventTime
<1>8. ASSUME NEW t, History!UpdateEventTime(t) PROVE AfterHistory
  <2>1. \E time : History!Shows([page EXCEPT !.dialog.time = time])
    BY <1>8 DEF History!UpdateEventTime
  <2> QED BY <1>4, <2>1
<1> QED BY <1>3, <1>5, <1>6, <1>7, <1>8

\* The dialog saves, or asks first, or closes.
LEMMA DialogSavesHistory ==
  ASSUME "notes" \in DOMAIN api, GoodNotes(page, requests, api.notes),
         History!SaveNotes \/ (\E b : History!ConfirmNewMessage(b)) \/ History!DismissDialog
  PROVE  AfterHistory
<1>1. /\ page.dialog # NoDialog /\ DOMAIN page.dialog = DialogFields
      /\ "dialog" \in DOMAIN page /\ "updated" \in DOMAIN page
  BY ClosedOfHistory DEF GoodNotes, History!IsOpen, History!SaveNotes, History!ConfirmNewMessage,
     History!DismissDialog
<1>2. PICK h : h = History!State OBVIOUS
<1>3. GoodIn(h, api.notes) /\ h.page = page BY <1>2, StateOfHistory
<1>4. UNCHANGED api
  BY DEF History!SaveNotes, History!ConfirmNewMessage, History!DismissDialog
<1>5. ASSUME NEW t, ShownIn(h, t), History!Becomes(t) PROVE AfterHistory
  BY <1>1, <1>3, <1>4, <1>5, DialogShown, BecomeOfHistory DEF NoneSaved
<1>6. PICK info : info = History!NotesInfo(page.dialog) OBVIOUS
<1>7. info.ids = page.dialog.ids /\ info.dialog = page.dialog.opened
  BY <1>6 DEF History!NotesInfo
<1>8. ASSUME NEW s, ShownIn(h, s), History!Becomes(History!Send(s, "save", info)) PROVE AfterHistory
  <2>1. /\ GoodIn(s, api.notes) /\ s.page.dialog # NoDialog
        /\ s.page.dialog.ids = page.dialog.ids /\ s.page.dialog.opened = page.dialog.opened
    BY <1>1, <1>3, <1>8, DialogShown DEF ShownIn, DialogKept
  <2>2. PICK t : t = History!Send(s, "save", info) OBVIOUS
  <2>3. GoodIn(t, api.notes) /\ t.page = s.page BY <1>7, <2>1, <2>2, SendOfHistory
  <2>4. History!Becomes(t) BY <1>8, <2>2
  <2> QED BY <1>3, <1>4, <2>1, <2>3, <2>4, BecomeOfHistory DEF NoneSaved
<1>9. CASE History!SaveNotes
  <2>1. PICK s : s = [h EXCEPT !.page.dialog.loading = TRUE] OBVIOUS
  <2>2. PICK t : t = [s EXCEPT !.page.dialog.confirming = TRUE] OBVIOUS
  <2>3. ShownIn(h, s)
    BY <1>1, <1>3, <2>1 DEF ShownIn, DialogKept, GoodIn, StateFields, DialogFields
  <2>4. t = [h EXCEPT !.page.dialog.loading = TRUE, !.page.dialog.confirming = TRUE]
    BY <2>1, <2>2
  <2>5. ShownIn(h, t)
    BY <1>1, <1>3, <2>4 DEF ShownIn, DialogKept, GoodIn, StateFields, DialogFields
  <2>6. History!Becomes(t) \/ History!Becomes(History!Send(s, "save", info))
    BY <1>2, <1>6, <1>9, <2>1, <2>2 DEF History!SaveNotes
  <2> QED BY <1>5, <1>8, <2>3, <2>5, <2>6
<1>10. ASSUME NEW b, History!ConfirmNewMessage(b) PROVE AfterHistory
  <2>1. PICK s : s = [h EXCEPT !.page.dialog.confirming = FALSE,
                               !.page.dialog.loading = FALSE]
    OBVIOUS
  <2>2. ShownIn(h, s)
    BY <1>1, <1>3, <2>1 DEF ShownIn, DialogKept, GoodIn, StateFields, DialogFields
  <2>3. History!Becomes(s) \/ History!Becomes(History!Send(s, "save", info))
    BY <1>2, <1>6, <1>10, <2>1 DEF History!ConfirmNewMessage
  <2> QED BY <1>5, <1>8, <2>2, <2>3
<1>11. CASE History!DismissDialog
  <2>1. PICK t : t = History!CloseDialog(h) OBVIOUS
  <2>2. GoodIn(t, api.notes) /\ t.page.updated = page.updated BY <1>3, <2>1, CloseOfHistory
  <2>3. page.updated = FALSE BY <1>1 DEF GoodNotes
  <2>4. History!Becomes(t) BY <1>2, <1>11, <2>1 DEF History!DismissDialog
  <2> QED BY <1>3, <1>4, <2>2, <2>3, <2>4, BecomeOfHistory DEF NoneSaved
<1> QED BY <1>9, <1>10, <1>11

\* What is stored: a note that was there is kept, or is written anew by one more.
LEMMA StoreOfHistory ==
  ASSUME NEW info, AreNotes(api.notes)
  PROVE  /\ NotesGrow(api.notes, History!Store(info))
         /\ \A on \in info.ids : \E n \in History!Store(info) :
              n.on = on /\ info.dialog \in n.dialogs
<1> DEFINE Stored(on, number) == {n \in api.notes : n.on = on /\ n.number = number}
           Written(on, number) ==
             [on |-> on, number |-> number, removed |-> FALSE,
              dialogs |-> {info.dialog} \cup UNION {n.dialogs : n \in Stored(on, number)},
              content |-> info.content, time |-> info.time]
           Old == {n \in api.notes : n.on \notin info.ids \/ n.number # info.noteId}
           Changed == Old \cup {Written(s, info.noteId) : s \in info.ids}
           Added == api.notes \cup {Written(s, api.next) : s \in info.ids}
<1>1. History!Store(info) = IF info.noteId # History!NoNote THEN Changed ELSE Added
  BY DEF History!Store
<1>2. \A on, number : LET n == Written(on, number)
                      IN /\ n.on = on /\ info.dialog \in n.dialogs
                         /\ "on" \in DOMAIN n /\ "dialogs" \in DOMAIN n
                         /\ \A x \in Stored(on, number) : x.dialogs \subseteq n.dialogs
  OBVIOUS
<1> HIDE DEF Written
<1>3. ASSUME NEW x \in api.notes, x \notin Old
      PROVE  \E y \in Changed : y.on = x.on /\ x.dialogs \subseteq y.dialogs
  <2>1. x.on \in info.ids /\ x \in Stored(x.on, info.noteId) BY <1>3
  <2>2. Written(x.on, info.noteId) \in Changed BY <2>1
  <2> QED BY <1>2, <2>1, <2>2
<1>4. NotesGrow(api.notes, Changed)
  <2>1. AreNotes(Changed) BY <1>2 DEF AreNotes
  <2>2. \A x \in api.notes : \E y \in Changed : y.on = x.on /\ x.dialogs \subseteq y.dialogs
    BY <1>3
  <2> QED BY <2>1, <2>2 DEF NotesGrow
<1>5. NotesGrow(api.notes, Added)
  <2>1. AreNotes(Added) BY <1>2 DEF AreNotes
  <2> QED BY <2>1 DEF NotesGrow
<1>6. \A on \in info.ids : \E n \in Changed : n.on = on /\ info.dialog \in n.dialogs
  BY <1>2
<1>7. \A on \in info.ids : \E n \in Added : n.on = on /\ info.dialog \in n.dialogs
  BY <1>2
<1> QED BY <1>1, <1>4, <1>5, <1>6, <1>7

\* The calls change, the page does not.
LEMMA ServedOfHistory ==
  ASSUME "notes" \in DOMAIN api', GoodNotes(page, requests', api'.notes), page' = page
  PROVE  AfterHistory
BY DEF AfterHistory, History!DialogReportsStoredNotes, History!IsOpen

\* An answer of a call that does not save, and a failure.
LEMMA AnswerOfHistory ==
  ASSUME NEW i \in DOMAIN requests, NEW notes, GoodNotes(page, requests, notes)
  PROVE  /\ History!Fail(i) => GoodNotes(page, requests', notes)
         /\ \A answer : History!Answer(i, answer)
              /\ (requests[i].kind = "save" => StoredFor(notes, page.dialog))
              => GoodNotes(page, requests', notes)
<1>1. PICK c : c = requests[i] OBVIOUS
<1>2. GoodDialogCall(c, page.dialog, notes) BY <1>1 DEF GoodNotes
<1>3. ASSUME History!Fail(i) PROVE GoodNotes(page, requests', notes)
  <2>1. PICK e : e = [c EXCEPT !.status = "error"] OBVIOUS
  <2>2. DOMAIN e = CallFields /\ e.kind = c.kind /\ e.arg = c.arg /\ e.status = "error"
    BY <1>2, <2>1 DEF GoodDialogCall, CallFields
  <2>3. GoodDialogCall(e, page.dialog, notes) BY <1>2, <2>2 DEF GoodDialogCall
  <2>4. requests' = [requests EXCEPT ![i] = e] BY <1>1, <1>3, <2>1 DEF History!Fail
  <2> QED BY <2>3, <2>4, CallAnswered
<1>4. ASSUME NEW answer, History!Answer(i, answer), c.kind = "save" => StoredFor(notes, page.dialog)
      PROVE  GoodNotes(page, requests', notes)
  <2>1. PICK e : e = [c EXCEPT !.status = "ok", !.answer = answer] OBVIOUS
  <2>2. DOMAIN e = CallFields /\ e.kind = c.kind /\ e.arg = c.arg
    BY <1>2, <2>1 DEF GoodDialogCall, CallFields
  <2>3. GoodDialogCall(e, page.dialog, notes) BY <1>2, <1>4, <2>2 DEF GoodDialogCall
  <2>4. requests' = [requests EXCEPT ![i] = e] BY <1>1, <1>4, <2>1 DEF History!Answer
  <2> QED BY <2>3, <2>4, CallAnswered
<1> QED BY <1>1, <1>3, <1>4

LEMMA DialogServedHistory ==
  ASSUME NEW i \in DOMAIN requests, "notes" \in DOMAIN api,
         GoodNotes(page, requests, api.notes),
         History!ServeMessages(i) \/ History!ServeNote(i) \/ History!ServeSave(i)
  PROVE  AfterHistory
<1>1. CASE History!ServeMessages(i) \/ History!ServeNote(i)
  <2>1. /\ page' = page /\ api' = api /\ requests[i].kind # "save"
        /\ \E answer : History!Answer(i, answer)
    BY <1>1 DEF History!ServeMessages, History!ServeNote
  <2>2. GoodNotes(page, requests', api.notes) BY <2>1, AnswerOfHistory
  <2> QED BY <2>1, <2>2, ServedOfHistory
<1>2. CASE History!ServeSave(i)
  <2>1. PICK info : info = requests[i].arg OBVIOUS
  <2>2. PICK n : n = History!Store(info) OBVIOUS
  <2>3. /\ page' = page /\ requests[i].kind \in {"save", "unheard"}
        /\ \E a, b : api' = [api EXCEPT !.notes = n, !.next = a, !.messages = b]
        /\ IF requests[i].kind = "save" THEN History!Answer(i, {})
           ELSE requests' = History!RemoveAt(requests, i)
    BY <1>2, <2>1, <2>2 DEF History!ServeSave
  <2>4. "notes" \in DOMAIN api' /\ api'.notes = n BY <2>3
  <2>5. /\ NotesGrow(api.notes, n)
        /\ \A on \in info.ids : \E x \in n : x.on = on /\ info.dialog \in x.dialogs
    BY <2>2, StoreOfHistory DEF GoodNotes
  <2>6. GoodNotes(page, requests, n) BY <2>5, NotesStay
  <2>7. CASE requests[i].kind = "save"
    <3>1. info.ids = page.dialog.ids /\ info.dialog = page.dialog.opened
      BY <2>1, <2>7 DEF GoodNotes, GoodDialogCall
    <3>2. StoredFor(n, page.dialog) BY <2>5, <3>1 DEF StoredFor
    <3>3. GoodNotes(page, requests', n) BY <2>3, <2>6, <2>7, <3>2, AnswerOfHistory
    <3> QED BY <2>3, <2>4, <3>3, ServedOfHistory
  <2>8. CASE requests[i].kind # "save"
    <3>1. requests' = RemoveAt(requests, i)
      BY <2>3, <2>8 DEF History!RemoveAt, RemoveAt
    <3>2. PICK r : r = RemoveAt(requests, i) OBVIOUS
    <3>3. IsSeq(r) /\ \A k \in DOMAIN r : \E j \in DOMAIN requests : r[k] = requests[j]
      <4>1. IsSeq(requests) BY DEF GoodNotes
      <4> QED BY <3>2, <4>1, RemoveCall
    <3>4. GoodNotes(page, r, n) BY <2>6, <3>3, CallsLeft
    <3> QED BY <2>3, <2>4, <3>1, <3>2, <3>4, ServedOfHistory
  <2> QED BY <2>7, <2>8
<1> QED BY <1>1, <1>2

LEMMA DialogNextOfHistory ==
  ASSUME "notes" \in DOMAIN api, GoodNotes(page, requests, api.notes), History!DialogNext
  PROVE  AfterHistory
BY DialogHearsHistory, DialogEditsHistory, DialogSavesHistory, DialogServedHistory DEF History!DialogNext

LEMMA FirstNotesOfHistory == "notes" \in DOMAIN History!InitialNotes /\ AreNotes(History!InitialNotes.notes)
<1> DEFINE First(s) == [on |-> s, number |-> HistoryPage.FirstNote[s], removed |-> FALSE,
                        dialogs |-> {}, time |-> "",
                        content |-> [f \in History!Fields |-> IF f = "message" THEN "" ELSE "known"]]
<1>1. /\ "notes" \in DOMAIN History!InitialNotes
      /\ History!InitialNotes.notes = {First(s) : s \in HistoryPage.Subjects}
  BY DEF History!InitialNotes
<1>2. \A s : "on" \in DOMAIN First(s) /\ "dialogs" \in DOMAIN First(s) OBVIOUS
<1> HIDE DEF First
<1> QED BY <1>1, <1>2 DEF AreNotes

-----------------------------------------------------------------------------
(* The history.                                                            *)

\* The records are asked for, of whatever place.
LEMMA LoadOfHistory ==
  ASSUME NEW s, GoodIn(s, api.notes), NEW previous, NEW t, t = History!LoadHistory(s, previous)
  PROVE  GoodIn(t, api.notes) /\ (t.page.dialog = NoDialog <=> s.page.dialog = NoDialog)
<1>1. PICK u : u = [s EXCEPT !.page.isLoading = s.page.id \notin HistoryPage.Hosts] OBVIOUS
<1>2. ShownIn(s, u)
  BY <1>1 DEF ShownIn, DialogKept, GoodIn, GoodNotes, StateFields
<1>3. PICK arg : t = History!Send(u, "history", arg) BY <1>1 DEF History!LoadHistory
<1> QED BY <1>2, <1>3, DialogShown, SendOfHistory

LEMMA ResetOfHistory ==
  ASSUME NEW s, GoodIn(s, api.notes), NEW t, t = History!ResetPageTokenAndReload(s)
  PROVE  GoodIn(t, api.notes) /\ (t.page.dialog = NoDialog <=> s.page.dialog = NoDialog)
<1>1. PICK u : u = [s EXCEPT !.page.prevPageToken = History!NoToken,
                             !.page.nextPageToken = History!NoToken]
  OBVIOUS
<1>2. ShownIn(s, u)
  BY <1>1 DEF ShownIn, DialogKept, GoodIn, GoodNotes, StateFields
<1>3. PICK b : b = FALSE OBVIOUS
<1>4. t = History!LoadHistory(u, b) BY <1>1, <1>3 DEF History!ResetPageTokenAndReload
<1> QED BY <1>2, <1>4, DialogShown, LoadOfHistory

LEMMA RouteOfHistory ==
  ASSUME NEW s, GoodIn(s, api.notes), NEW t, t = History!TakeRouteParams(s)
  PROVE  GoodIn(t, api.notes) /\ (t.page.dialog = NoDialog <=> s.page.dialog = NoDialog)
<1>1. PICK token, size, u :
        u = [s EXCEPT !.page.prevPageToken = History!NoToken,
                      !.page.nextPageToken = token, !.page.pager.pageSize = size]
        /\ t = History!LoadHistory(u, FALSE)
  BY DEF History!TakeRouteParams
<1>2. ShownIn(s, u)
  BY <1>1 DEF ShownIn, DialogKept, GoodIn, GoodNotes, StateFields
<1>3. PICK b : b = FALSE OBVIOUS
<1>4. t = History!LoadHistory(u, b) BY <1>1, <1>3
<1> QED BY <1>2, <1>4, DialogShown, LoadOfHistory

HistoryGood == "notes" \in DOMAIN api /\ GoodNotes(page, requests, api.notes)

LEMMA HistoryHears ==
  ASSUME HistoryGood, NEW i \in DOMAIN requests,
         History!HistoryArrives(i) \/ History!NotesArrive(i)
  PROVE  AfterHistory
<1>1. PICK h : h = History!Heard(i) OBVIOUS
<1>2. GoodIn(h, api.notes) /\ h.page = page /\ UNCHANGED api
  BY <1>1, HeardOfHistory
  DEF HistoryGood, History!HistoryArrives, History!NotesArrive, History!Hears
<1>3. ASSUME NEW t, GoodIn(t, api.notes), t.page.dialog = NoDialog <=> page.dialog = NoDialog,
             History!Becomes(t)
      PROVE  AfterHistory
  BY <1>2, <1>3, BecomeOfHistory DEF HistoryGood, NoneSaved
<1>4. "dialog" \in DOMAIN page /\ "updated" \in DOMAIN page BY DEF HistoryGood, GoodNotes
<1>5. CASE History!HistoryArrives(i)
  <2>1. CASE History!Becomes(h) BY <1>2, <1>3, <2>1
  <2>2. CASE \E items, prev, next, arg :
               History!Becomes(History!Send(
                 [h EXCEPT !.page.historyList = items, !.page.notes = {},
                           !.page.prevPageToken = prev, !.page.nextPageToken = next],
                 "notes", arg))
    <3>1. PICK items, prev, next, arg :
               History!Becomes(History!Send(
                 [h EXCEPT !.page.historyList = items, !.page.notes = {},
                           !.page.prevPageToken = prev, !.page.nextPageToken = next],
                 "notes", arg))
      BY <2>2
    <3>2. PICK s : s = [h EXCEPT !.page.historyList = items, !.page.notes = {},
                           !.page.prevPageToken = prev, !.page.nextPageToken = next]
      OBVIOUS
    <3>3. ShownIn(h, s) BY <1>2, <1>4, <3>2 DEF ShownIn, DialogKept, GoodIn, StateFields
    <3>4. GoodIn(s, api.notes) /\ (s.page.dialog = NoDialog <=> page.dialog = NoDialog)
      BY <1>2, <3>3, DialogShown
    <3>5. PICK t : t = History!Send(s, "notes", arg) OBVIOUS
    <3>6. GoodIn(t, api.notes) /\ t.page = s.page BY <3>4, <3>5, SendOfHistory
    <3>7. History!Becomes(t) BY <3>1, <3>2, <3>5
    <3> QED BY <1>3, <3>4, <3>6, <3>7
  <2> QED BY <1>1, <1>5, <2>1, <2>2 DEF History!HistoryArrives
<1>6. CASE History!NotesArrive(i)
  <2>1. PICK found : found = {r \in requests[i].answer : r \in History!Range(page.historyList)}
    OBVIOUS
  <2>2. PICK s : s = [h EXCEPT !.page.notes = h.page.notes \cup found,
                               !.page.isLoading = FALSE]
    OBVIOUS
  <2>3. ShownIn(h, s) BY <1>2, <1>4, <2>2 DEF ShownIn, DialogKept, GoodIn, StateFields
  <2>4. GoodIn(s, api.notes) /\ (s.page.dialog = NoDialog <=> page.dialog = NoDialog)
    BY <1>2, <2>3, DialogShown
  <2>5. PICK t : t = History!RefreshPaginator(s) OBVIOUS
  <2>6. ShownIn(s, t)
    BY <2>4, <2>5 DEF ShownIn, DialogKept, GoodIn, GoodNotes, StateFields,
       History!RefreshPaginator
  <2>7. GoodIn(t, api.notes) /\ (t.page.dialog = NoDialog <=> page.dialog = NoDialog)
    BY <2>4, <2>6, DialogShown
  <2>8. History!Becomes(t) BY <1>1, <1>6, <2>1, <2>2, <2>5 DEF History!NotesArrive
  <2> QED BY <1>3, <2>7, <2>8
<1> QED BY <1>5, <1>6

LEMMA HistorySaved ==
  ASSUME HistoryGood, NEW i \in DOMAIN requests, History!NotesSaved(i)
  PROVE  AfterHistory
<1>1. PICK s : s = History!CloseWithSaved(History!Heard(i)) OBVIOUS
<1>2. GoodIn(s, api.notes) /\ UNCHANGED api /\ History!DialogReportsStoredNotes
  BY <1>1, SavedOfHistory DEF HistoryGood, History!NotesSaved
<1>3. PICK b : b = FALSE OBVIOUS
<1>4. PICK t : t = History!LoadHistory(s, b) OBVIOUS
<1>5. History!Becomes(t) BY <1>1, <1>3, <1>4 DEF History!NotesSaved
<1>6. GoodIn(t, api.notes) BY <1>2, <1>4, LoadOfHistory
<1> QED BY <1>2, <1>5, <1>6 DEF AfterHistory, HistoryGood, GoodIn, History!Becomes

LEMMA HistoryUsed ==
  ASSUME HistoryGood,
         \/ History!LoadPage \/ History!EditNote \/ (\E id : History!ShowSubject(id))
         \/ History!Reopen
  PROVE  AfterHistory
<1>1. PICK h : h = History!State OBVIOUS
<1>2. GoodIn(h, api.notes) /\ h.page = page BY <1>1, StateOfHistory DEF HistoryGood
<1>3. "dialog" \in DOMAIN page /\ "updated" \in DOMAIN page BY DEF HistoryGood, GoodNotes
<1>4. page.dialog = NoDialog /\ UNCHANGED api
  BY ClosedOfHistory DEF History!LoadPage, History!EditNote, History!ShowSubject,
     History!Reopen, History!AtHistory, History!IsOpen
<1>5. ASSUME NEW t, GoodIn(t, api.notes), History!Becomes(t) PROVE AfterHistory
  BY <1>2, <1>4, <1>5, BecomeOfHistory DEF HistoryGood, NoneSaved
<1>6. CASE History!LoadPage
  <2>1. \E pager, b :
          \/ History!Becomes(History!LoadHistory([h EXCEPT !.page.pager = pager], b))
          \/ History!Becomes(History!ResetPageTokenAndReload([h EXCEPT !.page.pager = pager]))
    BY <1>1, <1>6 DEF History!LoadPage
  <2>2. PICK pager, b :
          \/ History!Becomes(History!LoadHistory([h EXCEPT !.page.pager = pager], b))
          \/ History!Becomes(History!ResetPageTokenAndReload([h EXCEPT !.page.pager = pager]))
    BY <2>1
  <2>3. PICK s : s = [h EXCEPT !.page.pager = pager] OBVIOUS
  <2>4. ShownIn(h, s) BY <1>2, <1>3, <2>3 DEF ShownIn, DialogKept, GoodIn, StateFields
  <2>5. GoodIn(s, api.notes) BY <1>2, <2>4, DialogShown
  <2>6. PICK t : t = History!LoadHistory(s, b) OBVIOUS
  <2>7. PICK u : u = History!ResetPageTokenAndReload(s) OBVIOUS
  <2>8. GoodIn(t, api.notes) BY <2>5, <2>6, LoadOfHistory
  <2>9. GoodIn(u, api.notes) BY <2>5, <2>7, ResetOfHistory
  <2>10. History!Becomes(t) \/ History!Becomes(u) BY <2>2, <2>3, <2>6, <2>7
  <2> QED BY <1>5, <2>8, <2>9, <2>10
<1>7. CASE History!EditNote
  <2>1. PICK ids, noteId : History!Becomes(History!OpenDialog(h, ids, noteId))
    BY <1>1, <1>7 DEF History!EditNote
  <2>2. PICK t : t = History!OpenDialog(h, ids, noteId) OBVIOUS
  <2>3. GoodIn(t, api.notes) BY <1>2, <1>4, <2>2, OpenOfHistory
  <2> QED BY <1>5, <2>1, <2>2, <2>3
<1>8. ASSUME NEW id, History!ShowSubject(id) PROVE AfterHistory
  <2>1. PICK s : s = [h EXCEPT !.page.id = id, !.browser.route = History!NoParams,
                               !.browser.url = History!NoParams]
    OBVIOUS
  <2>2. ShownIn(h, s) BY <1>2, <1>3, <2>1 DEF ShownIn, DialogKept, GoodIn, StateFields
  <2>3. GoodIn(s, api.notes) BY <1>2, <2>2, DialogShown
  <2>4. PICK b : b = FALSE OBVIOUS
  <2>5. PICK t : t = History!LoadHistory(s, b) OBVIOUS
  <2>6. GoodIn(t, api.notes) BY <2>3, <2>5, LoadOfHistory
  <2>7. PICK u : u = History!TakeRouteParams(t) OBVIOUS
  <2>8. GoodIn(u, api.notes) BY <2>6, <2>7, RouteOfHistory
  <2>9. History!Becomes(t) \/ History!Becomes(u)
    BY <1>1, <1>8, <2>1, <2>4, <2>5, <2>7 DEF History!ShowSubject
  <2> QED BY <1>5, <2>6, <2>8, <2>9
<1>9. CASE History!Reopen
  <2>1. PICK p : p = History!FreshHistory(page.id) OBVIOUS
  <2>2. PICK s : s = [h EXCEPT !.page = p, !.requests = <<>>, !.browser.route = h.browser.url]
    OBVIOUS
  <2>3. PICK t : t = History!TakeRouteParams(s) OBVIOUS
  <2>4. History!Becomes(t)
    BY <1>1, <1>9, <2>1, <2>2, <2>3 DEF History!Reopen, History!OpenHistory
  <2>5. "dialog" \in DOMAIN p /\ "updated" \in DOMAIN p /\ p.dialog = NoDialog
    BY <2>1, ClosedOfHistory DEF History!FreshHistory
  <2>6. DOMAIN s = StateFields /\ s.page = p /\ s.requests = <<>>
    BY <1>2, <2>2 DEF GoodIn, StateFields
  <2>7. GoodIn(s, api.notes) BY <2>5, <2>6, NoCalls DEF Calls, GoodIn, GoodNotes, HistoryGood
  <2>8. GoodIn(t, api.notes) BY <2>3, <2>7, RouteOfHistory
  <2> QED BY <1>5, <2>4, <2>8
<1> QED BY <1>6, <1>7, <1>8, <1>9

LEMMA HistoryServed ==
  ASSUME HistoryGood, NEW i \in DOMAIN requests, History!Serve(i) \/ History!Fail(i)
  PROVE  AfterHistory
<1>1. GoodNotes(page, requests, api.notes) BY DEF HistoryGood
<1>2. CASE History!Fail(i)
  <2>1. GoodNotes(page, requests', api.notes) BY <1>1, <1>2, AnswerOfHistory
  <2> QED BY <1>2, <2>1, ServedOfHistory DEF History!Fail, HistoryGood
<1>3. CASE History!Serve(i)
  <2>1. /\ requests[i].kind # "save" /\ page' = page /\ api' = api
        /\ \E answer : History!Answer(i, answer)
    BY <1>3 DEF History!Serve
  <2>2. GoodNotes(page, requests', api.notes) BY <1>1, <2>1, AnswerOfHistory
  <2> QED BY <2>1, <2>2, ServedOfHistory DEF HistoryGood
<1> QED BY <1>2, <1>3

LEMMA HistoryInit ==
  ASSUME History!Init
  PROVE  HistoryGood
<1>1. PICK id, s0, b : /\ s0 = [page |-> History!FreshHistory(id), requests |-> <<>>, browser |-> b]
                   /\ page = History!OpenHistory(s0, id).page
                   /\ requests = History!OpenHistory(s0, id).requests
                   /\ api = History!InitialNotes
  BY DEF History!Init
<1>2. PICK p : p = History!FreshHistory(id) OBVIOUS
<1>3. PICK s : s = [s0 EXCEPT !.page = p, !.requests = <<>>, !.browser.route = b.url] OBVIOUS
<1>4. PICK t : t = History!TakeRouteParams(s) OBVIOUS
<1>5. page = t.page /\ requests = t.requests
  BY <1>1, <1>2, <1>3, <1>4 DEF History!OpenHistory
<1>6. "dialog" \in DOMAIN p /\ "updated" \in DOMAIN p /\ p.dialog = NoDialog
  BY <1>2, ClosedOfHistory DEF History!FreshHistory
<1>7. DOMAIN s = StateFields /\ s.page = p /\ s.requests = <<>>
  BY <1>1, <1>3 DEF StateFields
<1>8. "notes" \in DOMAIN api /\ AreNotes(api.notes) BY <1>1, FirstNotesOfHistory
<1>9. GoodIn(s, api.notes) BY <1>6, <1>7, <1>8, NoCalls DEF Calls, GoodIn, GoodNotes
<1>10. GoodIn(t, api.notes) BY <1>4, <1>9, RouteOfHistory
<1> QED BY <1>5, <1>8, <1>10 DEF HistoryGood, GoodIn

LEMMA HistoryNext ==
  ASSUME HistoryGood, History!Next
  PROVE  HistoryGood' /\ History!DialogReportsStoredNotes
<1>1. AfterHistory
  <2>1. CASE History!DialogNext BY <2>1, DialogNextOfHistory DEF HistoryGood
  <2> QED BY <2>1, HistoryHears, HistorySaved, HistoryUsed, HistoryServed DEF History!Next
<1> QED BY <1>1 DEF AfterHistory, HistoryGood

MenuInv == route = "hosts" => GoodMenu(page)
DetailsInv == route = "details" => GoodDetails(page, requests)
MessagesInv == route = "messages" => GoodMessages(page, browser, requests)
RecoveryInv == route = "recovery" => GoodRecovery(page, requests)
ConsoleInv == route = "console" => GoodConsole(page) /\ OneCall(page, requests) /\ GoodLog(api)
RunInv == route = "run" => RunIInv
FilesInv == route = "local files" => FilesIInv
DevicesInv == route = "devices" => GoodDevices(page) /\ GoodAnswers(requests) /\ GoodService(api)
TablesInv == route = "offline hosts" => GoodTables(page) /\ GoodFinds(requests)
AddressInv ==
  route = "offline hosts" => GoodTables(page) /\ GoodFinds(requests) /\ GoodAddress(page, browser)
NewRunInv == route = "new run" => GoodNewRun(page)
PlanInv == route = "plan" => GoodPlan(page)
PickerInv == route = "picker" => PickerIInv

\* The menu of the filter bar shows the columns, or the values of the one that is open,
\* whatever was typed, toggled and loaded before, and whatever answers come in between
\* (filterbar_util.ts, host_list.ts).
THEOREM MenuHasOneColumn == Spec => []MenuShowsOneColumn
<1>1. Init => MenuInv BY MenuInit DEF Init, MenuInv
<1>2. MenuInv /\ [Next]_pageVars => MenuInv'
  <2>1. route' = "hosts" /\ [Next]_pageVars
          => route = "hosts" /\ [ListOfHosts!Next]_vars
    BY DEF Next, pageVars, vars
  <2> QED BY <2>1, MenuNext DEF MenuInv
<1>3. MenuInv => MenuShowsOneColumn
  BY MenuShown DEF MenuInv, MenuShowsOneColumn
<1> QED BY <1>1, <1>2, <1>3, PTL DEF Spec

\* The page of a host or device is masked only while a call is under way: each handler
\* that leaves a call to be heard of, or starts another, unmasks it only with the last
\* one (host_details.ts, device_details.ts).
THEOREM MaskGoesAway == Spec => []MaskedOnlyWhileLoading
<1>1. Init => DetailsInv BY DetailsInit DEF Init, DetailsInv
<1>2. DetailsInv /\ [Next]_pageVars => DetailsInv'
  <2>1. route' = "details" /\ [Next]_pageVars
          => route = "details" /\ [Details!Next]_vars
    BY DEF Next, pageVars, vars
  <2> QED BY <2>1, DetailsNext DEF DetailsInv
<1>3. DetailsInv => MaskedOnlyWhileLoading
  BY DEF DetailsInv, GoodDetails, Waits, MaskedOnlyWhileLoading,
         Details!MaskedOnlyWhileLoading
<1> QED BY <1>1, <1>2, <1>3, PTL DEF Spec

\* The filter of the predefined messages is what the browser remembers of it, once no
\* load is under way (updateLocalStorage in predefined_message_list.ts).
THEOREM FilterStored == Spec => []FilterIsRemembered
<1>1. Init => MessagesInv BY MessagesInit DEF Init, MessagesInv
<1>2. MessagesInv /\ [Next]_pageVars => MessagesInv'
  <2>1. route' = "messages" /\ [Next]_pageVars
          => route = "messages" /\ [Messages!Next]_vars
    BY DEF Next, pageVars, vars
  <2> QED BY <2>1, MessagesNext DEF MessagesInv
<1>3. MessagesInv => FilterIsRemembered
  BY DEF MessagesInv, GoodMessages, Waits, FilterIsRemembered, Messages!FilterIsRemembered
<1> QED BY <1>1, <1>2, <1>3, PTL DEF Spec

\* The recovery page marks either the focused host or the selected ones
\* (recovery_page.ts), and the devices it lists beside the focused host are its own unless
\* it was focused during the load of another's, or its own load failed: a load is given
\* up with its list (takeUntil in recovery_device_list.ts).
THEOREM RecoveryHasOneTarget == Spec => []OneTargetOfRecovery
<1>1. Init => RecoveryInv BY RecoveryInit DEF Init, RecoveryInv
<1>2. RecoveryInv /\ [Next]_pageVars => RecoveryInv'
  <2>1. route' = "recovery" /\ [Next]_pageVars
          => route = "recovery" /\ [HostsToRecover!Next]_vars
    BY DEF Next, pageVars, vars
  <2> QED BY <2>1, RecoveryNext DEF RecoveryInv
<1>3. RecoveryInv => OneTargetOfRecovery
  BY RecoveryShown DEF RecoveryInv, OneTargetOfRecovery
<1> QED BY <1>1, <1>2, <1>3, PTL DEF Spec

\* The console shows the selected log, no byte of it twice or before an earlier one:
\* the one call there is asks for what follows what is shown (test_run_console.ts).
THEOREM ConsoleShowsTheLog == Spec => []OutputIsOfTheLog
<1>1. Init => ConsoleInv BY ConsoleInit DEF Init, ConsoleInv
<1>2. ConsoleInv /\ [Next]_pageVars => ConsoleInv'
  <2>1. route' = "console" /\ [Next]_pageVars
          => route = "console" /\ [Console!Next]_vars
    BY DEF Next, pageVars, vars
  <2> QED BY <2>1, ConsoleNext DEF ConsoleInv
<1>3. ConsoleInv => OutputIsOfTheLog
  BY ConsoleShows DEF ConsoleInv, OutputIsOfTheLog
<1> QED BY <1>1, <1>2, <1>3, PTL DEF Spec

\* The page of a test run stops updating itself only when the run is final for the
\* service too (loadTestRun clears autoUpdate), whatever calls are slow, fail or
\* overtake each other.
THEOREM UpdatesAlways == Spec => []UpdatesUntilFinal
<1>1. Init => RunInv BY RunInit DEF Init, RunInv
<1>2. RunInv /\ [Next]_pageVars => RunInv'
  <2>1. route' = "run" /\ [Next]_pageVars
          => route = "run" /\ [Run!Next]_vars
    BY DEF Next, pageVars, vars
  <2> QED BY <2>1, RunNext DEF RunInv
<1>3. RunInv => UpdatesUntilFinal
  BY DEF RunInv, RunIInv, UpdatesUntilFinal
<1> QED BY <1>1, <1>2, <1>3, PTL DEF Spec

\* A file that the file server has in its place has each byte where the upload had it,
\* however uploads of it are canceled and retried and whatever chunks are lost or late,
\* unless two chunks of its path were under way in the server at once: the offset of a
\* chunk is compared with the length of the temporary file (UploadFileByChunks in
\* file_server.py), which without a lock may change before the chunk is written.
THEOREM FilesHaveNoGap == Spec => []FileHasNoGap
<1>1. Init => FilesInv BY FilesInit, RunPagesAssumption DEF Init, FilesInv
<1>2. FilesInv /\ [Next]_pageVars => FilesInv'
  <2>1. route' = "local files" /\ [Next]_pageVars
          => route = "local files" /\ [LocalFiles!Next]_vars
    BY DEF Next, pageVars, vars
  <2> QED BY <2>1, FilesNext, RunPagesAssumption DEF FilesInv
<1>3. FilesInv => FileHasNoGap
  BY DEF FilesInv, FilesIInv, FileHasNoGap
<1> QED BY <1>1, <1>2, <1>3, PTL DEF Spec

\* The devices a note would be added to are rows of the table, and the rows of a sorted
\* table are sorted, each device once, however loads, removals and notes of several hosts
\* overtake each other (host_details_device_list.ts, device_list_table.ts).
THEOREM DevicesAreShown == Spec => []SelectedDevicesAreShown
<1>1. Init => DevicesInv BY DevicesInit DEF Init, DevicesInv
<1>2. DevicesInv /\ [Next]_pageVars => DevicesInv'
  <2>1. route' = "devices" /\ [Next]_pageVars
          => route = "devices" /\ [DevicesOfHost!Next]_vars
    BY DEF Next, pageVars, vars
  <2> QED BY <2>1, DevicesNext DEF DevicesInv
<1>3. DevicesInv => SelectedDevicesAreShown
  BY DevicesShown DEF DevicesInv, SelectedDevicesAreShown
<1> QED BY <1>1, <1>2, <1>3, PTL DEF Spec

\* What is selected to be assigned or verified is in the list it was selected in, whatever
\* was loaded and filtered since (base_offline_host_list.ts, host_list_table.ts).
THEOREM TablesSelectHosts == Spec => []TablesSelectShownHosts
<1>1. Init => TablesInv BY TablesInit DEF Init, TablesInv
<1>2. TablesInv /\ [Next]_pageVars => TablesInv'
  <2>1. route' = "offline hosts" /\ [Next]_pageVars
          => route = "offline hosts" /\ [ListsOfOfflineHosts!Next]_vars
    BY DEF Next, pageVars, vars
  <2> QED BY <2>1, TablesNext DEF TablesInv
<1>3. TablesInv => TablesSelectShownHosts
  BY TablesShow DEF TablesInv, TablesSelectShownHosts
<1> QED BY <1>1, <1>2, <1>3, PTL DEF Spec

\* A page opened from the address, though that abbreviates the groups and run targets,
\* shows again the hosts of its lab that the page shows, as the local storage has what the
\* address leaves open (composeFilterParams, getDefaultValues and updateLocalStorage in
\* base_offline_host_list.ts); and no others, if its filters have the same options.
THEOREM AddressIsKept == Spec => []AddressChoosesTheSameHosts
<1>1. Init => AddressInv BY TablesInit, AddressInit DEF Init, AddressInv
<1>2. AddressInv /\ [Next]_pageVars => AddressInv'
  <2>1. route' = "offline hosts" /\ [Next]_pageVars
          => route = "offline hosts" /\ [ListsOfOfflineHosts!Next]_vars
    BY DEF Next, pageVars, vars
  <2> QED BY <2>1, TablesNext, AddressNext DEF AddressInv
<1>3. AddressInv => AddressChoosesTheSameHosts
  BY AddressShows DEF AddressInv, AddressChoosesTheSameHosts
<1> QED BY <1>1, <1>2, <1>3, PTL DEF Spec

\* The form of a new run, and of the rerun config in the dialog, asks for exactly the
\* resources of the test and the device actions it shows, in whatever order they are
\* chosen and loaded (updateTestResources in new_test_run_page.ts).
THEOREM FormFitsTheRun == Spec => []ResourcesFitTheRun
<1>1. Init => NewRunInv BY NewRunInit DEF Init, NewRunInv
<1>2. NewRunInv /\ [Next]_pageVars => NewRunInv'
  <2>1. route' = "new run" /\ [Next]_pageVars
          => route = "new run" /\ [NewRun!Next]_vars
    BY DEF Next, pageVars, vars
  <2> QED BY <2>1, NewRunNext DEF NewRunInv
<1>3. NewRunInv => ResourcesFitTheRun
  BY NewRunShows DEF NewRunInv, ResourcesFitTheRun
<1> QED BY <1>1, <1>2, <1>3, PTL DEF Spec

\* So does the dialog of a test plan, for a config of the plan as it was stored or as it
\* has been edited since (test_plan_edit_page.ts, test_run_config_editor.ts).
THEOREM FormFitsThePlan == Spec => []ResourcesFitThePlan
<1>1. Init => PlanInv BY PlanInit DEF Init, PlanInv
<1>2. PlanInv /\ [Next]_pageVars => PlanInv'
  <2>1. route' = "plan" /\ [Next]_pageVars
          => route = "plan" /\ [Plan!Next]_vars
    BY DEF Next, pageVars, vars
  <2> QED BY <2>1, PlanNext DEF PlanInv
<1>3. PlanInv => ResourcesFitThePlan
  BY PlanShows DEF PlanInv, ResourcesFitThePlan
<1> QED BY <1>1, <1>2, <1>3, PTL DEF Spec

\* The list of the build picker is the first parts of the directory in the search bar, each
\* once, and it is known where it goes on, whatever was typed, scrolled, switched or failed
\* while calls were under way (loadBuildList and onScrollLoad in build_picker.ts).
THEOREM ListFitsTheSearchBar == Spec => []ListIsOfTheSearchBar
<1>1. Init => PickerInv BY PickerInit DEF Init, PickerInv
<1>2. PickerInv /\ [Next]_pageVars => PickerInv'
  <2>1. route' = "picker" /\ [Next]_pageVars
          => route = "picker" /\ [Picker!Next]_vars
    BY DEF Next, pageVars, vars
  <2> QED BY <2>1, PickerNext DEF PickerInv
<1>3. PickerInv => ListIsOfTheSearchBar
  BY PickerShowsTheList DEF PickerInv, ListIsOfTheSearchBar
<1> QED BY <1>1, <1>2, <1>3, PTL DEF Spec

DialogInv ==
  /\ route = "notes" => NotesGood
  /\ route = "history" => HistoryGood

\* A dialog closes as saved only when the service has stored a note of it for each of
\* its devices or hosts, from the list of notes and from the history alike, whatever
\* others do to these notes meanwhile (notes_dialog.ts, notes_editor.ts).
THEOREM SavedNotesAreStored == Spec => DialogReportsStoredNotes
<1>1. Init => DialogInv BY NotesInit, HistoryInit DEF Init, DialogInv
<1>2. DialogInv /\ [Next]_pageVars => DialogInv' /\ [NoFalseReport]_pageVars
  <2> SUFFICES ASSUME DialogInv, [Next]_pageVars
               PROVE  DialogInv' /\ [NoFalseReport]_pageVars
    OBVIOUS
  <2>1. CASE UNCHANGED pageVars
    BY <2>1 DEF pageVars, vars, DialogInv, NotesGood, HistoryGood
  <2>2. CASE Next /\ route = "notes"
    <3>1. Notes!Next /\ route' = "notes" BY <2>2 DEF Next
    <3>2. NotesGood' /\ Notes!DialogReportsStoredNotes BY <2>2, <3>1, NotesNext DEF DialogInv
    <3> QED BY <2>2, <3>1, <3>2 DEF DialogInv, NoFalseReport
  <2>3. CASE Next /\ route = "history"
    <3>1. History!Next /\ route' = "history" BY <2>3 DEF Next
    <3>2. HistoryGood' /\ History!DialogReportsStoredNotes
      BY <2>3, <3>1, HistoryNext DEF DialogInv
    <3> QED BY <2>3, <3>1, <3>2 DEF DialogInv, NoFalseReport
  <2>4. CASE Next /\ route \notin {"notes", "history"}
    <3>1. route' = route BY <2>4 DEF Next
    <3> QED BY <2>4, <3>1 DEF DialogInv, NoFalseReport
  <2> QED BY <2>1, <2>2, <2>3, <2>4
<1> QED BY <1>1, <1>2, PTL DEF Spec, DialogReportsStoredNotes
=============================================================================
