------------------------- MODULE PredefinedMessages -------------------------
(***************************************************************************)
(* The list of a lab's predefined messages of a category and type          *)
(* (notes/predefined_message_list.ts) and the dialog that creates and      *)
(* edits them (notes/predefined_messages_editor.ts).                       *)
(***************************************************************************)
EXTENDS UiPage

CONSTANTS Labs, Categories, Types, DefaultLab, DefaultCategory, DefaultType

\* What the constants have to be.
PredefinedMessagesAssumption ==
  /\ DefaultLab \in Labs /\ "" \notin Labs
  /\ DefaultCategory \in Categories /\ DefaultType \in Types

Criteria(lab, category, type) == [lab |-> lab, category |-> category, type |-> type]
NoCriteria == Criteria("", "", "")

NoEditor == [id |-> -1]
NewMessage == 0

FreshList(filter) ==
  [filter |-> filter, labs |-> {}, rows |-> <<>>, isLoading |-> TRUE,
   editor |-> NoEditor, removing |-> 0]

\* getFilterDefaultValue: the stored value if it is offered, else the first one.
DefaultValue(stored, options, first) ==
  IF stored \in options THEN stored ELSE IF options = {} THEN "" ELSE first

-----------------------------------------------------------------------------
(* Loading.                                                                *)

UpdateLocalStorage(s) == [s EXCEPT !.browser.criteria = s.page.filter]

\* ngOnInit: category and type are known at once, the lab when the labs are.
OpenList(s) ==
  LET stored == s.browser.criteria
      filter == Criteria("", DefaultValue(stored.category, Categories, DefaultCategory),
                         DefaultValue(stored.type, Types, DefaultType))
  IN Send([s EXCEPT !.page = FreshList(filter)], "labs", {})

Init ==
  /\ \E criteria \in {NoCriteria} \cup
                     [lab : Labs, category : Categories, type : Types] :
       LET s == OpenList([page |-> FreshList(NoCriteria), requests |-> <<>>,
                          browser |-> [criteria |-> criteria]])
       IN page = s.page /\ browser = s.browser /\ requests = s.requests
  /\ api = [messages |-> {[id |-> 1, content |-> "x",
                           filter |-> Criteria(DefaultLab, DefaultCategory, DefaultType)]},
            next |-> 2]
  /\ spent = 0

\* The messages are part of the load: until they are there it is not over.
LabsArrive(i) ==
  \/ /\ Hears(i, "labs", "ok")
     /\ LET lab == DefaultValue(browser.criteria.lab, Labs, DefaultLab)
            s == [Heard(i) EXCEPT !.page.labs = Labs, !.page.filter.lab = lab]
        IN Becomes(Send(s, "load", s.page.filter))
  \/ /\ Hears(i, "labs", "error")
     /\ Becomes(UpdateLocalStorage([Heard(i) EXCEPT !.page.isLoading = FALSE]))

\* In the order they were created.
Listed(messages) ==
  LET ids == Ascending({m.id : m \in messages})
  IN [k \in DOMAIN ids |-> CHOOSE m \in messages : m.id = ids[k]]

\* What arrives is shown, whatever filter it was asked for with.
MessagesArrive(i) ==
  \E kind \in {"load", "reload"} :
    LET s == [Heard(i) EXCEPT !.page.isLoading = FALSE]
        Over(t) == IF kind = "load" THEN UpdateLocalStorage(t) ELSE t
    IN \/ /\ Hears(i, kind, "ok")
          /\ Becomes(Over([s EXCEPT !.page.rows = Listed(requests[i].answer)]))
       \/ Hears(i, kind, "error") /\ Becomes(Over(s))

\* A mutant: without a lab nothing is loaded, and nothing stored.
MutReloadPredefinedMessages(s) ==
  IF s.page.filter.lab = "" THEN s
  ELSE UpdateLocalStorage(
         Send([s EXCEPT !.page.isLoading = TRUE], "reload", s.page.filter))

ReloadPredefinedMessages(s) ==
  UpdateLocalStorage(
    IF s.page.filter.lab = "" THEN s
    ELSE Send([s EXCEPT !.page.isLoading = TRUE], "reload", s.page.filter))

-----------------------------------------------------------------------------
(* What the user does.                                                     *)

HasEditor == page.editor # NoEditor
AtList == ~ HasEditor /\ page.removing = 0

SelectFilter(filter) ==
  /\ AtList /\ filter # page.filter /\ filter.lab \in page.labs \cup {page.filter.lab}
  /\ Calling
  /\ Becomes(ReloadPredefinedMessages([State EXCEPT !.page.filter = filter]))
  /\ UNCHANGED api

OpenEditor ==
  /\ AtList /\ page.filter.lab # "" /\ Spend
  /\ \E m \in Range(page.rows) \cup {[id |-> NewMessage, content |-> ""]} :
       Shows([page EXCEPT !.editor =
         [id |-> m.id, content |-> m.content, filter |-> page.filter, loading |-> FALSE]])

\* The category and the type of a message that exists do not change.
EditMessage(content, filter) ==
  /\ HasEditor /\ ~ page.editor.loading /\ Spend
  /\ filter # page.editor.filter => page.editor.id = NewMessage
  /\ Shows([page EXCEPT !.editor.content = content, !.editor.filter = filter])

Save ==
  /\ HasEditor /\ ~ page.editor.loading /\ page.editor.content # "" /\ Calling
  /\ Becomes(Send([State EXCEPT !.page.editor.loading = TRUE], "save",
                  [id |-> page.editor.id, content |-> page.editor.content,
                   filter |-> page.editor.filter]))
  /\ UNCHANGED api

\* A save that was asked for may yet be done.
CloseEditor ==
  /\ HasEditor /\ Spend
  /\ page' = [page EXCEPT !.editor = NoEditor]
  /\ requests' = [k \in DOMAIN requests |->
       IF requests[k].kind = "save" THEN [requests[k] EXCEPT !.kind = "unheard"]
       ELSE requests[k]]
  /\ UNCHANGED <<browser, api>>

\* editorCloseHandler: a new message comes first, whatever the filter says by now; an
\* edited one takes its place if it is still listed.
Saved(i) ==
  \/ /\ Hears(i, "save", "ok")
     /\ LET m == requests[i].answer
            Put(rows) == IF page.editor.id = NewMessage THEN <<m>> \o rows
                         ELSE [k \in DOMAIN rows |-> IF rows[k].id = m.id THEN m ELSE rows[k]]
        IN Becomes([Heard(i) EXCEPT !.page.rows = Put(@), !.page.editor = NoEditor])
  \/ /\ Hears(i, "save", "error")
     /\ Becomes([Heard(i) EXCEPT !.page.editor.loading = FALSE])

AskToDelete(id) == AtList /\ Spend /\ Shows([page EXCEPT !.removing = id])

ConfirmDelete(isConfirmed) ==
  /\ page.removing # 0 /\ Calling
  /\ LET s == [State EXCEPT !.page.removing = 0]
     IN Becomes(IF isConfirmed THEN Send(s, "delete", page.removing) ELSE s)
  /\ UNCHANGED api

Deleted(i) ==
  \/ /\ Hears(i, "delete", "ok")
     /\ LET left == {k \in DOMAIN page.rows : page.rows[k].id # requests[i].arg}
        IN Becomes([Heard(i) EXCEPT !.page.rows = Kept(@, left)])
  \/ Hears(i, "delete", "error") /\ Becomes(Heard(i))

\* Leaving the page ends its load as well; it stores what is selected by then.
Reopen ==
  /\ AtList /\ Spend
  /\ LET left == IF \E i \in DOMAIN requests : requests[i].kind \in {"labs", "load"}
                 THEN UpdateLocalStorage(State) ELSE State
     IN Becomes(OpenList([left EXCEPT !.requests = <<>>]))
  /\ UNCHANGED api

-----------------------------------------------------------------------------
(* The TFC API: no two messages of a lab and type have the same content.   *)

Store(arg, id) ==
  {m \in api.messages : m.id # id}
    \cup {[id |-> id, content |-> arg.content, filter |-> arg.filter]}

Serve(i) ==
  /\ IsSent(i)
  /\ LET arg == requests[i].arg
     IN \/ requests[i].kind = "labs" /\ Answer(i, {}) /\ UNCHANGED api
        \/ /\ requests[i].kind \in {"load", "reload"} /\ UNCHANGED api
           /\ Answer(i, {m \in api.messages : m.filter = arg})
        \/ /\ requests[i].kind \in {"save", "unheard"}
           /\ \A m \in api.messages : m.filter # arg.filter \/ m.content # arg.content
           /\ arg.id = NewMessage \/ \E m \in api.messages : m.id = arg.id
           /\ LET id == IF arg.id = NewMessage THEN api.next ELSE arg.id
              IN /\ api' = [messages |-> Store(arg, id),
                            next |-> api.next + (IF arg.id = NewMessage THEN 1 ELSE 0)]
                 /\ IF requests[i].kind = "unheard" THEN requests' = RemoveAt(requests, i)
                    ELSE Answer(i, [id |-> id, content |-> arg.content,
                                    filter |-> arg.filter])
        \/ /\ requests[i].kind = "delete" /\ Answer(i, {})
           /\ api' = [api EXCEPT !.messages = {m \in @ : m.id # arg}]
  /\ UNCHANGED <<page, browser, spent>>

Next ==
  \/ \E i \in DOMAIN requests : LabsArrive(i)
  \/ \E i \in DOMAIN requests : MessagesArrive(i)
  \/ \E l \in Labs \cup {""}, c \in Categories, t \in Types : SelectFilter(Criteria(l, c, t))
  \/ OpenEditor
  \/ \E x \in {"x", "y"}, l \in Labs, c \in Categories :
       EditMessage(x, Criteria(l, c, page.filter.type))
  \/ Save
  \/ CloseEditor
  \/ \E i \in DOMAIN requests : Saved(i)
  \/ \E id \in {m.id : m \in Range(page.rows)} : AskToDelete(id)
  \/ \E b \in BOOLEAN : ConfirmDelete(b)
  \/ \E i \in DOMAIN requests : Deleted(i)
  \/ Reopen
  \/ \E i \in DOMAIN requests : Serve(i)
  \/ \E i \in DOMAIN requests : requests[i].kind # "unheard" /\ Fail(i)

-----------------------------------------------------------------------------
(* What must hold.                                                         *)

\* What the browser remembers once the page has loaded, or failed to, is the filter
\* that is selected: the next visit starts where this one is, whatever was changed
\* while the labs and messages were still to come.
FilterIsRemembered ==
  (\A i \in DOMAIN requests : requests[i].kind \notin {"labs", "load"})
    => browser.criteria = page.filter
=============================================================================
