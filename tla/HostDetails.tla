----------------------------- MODULE HostDetails -----------------------------
(***************************************************************************)
(* The details page of a host (hosts/host_details.ts) or of a device       *)
(* (devices/device_details.ts) with the parts of it that load the same     *)
(* host or device for themselves, and the buttons that remove it and set   *)
(* its recovery state (hosts/mark_host_as_fixed_button.ts).  The lists of  *)
(* notes and of records it has as well are NoteList and SubjectHistory.    *)
(***************************************************************************)
EXTENDS UiPage

CONSTANTS
  Subjects,  \* the hosts and devices
  Hosts,     \* those that are hosts
  Panels,    \* the parts that load for themselves, in order, the summary among them
  Me

\* What the constants have to be: the page itself calls otherwise than its parts.
HostDetailsAssumption ==
  /\ Hosts \subseteq Subjects
  /\ Panels \in Seq(Range(Panels)) /\ "summary" \in Range(Panels)
  /\ Range(Panels) \cap {"data", "remove", "recovery"} = {}

Nothing == [id |-> "none"]
Info(id) == [id |-> id, state |-> api.state[id], recovery |-> api.recovery[id],
             assignee |-> api.assignee[id], hidden |-> FALSE]

IsHost == page.id \in Hosts
SameKind(id) == IF id \in Hosts THEN Hosts ELSE Subjects \ Hosts
PanelsOf(id) == IF id \in Hosts THEN Panels ELSE <<"summary">>

\* What the buttons go by: the page's data of a host, the summary's of a device.
Shown == IF IsHost THEN page.data ELSE page.panels["summary"]

FreshDetails(id) ==
  [id |-> id, data |-> Nothing, panels |-> [p \in Range(PanelsOf(id)) |-> Nothing],
   isLoading |-> FALSE, confirming |-> FALSE]

-----------------------------------------------------------------------------
(* Loading.                                                                *)

Load(s) == Send([s EXCEPT !.page.isLoading = TRUE], "data", s.page.id)

LoadPanels(s, panels) ==
  [s EXCEPT !.requests = @ \o [k \in DOMAIN panels |-> Request(panels[k], s.page.id)]]

\* appendDefaultOption: the list to choose from is the one kept for all pages.
AppendDefaultOption(s) == [s EXCEPT !.browser.names = @ \cup {s.page.id}]

OpenDetails(s, id) ==
  AppendDefaultOption(LoadPanels(
    Load([s EXCEPT !.page = FreshDetails(id), !.requests = <<>>]), PanelsOf(id)))

Init ==
  /\ \E id \in Subjects : \E names \in SUBSET SameKind(id) :
       LET s == OpenDetails([page |-> FreshDetails(id), requests |-> <<>>,
                             browser |-> [names |-> names]], id)
       IN page = s.page /\ browser = s.browser /\ requests = s.requests
  /\ api \in [state    : [Subjects -> {"RUNNING", "GONE"}],
              recovery : {[s \in Subjects |-> "UNKNOWN"]},
              assignee : {[s \in Subjects |-> ""]}, removed : {{}}]
  /\ spent = 0

\* The last answer is shown, of whatever host it is.  The page of a device waits for
\* its summary.
DataArrives(i) ==
  \/ /\ Hears(i, "data", "ok")
     /\ Becomes([Heard(i) EXCEPT !.page.data = requests[i].answer,
                                 !.page.isLoading = @ /\ ~ IsHost])
  \/ /\ Hears(i, "data", "error")
     /\ Becomes([Heard(i) EXCEPT !.page.isLoading = @ /\ ~ IsHost])

PanelArrives(i, p) ==
  \/ /\ Hears(i, p, "ok")
     /\ Becomes([Heard(i) EXCEPT !.page.panels[p] = requests[i].answer,
                                 !.page.isLoading = @ /\ IsHost])
  \/ /\ Hears(i, p, "error")
     /\ Becomes([Heard(i) EXCEPT !.page.isLoading = @ /\ IsHost])

\* The user chooses another one: the page loads it, its parts do, and it loads it
\* once more when the new route has set its input.
SelectSubject(id) ==
  /\ id \in browser.names \ {page.id} /\ ~ page.confirming /\ Calling
  /\ LET chosen == Load([State EXCEPT !.page.id = id])
     IN Becomes(AppendDefaultOption(Load(LoadPanels(chosen, PanelsOf(id)))))
  /\ UNCHANGED api

\* refresh: the page and its summary.
Refresh(s) == Send(Load(s), "summary", s.page.id)

-----------------------------------------------------------------------------
(* The buttons.                                                            *)

\* They are there with the data, and masked while the page loads.
AtButtons == ~ page.isLoading /\ ~ page.confirming /\ Shown # Nothing

\* "When host state is GONE, user can remove(hide) the host."
AskToRemove ==
  /\ AtButtons /\ Shown.state = "GONE" /\ ~ Shown.hidden /\ Spend
  /\ Shows([page EXCEPT !.confirming = TRUE])

ConfirmRemoval(isConfirmed) ==
  /\ page.confirming /\ Calling
  /\ LET s == [State EXCEPT !.page.confirming = FALSE,
                            !.page.isLoading = IF IsHost THEN isConfirmed ELSE @]
     IN Becomes(IF isConfirmed THEN Send(s, "remove", page.id) ELSE s)
  /\ UNCHANGED api

MutRemoved(i) ==
  \/ /\ Hears(i, "remove", "ok")
     /\ Becomes([Heard(i) EXCEPT !.page.isLoading = @ /\ ~ IsHost,
          !.page.data = IF IsHost /\ @ # Nothing THEN [@ EXCEPT !.hidden = TRUE] ELSE @])
  \/ Hears(i, "remove", "error") /\ Becomes(Heard(i))

\* The host that is shown by now counts as removed.
Removed(i) ==
  LET s == [Heard(i) EXCEPT !.page.isLoading = @ /\ ~ IsHost]
  IN \/ /\ Hears(i, "remove", "ok")
        /\ Becomes(IF IsHost /\ page.data # Nothing THEN [s EXCEPT !.page.data.hidden = TRUE]
                   ELSE s)
     \/ Hears(i, "remove", "error") /\ Becomes(s)

\* The host of the data becomes FIXED and the user's, or ASSIGNED again.
ToggleHostFixedState ==
  /\ IsHost /\ AtButtons /\ Calling
  /\ Becomes(Send(State, "recovery",
       [id |-> page.data.id, assignee |-> Me,
        state |-> IF page.data.recovery = "FIXED" THEN "ASSIGNED" ELSE "FIXED"]))
  /\ UNCHANGED api

MarkAsVerified ==
  /\ IsHost /\ AtButtons /\ page.data.assignee # "" /\ Calling
  /\ Becomes(Send(State, "recovery",
       [id |-> page.id, assignee |-> "", state |-> "VERIFIED"]))
  /\ UNCHANGED api

\* updateRecoveryStateAndAssignee on the host that is shown by now, then a refresh.
RecoverySet(i) ==
  \/ /\ Hears(i, "recovery", "ok")
     /\ LET arg == requests[i].arg
            s == IF arg.state = "VERIFIED" THEN Heard(i)
                 ELSE [Heard(i) EXCEPT !.page.data.recovery = arg.state,
                                       !.page.data.assignee = Me]
        IN Becomes(Refresh(s))
  \/ Hears(i, "recovery", "error") /\ Becomes(Heard(i))

-----------------------------------------------------------------------------
(* The TFC API.                                                            *)

Serve(i) ==
  /\ IsSent(i)
  /\ LET arg == requests[i].arg
     IN \/ /\ requests[i].kind \in Range(Panels) \cup {"data"}
           /\ Answer(i, Info(arg)) /\ UNCHANGED api
        \/ /\ requests[i].kind = "remove"
           /\ Answer(i, {}) /\ api' = [api EXCEPT !.removed = @ \cup {arg}]
        \/ /\ requests[i].kind = "recovery"
           /\ Answer(i, {})
           /\ api' = [api EXCEPT !.recovery[arg.id] = arg.state,
                                 !.assignee[arg.id] = arg.assignee]
  /\ UNCHANGED <<page, browser, spent>>

StateChanges(id) ==
  /\ Spend /\ api' = [api EXCEPT !.state[id] = IF @ = "GONE" THEN "RUNNING" ELSE "GONE"]
  /\ UNCHANGED <<page, browser, requests>>

Next ==
  \/ \E i \in DOMAIN requests : DataArrives(i)
  \/ \E i \in DOMAIN requests : \E p \in DOMAIN page.panels : PanelArrives(i, p)
  \/ \E id \in Subjects : SelectSubject(id)
  \/ AskToRemove
  \/ \E b \in BOOLEAN : ConfirmRemoval(b)
  \/ \E i \in DOMAIN requests : Removed(i)
  \/ ToggleHostFixedState
  \/ MarkAsVerified
  \/ \E i \in DOMAIN requests : RecoverySet(i)
  \/ \E i \in DOMAIN requests : Serve(i)
  \/ \E i \in DOMAIN requests : Fail(i)
  \/ \E id \in Subjects : StateChanges(id)

-----------------------------------------------------------------------------
(* What must hold.                                                         *)

\* The page is masked only while a call is under way: whichever of its overlapping
\* loads and commands fails or is answered last, the user gets it back.
MaskedOnlyWhileLoading == page.isLoading => requests # <<>>
=============================================================================
