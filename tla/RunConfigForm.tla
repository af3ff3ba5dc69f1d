---------------------------- MODULE RunConfigForm ----------------------------
(***************************************************************************)
(* A test run config as the pages edit it: the form of a new test run and  *)
(* the dialog test_runs/test_run_config_editor.ts that edits a config of a *)
(* list, with the pickers and the resource form both are made of.          *)
(***************************************************************************)
EXTENDS UiPage

CONSTANTS
  Tests,
  DeviceActions,
  RunActions,
  Devices,
  NeededBy,      \* for a test or device action the resources it defines
  AutoFor        \* for a device action the devices that its device_spec matches

\* What the constants have to be.
RunConfigFormAssumption ==
  /\ DOMAIN NeededBy = Tests \cup DeviceActions
  /\ AutoFor \in [DeviceActions -> SUBSET Devices]

\* The steps of the stepper; one that is entered is not complete, and linear.
Configure == 0
SelectDevices == 1
AddActions == 2
SetResources == 3
AddReruns == 4
Left == 5

\* The object {} that stands for an action the object map does not have.
Unknown == "unknown"

\* A resource starts with no url unless the node config has one for it.
NoUrl == ""

InitTestRunConfig(test) ==
  [test |-> test, specs |-> {}, deviceActions |-> {}, runActions |-> {},
   resources |-> <<>>]

\* The test to begin with where none was chosen.
FirstTest == CHOOSE t \in Tests : TRUE

IsConfig(c) == DOMAIN c = DOMAIN InitTestRunConfig("")

\* A form: the config, the actions shown as selected, and whether the object map is
\* there, which has all or nothing.
Form(config) ==
  [config |-> config, deviceActions |-> {}, runActions |-> {}, mapped |-> FALSE]

Given(S, x) == IF x \in S THEN NeededBy[x] ELSE {}

Needs(f) == UNION {Given(DeviceActions, a) : a \in f.deviceActions}
              \cup (IF f.mapped THEN Given(Tests, f.config.test) ELSE {})

\* updateTestResources: what was entered before is kept if it is still needed.
UpdateTestResources(f, nodeUrls) ==
  LET old == f.config.resources
      Url(r) == IF r \in DOMAIN old THEN old[r]
                ELSE IF r \in nodeUrls THEN "node" ELSE NoUrl
  IN [f EXCEPT !.config.resources = [r \in Needs(f) |-> Url(r)]]

\* The selected device actions and test run actions of a config.
LoadSelectedActions(f) ==
  LET Known(S, ids) == {IF a \in S THEN a ELSE Unknown : a \in ids}
  IN [f EXCEPT !.mapped = TRUE,
               !.deviceActions = Known(DeviceActions, f.config.deviceActions),
               !.runActions = Known(RunActions, f.config.runActions)]

\* Those that match no device any more go, those that match one come.
UpdateSelectedDeviceActions(f, specs) ==
  LET Matches(a) == a \in DeviceActions /\ AutoFor[a] \cap specs # {}
      IsManual(a) == a \notin DeviceActions \/ AutoFor[a] = {}
  IN {a \in f.deviceActions : IsManual(a) \/ Matches(a)}
       \cup (IF f.mapped THEN {a \in DeviceActions : Matches(a)} ELSE {})

MutUpdateConfigDeviceActionIds(f, actions, nodeUrls) ==
  [f EXCEPT !.deviceActions = actions, !.config.deviceActions = actions]

UpdateConfigDeviceActionIds(f, actions, nodeUrls) ==
  UpdateTestResources(
    [f EXCEPT !.deviceActions = actions, !.config.deviceActions = actions], nodeUrls)

UpdateConfigRunActionRefs(f, actions) ==
  [f EXCEPT !.runActions = actions, !.config.runActions = actions]

\* Another test: its defaults in a new config, beside the actions selected so far.
LoadTest(f, test, nodeUrls) ==
  UpdateTestResources([f EXCEPT !.config = InitTestRunConfig(test)], nodeUrls)

\* A selection of the device list.
PickDevices(f, specs, nodeUrls) ==
  LET g == [f EXCEPT !.config.specs = specs]
  IN UpdateConfigDeviceActionIds(g, UpdateSelectedDeviceActions(g, specs), nodeUrls)

SetUrl(f, r, url) == [f EXCEPT !.config.resources[r] = url]

\* One edit of the user at a step: a test, devices, an action more or less, a url.
Edits(step, f, nodeUrls) ==
  LET More(S) == IF f.mapped THEN S ELSE {}
      Toggled(S, sel) ==
        {sel \cup {a} : a \in More(S) \ sel} \cup {sel \ {a} : a \in sel}
  IN CASE step = Configure -> {LoadTest(f, t, nodeUrls) : t \in More(Tests) \ {f.config.test}}
       [] step = SelectDevices -> {PickDevices(f, S, nodeUrls) : S \in SUBSET Devices}
       [] step = AddActions ->
            {UpdateConfigDeviceActionIds(f, sel, nodeUrls) :
               sel \in Toggled(DeviceActions, f.deviceActions)}
            \cup {UpdateConfigRunActionRefs(f, sel) :
               sel \in Toggled(RunActions, f.runActions)}
       [] step = SetResources ->
            UNION {{SetUrl(f, r, url) : url \in {NoUrl, "typed"}} : r \in DOMAIN f.config.resources}
       [] OTHER -> {}

\* validateStep: each asks for what its own part shows.
HasUrls(f) == \A r \in DOMAIN f.config.resources : f.config.resources[r] # NoUrl

IsValid(step, f) ==
  CASE step = Configure -> f.config.test # ""
    [] step = SelectDevices -> f.config.specs # {}
    [] step = SetResources -> HasUrls(f)
    [] OTHER -> TRUE

-----------------------------------------------------------------------------
(* The dialog: page.editor is NoEditor or its state, for a place in a list *)
(* of the page that opened it.                                             *)

NoEditor == [at |-> <<>>]
IsEditing == page.editor # NoEditor

\* The map is the one kept by its service, or is asked for.
OpenEditor(s, config, at) ==
  LET e == [at |-> at, opened |-> spent, step |-> Configure, form |-> Form(config)]
      Loaded(f) == UpdateTestResources(LoadSelectedActions(f), {})
  IN IF s.browser.mapped THEN [s EXCEPT !.page.editor = [e EXCEPT !.form = Loaded(@)]]
     ELSE Send([s EXCEPT !.page.editor = e], "map", [opened |-> spent])

\* The actions of the config as it has become by then.
EditorMapArrives(i) ==
  \/ /\ Hears(i, "map", "ok")
     /\ LET s == [Heard(i) EXCEPT !.browser.mapped = TRUE]
            isItsOwn == IsEditing /\ page.editor.opened = requests[i].arg.opened
        IN Becomes(IF isItsOwn
                   THEN [s EXCEPT !.page.editor.form =
                           UpdateTestResources(LoadSelectedActions(@), {})]
                   ELSE s)
  \/ Hears(i, "map", "error") /\ Becomes(Heard(i))

EditorEdit ==
  /\ IsEditing /\ Spend
  /\ \E f \in Edits(page.editor.step, page.editor.form, {}) \ {page.editor.form} :
       Shows([page EXCEPT !.editor.form = f])

EditorMove ==
  /\ IsEditing
  /\ \/ /\ page.editor.step < SetResources /\ IsValid(page.editor.step, page.editor.form)
        /\ Shows([page EXCEPT !.editor.step = @ + 1])
     \/ \E k \in 0 .. page.editor.step - 1 : Shows([page EXCEPT !.editor.step = k])
  /\ UNCHANGED spent

\* The submitted config, for the list to take it.
CanSubmit ==
  IsEditing /\ page.editor.step = SetResources /\ HasUrls(page.editor.form)

CloseEditor ==
  IsEditing /\ Shows([page EXCEPT !.editor = NoEditor]) /\ UNCHANGED spent

EditorNext ==
  \/ \E i \in DOMAIN requests : EditorMapArrives(i)
  \/ EditorEdit
  \/ EditorMove
  \/ CloseEditor

-----------------------------------------------------------------------------
(* What must hold.                                                         *)

\* Whatever is chosen, removed, chosen again and loaded late, a form asks for exactly
\* the resources of its test and of the device actions it shows as selected.
ResourcesFit(f) == f.mapped => DOMAIN f.config.resources = Needs(f)
=============================================================================
