------------------------------ MODULE NewTestRun ------------------------------
(***************************************************************************)
(* The page that starts a test run (test_runs/new_test_run_page.ts), anew  *)
(* or as a rerun of a previous one, with its list of rerun configs         *)
(* (test_run_config_list.ts, test_run_config_summary.ts).                  *)
(***************************************************************************)
EXTENDS RunConfigForm

CONSTANTS
  NodeUrls,        \* the resources that the node config has a url for
  PreviousConfig   \* the config of the previous test run

\* What the constants have to be.
NewTestRunAssumption == IsConfig(PreviousConfig)

FreshPage(isRerun) ==
  [step |-> Configure, form |-> Form(InitTestRunConfig("")), nodeUrls |-> {},
   isRerun |-> isRerun, isRemote |-> FALSE, uploaded |-> FALSE, context |-> "none",
   reruns |-> <<>>, editor |-> NoEditor, isLoading |-> TRUE, warning |-> FALSE,
   isStarting |-> FALSE]

\* What the run is to resume, as it is sent.
UpdateRerunContext(p) ==
  [p EXCEPT !.context =
     IF p.isRemote THEN (IF p.uploaded THEN "file" ELSE "none")
     ELSE IF p.isRerun THEN "previous" ELSE "none"]

\* The page of a test, of no test in particular or of a previous run.
Init ==
  /\ \E isRerun \in BOOLEAN : \E test \in Tests \cup {""} :
       /\ isRerun => test = ""
       /\ page = UpdateRerunContext([FreshPage(isRerun) EXCEPT !.form.config.test = test])
       /\ requests = <<Request("load", [test |-> test])>>
  /\ browser \in [mapped : BOOLEAN]
  /\ api = {}
  /\ spent = 0

\* Three calls at once; the map alone may have come when another fails.
LoadArrives(i) ==
  \/ /\ Hears(i, "load", "ok")
     /\ LET test == IF requests[i].arg.test = "" THEN FirstTest ELSE requests[i].arg.test
            fresh == [page.form EXCEPT !.config = InitTestRunConfig(test), !.mapped = TRUE]
            f == IF page.isRerun
                 THEN LoadSelectedActions([page.form EXCEPT !.config = PreviousConfig])
                 ELSE fresh
        IN Becomes([Heard(i) EXCEPT !.page.form = UpdateTestResources(f, NodeUrls),
                                    !.page.nodeUrls = NodeUrls,
                                    !.page.isLoading = FALSE, !.browser.mapped = TRUE])
  \/ /\ Hears(i, "load", "error")
     /\ \E mapped \in {browser.mapped, TRUE} :
          Becomes([Heard(i) EXCEPT !.browser.mapped = mapped])

-----------------------------------------------------------------------------
(* What the user does while no dialog is in front.                         *)

AtPage == ~ IsEditing /\ page.step # Left

\* The parts of a step are masked while the page loads, but for the device list.
Edit ==
  /\ AtPage /\ Spend /\ (page.isLoading => page.step = SelectDevices)
  /\ \E f \in Edits(page.step, page.form, page.nodeUrls) \ {page.form} :
       Shows([page EXCEPT !.form = f])

Move ==
  /\ AtPage
  /\ \/ /\ page.step < AddReruns /\ IsValid(page.step, page.form)
        /\ Shows([page EXCEPT !.step = @ + 1])
     \/ \E k \in 0 .. page.step - 1 : Shows([page EXCEPT !.step = k])
  /\ UNCHANGED spent

\* Local or remote, the previous run's id entered or cleared.
ChooseRerun ==
  /\ AtPage /\ page.step = Configure /\ ~ page.isLoading /\ Spend
  /\ \/ Shows(UpdateRerunContext([page EXCEPT !.isRemote = ~ @]))
     \/ ~ page.isRemote /\ Shows(UpdateRerunContext([page EXCEPT !.isRerun = ~ @]))

UploadResults ==
  /\ AtPage /\ page.step = Configure /\ page.isRemote /\ Calling
  /\ Becomes(Send(State, "upload", [file |-> "results"]))
  /\ UNCHANGED api

Uploaded(i) ==
  \/ /\ Hears(i, "upload", "ok")
     /\ Becomes([Heard(i) EXCEPT !.page = UpdateRerunContext([@ EXCEPT !.uploaded = TRUE])])
  \/ Hears(i, "upload", "error") /\ Becomes(Heard(i))

\* A rerun config starts as a copy of the last one, the first of the run's own.
AddConfig ==
  /\ AtPage /\ page.step = AddReruns /\ Calling
  /\ LET config == IF page.reruns = <<>> THEN page.form.config ELSE page.reruns[Len(page.reruns)]
     IN Becomes(OpenEditor(State, config, <<0>>))
  /\ UNCHANGED api

EditConfig ==
  /\ AtPage /\ page.step = AddReruns /\ Calling
  /\ \E k \in DOMAIN page.reruns : Becomes(OpenEditor(State, page.reruns[k], <<k>>))
  /\ UNCHANGED api

DeleteConfig ==
  /\ AtPage /\ page.step = AddReruns /\ Spend
  /\ \E k \in DOMAIN page.reruns : Shows([page EXCEPT !.reruns = RemoveAt(@, k)])

SubmitConfig ==
  /\ CanSubmit
  /\ LET config == page.editor.form.config
         k == page.editor.at[1]
     IN Shows([page EXCEPT !.editor = NoEditor,
                 !.reruns = IF k = 0 THEN Append(@, config) ELSE [@ EXCEPT ![k] = config]])
  /\ UNCHANGED spent

-----------------------------------------------------------------------------
(* Starting.                                                               *)

\* A copy of what the page holds at that time.
Create(s) ==
  Send(s, "create", [config |-> s.page.form.config, reruns |-> s.page.reruns,
                     context |-> s.page.context])

\* With a warning on the page the button ignores it, whatever it was about.
StartTestRun ==
  /\ AtPage /\ page.step = AddReruns /\ ~ page.isStarting /\ HasUrls(page.form) /\ Calling
  /\ LET s == [State EXCEPT !.page.isStarting = TRUE]
         devices == UNION ({page.form.config.specs}
                            \cup {page.reruns[k].specs : k \in DOMAIN page.reruns})
     IN Becomes(IF page.warning THEN Create(s) ELSE Send(s, "diskSpace", [devices |-> devices]))
  /\ UNCHANGED api

DiskSpaceChecked(i) ==
  \/ /\ Hears(i, "diskSpace", "ok")
     /\ Becomes(IF requests[i].answer # {}
                THEN [Heard(i) EXCEPT !.page.warning = TRUE, !.page.isStarting = FALSE]
                ELSE Create(Heard(i)))
  \/ /\ Hears(i, "diskSpace", "error")
     /\ Becomes([Heard(i) EXCEPT !.page.isStarting = FALSE])

\* To the page of the new run, or to stay.
Created(i) ==
  \/ Hears(i, "create", "ok")
     /\ Becomes([Heard(i) EXCEPT !.page.isStarting = FALSE, !.page.step = Left,
                                 !.page.editor = NoEditor])
  \/ Hears(i, "create", "error") /\ Becomes([Heard(i) EXCEPT !.page.isStarting = FALSE])

-----------------------------------------------------------------------------
(* The services.                                                           *)

Serve(i) ==
  /\ IsSent(i)
  /\ \/ requests[i].kind # "diskSpace" /\ Answer(i, {})
     \/ requests[i].kind = "diskSpace" /\ \E a \in SUBSET {"alarm"} : Answer(i, a)
  /\ UNCHANGED <<page, browser, api, spent>>

Next ==
  \/ EditorNext
  \/ \E i \in DOMAIN requests : LoadArrives(i)
  \/ Edit
  \/ Move
  \/ ChooseRerun
  \/ UploadResults
  \/ \E i \in DOMAIN requests : Uploaded(i)
  \/ AddConfig
  \/ EditConfig
  \/ DeleteConfig
  \/ SubmitConfig
  \/ StartTestRun
  \/ \E i \in DOMAIN requests : DiskSpaceChecked(i)
  \/ \E i \in DOMAIN requests : Created(i)
  \/ \E i \in DOMAIN requests : Serve(i)
  \/ \E i \in DOMAIN requests : Fail(i)

-----------------------------------------------------------------------------
(* What must hold.                                                         *)

\* The form of the run and that of a rerun config fit their resources.
ResourcesFitTheRun ==
  ResourcesFit(page.form) /\ (IsEditing => ResourcesFit(page.editor.form))
=============================================================================
