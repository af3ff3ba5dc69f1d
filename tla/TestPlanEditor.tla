---------------------------- MODULE TestPlanEditor ----------------------------
(***************************************************************************)
(* The page that creates or edits a test plan                              *)
(* (test_plans/test_plan_edit_page.ts) with its list of test run sequences *)
(* (test_runs/test_run_sequence_list.ts, test_run_sequence_editor.ts).     *)
(* A sequence is a primary config and its rerun configs.                   *)
(***************************************************************************)
EXTENDS RunConfigForm

CONSTANTS
  StoredSequences  \* those of the plan that is edited, as it is stored

\* What the constants have to be.
TestPlanEditorAssumption ==
  LET configs == UNION {Range(sequence) : sequence \in Range(StoredSequences)}
  IN StoredSequences \in Seq(Seq(configs)) /\ \A c \in configs : IsConfig(c)

ConfigurePlan == 0
ConfigureRuns == 1
PlanLeft == 2

\* The list of sequences asks for the map even if its service keeps one.
Init ==
  /\ \E editMode, mapped \in BOOLEAN :
       /\ page = [editMode |-> editMode, step |-> ConfigurePlan, named |-> FALSE,
                  loaded |-> FALSE, sequences |-> <<>>, hasTemplate |-> FALSE,
                  editor |-> NoEditor, isLoading |-> editMode]
       /\ browser = [mapped |-> mapped]
  /\ requests = <<Request("plan", [id |-> page.editMode]), Request("template", {})>>
  /\ api = {}
  /\ spent = 0

\* The data of the page become the plan's, a new plan has none.
PlanArrives(i) ==
  \/ /\ Hears(i, "plan", "ok")
     /\ Becomes(IF page.editMode
                THEN [Heard(i) EXCEPT !.page.named = TRUE, !.page.loaded = TRUE,
                                      !.page.sequences = StoredSequences,
                                      !.page.isLoading = FALSE]
                ELSE Heard(i))
  \/ Hears(i, "plan", "error") /\ Becomes(Heard(i))

TemplateArrives(i) ==
  \/ /\ Hears(i, "template", "ok")
     /\ Becomes([Heard(i) EXCEPT !.page.hasTemplate = TRUE, !.browser.mapped = TRUE])
  \/ Hears(i, "template", "error") /\ Becomes(Heard(i))

-----------------------------------------------------------------------------
(* What the user does while no dialog is in front.                         *)

AtPlan == ~ IsEditing /\ page.step # PlanLeft
AtRuns == AtPlan /\ page.step = ConfigureRuns

EnterName == AtPlan /\ ~ page.named /\ Spend /\ Shows([page EXCEPT !.named = TRUE])

Move ==
  /\ AtPlan /\ UNCHANGED spent
  /\ \/ page.step = ConfigurePlan /\ page.named /\ Shows([page EXCEPT !.step = @ + 1])
     \/ page.step = ConfigureRuns /\ Shows([page EXCEPT !.step = @ - 1])

Template == InitTestRunConfig(FirstTest)

\* A new sequence starts as a copy of the last one's primary config.
AddSequence ==
  /\ AtRuns /\ Calling
  /\ LET last == page.sequences[Len(page.sequences)]
         config == IF page.sequences = <<>> THEN Template ELSE last[1]
     IN /\ IF page.sequences = <<>> THEN page.hasTemplate ELSE last # <<>>
        /\ Becomes(OpenEditor(State, config, <<0, 0>>))
  /\ UNCHANGED api

\* A rerun config starts as a copy of the last config of its sequence.
AddRerunConfig(n) ==
  /\ AtRuns /\ Calling /\ page.sequences[n] # <<>>
  /\ LET configs == page.sequences[n]
     IN Becomes(OpenEditor(State, configs[Len(configs)], <<n, 0>>))
  /\ UNCHANGED api

EditConfig(n, k) ==
  /\ AtRuns /\ Calling
  /\ Becomes(OpenEditor(State, page.sequences[n][k], <<n, k>>))
  /\ UNCHANGED api

\* The button of config k: the list is told the sequence but not the config, and
\* splices at undefined.
DeleteConfig(n, k) ==
  /\ AtRuns /\ Spend
  /\ Shows([page EXCEPT !.sequences[n] = RemoveAt(@, 1)])

\* Into the lists there are by now.
Submitted(sequences, at, config) ==
  LET Taken(configs) == IF at[2] = 0 THEN Append(configs, config)
                        ELSE [configs EXCEPT ![at[2]] = config]
  IN IF at[1] = 0 THEN Append(sequences, <<config>>)
     ELSE [sequences EXCEPT ![at[1]] = Taken(@)]

SubmitConfig ==
  /\ CanSubmit /\ UNCHANGED spent
  /\ Shows([page EXCEPT !.editor = NoEditor,
              !.sequences = Submitted(@, page.editor.at, page.editor.form.config)])

\* submit: an update names the plan that was loaded.
Submit ==
  /\ AtRuns /\ page.sequences # <<>> /\ Calling
  /\ Becomes(Send(State, "save", [update |-> page.editMode, named |-> page.loaded,
                                  sequences |-> page.sequences]))
  /\ UNCHANGED api

Saved(i) ==
  \/ /\ Hears(i, "save", "ok")
     /\ Becomes([Heard(i) EXCEPT !.page.step = PlanLeft, !.page.editor = NoEditor])
  \/ Hears(i, "save", "error") /\ Becomes(Heard(i))

-----------------------------------------------------------------------------
(* The services.                                                           *)

Serve(i) == IsSent(i) /\ Answer(i, {}) /\ UNCHANGED <<page, browser, api, spent>>

Next ==
  \/ EditorNext
  \/ \E i \in DOMAIN requests : PlanArrives(i)
  \/ \E i \in DOMAIN requests : TemplateArrives(i)
  \/ EnterName
  \/ Move
  \/ AddSequence
  \/ \E n \in DOMAIN page.sequences : AddRerunConfig(n)
  \/ \E n \in DOMAIN page.sequences : \E k \in DOMAIN page.sequences[n] : EditConfig(n, k)
  \/ \E n \in DOMAIN page.sequences : \E k \in DOMAIN page.sequences[n] : DeleteConfig(n, k)
  \/ SubmitConfig
  \/ Submit
  \/ \E i \in DOMAIN requests : Saved(i)
  \/ \E i \in DOMAIN requests : Serve(i)
  \/ \E i \in DOMAIN requests : Fail(i)

-----------------------------------------------------------------------------
(* What must hold.                                                         *)

\* The dialog that edits a config of the plan fits its resources.
ResourcesFitThePlan == IsEditing => ResourcesFit(page.editor.form)
=============================================================================
