----------------------------- MODULE MultiSelect -----------------------------
(***************************************************************************)
(* The selector of several options of a long list                          *)
(* (shared/multi_select.ts), as the page around it sees it.  A picker is   *)
(*   [items, selected, shown]                                              *)
(* the options, what the page takes for selected, which may be the one     *)
(* value that stands for all of them, and the options that contain the     *)
(* text typed.                                                             *)
(***************************************************************************)
EXTENDS Naturals, FiniteSets

AllOptions == "All"

\* New items are all shown again, whatever text is typed.
Picker(items, selected) == [items |-> items, selected |-> selected, shown |-> items]

\* What is ticked: the value for all options is taken for each of them.
Selection(picker) ==
  IF picker.selected = {AllOptions} THEN picker.items ELSE picker.selected

\* What is emitted for what is ticked; only numbers are compared.
ConvertedSelection(picker, selection) ==
  IF Cardinality(selection) = Cardinality(picker.items) THEN {AllOptions} ELSE selection

Emit(picker, selection) ==
  [picker EXCEPT !.selected = ConvertedSelection(picker, selection)]

ToggleOption(picker, value) ==
  LET old == Selection(picker)
  IN Emit(picker, IF value \in old THEN old \ {value} ELSE old \cup {value})

ToggleAllSelected(picker, checked) ==
  [picker EXCEPT !.selected = IF checked THEN {AllOptions} ELSE {}]

\* The shown options are unticked if all are ticked, else ticked; a ticked
\* option that is no item any more is dropped in the second case only.
ToggleFilteredSelection(picker) ==
  LET old == Selection(picker)
  IN Emit(picker, IF picker.shown \subseteq old THEN old \ picker.shown
                  ELSE picker.shown \cup (old \cap picker.items))

DoFilter(picker, text) == [picker EXCEPT !.shown = picker.items \cap text]
=============================================================================
