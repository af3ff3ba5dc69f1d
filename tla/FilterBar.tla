------------------------------ MODULE FilterBar ------------------------------
(***************************************************************************)
(* The filter bar of the device and host lists (shared/filterbar_util.ts): *)
(* what each method of FilterBarUtility makes of the bar.  A bar is        *)
(*   [options, selectedColumn, isAllSelected, filterChanged]               *)
(* Its options are the columns themselves (type Root), which the menu      *)
(* shows first, and the values of each column, which it shows next: the    *)
(* set of them, as no value is listed twice and a column has one order.    *)
(*                                                                         *)
(* What a user types is the set of the values that contain it.  The text   *)
(* of the input, which repeats the selected options, is left out, and so   *)
(* is innerUpdate: every handler that sets it sets the text as well, whose *)
(* listener clears it.                                                     *)
(***************************************************************************)
EXTENDS Naturals, FiniteSets

CONSTANTS
  Columns,           \* the columns whose values the server lists
  InputColumns,      \* the columns whose value is typed
  MaxDisplayOptions  \* how many values the menu shows

Root == "type"
NoColumn == ""

FilterColumns == Columns \cup InputColumns

Option(type, value, hidden) ==
  [type |-> type, value |-> value, selected |-> FALSE, hidden |-> hidden]

Options(types, values) ==
  [type : types, value : values, selected : BOOLEAN, hidden : BOOLEAN]

CreateFilterOptions(values, column, hidden) ==
  {Option(column, value, hidden) : value \in values}

InitFilterbarRoots ==
  [options        |-> CreateFilterOptions(FilterColumns, Root, FALSE),
   selectedColumn |-> NoColumn,
   isAllSelected  |-> FALSE,
   filterChanged  |-> FALSE]

VisibleOptions(bar) == {o \in bar.options : ~ o.hidden}
Everything(bar) == {o.value : o \in bar.options}

\* The options of one type, and their values.
OfType(bar, type) == {o \in bar.options : o.type = type}
ValuesOf(bar, type) == {o.value : o \in OfType(bar, type)}

SelectedValues(bar, column) ==
  {o.value : o \in {p \in OfType(bar, column) : p.selected}}

HasFilter(bar) == \E o \in bar.options : o.selected

Without(bar, columns) == {o \in bar.options : o.type \notin columns}

UpdateFilterOptions(bar, options, column) ==
  [bar EXCEPT !.options = Without(bar, {column}) \cup options]

\* The chosen options get the flag.
SetSelected(bar, chosen, flag) ==
  [bar EXCEPT !.options =
     {[o EXCEPT !.selected = IF o \in chosen THEN flag ELSE @] : o \in @}]

\* Exactly the shown options are visible.
SetVisible(bar, shown) ==
  [bar EXCEPT !.options = {[o EXCEPT !.hidden = o \notin shown] : o \in @}]

\* getVisibleFilterOptions is not called: the length is that of the function,
\* which is 0.
PatchSelectAll(bar) ==
  [bar EXCEPT !.isAllSelected = SelectedValues(bar, bar.selectedColumn) = {}]

ToggleAll(bar) ==
  LET toggled == SetSelected(bar, VisibleOptions(bar), ~ bar.isAllSelected)
  IN PatchSelectAll([toggled EXCEPT !.filterChanged = TRUE])

ToggleFilterOption(bar, type, value) ==
  LET chosen == {o \in bar.options : o.type = type /\ o.value = value}
      toggled == SetSelected(bar, chosen, \A o \in chosen : ~ o.selected)
  IN PatchSelectAll([toggled EXCEPT !.filterChanged = @ \/ chosen # {}])

\* Only so many of these values of a column are shown, those that come first.
FirstValues(bar, column, text) ==
  LET found == ValuesOf(bar, column) \cap text
  IN IF Cardinality(found) <= MaxDisplayOptions THEN found
     ELSE CHOOSE first \in SUBSET found : Cardinality(first) = MaxDisplayOptions

FilterSearchOptions(bar, text, column) ==
  SetVisible(bar,
    IF column = NoColumn THEN {o \in OfType(bar, Root) : o.value \in text}
    ELSE {o \in OfType(bar, column) : o.value \in FirstValues(bar, column, text)})

DisplayRootFilterOptions(bar) == FilterSearchOptions(bar, Everything(bar), NoColumn)

DisplayLeafFilterOptions(bar, column) ==
  [FilterSearchOptions(bar, Everything(bar), column) EXCEPT
     !.selectedColumn = column,
     !.isAllSelected = FALSE]

\* Hides what is shown, then shows the columns that are hidden: those that were
\* shown are hidden first, so that all columns are shown.
ResetSearchSteps(bar) ==
  [SetVisible(bar, OfType(bar, Root)) EXCEPT
     !.selectedColumn = NoColumn,
     !.isAllSelected = FALSE]

\* For one column or several, the values of each.
SetFilterOptionsSelected(bar, values) ==
  SetSelected(bar, {o \in bar.options : /\ o.type \in DOMAIN values
                                        /\ o.value \in values[o.type]}, TRUE)

ClearSelectedFilterOptions(bar, column) ==
  SetSelected(bar, {o \in bar.options : column = NoColumn \/ o.type = column}, FALSE)

ClearInputOption(bar, column) == [bar EXCEPT !.options = Without(bar, {column})]

ResetFilterOptions(bar) ==
  LET cleared == ClearSelectedFilterOptions(bar, NoColumn)
  IN [cleared EXCEPT !.options = Without(cleared, InputColumns)]

ApplySelection(bar, values, column) ==
  [SetFilterOptionsSelected(ClearSelectedFilterOptions(bar, column),
                            [c \in {column} |-> values])
     EXCEPT !.filterChanged = TRUE]

\* The visible option with that value, if there is one, as it is; otherwise a
\* new one that is selected.
TypedOptions(bar, value, column) ==
  LET old == {o \in VisibleOptions(bar) : o.type = column /\ o.value = value}
  IN IF old # {} THEN old
     ELSE {[Option(column, value, FALSE) EXCEPT !.selected = TRUE]}

\* A column that is typed holds one value; those of these columns are replaced.
AddNewFilterOptions(bar, values) ==
  [bar EXCEPT !.options = Without(bar, DOMAIN values) \cup
                UNION {TypedOptions(bar, values[c], c) : c \in DOMAIN values},
              !.filterChanged = @ \/ DOMAIN values # {}]

AddNewFilterOption(bar, value, column) ==
  AddNewFilterOptions(bar, [c \in {column} |-> value])

\* What the bar asks for: the selected values of the columns whose values are
\* listed and the typed value of the others.
SearchCriteria(bar) ==
  [c \in FilterColumns |->
     IF c \in Columns THEN SelectedValues(bar, c) ELSE ValuesOf(bar, c)]

\* The columns and values the user typed instead of choosing them: a typed
\* value is set or removed, the others are applied if they differ.
ParseColumn(bar, column, values) ==
  IF column \in InputColumns
  THEN IF values = {} THEN ClearInputOption(bar, column)
       ELSE AddNewFilterOption(bar, CHOOSE v \in values : TRUE, column)
  ELSE IF values = SelectedValues(bar, column) THEN bar
       ELSE ApplySelection(bar, values, column)
=============================================================================
