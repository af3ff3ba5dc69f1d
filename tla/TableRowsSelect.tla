--------------------------- MODULE TableRowsSelect ---------------------------
(***************************************************************************)
(* The directives that select rows of a table                              *)
(* (shared/table_rows_select.ts).  A table is                              *)
(*   [rows, selection, view, prevClicked]                                  *)
(* the ids of its rows in order, the ids that are selected, of this page   *)
(* or of another, the list of them that is handed out, and the index of    *)
(* the row clicked last, 0 if none.  The list is made anew when something  *)
(* is selected or unselected; whoever was given it may have changed it     *)
(* before.  The operators say what each method makes of the table; the     *)
(* methods that change the selection emit the list.                        *)
(***************************************************************************)
EXTENDS Integers, FiniteSets, Sequences, Functions

EmptyTable == [rows |-> <<>>, selection |-> {}, view |-> {}, prevClicked |-> 0]

RowIds(table) == Range(table.rows)

Selects(table, ids) == [table EXCEPT !.selection = ids, !.view = ids]

SelectSelection(table, ids) == Selects(table, table.selection \cup ids)

ClearSelection(table) == Selects(table, {})

ResetPrevClickedRowIndex(table) == [table EXCEPT !.prevClicked = 0]

SingleSelect(table, id) ==
  Selects(table, IF id \in table.selection THEN table.selection \ {id}
                 ELSE table.selection \cup {id})

\* The rows between the last one clicked and this one, both included, take the
\* opposite of what this one is.
RangeSelect(table, index) ==
  LET low == IF index < table.prevClicked THEN index ELSE table.prevClicked
      high == IF index < table.prevClicked THEN table.prevClicked ELSE index
      range == {table.rows[i] : i \in (low .. high) \cap DOMAIN table.rows}
  IN Selects(table, IF table.rows[index] \in table.selection
                    THEN table.selection \ range ELSE table.selection \cup range)

\* A click on a row or on its checkbox, with or without the shift key.
ClickRow(table, index, shift) ==
  LET clicked == IF shift /\ table.prevClicked > 0
                 THEN RangeSelect(table, index)
                 ELSE SingleSelect(table, table.rows[index])
  IN [clicked EXCEPT !.prevClicked = index]

IsAllSelected(table) == Cardinality(table.view) = Len(table.rows)

\* A click on the checkbox of the header.
ToggleAllSelection(table) ==
  IF IsAllSelected(table) THEN ClearSelection(table)
  ELSE SelectSelection(table, RowIds(table))

\* Drops what is selected and is no row any more.
ResetSelection(table) ==
  LET gone == table.view \ RowIds(table)
  IN ResetPrevClickedRowIndex(
       IF gone = {} THEN table ELSE Selects(table, table.selection \ gone))
=============================================================================
