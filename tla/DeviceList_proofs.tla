-------------------------- MODULE DeviceList_proofs --------------------------
(***************************************************************************)
(* What DeviceList.tla promises, for every number of devices, every pages' *)
(* size, every filter and every order of the answers.                      *)
(*                                                                         *)
(* The handlers are operators on the state s of the page, so that there is *)
(* a lemma for each of them: from a good state it makes a good state, and  *)
(* the buttons are, or are not, in step with the tokens when it ends.      *)
(***************************************************************************)
EXTENDS DeviceList, FiniteSetTheorems, TLAPS

-----------------------------------------------------------------------------
(* Lists of numbers.                                                       *)

\* The device list is a page like the others, which keeps other things besides.
Common == INSTANCE UiPage_proofs WITH page <- list, api <- server

LEMMA CommonLists ==
  ASSUME NEW S
  PROVE  /\ Common!IsFiniteSet(S) <=> IsFiniteSet(S)
         /\ Common!Cardinality(S) = Cardinality(S)
         /\ Common!Ascending(S) = Ascending(S)
<1>1. Common!IsFiniteSet(S) <=> IsFiniteSet(S) BY DEF IsFiniteSet, Common!IsFiniteSet
<1>2. Common!Cardinality(S) = Cardinality(S) BY DEF Cardinality, Common!Cardinality
<1>3. Common!Ascending(S) = Ascending(S)
  BY DEF Common!Ascending, Ascending, Common!Cardinality, Cardinality
<1> QED BY <1>1, <1>2, <1>3

\* The number of the greatest rank is the greatest.
LEMMA GreatestFacts ==
  ASSUME NEW S \in SUBSET Nat, IsFiniteSet(S), S # {}
  PROVE  Greatest(S) \in S
<1>0. /\ Common!IsFiniteSet(S) /\ Common!Cardinality(S) = Cardinality(S)
      /\ Common!Ascending(S) = Ascending(S)
  BY CommonLists
<1> DEFINE n == Cardinality(S)
           x == Ascending(S)[n]
<1>1. n \in Nat \ {0}
  <2>1. n \in Nat BY FS_CardinalityType
  <2>2. n # 0 BY FS_EmptySet
  <2> QED BY <2>1, <2>2
<1>2. x \in S /\ Common!Rank(S, x) = n - 1
  <2>1. n \in 1 .. n BY <1>1
  <2> QED BY <1>0, <2>1, Common!AscendingFacts
<1> HIDE DEF x
<1>3. ASSUME NEW y \in S PROVE y <= x
  <2>1. CASE x < y
    <3>1. y \in Nat /\ Common!Rank(S, x) < Common!Rank(S, y)
      BY <1>0, <1>2, <2>1, Common!RankGrows
    <3>2. Common!Rank(S, y) \in 0 .. n - 1 BY <1>0, Common!RankBound
    <3> HIDE DEF n
    <3> QED BY <1>1, <1>2, <3>1, <3>2
  <2> QED BY <1>2, <2>1
<1> QED BY <1>2, <1>3 DEF Greatest

\* A sequence that grows, and a part of it.
Increasing(q) == \A i, j \in DOMAIN q : i < j => q[i] < q[j]

LEMMA AscendingIsIncreasing ==
  ASSUME NEW S \in SUBSET Nat, IsFiniteSet(S)
  PROVE  Ascending(S) \in Seq(S) /\ Increasing(Ascending(S))
<1>1. /\ Common!IsFiniteSet(S) /\ Common!Cardinality(S) = Cardinality(S)
      /\ Common!Ascending(S) = Ascending(S)
  BY CommonLists
<1>2. /\ Cardinality(S) \in Nat
      /\ Ascending(S) \in [1 .. Cardinality(S) -> S]
      /\ \A i, j \in 1 .. Cardinality(S) : i < j => Ascending(S)[i] < Ascending(S)[j]
  BY <1>1, Common!AscendingFacts
<1> QED BY <1>2 DEF Increasing

LEMMA Widened ==
  ASSUME NEW S, NEW T, S \subseteq T, NEW q \in Seq(S)
  PROVE  q \in Seq(T) /\ Len(q) \in Nat /\ DOMAIN q = 1 .. Len(q) /\ \A i \in DOMAIN q : q[i] \in S
  OBVIOUS

LEMMA FirstFacts ==
  ASSUME NEW S, NEW q \in Seq(S), NEW n \in Nat
  PROVE  /\ First(q, n) \in Seq(S)
         /\ Len(First(q, n)) = IF n < Len(q) THEN n ELSE Len(q)
  BY DEF First

LEMMA FinalFacts ==
  ASSUME NEW S \in SUBSET Nat, NEW q \in Seq(S), Increasing(q), NEW n \in Nat \ {0}
  PROVE  Final(q, n) \in Seq(S) /\ Increasing(Final(q, n))
<1> DEFINE m == IF n < Len(q) THEN Len(q) - n + 1 ELSE 1
<1>1. Len(q) \in Nat /\ m \in Nat \ {0} OBVIOUS
<1>2. Final(q, n) = SubSeq(q, m, Len(q)) BY DEF Final
<1> HIDE DEF m
<1>3. /\ SubSeq(q, m, Len(q)) \in Seq(S)
      /\ Len(SubSeq(q, m, Len(q))) = IF m <= Len(q) THEN Len(q) - m + 1 ELSE 0
      /\ \A i \in 1 .. Len(q) - m + 1 : SubSeq(q, m, Len(q))[i] = q[m + i - 1]
  BY <1>1
<1>4. ASSUME NEW i \in DOMAIN SubSeq(q, m, Len(q)),
             NEW j \in DOMAIN SubSeq(q, m, Len(q)), i < j
      PROVE  SubSeq(q, m, Len(q))[i] < SubSeq(q, m, Len(q))[j]
  <2>1. i \in 1 .. Len(q) - m + 1 /\ j \in 1 .. Len(q) - m + 1 BY <1>1, <1>3
  <2>2. /\ m + i - 1 \in DOMAIN q /\ m + j - 1 \in DOMAIN q
        /\ m + i - 1 < m + j - 1
    BY <1>1, <1>4, <2>1
  <2> QED BY <1>3, <2>1, <2>2 DEF Increasing
<1> QED BY <1>2, <1>3, <1>4 DEF Increasing

\* A sequence without one of its elements.
LEMMA RemoveFacts ==
  ASSUME NEW S, NEW q \in Seq(S), NEW k \in DOMAIN q
  PROVE  /\ RemoveAt(q, k) \in Seq(S)
         /\ \A i \in DOMAIN RemoveAt(q, k) : \E j \in DOMAIN q : RemoveAt(q, k)[i] = q[j]
<1> DEFINE before == SubSeq(q, 1, k - 1)
           after == SubSeq(q, k + 1, Len(q))
           T == {q[j] : j \in DOMAIN q}
<1>1. k \in 1 .. Len(q) /\ Len(q) \in Nat /\ T \subseteq S OBVIOUS
<1>2. q \in Seq(T) OBVIOUS
<1>3. before \in Seq(T) /\ after \in Seq(T) BY <1>1, <1>2
<1>4. RemoveAt(q, k) = before \o after BY DEF RemoveAt
<1> HIDE DEF before, after
<1>5. RemoveAt(q, k) \in Seq(T) BY <1>3, <1>4
<1>6. RemoveAt(q, k) \in Seq(S) BY <1>1, <1>5
<1> QED BY <1>5, <1>6

-----------------------------------------------------------------------------
(* The states that the handlers keep to.                                   *)

Values == FilterColumns \cup UNION {Attributes(c) : c \in FilterColumns}
OptionTypes == FilterColumns \cup {Root}

Bars == [options : SUBSET Options(OptionTypes, Values),
         selectedColumn : Values \cup {NoColumn},
         isAllSelected : BOOLEAN, filterChanged : BOOLEAN]

LabNames == Labs \cup {AllLabs, ""}
Criteria == [filters : [FilterColumns -> SUBSET Values], lab : LabNames]
Urls == [criteria : Criteria, token : Nat, size : Nat, empty : BOOLEAN]
Keys == {NoKey} \cup (Criteria \X PageSizes \X Int)
Queries == [size : PageSizes, token : Nat, backwards : BOOLEAN]

Pagers == [pageIndex : Int, pageSize : PageSizes,
           hasPrevious : BOOLEAN, hasNext : BOOLEAN]
Tables == [rows : Seq(Serials), selection : SUBSET Serials,
           view : SUBSET Serials, prevClicked : Int]

Rows == [serial : Serials, note : Nat, fixed : BOOLEAN]
\* The pages that the API answers and the session holds.
Pages == {p \in [rows : Seq(Rows), prevToken : Nat, nextToken : Nat] :
            BackTokenPrecedes(p)}
Sessions == UNION {[K -> Pages] : K \in SUBSET Keys}

Notes == UNION {[D -> Nat] : D \in SUBSET Serials}
Marks == [serial : Serials, to : BOOLEAN, attached : BOOLEAN]
Calls ==
  [kind : {"page"}, arg : [criteria : Criteria, query : Queries],
   answer : Pages, done : BOOLEAN] \cup
  [kind : {"notes"}, arg : Seq(Serials), answer : Notes, done : BOOLEAN] \cup
  [kind : {"validate"}, arg : SUBSET Serials, answer : SUBSET Serials, done : BOOLEAN] \cup
  [kind : {"remove"}, arg : Serials, answer : {{}}, done : BOOLEAN] \cup
  [kind : {"fixed"}, arg : Marks, answer : {{}}, done : BOOLEAN]

Lists == [bar : Bars, rows : Seq(Rows), prevPageToken : Nat, nextPageToken : Nat,
          isLoading : BOOLEAN, paginator : Pagers, table : Tables,
          selected : SUBSET Serials, lab : LabNames, key : Keys, url : Urls,
          hints : SUBSET Hints]
Browsers == [session : Sessions, criteria : Criteria, lab : LabNames,
             hints : SUBSET Columns, url : Urls]
Servers == [present : SUBSET Serials, note : [Serials -> Nat],
            fixed : [Serials -> BOOLEAN]]

States == [list : Lists, browser : Browsers, requests : Seq(Calls)]

\* The table and the component have the same selection; the token that goes back
\* precedes the rows.
OneSelection(l) == l.selected = l.table.view /\ l.table.view \subseteq l.table.selection
Precedes(l) == \A i \in DOMAIN l.rows : l.prevPageToken < l.rows[i].serial
Good(s) == s \in States /\ OneSelection(s.list) /\ Precedes(s.list)

\* The buttons are in step with the tokens, or covered.
InStep(l) ==
  ~ l.isLoading =>
    /\ l.paginator.hasPrevious <=> l.prevPageToken # NoToken
    /\ l.paginator.hasNext <=> l.nextPageToken # NoToken

IInv == Good(State) /\ InStep(list) /\ server \in Servers /\ app \in Apps

-----------------------------------------------------------------------------
(* The answer to a query for a page.                                       *)

\* A page of the devices in order; the token that goes back precedes them all.
LEMMA QueryPageFacts ==
  ASSUME NEW items \in SUBSET Serials, NEW query \in Queries
  PROVE  LET p == QueryPage(items, query)
         IN  /\ p.items \in Seq(Serials) /\ p.prevToken \in Nat /\ p.nextToken \in Nat
             /\ \A i \in DOMAIN p.items : p.prevToken < p.items[i]
<1> DEFINE A == {i \in items : i > query.token}
           U == {i \in items : i <= query.token}
           after == Ascending(A)
           upTo == Ascending(U)
           page == IF query.backwards THEN Final(upTo, query.size)
                   ELSE First(after, query.size)
           before == {i \in items : page # <<>> /\ i < page[1]}
           prev == IF query.backwards THEN Greatest(before) ELSE query.token
           next == IF query.backwards THEN query.token
                   ELSE IF Len(page) < Len(after) THEN page[Len(page)] ELSE NoToken
<1>0. QueryPage(items, query) = [items |-> page, prevToken |-> prev, nextToken |-> next]
  BY DEF QueryPage
<1>1. /\ N \in Nat /\ Serials \subseteq Nat \ {0} /\ IsFiniteSet(Serials)
      /\ query.size \in Nat \ {0} /\ query.token \in Nat /\ query.backwards \in BOOLEAN
  <2>1. N \in Nat /\ PageSizes \subseteq Nat \ {0} BY DeviceListAssumption
  <2>2. Serials \subseteq Nat \ {0} BY <2>1 DEF Serials
  <2>3. IsFiniteSet(Serials) BY <2>1, FS_Interval DEF Serials
  <2>4. query.size \in PageSizes /\ query.token \in Nat /\ query.backwards \in BOOLEAN
    BY DEF Queries
  <2> QED BY <2>1, <2>2, <2>3, <2>4
<1>2. /\ A \in SUBSET Nat /\ U \in SUBSET Nat /\ A \subseteq Serials /\ U \subseteq Serials
      /\ IsFiniteSet(A) /\ IsFiniteSet(U)
  <2>1. A \in SUBSET Serials /\ U \in SUBSET Serials OBVIOUS
  <2> HIDE DEF A, U
  <2> QED BY <1>1, <2>1, FS_Subset
<1>3. \A x \in A : query.token < x BY <1>1
<1>4. /\ after \in Seq(A) /\ Increasing(after)
      /\ upTo \in Seq(U) /\ Increasing(upTo)
  <2> HIDE DEF A, U
  <2> QED BY <1>2, AscendingIsIncreasing
<1> HIDE DEF A, U, after, upTo
<1>5. CASE query.backwards
  <2>1. page \in Seq(U) /\ Increasing(page)
    BY <1>1, <1>2, <1>4, <1>5, FinalFacts
  <2>2. prev = Greatest(before) /\ next = query.token BY <1>5
  <2> HIDE DEF page, prev, next
  <2>3. page \in Seq(Serials) /\ \A i \in DOMAIN page : page[i] \in Serials
    BY <1>2, <2>1, Widened
  <2>4. ASSUME NEW i \in DOMAIN page PROVE page[1] <= page[i]
    <3>1. i \in 1 .. Len(page) /\ 1 \in DOMAIN page BY <2>1
    <3>2. page[1] \in Nat /\ page[i] \in Nat BY <1>1, <2>3, <3>1
    <3>3. CASE i = 1 BY <3>2, <3>3
    <3>4. CASE 1 < i BY <2>1, <3>1, <3>2, <3>4 DEF Increasing
    <3> QED BY <3>1, <3>3, <3>4
  <2>5. CASE before = {}
    <3>1. prev = 0 BY <2>2, <2>5 DEF Greatest, NoToken
    <3>2. \A x \in Serials : 0 < x BY <1>1
    <3>3. \A i \in DOMAIN page : prev < page[i] BY <2>3, <3>1, <3>2
    <3>4. prev \in Nat BY <3>1
    <3> QED BY <1>0, <1>1, <2>2, <2>3, <3>3, <3>4
  <2>6. CASE before # {}
    <3>1. IsFiniteSet(before) /\ before \in SUBSET Serials
      <4>1. before \in SUBSET Serials OBVIOUS
      <4> HIDE DEF before
      <4> QED BY <1>1, <4>1, FS_Subset
    <3>2. prev = Greatest(before) BY <2>2
    <3>3. prev \in before
      <4> HIDE DEF before
      <4>1. before \in SUBSET Nat BY <1>1, <3>1
      <4> QED BY <2>6, <3>1, <3>2, <4>1, GreatestFacts
    <3>4. prev \in Nat /\ prev < page[1] BY <1>1, <3>1, <3>3
    <3>5. ASSUME NEW i \in DOMAIN page PROVE prev < page[i]
      <4>1. page[i] \in Nat /\ page[1] <= page[i] BY <1>1, <2>3, <2>4
      <4>2. page[1] \in Nat
        <5>1. 1 \in DOMAIN page BY <2>1
        <5> QED BY <1>1, <2>3, <5>1
      <4> QED BY <3>4, <4>1, <4>2
    <3> QED BY <1>0, <1>1, <2>2, <2>3, <3>4, <3>5
  <2> QED BY <2>5, <2>6
<1>6. CASE ~ query.backwards
  <2>1. page = First(after, query.size) BY <1>6
  <2>2. page \in Seq(A) /\ (Len(page) < Len(after) => Len(page) = query.size)
    BY <1>1, <1>4, <2>1, FirstFacts
  <2>3. prev = query.token
        /\ next = IF Len(page) < Len(after) THEN page[Len(page)] ELSE NoToken
    BY <1>6
  <2> HIDE DEF page, prev, next
  <2>5. page \in Seq(Serials) /\ Len(page) \in Nat /\ DOMAIN page = 1 .. Len(page)
        /\ \A i \in DOMAIN page : page[i] \in A
    BY <1>2, <2>2, Widened
  <2>4. next \in Nat
    <3>1. CASE Len(page) < Len(after)
      <4>1. Len(page) \in DOMAIN page BY <1>1, <2>2, <2>5, <3>1
      <4> QED BY <1>2, <2>3, <2>5, <3>1, <4>1
    <3> QED BY <2>3, <3>1 DEF NoToken
  <2>6. \A i \in DOMAIN page : prev < page[i] BY <1>3, <2>2, <2>3, <2>5
  <2> QED BY <1>0, <1>1, <2>3, <2>4, <2>5, <2>6
<1> QED BY <1>1, <1>5, <1>6

-----------------------------------------------------------------------------
(* The filter bar: its methods keep its options among the columns and      *)
(* their values.                                                           *)

AllOptions == Options(OptionTypes, Values)

LEMMA OptionFacts ==
  ASSUME NEW types \in SUBSET OptionTypes, NEW type \in types, NEW values \in SUBSET Values,
         NEW hidden \in BOOLEAN
  PROVE  /\ CreateFilterOptions(values, type, hidden) \subseteq AllOptions
         /\ \A value \in values :
              [Option(type, value, hidden) EXCEPT !.selected = TRUE] \in AllOptions
<1>1. ASSUME NEW column \in OptionTypes, NEW v \in Values
      PROVE  /\ Option(column, v, hidden) \in AllOptions
             /\ [Option(column, v, hidden) EXCEPT !.selected = TRUE] \in AllOptions
  BY DEF Option, AllOptions, Options
<1> QED BY <1>1 DEF CreateFilterOptions

LEMMA BarFields ==
  ASSUME NEW bar \in Bars
  PROVE  /\ bar.options \in SUBSET AllOptions
         /\ bar.selectedColumn \in Values \cup {NoColumn}
         /\ bar.isAllSelected \in BOOLEAN /\ bar.filterChanged \in BOOLEAN
         /\ \A o \in bar.options : o.type \in OptionTypes /\ o.value \in Values
  BY DEF Bars, AllOptions, Options

\* Every handler sets these fields of the bar.
LEMMA BarUpdates ==
  ASSUME NEW bar \in Bars
  PROVE  /\ \A o \in SUBSET AllOptions : [bar EXCEPT !.options = o] \in Bars
         /\ \A c \in Values \cup {NoColumn} : [bar EXCEPT !.selectedColumn = c] \in Bars
         /\ \A b \in BOOLEAN : /\ [bar EXCEPT !.isAllSelected = b] \in Bars
                               /\ [bar EXCEPT !.filterChanged = b] \in Bars
         /\ \A c \in Values \cup {NoColumn}, b \in BOOLEAN :
              [bar EXCEPT !.selectedColumn = c, !.isAllSelected = b] \in Bars
         /\ \A o \in SUBSET AllOptions, b \in BOOLEAN :
              [bar EXCEPT !.options = o, !.filterChanged = b] \in Bars
  BY DEF Bars, AllOptions

LEMMA ValuesFacts ==
  ASSUME NEW bar \in Bars, NEW type
  PROVE  /\ OfType(bar, type) \subseteq bar.options
         /\ ValuesOf(bar, type) \subseteq Values
         /\ SelectedValues(bar, type) \subseteq Values
         /\ Everything(bar) \subseteq Values
         /\ VisibleOptions(bar) \subseteq bar.options
         /\ \A columns : Without(bar, columns) \subseteq AllOptions
  BY BarFields DEF OfType, ValuesOf, SelectedValues, Everything, VisibleOptions, Without

LEMMA SetSelectedFacts ==
  ASSUME NEW bar \in Bars, NEW chosen, NEW flag \in BOOLEAN
  PROVE  SetSelected(bar, chosen, flag) \in Bars
<1> DEFINE o(p) == [p EXCEPT !.selected = IF p \in chosen THEN flag ELSE @]
<1>1. \A p \in AllOptions : o(p) \in AllOptions BY DEF AllOptions, Options
<1>2. {o(p) : p \in bar.options} \in SUBSET AllOptions BY <1>1, BarFields
<1> QED BY <1>2, BarUpdates DEF SetSelected

LEMMA SetVisibleFacts ==
  ASSUME NEW bar \in Bars, NEW shown
  PROVE  SetVisible(bar, shown) \in Bars
<1> DEFINE o(p) == [p EXCEPT !.hidden = p \notin shown]
<1>1. \A p \in AllOptions : o(p) \in AllOptions BY DEF AllOptions, Options
<1>2. {o(p) : p \in bar.options} \in SUBSET AllOptions BY <1>1, BarFields
<1> QED BY <1>2, BarUpdates DEF SetVisible

LEMMA PatchSelectAllFacts ==
  ASSUME NEW bar \in Bars
  PROVE  PatchSelectAll(bar) \in Bars
<1>1. (SelectedValues(bar, bar.selectedColumn) = {}) \in BOOLEAN OBVIOUS
<1> QED BY <1>1, BarUpdates DEF PatchSelectAll

LEMMA ToggleFacts ==
  ASSUME NEW bar \in Bars
  PROVE  /\ ToggleAll(bar) \in Bars
         /\ \A type, value : ToggleFilterOption(bar, type, value) \in Bars
<1>1. ToggleAll(bar) \in Bars
  <2>1. (~ bar.isAllSelected) \in BOOLEAN OBVIOUS
  <2>2. SetSelected(bar, VisibleOptions(bar), ~ bar.isAllSelected) \in Bars
    BY <2>1, SetSelectedFacts
  <2> QED BY <2>2, BarUpdates, PatchSelectAllFacts DEF ToggleAll
<1>2. ASSUME NEW type, NEW value PROVE ToggleFilterOption(bar, type, value) \in Bars
  <2> DEFINE chosen == {o \in bar.options : o.type = type /\ o.value = value}
             flag == \A o \in chosen : ~ o.selected
             toggled == SetSelected(bar, chosen, flag)
             changed == toggled.filterChanged \/ chosen # {}
  <2>1. flag \in BOOLEAN /\ changed \in BOOLEAN OBVIOUS
  <2>2. ToggleFilterOption(bar, type, value) =
          PatchSelectAll([toggled EXCEPT !.filterChanged = changed])
    BY DEF ToggleFilterOption
  <2> HIDE DEF flag, changed, chosen
  <2>3. toggled \in Bars BY <2>1, SetSelectedFacts
  <2> HIDE DEF toggled
  <2> QED BY <2>1, <2>2, <2>3, BarUpdates, PatchSelectAllFacts
<1> QED BY <1>1, <1>2

LEMMA DisplayFacts ==
  ASSUME NEW bar \in Bars
  PROVE  /\ \A text, column : FilterSearchOptions(bar, text, column) \in Bars
         /\ DisplayRootFilterOptions(bar) \in Bars
         /\ \A column \in Values : DisplayLeafFilterOptions(bar, column) \in Bars
         /\ ResetSearchSteps(bar) \in Bars
<1>1. \A text, column : FilterSearchOptions(bar, text, column) \in Bars
  BY SetVisibleFacts DEF FilterSearchOptions
<1>2. DisplayRootFilterOptions(bar) \in Bars BY <1>1 DEF DisplayRootFilterOptions
<1>3. \A column \in Values : DisplayLeafFilterOptions(bar, column) \in Bars
  BY <1>1, BarUpdates DEF DisplayLeafFilterOptions
<1>4. ResetSearchSteps(bar) \in Bars
  BY SetVisibleFacts, BarUpdates DEF ResetSearchSteps
<1> QED BY <1>1, <1>2, <1>3, <1>4

LEMMA ClearFacts ==
  ASSUME NEW bar \in Bars
  PROVE  /\ \A column : ClearSelectedFilterOptions(bar, column) \in Bars
         /\ \A column : ClearInputOption(bar, column) \in Bars
         /\ ResetFilterOptions(bar) \in Bars
<1>1. \A column : ClearSelectedFilterOptions(bar, column) \in Bars
  BY SetSelectedFacts DEF ClearSelectedFilterOptions
<1>2. \A column : ClearInputOption(bar, column) \in Bars
  BY ValuesFacts, BarUpdates DEF ClearInputOption
<1>3. ResetFilterOptions(bar) \in Bars
  BY <1>1, ValuesFacts, BarUpdates DEF ResetFilterOptions
<1> QED BY <1>1, <1>2, <1>3

LEMMA UpdateFacts ==
  ASSUME NEW bar \in Bars, NEW column \in FilterColumns, NEW values \in SUBSET Values
  PROVE  UpdateFilterOptions(bar, CreateFilterOptions(values, column, TRUE), column) \in Bars
<1>1. CreateFilterOptions(values, column, TRUE) \subseteq AllOptions
  <2>1. column \in OptionTypes BY DEF OptionTypes
  <2> QED BY <2>1, OptionFacts
<1>2. Without(bar, {column}) \subseteq AllOptions BY ValuesFacts
<1> QED BY <1>1, <1>2, BarUpdates DEF UpdateFilterOptions

LEMMA AddNewFacts ==
  ASSUME NEW bar \in Bars, NEW values,
         \A c \in DOMAIN values : c \in FilterColumns /\ values[c] \in Values
  PROVE  AddNewFilterOptions(bar, values) \in Bars
<1>1. ASSUME NEW c \in DOMAIN values PROVE TypedOptions(bar, values[c], c) \subseteq AllOptions
  <2>1. c \in OptionTypes BY DEF OptionTypes
  <2>2. [Option(c, values[c], FALSE) EXCEPT !.selected = TRUE] \in AllOptions
    BY <2>1, OptionFacts
  <2> QED BY <2>2, ValuesFacts, BarFields DEF TypedOptions
<1> DEFINE options == Without(bar, DOMAIN values) \cup
                        UNION {TypedOptions(bar, values[c], c) : c \in DOMAIN values}
           changed == bar.filterChanged \/ DOMAIN values # {}
<1>2. options \in SUBSET AllOptions BY <1>1, ValuesFacts
<1>3. changed \in BOOLEAN OBVIOUS
<1>4. AddNewFilterOptions(bar, values) =
        [bar EXCEPT !.options = options, !.filterChanged = changed]
  BY DEF AddNewFilterOptions
<1> HIDE DEF options, changed
<1>5. [bar EXCEPT !.options = options, !.filterChanged = changed] \in Bars
  BY <1>2, <1>3 DEF Bars, AllOptions
<1> QED BY <1>4, <1>5

LEMMA ParseFacts ==
  ASSUME NEW bar \in Bars, NEW column \in FilterColumns, NEW values \in SUBSET Values
  PROVE  /\ ParseColumn(bar, column, values) \in Bars
         /\ \A value \in Values : AddNewFilterOption(bar, value, column) \in Bars
<1>1. ASSUME NEW value \in Values PROVE AddNewFilterOption(bar, value, column) \in Bars
  BY AddNewFacts DEF AddNewFilterOption
<1>2. ApplySelection(bar, values, column) \in Bars
  BY ClearFacts, SetSelectedFacts, BarUpdates
  DEF ApplySelection, SetFilterOptionsSelected
<1>3. values # {} => (CHOOSE v \in values : TRUE) \in Values OBVIOUS
<1> QED BY <1>1, <1>2, <1>3, ClearFacts DEF ParseColumn

\* What the bar asks for.
LEMMA CriteriaFacts ==
  ASSUME NEW bar \in Bars
  PROVE  SearchCriteria(bar) \in [FilterColumns -> SUBSET Values]
  BY ValuesFacts DEF SearchCriteria

LEMMA FreshBar == InitFilterbarRoots \in Bars
<1>1. CreateFilterOptions(FilterColumns, Root, FALSE) \subseteq AllOptions
  <2>1. Root \in OptionTypes /\ FilterColumns \in SUBSET Values BY DEF OptionTypes, Values
  <2> QED BY <2>1, OptionFacts
<1> QED BY <1>1 DEF InitFilterbarRoots, Bars, AllOptions

-----------------------------------------------------------------------------
(* The calls and their answers.                                            *)

PageArgs == [criteria : Criteria, query : Queries]

LEMMA PageAnswer ==
  ASSUME NEW arg \in PageArgs, NEW api \in Servers
  PROVE  AnswerOf("page", arg, api) \in Pages
<1> DEFINE page == QueryPage(Matching(arg.criteria, api), arg.query)
           Row(d) == [serial |-> d, note |-> 0, fixed |-> api.fixed[d]]
           rows == [i \in DOMAIN page.items |-> Row(page.items[i])]
           answer == [rows |-> rows, prevToken |-> page.prevToken,
                      nextToken |-> page.nextToken]
<1>1. Matching(arg.criteria, api) \in SUBSET Serials BY DEF Matching, Servers
<1>2. arg.query \in Queries BY DEF PageArgs
<1>3. AnswerOf("page", arg, api) = answer BY DEF AnswerOf
<1>4. /\ page.items \in Seq(Serials) /\ page.prevToken \in Nat /\ page.nextToken \in Nat
      /\ \A i \in DOMAIN page.items : page.prevToken < page.items[i]
  BY <1>1, <1>2, QueryPageFacts
<1> HIDE DEF page
<1>5. \A d \in Serials : Row(d) \in Rows /\ Row(d).serial = d BY DEF Rows, Servers
<1> HIDE DEF Row
<1>6. rows \in Seq(Rows) BY <1>4, <1>5
<1>7. \A i \in DOMAIN rows : page.prevToken < rows[i].serial BY <1>4, <1>5
<1> HIDE DEF rows
<1>8. answer \in Pages BY <1>4, <1>6, <1>7 DEF Pages, BackTokenPrecedes
<1> QED BY <1>3, <1>8

LEMMA PageCall ==
  ASSUME NEW arg \in PageArgs, NEW api \in Servers
  PROVE  Request("page", arg, api) \in Calls
<1>1. AnswerOf("page", arg, api) \in Pages BY PageAnswer
<1> QED BY <1>1 DEF Request, Calls, PageArgs

LEMMA NotesAnswer ==
  ASSUME NEW arg \in Seq(Serials), NEW api \in Servers
  PROVE  AnswerOf("notes", arg, api) \in Notes
<1> DEFINE D == Range(arg) \cap api.present
           answer == [d \in D |-> api.note[d]]
<1>1. AnswerOf("notes", arg, api) = answer BY DEF AnswerOf
<1>2. D \in SUBSET Serials BY DEF Servers
<1>3. \A d \in Serials : api.note[d] \in Nat BY DEF Servers
<1> HIDE DEF D
<1>4. answer \in [D -> Nat] BY <1>2, <1>3
<1> HIDE DEF answer
<1> QED BY <1>1, <1>2, <1>4 DEF Notes

LEMMA NotesCall ==
  ASSUME NEW arg \in Seq(Serials), NEW api \in Servers
  PROVE  Request("notes", arg, api) \in Calls
<1>1. AnswerOf("notes", arg, api) \in Notes BY NotesAnswer
<1> QED BY <1>1 DEF Request, Calls

LEMMA ValidateCall ==
  ASSUME NEW arg \in SUBSET Serials, NEW api \in Servers
  PROVE  /\ Request("validate", arg, api) \in Calls
         /\ AnswerOf("validate", arg, api) \in SUBSET Serials
<1>1. AnswerOf("validate", arg, api) = arg \cap api.present BY DEF AnswerOf
<1> QED BY <1>1 DEF Request, Calls

LEMMA RemoveCall ==
  ASSUME NEW arg \in Serials, NEW api \in Servers
  PROVE  Request("remove", arg, api) \in Calls
<1>1. AnswerOf("remove", arg, api) = {} BY DEF AnswerOf
<1> QED BY <1>1 DEF Request, Calls

LEMMA MarkCall ==
  ASSUME NEW arg \in Marks, NEW api \in Servers
  PROVE  Request("fixed", arg, api) \in Calls
<1>1. AnswerOf("fixed", arg, api) = {} BY DEF AnswerOf
<1> QED BY <1>1 DEF Request, Calls

\* What a call that is made does to the state: nothing but to be under way.
LEMMA SendFacts ==
  ASSUME NEW s, Good(s), NEW kind, NEW arg, Request(kind, arg, server) \in Calls
  PROVE  Good(Send(s, kind, arg)) /\ Send(s, kind, arg).list = s.list
<1>1. s \in States BY DEF Good
<1>2. Append(s.requests, Request(kind, arg, server)) \in Seq(Calls) BY <1>1 DEF States
<1>3. Send(s, kind, arg) \in States /\ Send(s, kind, arg).list = s.list
  BY <1>1, <1>2 DEF Send, States
<1> QED BY <1>3 DEF Good

\* The sequence of the devices whose notes are asked for is cut into pieces.
LEMMA BatchFacts ==
  ASSUME NEW s, Good(s), NEW serials \in Seq(Serials), NEW api \in Servers
  PROVE  /\ Good(BatchGetDevicesLatestNotes(s, serials, api))
         /\ BatchGetDevicesLatestNotes(s, serials, api).list = s.list
<1> DEFINE Rest(k) == SubSeq(serials, (k - 1) * NotesBatch + 1, Len(serials))
           n == (Len(serials) + NotesBatch - 1) \div NotesBatch
           calls == [k \in 1 .. n |-> Request("notes", First(Rest(k), NotesBatch), api)]
<1>1. s \in States BY DEF Good
<1>2. NotesBatch \in Nat \ {0} BY DeviceListAssumption
<1>3. n \in Nat
  <2>1. Len(serials) + NotesBatch - 1 \in Nat BY <1>2
  <2> QED BY <1>2, <2>1
<1> HIDE DEF n
<1>4. ASSUME NEW k \in 1 .. n
      PROVE  Request("notes", First(Rest(k), NotesBatch), api) \in Calls
  <2>1. (k - 1) * NotesBatch \in Nat
    <3>1. k - 1 \in Nat BY <1>3
    <3> QED BY <1>2, <3>1
  <2>2. Rest(k) \in Seq(Serials) BY <2>1
  <2> HIDE DEF Rest
  <2>3. First(Rest(k), NotesBatch) \in Seq(Serials) BY <1>2, <2>2, FirstFacts
  <2> QED BY <2>3, NotesCall
<1>5. calls \in Seq(Calls)
  <2> HIDE DEF Rest
  <2> QED BY <1>3, <1>4
<1>6. BatchGetDevicesLatestNotes(s, serials, api) =
        [s EXCEPT !.requests = @ \o calls]
  BY DEF BatchGetDevicesLatestNotes, n
<1> HIDE DEF calls
<1>7. s.requests \o calls \in Seq(Calls) BY <1>1, <1>5 DEF States
<1>8. /\ BatchGetDevicesLatestNotes(s, serials, api) \in States
      /\ BatchGetDevicesLatestNotes(s, serials, api).list = s.list
  BY <1>1, <1>6, <1>7 DEF States
<1> QED BY <1>8 DEF Good

LEMMA SerialsFacts ==
  ASSUME NEW rows \in Seq(Rows)
  PROVE  SerialsOf(rows) \in Seq(Serials)
<1>1. \A r \in Rows : r.serial \in Serials BY DEF Rows
<1> QED BY <1>1 DEF SerialsOf

LEMMA GetNotesFacts ==
  ASSUME NEW s, Good(s), server \in Servers
  PROVE  Good(GetDeviceNotes(s)) /\ GetDeviceNotes(s).list = s.list
<1>1. s.list.rows \in Seq(Rows) BY DEF Good, States, Lists
<1> QED BY <1>1, SerialsFacts, BatchFacts DEF GetDeviceNotes

\* New rows are other objects than those the calls hold.
LEMMA DetachFacts ==
  ASSUME NEW s \in States
  PROVE  /\ Detach(s) \in States
         /\ Detach(s).list = s.list /\ Detach(s).browser = s.browser
<1> DEFINE New(r) == IF r.kind = "fixed" THEN [r EXCEPT !.arg.attached = FALSE] ELSE r
           requests1 == [i \in DOMAIN s.requests |-> New(s.requests[i])]
<1>1. ASSUME NEW r \in Calls PROVE New(r) \in Calls
  <2>1. CASE r.kind = "fixed"
    <3>1. r \in [kind : {"fixed"}, arg : Marks, answer : {{}}, done : BOOLEAN]
      BY <2>1 DEF Calls
    <3>2. [r.arg EXCEPT !.attached = FALSE] \in Marks BY <3>1 DEF Marks
    <3>3. [r EXCEPT !.arg.attached = FALSE] \in
            [kind : {"fixed"}, arg : Marks, answer : {{}}, done : BOOLEAN]
      BY <3>1, <3>2
    <3> QED BY <2>1, <3>3 DEF Calls
  <2> QED BY <2>1
<1> HIDE DEF New
<1>2. s.requests \in Seq(Calls) BY DEF States
<1>3. requests1 \in Seq(Calls) BY <1>1, <1>2
<1>4. Detach(s) = [s EXCEPT !.requests = requests1] BY DEF Detach, New
<1> HIDE DEF requests1
<1> QED BY <1>3, <1>4 DEF States

-----------------------------------------------------------------------------
(* What the handlers do to the state.                                      *)

\* A handler that sets fields of the list or of the browser.
LEMMA ListUpdates ==
  ASSUME NEW s \in States
  PROVE  /\ \A l \in Lists : [s EXCEPT !.list = l] \in States
         /\ \A b \in Browsers : [s EXCEPT !.browser = b] \in States
         /\ s.list \in Lists /\ s.browser \in Browsers /\ s.requests \in Seq(Calls)
  BY DEF States

LEMMA ListFields ==
  ASSUME NEW l \in Lists
  PROVE  /\ l.bar \in Bars /\ l.rows \in Seq(Rows)
         /\ l.prevPageToken \in Nat /\ l.nextPageToken \in Nat
         /\ l.isLoading \in BOOLEAN /\ l.paginator \in Pagers /\ l.table \in Tables
         /\ l.selected \in SUBSET Serials /\ l.lab \in LabNames
         /\ l.key \in Keys /\ l.url \in Urls /\ l.hints \in SUBSET Hints
  BY DEF Lists

\* The bar, the lab, the key and the address play no part in the selection, the
\* tokens or the buttons.
LEMMA BarChange ==
  ASSUME NEW s, Good(s), NEW bar \in Bars
  PROVE  /\ Good([s EXCEPT !.list.bar = bar])
         /\ [s EXCEPT !.list.bar = bar].list = [s.list EXCEPT !.bar = bar]
         /\ InStep(s.list) => InStep([s EXCEPT !.list.bar = bar].list)
<1>1. s.list \in Lists BY ListUpdates DEF Good
<1>2. [s.list EXCEPT !.bar = bar] \in Lists BY <1>1 DEF Lists
<1>3. [s EXCEPT !.list.bar = bar] = [s EXCEPT !.list = [s.list EXCEPT !.bar = bar]]
  OBVIOUS
<1>4. s \in States BY DEF Good
<1>5. [s EXCEPT !.list.bar = bar] \in States BY <1>2, <1>3, <1>4, ListUpdates
<1>6. [s EXCEPT !.list.bar = bar].list = [s.list EXCEPT !.bar = bar]
  BY <1>4 DEF States
<1> QED BY <1>1, <1>5, <1>6 DEF Good, OneSelection, Precedes, InStep, Lists

LEMMA CriteriaOfState ==
  ASSUME NEW s \in States
  PROVE  GetSearchCriteria(s) \in Criteria
<1>1. s.list.bar \in Bars /\ s.list.lab \in LabNames BY ListUpdates, ListFields
<1>2. SearchCriteria(s.list.bar) \in [FilterColumns -> SUBSET Values]
  BY <1>1, CriteriaFacts
<1> QED BY <1>1, <1>2 DEF GetSearchCriteria, Criteria

LEMMA KeyFacts ==
  ASSUME NEW s, Good(s)
  PROVE  /\ Good(SetSessionStorageKey(s))
         /\ SetSessionStorageKey(s).list = [s.list EXCEPT !.key = SetSessionStorageKey(s).list.key]
         /\ SetSessionStorageKey(s).browser = s.browser
<1> DEFINE key == <<GetSearchCriteria(s), s.list.paginator.pageSize,
                    s.list.paginator.pageIndex>>
<1>1. s \in States /\ s.list \in Lists BY ListUpdates DEF Good
<1>2. GetSearchCriteria(s) \in Criteria BY <1>1, CriteriaOfState
<1>3. s.list.paginator.pageSize \in PageSizes /\ s.list.paginator.pageIndex \in Int
  BY <1>1, ListFields DEF Pagers
<1>4. key \in Keys BY <1>2, <1>3 DEF Keys
<1>5. SetSessionStorageKey(s) = [s EXCEPT !.list.key = key] BY DEF SetSessionStorageKey
<1> HIDE DEF key
<1>6. [s.list EXCEPT !.key = key] \in Lists BY <1>1, <1>4 DEF Lists
<1>7. /\ SetSessionStorageKey(s) \in States
      /\ SetSessionStorageKey(s).list = [s.list EXCEPT !.key = key]
      /\ SetSessionStorageKey(s).browser = s.browser
  BY <1>1, <1>5, <1>6 DEF States
<1> QED BY <1>1, <1>7 DEF Good, OneSelection, Precedes, Lists

LEMMA PatchFacts ==
  ASSUME NEW s \in States
  PROVE  /\ PatchQueryParams(s) \in States
         /\ PatchQueryParams(s).list = s.list
         /\ PatchQueryParams(s).browser.session = s.browser.session
<1> DEFINE criteria == GetSearchCriteria(s)
           Merged(c) == IF c \notin Columns THEN {}
                        ELSE IF criteria.filters[c] # {} THEN criteria.filters[c]
                        ELSE s.list.url.criteria.filters[c]
           merged == [c \in FilterColumns |-> Merged(c)]
           lab == IF criteria.lab # "" THEN criteria.lab ELSE s.list.url.criteria.lab
           token == IF s.list.prevPageToken # NoToken THEN s.list.prevPageToken
                    ELSE s.list.url.token
           size == IF s.list.paginator.pageSize # DefaultPageSize
                   THEN s.list.paginator.pageSize ELSE s.list.url.size
           url == [criteria |-> [filters |-> merged, lab |-> lab],
                   token |-> token, size |-> size, empty |-> FALSE]
<1>1. s.list \in Lists /\ s.browser \in Browsers BY ListUpdates
<1>2. criteria \in Criteria BY CriteriaOfState
<1>3. s.list.url.criteria \in Criteria /\ s.list.url.token \in Nat /\ s.list.url.size \in Nat
  BY <1>1, ListFields DEF Urls
<1>4. PatchQueryParams(s) = [s EXCEPT !.browser.url = url] BY DEF PatchQueryParams
<1> HIDE DEF criteria
<1>5. merged \in [FilterColumns -> SUBSET Values] BY <1>2, <1>3 DEF Criteria
<1>6. lab \in LabNames BY <1>2, <1>3 DEF Criteria
<1>7. token \in Nat BY <1>1, <1>3, ListFields
<1>8. size \in Nat
  BY <1>1, <1>3, ListFields, DeviceListAssumption DEF Pagers
<1> HIDE DEF merged, lab, token, size
<1>9. url \in Urls BY <1>5, <1>6, <1>7, <1>8 DEF Urls, Criteria
<1> HIDE DEF url
<1>10. [s.browser EXCEPT !.url = url] \in Browsers
       /\ [s.browser EXCEPT !.url = url].session = s.browser.session
  BY <1>1, <1>9 DEF Browsers
<1> QED BY <1>4, <1>10 DEF States

\* After the answer the buttons are those of the tokens.
LEMMA RefreshFacts ==
  ASSUME NEW s \in States
  PROVE  /\ RefreshPaginator(s) \in States
         /\ RefreshPaginator(s).list =
              [s.list EXCEPT !.paginator =
                 SetTokens(@, s.list.prevPageToken, s.list.nextPageToken)]
         /\ RefreshPaginator(s).browser.session = s.browser.session
<1> DEFINE pager == SetTokens(s.list.paginator, s.list.prevPageToken, s.list.nextPageToken)
           set == [s EXCEPT !.list.paginator = pager]
           patched == PatchQueryParams(set)
           criteria == GetSearchCriteria(s)
<1>1. s.list \in Lists /\ s.browser \in Browsers BY ListUpdates
<1>2. pager \in Pagers
  <2>1. s.list.paginator \in Pagers BY <1>1, ListFields
  <2>2. (s.list.prevPageToken # NoToken) \in BOOLEAN
        /\ (s.list.nextPageToken # NoToken) \in BOOLEAN
    OBVIOUS
  <2> QED BY <2>1, <2>2 DEF SetTokens, Pagers
<1>3. RefreshPaginator(s) = [patched EXCEPT !.browser.criteria = criteria,
                                            !.browser.lab = s.list.lab]
  BY DEF RefreshPaginator
<1>4. criteria \in Criteria /\ s.list.lab \in LabNames
  BY <1>1, CriteriaOfState, ListFields
<1> HIDE DEF pager, criteria
<1>5. [s.list EXCEPT !.paginator = pager] \in Lists BY <1>1, <1>2 DEF Lists
<1>6. /\ set \in States
      /\ set.list = [s.list EXCEPT !.paginator = pager] /\ set.browser = s.browser
  BY <1>5 DEF States
<1> HIDE DEF set
<1>7. /\ patched \in States /\ patched.list = set.list
      /\ patched.browser.session = s.browser.session
  BY <1>6, PatchFacts
<1> HIDE DEF patched
<1>8. patched.browser \in Browsers BY <1>7, ListUpdates
<1> DEFINE b == [patched.browser EXCEPT !.criteria = criteria, !.lab = s.list.lab]
<1>9. b \in Browsers /\ b.session = s.browser.session BY <1>4, <1>7, <1>8 DEF Browsers
<1>10. RefreshPaginator(s) = [patched EXCEPT !.browser = b] BY <1>3
<1> HIDE DEF b
<1>11. /\ RefreshPaginator(s) \in States /\ RefreshPaginator(s).list = patched.list
       /\ RefreshPaginator(s).browser = b
  BY <1>7, <1>9, <1>10 DEF States
<1> QED BY <1>6, <1>7, <1>9, <1>11 DEF pager

\* What is handed out is selected.
GoodTable(table) == table \in Tables /\ table.view \subseteq table.selection

LEMMA TableFacts ==
  ASSUME NEW table \in Tables
  PROVE  /\ \A ids \in SUBSET Serials :
              GoodTable(Selects(table, ids)) /\ GoodTable(SelectSelection(table, ids))
         /\ GoodTable(ClearSelection(table))
         /\ \A ids \in SUBSET Serials :
              SelectSelection(ClearSelection(table), ids).view = ids
<1>1. ASSUME NEW ids \in SUBSET Serials
      PROVE  GoodTable(Selects(table, ids)) /\ Selects(table, ids).view = ids
             /\ Selects(table, ids).selection = ids
  BY DEF Selects, Tables, GoodTable
<1>2. table.selection \in SUBSET Serials BY DEF Tables
<1>3. ClearSelection(table) = Selects(table, {}) BY DEF ClearSelection
<1>4. ClearSelection(table) \in Tables /\ ClearSelection(table).selection = {}
  BY <1>1, <1>3 DEF GoodTable
<1>5. ASSUME NEW t \in Tables, NEW ids \in SUBSET Serials
      PROVE  /\ GoodTable(SelectSelection(t, ids))
             /\ SelectSelection(t, ids).view = t.selection \cup ids
  BY DEF SelectSelection, Selects, Tables, GoodTable
<1>6. ASSUME NEW ids \in SUBSET Serials
      PROVE  SelectSelection(ClearSelection(table), ids).view = ids
  <2>1. SelectSelection(ClearSelection(table), ids).view = {} \cup ids
    BY <1>4, <1>5
  <2> QED BY <2>1
<1> QED BY <1>1, <1>3, <1>5, <1>6

\* The table gets the rows and shows the selection again.
LEMMA ShowTableFacts ==
  ASSUME NEW s \in States
  PROVE  /\ ShowTable(s) \in States /\ ShowTable(s).browser = s.browser
         /\ ShowTable(s).list = [s.list EXCEPT !.table = ShowTable(s).list.table,
                                               !.selected = ShowTable(s).list.selected]
         /\ OneSelection(ShowTable(s).list)
<1> DEFINE rows == [s.list.table EXCEPT !.rows = SerialsOf(s.list.rows)]
           table == ResetPrevClickedRowIndex(
                      SelectSelection(ClearSelection(rows), s.list.selected))
<1>1. s.list \in Lists BY ListUpdates
<1>2. /\ s.list.table \in Tables /\ s.list.selected \in SUBSET Serials
      /\ SerialsOf(s.list.rows) \in Seq(Serials)
  BY <1>1, ListFields, SerialsFacts
<1>3. rows \in Tables BY <1>2 DEF Tables
<1>4. ShowTable(s) = [s EXCEPT !.list.table = table, !.list.selected = table.view]
  BY DEF ShowTable
<1> HIDE DEF rows
<1>5. table \in Tables /\ table.view \subseteq table.selection
  <2>1. ClearSelection(rows) \in Tables BY <1>3, TableFacts DEF GoodTable
  <2>2. GoodTable(SelectSelection(ClearSelection(rows), s.list.selected))
    BY <1>2, <2>1, TableFacts
  <2> QED BY <2>2 DEF ResetPrevClickedRowIndex, GoodTable, Tables
<1> HIDE DEF table
<1> DEFINE l == [s.list EXCEPT !.table = table, !.selected = table.view]
<1>6. table.view \in SUBSET Serials BY <1>5 DEF Tables
<1>7. l \in Lists /\ l.table = table /\ l.selected = table.view
  BY <1>1, <1>5, <1>6 DEF Lists
<1>8. ShowTable(s) = [s EXCEPT !.list = l] BY <1>4
<1>9. ShowTable(s) \in States /\ ShowTable(s).list = l /\ ShowTable(s).browser = s.browser
  <2> HIDE DEF l
  <2> QED BY <1>7, <1>8 DEF States
<1> QED BY <1>5, <1>7, <1>9 DEF OneSelection

\* The session gets the page under the key of the list.
LEMMA StoreFacts ==
  ASSUME NEW s, Good(s), NEW page \in Pages
  PROVE  Good(Store(s, page)) /\ Store(s, page).list = s.list
<1> DEFINE session == Cached(s.browser.session, s.list.key, page)
<1>1. s \in States /\ s.list \in Lists /\ s.browser \in Browsers
  BY ListUpdates DEF Good
<1>2. s.list.key \in Keys BY <1>1, ListFields
<1>3. session \in Sessions
  <2>1. s.browser.session \in Sessions BY <1>1 DEF Browsers
  <2>2. PICK K \in SUBSET Keys : s.browser.session \in [K -> Pages]
    BY <2>1 DEF Sessions
  <2>3. K \cup {s.list.key} \in SUBSET Keys BY <1>2
  <2>4. session \in [K \cup {s.list.key} -> Pages] BY <2>2 DEF Cached
  <2> HIDE DEF session
  <2> QED BY <2>3, <2>4 DEF Sessions
<1>4. Store(s, page) = [s EXCEPT !.browser.session = session] BY DEF Store
<1> HIDE DEF session
<1>5. [s.browser EXCEPT !.session = session] \in Browsers BY <1>1, <1>3 DEF Browsers
<1>6. Store(s, page) \in States /\ Store(s, page).list = s.list
  BY <1>1, <1>4, <1>5 DEF States
<1> QED BY <1>6 DEF Good

LEMMA StoredFacts ==
  ASSUME NEW s \in States, IsStored(s)
  PROVE  Stored(s) \in Pages
<1>1. s.browser.session \in Sessions BY ListUpdates DEF Browsers
<1>2. PICK K \in SUBSET Keys : s.browser.session \in [K -> Pages]
  BY <1>1 DEF Sessions
<1> QED BY <1>2 DEF IsStored, Stored

\* An answer or a cached page sets the rows, the tokens and the buttons together,
\* and shows the selection.
LEMMA AfterDataloadedFacts ==
  ASSUME NEW s \in States, NEW page \in Pages, NEW fromStorage \in BOOLEAN
  PROVE  /\ Good(AfterDataloaded(s, page, fromStorage))
         /\ InStep(AfterDataloaded(s, page, fromStorage).list)
<1> DEFINE d == Detach(s)
           bar == [d.list.bar EXCEPT !.filterChanged = FALSE]
           l == [d.list EXCEPT !.rows = page.rows, !.prevPageToken = page.prevToken,
                               !.nextPageToken = page.nextToken, !.isLoading = FALSE,
                               !.bar = bar]
           loaded == [d EXCEPT !.list = l]
           refreshed == RefreshPaginator(loaded)
           shown == ShowTable(refreshed)
<1>1. d \in States /\ d.list = s.list BY DetachFacts
<1>2. d.list \in Lists BY <1>1, ListUpdates
<1>3. /\ page.rows \in Seq(Rows) /\ page.prevToken \in Nat /\ page.nextToken \in Nat
      /\ \A i \in DOMAIN page.rows : page.prevToken < page.rows[i].serial
  BY DEF Pages, BackTokenPrecedes
<1>4. bar \in Bars BY <1>2, ListFields, BarUpdates
<1>5. AfterDataloaded(s, page, fromStorage) = IF fromStorage THEN shown ELSE Store(shown, page)
  <2>1. [Detach(s) EXCEPT !.list.rows = page.rows,
                          !.list.prevPageToken = page.prevToken,
                          !.list.nextPageToken = page.nextToken,
                          !.list.isLoading = FALSE,
                          !.list.bar.filterChanged = FALSE] = loaded
    <3> HIDE DEF d
    <3>1. d \in [list : Lists, browser : Browsers, requests : Seq(Calls)]
      BY <1>1 DEF States
    <3>2. [d EXCEPT !.list.rows = page.rows,
                    !.list.prevPageToken = page.prevToken,
                    !.list.nextPageToken = page.nextToken,
                    !.list.isLoading = FALSE,
                    !.list.bar.filterChanged = FALSE] = loaded
      BY <1>2, <3>1 DEF Lists
    <3> QED BY <3>2 DEF d
  <2> QED BY <2>1 DEF AfterDataloaded
<1> HIDE DEF d, bar
<1>6. /\ l \in Lists /\ l.rows = page.rows /\ l.isLoading = FALSE
      /\ l.prevPageToken = page.prevToken /\ l.nextPageToken = page.nextToken
  BY <1>2, <1>3, <1>4 DEF Lists
<1> HIDE DEF l
<1>7. loaded \in States /\ loaded.list = l BY <1>1, <1>6 DEF States
<1> HIDE DEF loaded
<1> DEFINE pager == SetTokens(l.paginator, l.prevPageToken, l.nextPageToken)
<1>8. refreshed \in States /\ refreshed.list = [l EXCEPT !.paginator = pager]
  BY <1>7, RefreshFacts
<1>9. /\ pager.hasPrevious <=> l.prevPageToken # NoToken
      /\ pager.hasNext <=> l.nextPageToken # NoToken
  BY <1>6, ListFields DEF SetTokens, Pagers
<1> HIDE DEF refreshed, pager
<1>10. /\ shown \in States /\ OneSelection(shown.list)
       /\ shown.list = [refreshed.list EXCEPT !.table = shown.list.table,
                                              !.selected = shown.list.selected]
  BY <1>8, ShowTableFacts
<1> HIDE DEF shown
<1>11. /\ shown.list.rows = page.rows /\ shown.list.prevPageToken = page.prevToken
       /\ shown.list.nextPageToken = l.nextPageToken /\ shown.list.paginator = pager
  BY <1>6, <1>8, <1>10 DEF Lists
<1>12. Good(shown) BY <1>3, <1>10, <1>11 DEF Good, Precedes
<1>13. InStep(shown.list) BY <1>6, <1>9, <1>11 DEF InStep
<1> QED BY <1>5, <1>12, <1>13, StoreFacts

\* A query for a page.
LEMMA QueryFacts ==
  ASSUME NEW s, Good(s), server \in Servers, NEW token \in Nat, NEW backwards \in BOOLEAN
  PROVE  /\ Good(QueryDeviceInfos(s, token, backwards))
         /\ QueryDeviceInfos(s, token, backwards).list = s.list
<1> DEFINE arg == [criteria |-> GetSearchCriteria(s),
                   query |-> PageQuery(s.list.paginator.pageSize, token, backwards)]
<1>1. s \in States /\ s.list \in Lists BY ListUpdates DEF Good
<1>2. GetSearchCriteria(s) \in Criteria BY <1>1, CriteriaOfState
<1>3. s.list.paginator.pageSize \in PageSizes BY <1>1, ListFields DEF Pagers
<1>4. PageQuery(s.list.paginator.pageSize, token, backwards) \in Queries
  BY <1>3 DEF PageQuery, Queries
<1>5. arg \in PageArgs BY <1>2, <1>4 DEF PageArgs
<1>6. QueryDeviceInfos(s, token, backwards) = Send(s, "page", arg) BY DEF QueryDeviceInfos
<1> HIDE DEF arg
<1>7. Request("page", arg, server) \in Calls BY <1>5, PageCall
<1> QED BY <1>6, <1>7, SendFacts

\* Loading covers the buttons until the answer, or ends with a cached page.
LEMMA LoadFacts ==
  ASSUME NEW s, Good(s), server \in Servers, NEW diff \in {0, 1, -1}, NEW force \in BOOLEAN
  PROVE  Good(Load(s, diff, force)) /\ InStep(Load(s, diff, force).list)
<1> DEFINE bar == ResetSearchSteps(s.list.bar)
           pager == IF diff = 0 THEN ResetPageIndex(s.list.paginator) ELSE s.list.paginator
           l == [s.list EXCEPT !.isLoading = TRUE, !.bar = bar, !.paginator = pager]
           reset == [s EXCEPT !.list = l]
           keyed == SetSessionStorageKey(reset)
           patched == PatchQueryParams(keyed)
<1>1. s \in States /\ s.list \in Lists BY ListUpdates DEF Good
<1>2. bar \in Bars BY <1>1, ListFields, DisplayFacts
<1>3. pager \in Pagers BY <1>1, ListFields DEF ResetPageIndex, Pagers
<1>4. Load(s, diff, force) =
        IF IsStored(patched) /\ ~ force
        THEN AfterDataloaded(patched, Stored(patched), TRUE)
        ELSE QueryDeviceInfos(patched, GetPageToken(s, diff, force), diff = -1)
  <2>1. [s EXCEPT !.list.isLoading = TRUE,
                  !.list.bar = ResetSearchSteps(@),
                  !.list.paginator = IF diff = 0 THEN ResetPageIndex(@) ELSE @] = reset
    BY <1>1 DEF States, Lists
  <2> QED BY <2>1 DEF Load
<1>5. GetPageToken(s, diff, force) \in Nat
  BY <1>1, ListFields DEF GetPageToken, NoToken
<1>6. (diff = -1) \in BOOLEAN OBVIOUS
<1> HIDE DEF bar, pager
<1>7. /\ l \in Lists /\ l.isLoading = TRUE /\ l.rows = s.list.rows
      /\ l.prevPageToken = s.list.prevPageToken /\ l.table = s.list.table
      /\ l.selected = s.list.selected
  BY <1>1, <1>2, <1>3 DEF Lists
<1> HIDE DEF l
<1>8. reset \in States /\ reset.list = l BY <1>1, <1>7 DEF States
<1> HIDE DEF reset
<1>9. Good(reset) BY <1>7, <1>8 DEF Good, OneSelection, Precedes
<1>10. Good(keyed) /\ keyed.list = [l EXCEPT !.key = keyed.list.key]
  BY <1>8, <1>9, KeyFacts
<1> HIDE DEF keyed
<1>11. keyed.list.isLoading = TRUE BY <1>7, <1>10 DEF Lists
<1>12. patched \in States /\ patched.list = keyed.list BY <1>10, PatchFacts DEF Good
<1> HIDE DEF patched
<1>13. Good(patched) BY <1>10, <1>12 DEF Good
<1>14. CASE IsStored(patched) /\ ~ force
  BY <1>4, <1>12, <1>14, StoredFacts, AfterDataloadedFacts
<1>15. CASE ~ (IsStored(patched) /\ ~ force)
  <2> DEFINE q == QueryDeviceInfos(patched, GetPageToken(s, diff, force), diff = -1)
  <2>1. Good(q) /\ q.list = patched.list BY <1>5, <1>6, <1>13, QueryFacts
  <2>2. Load(s, diff, force) = q BY <1>4, <1>15
  <2> QED BY <1>11, <1>12, <2>1, <2>2 DEF InStep
<1> QED BY <1>14, <1>15

\* Notes change neither the devices nor the tokens, and what is cached is a page.
LEMMA SetNotesFacts ==
  ASSUME NEW s, Good(s), NEW notes \in Notes
  PROVE  /\ Good(SetDeviceNotes(s, notes))
         /\ InStep(s.list) => InStep(SetDeviceNotes(s, notes).list)
<1> DEFINE Noted(row) == IF row.serial \in DOMAIN notes
                         THEN [row EXCEPT !.note = notes[row.serial]] ELSE row
           rows == [i \in DOMAIN s.list.rows |-> Noted(s.list.rows[i])]
           noted == [s EXCEPT !.list.rows = rows]
<1>1. s \in States /\ s.list \in Lists BY ListUpdates DEF Good
<1>2. \A row \in Rows : Noted(row) \in Rows /\ Noted(row).serial = row.serial
  BY DEF Rows, Notes
<1>3. SetDeviceNotes(s, notes) =
        IF noted.list.key # NoKey /\ LabInstance THEN Store(noted, Page(noted)) ELSE noted
  BY DEF SetDeviceNotes
<1> HIDE DEF Noted
<1>4. s.list.rows \in Seq(Rows) BY <1>1, ListFields
<1>5. /\ rows \in Seq(Rows) /\ DOMAIN rows = DOMAIN s.list.rows
      /\ \A i \in DOMAIN rows : rows[i].serial = s.list.rows[i].serial
  BY <1>2, <1>4
<1> HIDE DEF rows
<1>6. [s.list EXCEPT !.rows = rows] \in Lists BY <1>1, <1>5 DEF Lists
<1>7. noted \in States /\ noted.list = [s.list EXCEPT !.rows = rows]
  BY <1>1, <1>6 DEF States
<1> HIDE DEF noted
<1>8. /\ noted.list.rows = rows /\ noted.list.prevPageToken = s.list.prevPageToken
      /\ noted.list.nextPageToken = s.list.nextPageToken
      /\ noted.list.table = s.list.table /\ noted.list.selected = s.list.selected
      /\ noted.list.isLoading = s.list.isLoading
      /\ noted.list.paginator = s.list.paginator
  BY <1>1, <1>7 DEF Lists
<1>9. Good(noted) BY <1>5, <1>7, <1>8 DEF Good, OneSelection, Precedes
<1>10. InStep(s.list) => InStep(noted.list) BY <1>8 DEF InStep
<1>11. Page(noted) \in Pages
  <2>1. noted.list \in Lists BY <1>7, ListUpdates
  <2>2. /\ noted.list.rows \in Seq(Rows) /\ noted.list.prevPageToken \in Nat
        /\ noted.list.nextPageToken \in Nat
    BY <2>1, ListFields
  <2> QED BY <1>9, <2>2 DEF Page, Pages, BackTokenPrecedes, Good, Precedes
<1> QED BY <1>3, <1>9, <1>10, <1>11, StoreFacts

-----------------------------------------------------------------------------
(* The first load and the opening of the page.                             *)

LEMMA StartValuesFacts ==
  ASSUME NEW s \in States, NEW c \in FilterColumns
  PROVE  StartValues(s, c) \subseteq Values
<1>1. s.list.url.criteria \in Criteria /\ s.browser.criteria \in Criteria
  BY ListUpdates, ListFields DEF Urls, Browsers
<1> QED BY <1>1 DEF StartValues, Criteria

LEMMA StartBarFacts ==
  ASSUME NEW s, Good(s)
  PROVE  /\ Good(SetFilterHintSelectedValues(s))
         /\ Good(LoadNonFilterHintTypeCriteria(s))
<1>1. s \in States /\ s.list.bar \in Bars BY ListUpdates, ListFields DEF Good
<1>2. Good(SetFilterHintSelectedValues(s))
  <2> DEFINE bar == SetFilterOptionsSelected(s.list.bar, [c \in Columns |-> StartValues(s, c)])
  <2>1. bar \in Bars BY <1>1, SetSelectedFacts DEF SetFilterOptionsSelected
  <2>2. SetFilterHintSelectedValues(s) = [s EXCEPT !.list.bar = bar]
    BY DEF SetFilterHintSelectedValues
  <2> HIDE DEF bar
  <2> QED BY <2>1, <2>2, BarChange
<1>3. Good(LoadNonFilterHintTypeCriteria(s))
  <2> DEFINE typed == {c \in InputColumns : StartValues(s, c) # {}}
             values == [c \in typed |-> CHOOSE v \in StartValues(s, c) : TRUE]
             bar == AddNewFilterOptions(s.list.bar, values)
  <2>1. ASSUME NEW c \in typed
        PROVE  c \in FilterColumns /\ (CHOOSE v \in StartValues(s, c) : TRUE) \in Values
    <3>1. c \in FilterColumns BY DEF FilterColumns
    <3>2. StartValues(s, c) \subseteq Values BY <1>1, <3>1, StartValuesFacts
    <3> QED BY <3>1, <3>2
  <2>2. LoadNonFilterHintTypeCriteria(s) = [s EXCEPT !.list.bar = bar]
    BY DEF LoadNonFilterHintTypeCriteria
  <2> HIDE DEF typed
  <2>3. \A c \in DOMAIN values : c \in FilterColumns /\ values[c] \in Values BY <2>1
  <2> HIDE DEF values
  <2>4. bar \in Bars BY <1>1, <2>3, AddNewFacts
  <2> HIDE DEF bar
  <2> QED BY <2>2, <2>4, BarChange
<1> QED BY <1>2, <1>3

\* The first page is asked for with a size that is offered, or was cached.
LEMMA FirstLoadFacts ==
  ASSUME NEW s, Good(s), server \in Servers
  PROVE  /\ Good(UpdatePaginatorParamsAndLoad(s))
         /\ InStep(UpdatePaginatorParamsAndLoad(s).list)
<1> DEFINE lab == IF s.list.url.criteria.lab \in Labs \cup {AllLabs}
                  THEN s.list.url.criteria.lab
                  ELSE IF s.browser.lab \in Labs \cup {AllLabs} THEN s.browser.lab
                  ELSE AllLabs
           pager == [s.list.paginator EXCEPT !.pageSize = StartSize(s)]
           l == [s.list EXCEPT !.lab = lab, !.prevPageToken = NoToken,
                               !.nextPageToken = s.list.url.token, !.paginator = pager]
           start == [s EXCEPT !.list = l]
           chosen == SetFilterHintSelectedValues(start)
           typed == LoadNonFilterHintTypeCriteria(chosen)
           keyed == SetSessionStorageKey(typed)
           covered == [keyed EXCEPT !.list.isLoading = TRUE]
<1>1. s \in States /\ s.list \in Lists /\ s.browser \in Browsers BY ListUpdates DEF Good
<1>2. lab \in LabNames BY DEF LabNames
<1>3. StartSize(s) \in PageSizes BY DeviceListAssumption DEF StartSize
<1>4. pager \in Pagers BY <1>1, <1>3, ListFields DEF Pagers
<1>5. s.list.url.token \in Nat BY <1>1, ListFields DEF Urls
<1>6. UpdatePaginatorParamsAndLoad(s) =
        IF IsStored(keyed)
        THEN GetDeviceNotes(AfterDataloaded(keyed, Stored(keyed), FALSE))
        ELSE QueryDeviceInfos(covered, s.list.url.token, FALSE)
  <2>1. SelectLab(s) = [s EXCEPT !.list.lab = lab] BY DEF SelectLab
  <2>2. [SelectLab(s) EXCEPT !.list.prevPageToken = NoToken,
                             !.list.nextPageToken = s.list.url.token,
                             !.list.paginator.pageSize = StartSize(s)] = start
    <3> HIDE DEF lab
    <3> DEFINE m == [s.list EXCEPT !.lab = lab]
    <3>1. m \in Lists BY <1>1, <1>2 DEF Lists
    <3>2. m = [s.list EXCEPT !.lab = lab] OBVIOUS
    <3>3. m.paginator = s.list.paginator BY <1>1 DEF Lists
    <3> HIDE DEF m
    <3>4. SelectLab(s) \in States /\ SelectLab(s) = [s EXCEPT !.list = m]
          /\ SelectLab(s).list = m
      BY <1>1, <2>1, <3>1, <3>2 DEF States
    <3>5. [SelectLab(s) EXCEPT !.list.prevPageToken = NoToken,
                               !.list.nextPageToken = s.list.url.token,
                               !.list.paginator.pageSize = StartSize(s)] =
          [SelectLab(s) EXCEPT !.list =
             [m EXCEPT !.prevPageToken = NoToken, !.nextPageToken = s.list.url.token,
                       !.paginator = pager]]
      BY <3>1, <3>3, <3>4 DEF States, Lists
    <3>6. [m EXCEPT !.prevPageToken = NoToken, !.nextPageToken = s.list.url.token,
                    !.paginator = pager] = l
      BY <3>2
    <3> HIDE DEF pager, l
    <3> QED BY <1>1, <3>4, <3>5, <3>6 DEF States
  <2> DEFINE e == [SelectLab(s) EXCEPT !.list.prevPageToken = NoToken,
                                       !.list.nextPageToken = s.list.url.token,
                                       !.list.paginator.pageSize = StartSize(s)]
             k == SetSessionStorageKey(
                    LoadNonFilterHintTypeCriteria(SetFilterHintSelectedValues(e)))
  <2>3. UpdatePaginatorParamsAndLoad(s) =
          IF IsStored(k) THEN GetDeviceNotes(AfterDataloaded(k, Stored(k), FALSE))
          ELSE QueryDeviceInfos([k EXCEPT !.list.isLoading = TRUE], s.list.url.token, FALSE)
    BY DEF UpdatePaginatorParamsAndLoad
  <2>4. e = start BY <2>2
  <2> HIDE DEF e, start
  <2>5. k = keyed BY <2>4
  <2> HIDE DEF k, keyed
  <2> QED BY <2>3, <2>5
<1> HIDE DEF lab, pager
<1>7. l \in Lists BY <1>1, <1>2, <1>4, <1>5 DEF Lists, NoToken
<1>8. /\ l.rows = s.list.rows /\ l.prevPageToken = 0 /\ l.table = s.list.table
      /\ l.selected = s.list.selected
  BY <1>1 DEF Lists, NoToken
<1> HIDE DEF l
<1>9. start \in States /\ start.list = l BY <1>1, <1>7 DEF States
<1> HIDE DEF start
<1>10. Good(start)
  <2>1. \A d \in Serials : 0 < d BY DEF Serials
  <2>2. \A r \in Rows : r.serial \in Serials BY DEF Rows
  <2>3. \A i \in DOMAIN l.rows : l.rows[i] \in Rows BY <1>7, ListFields
  <2>4. Precedes(l) BY <1>8, <2>1, <2>2, <2>3 DEF Precedes
  <2>5. OneSelection(l) BY <1>8 DEF Good, OneSelection
  <2> QED BY <1>9, <2>4, <2>5 DEF Good
<1>11. Good(chosen) BY <1>10, StartBarFacts
<1> HIDE DEF chosen
<1>12. Good(typed) BY <1>11, StartBarFacts
<1> HIDE DEF typed
<1>13. Good(keyed) BY <1>12, KeyFacts
<1> HIDE DEF keyed
<1>14. keyed \in States /\ keyed.list \in Lists BY <1>13, ListUpdates DEF Good
<1>15. /\ covered \in States /\ covered.list = [keyed.list EXCEPT !.isLoading = TRUE]
  <2>1. [keyed.list EXCEPT !.isLoading = TRUE] \in Lists BY <1>14 DEF Lists
  <2> QED BY <1>14, <2>1 DEF States
<1> HIDE DEF covered
<1>16. Good(covered) /\ covered.list.isLoading = TRUE
  BY <1>13, <1>14, <1>15 DEF Good, OneSelection, Precedes, Lists
<1>17. CASE IsStored(keyed)
  <2>1. /\ Good(AfterDataloaded(keyed, Stored(keyed), FALSE))
        /\ InStep(AfterDataloaded(keyed, Stored(keyed), FALSE).list)
    BY <1>14, <1>17, StoredFacts, AfterDataloadedFacts
  <2> QED BY <1>6, <1>17, <2>1, GetNotesFacts
<1>18. CASE ~ IsStored(keyed)
  <2>1. /\ Good(QueryDeviceInfos(covered, s.list.url.token, FALSE))
        /\ QueryDeviceInfos(covered, s.list.url.token, FALSE).list = covered.list
    BY <1>5, <1>16, QueryFacts
  <2> QED BY <1>6, <1>16, <1>18, <2>1 DEF InStep
<1> QED BY <1>17, <1>18

LEMMA FreshUrls == NoUrl \in Urls /\ OddUrl \in Urls /\ NoCriteria \in Criteria
<1>1. NoCriteria \in Criteria BY DEF NoCriteria, Criteria, LabNames
<1>2. DefaultPageSize \in Nat BY DeviceListAssumption
<1>3. NoUrl \in Urls BY <1>1, <1>2 DEF NoUrl, Urls, NoToken
<1> QED BY <1>1, <1>3 DEF OddUrl, Urls

LEMMA OpenedState ==
  ASSUME NEW l, NEW b, NEW r, NEW m, NEW q
  PROVE  [[list |-> l, browser |-> b, requests |-> r] EXCEPT !.list = m, !.requests = q] =
           [list |-> m, browser |-> b, requests |-> q]
<1>1. [[list |-> l, browser |-> b, requests |-> r] EXCEPT !.list = m] =
        [list |-> m, browser |-> b, requests |-> r]
  OBVIOUS
<1>2. [[list |-> m, browser |-> b, requests |-> r] EXCEPT !.requests = q] =
        [list |-> m, browser |-> b, requests |-> q]
  OBVIOUS
<1> QED BY <1>1, <1>2

\* A page that opens has no rows and no selection, and no calls.
LEMMA OpenFacts ==
  ASSUME NEW s, s.browser \in Browsers,
         s = [list |-> s.list, browser |-> s.browser, requests |-> s.requests],
         NEW url \in Urls
  PROVE  /\ Good(Open(s, url)) /\ InStep(Open(s, url).list)
         /\ Open(s, url).browser = s.browser /\ Open(s, url).requests = <<>>
<1> DEFINE fresh == FreshList(url)
           start == [s EXCEPT !.list = fresh, !.requests = <<>>]
           options == UNION {CreateFilterOptions(Attributes(c), c, TRUE) : c \in s.browser.hints}
           bar == [fresh.bar EXCEPT !.options = @ \cup options]
           rooted == [start EXCEPT !.list.bar = bar]
           bar2 == FilterSearchOptions(rooted.list.bar, Everything(rooted.list.bar), NoColumn)
<1>1. fresh.bar = InitFilterbarRoots /\ fresh.bar \in Bars BY FreshBar DEF FreshList
<1>2. fresh \in Lists /\ fresh.selected = {} /\ fresh.table = EmptyTable
      /\ fresh.rows = <<>> /\ fresh.prevPageToken = NoToken /\ fresh.nextPageToken = NoToken
      /\ ~ fresh.paginator.hasNext /\ ~ fresh.paginator.hasPrevious
  <2>1. Paginator(DefaultPageSize) \in Pagers
    BY DeviceListAssumption DEF Paginator, Pagers
  <2>2. EmptyTable \in Tables BY DEF EmptyTable, Tables
  <2>3. NoKey \in Keys /\ "" \in LabNames /\ NoToken \in Nat
    BY DEF Keys, LabNames, NoToken
  <2>4. <<>> \in Seq(Rows) /\ {} \in SUBSET Serials /\ Hints \in SUBSET Hints OBVIOUS
  <2>5. fresh \in Lists BY FreshBar, <2>1, <2>2, <2>3, <2>4 DEF FreshList, Lists
  <2> QED BY <2>5 DEF FreshList, Paginator
<1>3. Good(start) /\ start.list = fresh /\ start.browser = s.browser /\ start.requests = <<>>
  <2> HIDE DEF fresh
  <2>1. /\ start \in States /\ start.list = fresh /\ start.browser = s.browser
        /\ start.requests = <<>>
    <3>3. PICK l, b, r : s = [list |-> l, browser |-> b, requests |-> r] OBVIOUS
    <3>1. start = [list |-> fresh, browser |-> s.browser, requests |-> <<>>]
      <4>1. s.browser = b BY <3>3
      <4>2. start = [[list |-> l, browser |-> b, requests |-> r] EXCEPT
                       !.list = fresh, !.requests = <<>>]
        BY <3>3
      <4> HIDE DEF start
      <4> QED BY <4>1, <4>2, OpenedState
    <3>2. <<>> \in Seq(Calls) OBVIOUS
    <3> HIDE DEF start
    <3> QED BY <1>2, <3>1, <3>2 DEF States
  <2>2. OneSelection(fresh) BY <1>2 DEF OneSelection, EmptyTable
  <2>3. Precedes(fresh) BY <1>2 DEF Precedes
  <2> QED BY <2>1, <2>2, <2>3 DEF Good
<1>4. InStep(start.list) BY <1>2, <1>3 DEF InStep
<1>5. Open(s, url) = [rooted EXCEPT !.list.bar = bar2]
  <2>1. WithCachedHints(start) = [start EXCEPT !.list.bar.options = @ \cup options]
    BY <1>3 DEF WithCachedHints
  <2>2. WithCachedHints(start) = rooted BY <1>3, <2>1
  <2> QED BY <2>2 DEF Open
<1>6. bar \in Bars
  <2>1. ASSUME NEW c \in s.browser.hints
        PROVE  CreateFilterOptions(Attributes(c), c, TRUE) \subseteq AllOptions
    <3>1. c \in FilterColumns BY DEF Browsers, FilterColumns
    <3>2. c \in OptionTypes /\ Attributes(c) \in SUBSET Values
      BY <3>1 DEF OptionTypes, Values
    <3> QED BY <3>2, OptionFacts
  <2>2. options \in SUBSET AllOptions BY <2>1
  <2> HIDE DEF options, fresh
  <2> QED BY <1>1, <2>2, BarFields, BarUpdates
<1> HIDE DEF bar, start, fresh
<1>7. /\ Good(rooted) /\ InStep(rooted.list)
      /\ rooted.browser = start.browser /\ rooted.requests = start.requests
  BY <1>3, <1>4, <1>6, BarChange DEF Good, States
<1> HIDE DEF rooted
<1>8. rooted \in States /\ rooted.list.bar \in Bars BY <1>7, ListUpdates, ListFields DEF Good
<1>9. bar2 \in Bars BY <1>8, DisplayFacts
<1> HIDE DEF bar2
<1>10. /\ [rooted EXCEPT !.list.bar = bar2].browser = rooted.browser
       /\ [rooted EXCEPT !.list.bar = bar2].requests = rooted.requests
  BY <1>8 DEF States
<1> QED BY <1>3, <1>5, <1>7, <1>9, <1>10, BarChange

-----------------------------------------------------------------------------
(* The steps.                                                              *)

LEMMA Now ==
  ASSUME IInv
  PROVE  /\ State \in States /\ Good(State) /\ InStep(State.list)
         /\ State.list = list /\ State.browser = browser /\ State.requests = requests
         /\ list \in Lists /\ browser \in Browsers /\ requests \in Seq(Calls)
         /\ server \in Servers
<1>1. State \in States BY DEF IInv, Good
<1>2. State.list = list /\ State.browser = browser /\ State.requests = requests
  BY DEF State
<1>3. list \in Lists /\ browser \in Browsers /\ requests \in Seq(Calls)
  BY <1>1, <1>2, ListUpdates
<1> QED BY <1>1, <1>2, <1>3 DEF IInv

\* A step ends in the state that its handler made.
LEMMA BecomesFacts ==
  ASSUME IInv, NEW s, Good(s), InStep(s.list), Becomes(s), server' \in Servers
  PROVE  IInv'
<1>1. s = [list |-> s.list, browser |-> s.browser, requests |-> s.requests]
  BY DEF Good, States
<1>2. s = State' BY <1>1 DEF Becomes, State
<1>3. Good(State') BY <1>2
<1>4. InStep(list') BY DEF Becomes
<1>5. app' \in Apps BY DEF IInv, Becomes
<1> QED BY <1>3, <1>4, <1>5 DEF IInv, Good, InStep, OneSelection, Precedes

LEMMA HintStep ==
  ASSUME IInv, NEW hint \in Hints, HintArrives(hint)
  PROVE  IInv'
<1> DEFINE heard == [State EXCEPT !.list.hints = @ \ {hint}]
           bar == UpdateFilterOptions(heard.list.bar,
                    CreateFilterOptions(Attributes(hint), hint, TRUE), hint)
           named == [heard EXCEPT !.list.bar = bar]
           synced == [heard EXCEPT !.list.bar = bar, !.browser.hints = @ \cup {hint}]
           next == IF hint = "Lab" THEN heard ELSE synced
<1>1. State \in States /\ Good(State) /\ InStep(State.list) /\ server \in Servers
  BY Now
<1>2. State.list \in Lists BY <1>1, ListUpdates
<1>3. [State.list EXCEPT !.hints = @ \ {hint}] \in Lists BY <1>2 DEF Lists
<1>4. heard \in States /\ heard.list = [State.list EXCEPT !.hints = @ \ {hint}]
  BY <1>1, <1>3 DEF States
<1> HIDE DEF heard
<1>5. Good(heard) /\ InStep(heard.list)
  BY <1>1, <1>2, <1>4 DEF Good, OneSelection, Precedes, InStep, Lists
<1>6. ASSUME hint # "Lab" PROVE Good(synced) /\ InStep(synced.list)
  <2>1. hint \in Columns /\ hint \in FilterColumns /\ Attributes(hint) \in SUBSET Values
    BY <1>6 DEF Hints, FilterColumns, Values
  <2>2. heard.list.bar \in Bars BY <1>4, ListUpdates, ListFields
  <2>3. bar \in Bars BY <2>1, <2>2, UpdateFacts
  <2>4. heard.browser \in Browsers BY <1>4, ListUpdates
  <2> HIDE DEF bar
  <2>5. Good(named) /\ InStep(named.list) BY <1>5, <2>3, BarChange
  <2>6. named \in States /\ named.browser = heard.browser BY <1>4, <2>5 DEF Good, States
  <2>7. synced = [named EXCEPT !.browser.hints = @ \cup {hint}] OBVIOUS
  <2> HIDE DEF named
  <2>8. [named.browser EXCEPT !.hints = @ \cup {hint}] \in Browsers
    BY <2>1, <2>4, <2>6 DEF Browsers
  <2>9. synced \in States /\ synced.list = named.list BY <2>6, <2>7, <2>8 DEF States
  <2> QED BY <2>5, <2>9 DEF Good
<1>7. Good(next) /\ InStep(next.list) BY <1>5, <1>6
<1>8. Becomes(IF next.list.hints # {} THEN next ELSE UpdatePaginatorParamsAndLoad(next))
      /\ server' = server
  BY DEF HintArrives, heard
<1> HIDE DEF next
<1> QED BY <1>1, <1>7, <1>8, FirstLoadFacts, BecomesFacts

\* A click on a button of the paginator, and what loads the list again.
LEMMA PagerStep ==
  ASSUME IInv, NEW diff \in {0, 1, -1}, NEW force \in BOOLEAN, NEW pager \in Pagers,
         Becomes(Load([State EXCEPT !.list.paginator = pager], diff, force)),
         server' = server
  PROVE  IInv'
<1> DEFINE s == [State EXCEPT !.list.paginator = pager]
<1>1. State \in States /\ Good(State) /\ server \in Servers /\ State.list \in Lists
  BY Now, ListUpdates
<1>2. [State.list EXCEPT !.paginator = pager] \in Lists BY <1>1 DEF Lists
<1>3. s \in States /\ s.list = [State.list EXCEPT !.paginator = pager]
  BY <1>1, <1>2 DEF States
<1> HIDE DEF s
<1>4. Good(s) BY <1>1, <1>3 DEF Good, OneSelection, Precedes, Lists
<1>5. Good(Load(s, diff, force)) /\ InStep(Load(s, diff, force).list)
  BY <1>1, <1>4, LoadFacts
<1>6. Becomes(Load(s, diff, force)) BY DEF s
<1> QED BY <1>1, <1>5, <1>6, BecomesFacts

LEMMA ReloadStep ==
  ASSUME IInv, NEW force \in BOOLEAN, Becomes(Load(State, 0, force)), server' = server
  PROVE  IInv'
<1>1. Good(Load(State, 0, force)) /\ InStep(Load(State, 0, force).list) /\ server \in Servers
  BY Now, LoadFacts
<1> QED BY <1>1, BecomesFacts

LEMMA PageSizeStep ==
  ASSUME IInv, NEW size \in PageSizes, ClickPageSize(size)
  PROVE  IInv'
<1> DEFINE pager == ChangePageSize(list.paginator, size)
           l == [list EXCEPT !.paginator = pager, !.prevPageToken = NoToken,
                             !.nextPageToken = NoToken]
           s == [State EXCEPT !.list = l]
           t == [State EXCEPT !.list.paginator = ChangePageSize(@, size),
                              !.list.prevPageToken = NoToken,
                              !.list.nextPageToken = NoToken]
<1>1. /\ State \in States /\ Good(State) /\ State.list = list /\ list \in Lists
      /\ server \in Servers
  BY Now
<1>2. pager \in Pagers
  <2>1. list.paginator \in Pagers BY <1>1, ListFields
  <2>2. ResetPageIndex(list.paginator) \in Pagers BY <2>1 DEF ResetPageIndex, Pagers
  <2> QED BY <2>2 DEF ChangePageSize, Pagers
<1>3. t = s BY <1>1 DEF States, Lists
<1> HIDE DEF pager
<1>4. /\ l \in Lists /\ l.rows = list.rows /\ l.prevPageToken = 0
      /\ l.table = list.table /\ l.selected = list.selected
  BY <1>1, <1>2 DEF Lists, NoToken
<1> HIDE DEF l
<1>5. s \in States /\ s.list = l BY <1>1, <1>4 DEF States
<1>6. Precedes(l)
  <2>1. \A d \in Serials : 0 < d BY DEF Serials
  <2>2. \A r \in Rows : r.serial \in Serials BY DEF Rows
  <2>3. \A i \in DOMAIN l.rows : l.rows[i] \in Rows BY <1>4, ListFields
  <2> QED BY <1>4, <2>1, <2>2, <2>3 DEF Precedes
<1>7. Good(s) BY <1>1, <1>4, <1>5, <1>6 DEF Good, OneSelection
<1>8. Becomes(Load(t, 0, FALSE)) /\ server' = server BY DEF ClickPageSize
<1> HIDE DEF s, t
<1>9. Good(Load(t, 0, FALSE)) /\ InStep(Load(t, 0, FALSE).list)
  BY <1>1, <1>3, <1>7, LoadFacts
<1> QED BY <1>1, <1>8, <1>9, BecomesFacts

LEMMA LabStep ==
  ASSUME IInv, NEW lab \in Labs \cup {AllLabs}, SelectLabOption(lab)
  PROVE  IInv'
<1> DEFINE s == [State EXCEPT !.list.lab = lab]
<1>1. State \in States /\ Good(State) /\ server \in Servers /\ State.list \in Lists
  BY Now, ListUpdates
<1>2. [State.list EXCEPT !.lab = lab] \in Lists BY <1>1 DEF Lists, LabNames
<1>3. s \in States /\ s.list = [State.list EXCEPT !.lab = lab]
  BY <1>1, <1>2 DEF States
<1>4. Becomes(Load(s, 0, FALSE)) /\ server' = server BY DEF SelectLabOption
<1> HIDE DEF s
<1>5. Good(s) BY <1>1, <1>3 DEF Good, OneSelection, Precedes, Lists
<1> QED BY <1>1, <1>4, <1>5, LoadFacts, BecomesFacts

-----------------------------------------------------------------------------
(* The steps in the filter bar.                                            *)

LEMMA BarStep ==
  ASSUME IInv, NEW bar \in Bars, InBar(bar)
  PROVE  IInv'
<1>1. Good(State) /\ InStep(State.list) /\ server \in Servers BY Now
<1>2. Good([State EXCEPT !.list.bar = bar]) /\ InStep([State EXCEPT !.list.bar = bar].list)
  BY <1>1, BarChange
<1>3. Becomes([State EXCEPT !.list.bar = bar]) /\ server' = server BY DEF InBar
<1> QED BY <1>1, <1>2, <1>3, BecomesFacts

LEMMA InBarSteps ==
  ASSUME IInv,
         \/ \E option \in list.bar.options : ToggleSelection(option)
         \/ ToggleSelectAll
         \/ BackToRoot
         \/ \E c \in InputColumns : \E value \in Attributes(c) : AddInputOption(value)
         \/ \E value \in Everything(list.bar) : TypeText({value})
  PROVE  IInv'
<1>1. list.bar \in Bars BY Now, ListFields
<1>2. CASE \E option \in list.bar.options : ToggleSelection(option)
  <2>1. PICK option \in list.bar.options : ToggleSelection(option) BY <1>2
  <2>2. option.value \in Values BY <1>1, BarFields
  <2>3. /\ DisplayLeafFilterOptions(list.bar, option.value) \in Bars
        /\ ToggleFilterOption(list.bar, option.type, option.value) \in Bars
    BY <1>1, <2>2, DisplayFacts, ToggleFacts
  <2> QED BY <2>1, <2>3, BarStep DEF ToggleSelection
<1>3. CASE ToggleSelectAll
  <2>1. ToggleAll(list.bar) \in Bars BY <1>1, ToggleFacts
  <2> QED BY <1>3, <2>1, BarStep DEF ToggleSelectAll
<1>4. CASE BackToRoot
  <2>1. [list.bar EXCEPT !.selectedColumn = NoColumn] \in Bars BY <1>1, BarUpdates
  <2>2. DisplayRootFilterOptions([list.bar EXCEPT !.selectedColumn = NoColumn]) \in Bars
    BY <2>1, DisplayFacts
  <2> QED BY <1>4, <2>2, BarStep DEF BackToRoot
<1>5. CASE \E c \in InputColumns : \E value \in Attributes(c) : AddInputOption(value)
  <2>0. PICK c \in InputColumns : \E value \in Attributes(c) : AddInputOption(value) BY <1>5
  <2>1. PICK value \in Attributes(c) : AddInputOption(value) BY <2>0
  <2>2. c \in FilterColumns /\ list.bar.selectedColumn \in FilterColumns
    BY <2>0, <2>1 DEF AddInputOption, FilterColumns
  <2>3. value \in Values BY <2>1, <2>2 DEF Values
  <2>4. AddNewFilterOption(list.bar, value, list.bar.selectedColumn) \in Bars
    <3>1. {} \in SUBSET Values OBVIOUS
    <3> QED BY <1>1, <2>2, <2>3, <3>1, ParseFacts
  <2> QED BY <2>1, <2>4, BarStep DEF AddInputOption
<1>6. CASE \E value \in Everything(list.bar) : TypeText({value})
  <2>1. PICK value \in Everything(list.bar) : TypeText({value}) BY <1>6
  <2>2. FilterSearchOptions(list.bar, {value}, list.bar.selectedColumn) \in Bars
    BY <1>1, DisplayFacts
  <2> QED BY <2>1, <2>2, BarStep DEF TypeText
<1> QED BY <1>2, <1>3, <1>4, <1>5, <1>6

LEMMA CloseOnFacts ==
  ASSUME NEW s, Good(s), InStep(s.list), server \in Servers
  PROVE  Good(CloseOn(s)) /\ InStep(CloseOn(s).list)
<1> DEFINE closed == [s EXCEPT !.list.bar = ResetSearchSteps(@)]
<1>1. s.list.bar \in Bars BY ListUpdates, ListFields DEF Good
<1>2. ResetSearchSteps(s.list.bar) \in Bars BY <1>1, DisplayFacts
<1>3. Good(closed) /\ InStep(closed.list) BY <1>2, BarChange
<1>4. CloseOn(s) = IF closed.list.bar.filterChanged THEN Load(closed, 0, FALSE) ELSE closed
  BY DEF CloseOn
<1> HIDE DEF closed
<1>5. Good(Load(closed, 0, FALSE)) /\ InStep(Load(closed, 0, FALSE).list)
  BY <1>3, LoadFacts
<1> QED BY <1>3, <1>4, <1>5

LEMMA CloseSteps ==
  ASSUME IInv, RenderSelectedOptionsAndResetFilterbar \/ ResetFilters
  PROVE  IInv'
<1>1. Good(State) /\ InStep(State.list) /\ server \in Servers /\ State.list = list
      /\ list.bar \in Bars
  BY Now, ListFields
<1>2. CASE RenderSelectedOptionsAndResetFilterbar
  <2>1. Becomes(CloseOn(State)) /\ server' = server
    BY <1>2 DEF RenderSelectedOptionsAndResetFilterbar
  <2> QED BY <1>1, <2>1, CloseOnFacts, BecomesFacts
<1>3. CASE ResetFilters
  <2> DEFINE bar == [ResetFilterOptions(list.bar) EXCEPT !.filterChanged = TRUE]
             s == [State EXCEPT !.list.bar = bar]
  <2>1. bar \in Bars BY <1>1, ClearFacts, BarUpdates
  <2>2. Becomes(CloseOn(s)) /\ server' = server BY <1>1, <1>3 DEF ResetFilters
  <2> HIDE DEF bar
  <2>3. Good(s) /\ InStep(s.list) BY <1>1, <2>1, BarChange
  <2> HIDE DEF s
  <2> QED BY <1>1, <2>2, <2>3, CloseOnFacts, BecomesFacts
<1> QED BY <1>2, <1>3

LEMMA SubmitStep ==
  ASSUME IInv, NEW column \in FilterColumns, NEW values \in SUBSET Attributes(column),
         SubmitText(column, values)
  PROVE  IInv'
<1> DEFINE bar == ParseColumn(list.bar, column, values)
           s == [State EXCEPT !.list.bar = bar]
<1>1. Good(State) /\ InStep(State.list) /\ server \in Servers /\ State.list = list
      /\ list.bar \in Bars
  BY Now, ListFields
<1>2. values \in SUBSET Values BY DEF Values
<1>3. bar \in Bars BY <1>1, <1>2, ParseFacts
<1>4. Becomes(Load(s, 0, FALSE)) /\ server' = server BY <1>1 DEF SubmitText
<1> HIDE DEF bar
<1>5. Good(s) BY <1>1, <1>3, BarChange
<1> HIDE DEF s
<1> QED BY <1>1, <1>4, <1>5, LoadFacts, BecomesFacts

-----------------------------------------------------------------------------
(* The steps on the rows.                                                  *)

\* What is selected is what the table hands out.
LEMMA SelectionChange ==
  ASSUME NEW s, Good(s), NEW table, GoodTable(table)
  PROVE  LET t == [s EXCEPT !.list.table = table, !.list.selected = table.view]
         IN  /\ Good(t)
             /\ InStep(s.list) => InStep(t.list)
<1> DEFINE l == [s.list EXCEPT !.table = table, !.selected = table.view]
           t == [s EXCEPT !.list.table = table, !.list.selected = table.view]
<1>1. s \in States /\ s.list \in Lists BY ListUpdates DEF Good
<1>2. table \in Tables /\ table.view \in SUBSET Serials BY DEF GoodTable, Tables
<1>3. l \in Lists BY <1>1, <1>2 DEF Lists
<1>4. t \in States /\ t.list = l
  <2>1. t = [s EXCEPT !.list = l] BY <1>1 DEF States
  <2> HIDE DEF l, t
  <2> QED BY <1>1, <1>3, <2>1 DEF States
<1> HIDE DEF t
<1>5. Good(t) BY <1>1, <1>4 DEF Good, OneSelection, Precedes, Lists, GoodTable
<1>6. InStep(s.list) => InStep(t.list) BY <1>1, <1>4 DEF InStep, Lists
<1> QED BY <1>5, <1>6 DEF t

LEMMA SelectingStep ==
  ASSUME IInv, NEW table, GoodTable(table), Selecting(table)
  PROVE  IInv'
<1> DEFINE t == [State EXCEPT !.list.table = table, !.list.selected = table.view]
<1>1. Good(State) /\ InStep(State.list) /\ server \in Servers BY Now
<1>2. Good(t) /\ InStep(t.list) BY <1>1, SelectionChange
<1>3. Becomes(t) /\ server' = server BY DEF Selecting
<1> HIDE DEF t
<1> QED BY <1>1, <1>2, <1>3, BecomesFacts

LEMMA ClickFacts ==
  ASSUME NEW table \in Tables, NEW index \in DOMAIN table.rows, NEW shift \in BOOLEAN
  PROVE  GoodTable(ClickRow(table, index, shift))
<1>1. /\ table.rows \in Seq(Serials) /\ table.selection \in SUBSET Serials
      /\ table.prevClicked \in Int
  BY DEF Tables
<1>2. GoodTable(SingleSelect(table, table.rows[index]))
  <2>1. table.rows[index] \in Serials BY <1>1
  <2> QED BY <1>1, <2>1, TableFacts DEF SingleSelect
<1>3. GoodTable(RangeSelect(table, index))
  <2> DEFINE low == IF index < table.prevClicked THEN index ELSE table.prevClicked
             high == IF index < table.prevClicked THEN table.prevClicked ELSE index
             range == {table.rows[i] : i \in (low .. high) \cap DOMAIN table.rows}
  <2>1. range \in SUBSET Serials BY <1>1
  <2>2. RangeSelect(table, index) =
          Selects(table, IF table.rows[index] \in table.selection
                         THEN table.selection \ range ELSE table.selection \cup range)
    BY DEF RangeSelect
  <2> HIDE DEF range
  <2> QED BY <1>1, <2>1, <2>2, TableFacts
<1>4. ASSUME NEW t, GoodTable(t) PROVE GoodTable([t EXCEPT !.prevClicked = index])
  <2>1. index \in Int BY <1>1
  <2>2. [t EXCEPT !.prevClicked = index] \in Tables BY <1>4, <2>1 DEF GoodTable, Tables
  <2> QED BY <1>4, <2>2 DEF GoodTable, Tables
<1> QED BY <1>2, <1>3, <1>4 DEF ClickRow

LEMMA SelectSteps ==
  ASSUME IInv,
         \/ \E i \in 1 .. N, shift \in BOOLEAN : SelectRow(i, shift)
         \/ SelectAllRows
  PROVE  IInv'
<1>1. list.table \in Tables BY Now, ListFields
<1>2. CASE \E i \in 1 .. N, shift \in BOOLEAN : SelectRow(i, shift)
  <2>1. PICK i \in 1 .. N, shift \in BOOLEAN : SelectRow(i, shift) BY <1>2
  <2>2. i \in DOMAIN list.table.rows /\ Selecting(ClickRow(list.table, i, shift))
    BY <2>1 DEF SelectRow
  <2> QED BY <1>1, <2>2, ClickFacts, SelectingStep
<1>3. CASE SelectAllRows
  <2>1. RowIds(list.table) \in SUBSET Serials
    BY <1>1 DEF RowIds, Range, Tables
  <2>2. GoodTable(ToggleAllSelection(list.table))
    BY <1>1, <2>1, TableFacts DEF ToggleAllSelection
  <2> QED BY <1>3, <2>2, SelectingStep DEF SelectAllRows
<1> QED BY <1>2, <1>3

LEMMA InitialSelectionStep ==
  ASSUME IInv, NEW ids \in {{}, Serials}, InitialSelectionChanges(ids)
  PROVE  IInv'
<1> DEFINE table == SelectSelection(ClearSelection(list.table), ids)
           given == [State EXCEPT !.list.table = table, !.list.selected = table.view]
<1>1. Good(State) /\ InStep(State.list) /\ server \in Servers /\ list.table \in Tables
  BY Now, ListFields
<1>2. GoodTable(table)
  <2>1. ClearSelection(list.table) \in Tables BY <1>1, TableFacts DEF GoodTable
  <2>2. ids \in SUBSET Serials OBVIOUS
  <2> QED BY <2>1, <2>2, TableFacts
<1>3. Becomes(IF app.validation THEN ValidateSelection(given) ELSE given)
      /\ server' = server
  BY DEF InitialSelectionChanges
<1> HIDE DEF table
<1>4. Good(given) /\ InStep(given.list) BY <1>1, <1>2, SelectionChange
<1> HIDE DEF given
<1>5. Good(ValidateSelection(given)) /\ InStep(ValidateSelection(given).list)
  <2>1. given.list.selected \in SUBSET Serials BY <1>4, ListUpdates, ListFields DEF Good
  <2>2. Request("validate", given.list.selected, server) \in Calls
    BY <1>1, <2>1, ValidateCall
  <2> QED BY <1>4, <2>2, SendFacts DEF ValidateSelection
<1> QED BY <1>1, <1>3, <1>4, <1>5, BecomesFacts

LEMMA CommandSteps ==
  ASSUME IInv,
         \/ \E d \in Serials : RemoveDevice(d)
         \/ \E i \in 1 .. N : ToggleDeviceFixedState(i)
  PROVE  IInv'
<1>1. Good(State) /\ InStep(State.list) /\ server \in Servers /\ list.rows \in Seq(Rows)
  BY Now, ListFields
<1>2. CASE \E d \in Serials : RemoveDevice(d)
  <2>1. PICK d \in Serials : RemoveDevice(d) BY <1>2
  <2>2. Becomes(Send(State, "remove", d)) /\ server' = server BY <2>1 DEF RemoveDevice
  <2>3. Request("remove", d, server) \in Calls BY <1>1, RemoveCall
  <2>4. Good(Send(State, "remove", d)) /\ InStep(Send(State, "remove", d).list)
    BY <1>1, <2>3, SendFacts
  <2> QED BY <1>1, <2>2, <2>4, BecomesFacts
<1>3. CASE \E i \in 1 .. N : ToggleDeviceFixedState(i)
  <2>1. PICK i \in 1 .. N : ToggleDeviceFixedState(i) BY <1>3
  <2> DEFINE mark == [serial |-> list.rows[i].serial,
                      to |-> ~ list.rows[i].fixed, attached |-> TRUE]
  <2>2. i \in DOMAIN list.rows /\ Becomes(Send(State, "fixed", mark)) /\ server' = server
    BY <2>1 DEF ToggleDeviceFixedState
  <2>3. list.rows[i] \in Rows BY <1>1, <2>2
  <2>4. (~ list.rows[i].fixed) \in BOOLEAN /\ list.rows[i].serial \in Serials
    BY <2>3 DEF Rows
  <2>5. mark \in Marks BY <2>4 DEF Marks
  <2> HIDE DEF mark
  <2>6. Request("fixed", mark, server) \in Calls BY <1>1, <2>5, MarkCall
  <2>7. Good(Send(State, "fixed", mark)) /\ InStep(Send(State, "fixed", mark).list)
    BY <1>1, <2>6, SendFacts
  <2> QED BY <1>1, <2>2, <2>7, BecomesFacts
<1> QED BY <1>2, <1>3

\* The notes of the selected devices are asked for, and nothing is selected.
LEMMA LoadNotesStep ==
  ASSUME IInv, LoadDeviceNotes
  PROVE  IInv'
<1> DEFINE asked == BatchGetDevicesLatestNotes(State, Ascending(list.selected), server')
           s == [asked EXCEPT !.list.selected = {}, !.list.table.view = {}]
           table == [asked.list.table EXCEPT !.view = {}]
           t == [asked EXCEPT !.list.table = table, !.list.selected = table.view]
<1>1. Good(State) /\ InStep(State.list) /\ server \in Servers /\ State.list = list
      /\ list.selected \in SUBSET Serials
  BY Now, ListFields
<1>2. server' \in Servers
  <2>1. server' = [server EXCEPT !.note = [d \in Serials |->
                     IF d \in list.selected THEN @[d] + 1 ELSE @[d]]]
    BY DEF LoadDeviceNotes
  <2>2. [d \in Serials |-> IF d \in list.selected THEN server.note[d] + 1
                           ELSE server.note[d]] \in [Serials -> Nat]
    BY <1>1 DEF Servers
  <2> QED BY <1>1, <2>1, <2>2 DEF Servers
<1>3. Ascending(list.selected) \in Seq(Serials)
  <2>1. N \in Nat /\ Serials \subseteq Nat /\ IsFiniteSet(Serials)
    BY DeviceListAssumption, FS_Interval DEF Serials
  <2>2. list.selected \in SUBSET Nat /\ IsFiniteSet(list.selected)
    BY <1>1, <2>1, FS_Subset
  <2>3. Ascending(list.selected) \in Seq(list.selected) BY <2>2, AscendingIsIncreasing
  <2> QED BY <1>1, <2>3, Widened
<1>4. Good(asked) /\ asked.list = State.list BY <1>1, <1>2, <1>3, BatchFacts
<1>5. Becomes(s) BY DEF LoadDeviceNotes
<1> HIDE DEF asked
<1>6. asked \in States /\ asked.list \in Lists /\ asked.list.table \in Tables
  BY <1>4, ListUpdates, ListFields DEF Good
<1>7. GoodTable(table) /\ table.view = {} BY <1>6 DEF GoodTable, Tables
<1>8. s = t
  <2>1. asked.list.table = [rows |-> asked.list.table.rows,
                            selection |-> asked.list.table.selection,
                            view |-> asked.list.table.view,
                            prevClicked |-> asked.list.table.prevClicked]
    BY <1>6 DEF Tables
  <2>2. s = [asked EXCEPT !.list = [[asked.list EXCEPT !.selected = {}]
                                      EXCEPT !.table = table]]
    BY <1>6 DEF States, Lists
  <2>3. [[asked.list EXCEPT !.selected = {}] EXCEPT !.table = table] =
          [[asked.list EXCEPT !.table = table] EXCEPT !.selected = {}]
    BY <1>6 DEF Lists
  <2>4. t = [asked EXCEPT !.list = [[asked.list EXCEPT !.table = table]
                                      EXCEPT !.selected = {}]]
    <3> HIDE DEF table
    <3> QED BY <1>6, <1>7 DEF States, Lists
  <2> QED BY <2>2, <2>3, <2>4
<1> HIDE DEF s, table
<1>9. Good(t) /\ InStep(t.list) BY <1>1, <1>4, <1>7, SelectionChange
<1> QED BY <1>2, <1>5, <1>8, <1>9, BecomesFacts

-----------------------------------------------------------------------------
(* The answers.                                                            *)

LEMMA CallFacts ==
  ASSUME NEW r \in Calls
  PROVE  /\ r.kind = "page" => r.arg \in PageArgs /\ r.answer \in Pages
         /\ r.kind = "notes" => r.arg \in Seq(Serials) /\ r.answer \in Notes
         /\ r.kind = "validate" => r.arg \in SUBSET Serials /\ r.answer \in SUBSET Serials
         /\ r.kind = "remove" => r.arg \in Serials
         /\ r.kind = "fixed" => r.arg \in Marks
         /\ [r EXCEPT !.done = TRUE] \in Calls
<1>1. CASE r \in [kind : {"page"}, arg : PageArgs, answer : Pages, done : BOOLEAN]
  <2>1. [r EXCEPT !.done = TRUE] \in
          [kind : {"page"}, arg : PageArgs, answer : Pages, done : BOOLEAN]
    BY <1>1
  <2> QED BY <1>1, <2>1 DEF Calls, PageArgs
<1>2. CASE r \in [kind : {"notes"}, arg : Seq(Serials), answer : Notes, done : BOOLEAN]
  <2>1. [r EXCEPT !.done = TRUE] \in
          [kind : {"notes"}, arg : Seq(Serials), answer : Notes, done : BOOLEAN]
    BY <1>2
  <2> QED BY <1>2, <2>1 DEF Calls
<1>3. CASE r \in [kind : {"validate"}, arg : SUBSET Serials,
                  answer : SUBSET Serials, done : BOOLEAN]
  <2>1. [r EXCEPT !.done = TRUE] \in
          [kind : {"validate"}, arg : SUBSET Serials, answer : SUBSET Serials, done : BOOLEAN]
    BY <1>3
  <2> QED BY <1>3, <2>1 DEF Calls
<1>4. CASE r \in [kind : {"remove"}, arg : Serials, answer : {{}}, done : BOOLEAN]
  <2>1. [r EXCEPT !.done = TRUE] \in
          [kind : {"remove"}, arg : Serials, answer : {{}}, done : BOOLEAN]
    BY <1>4
  <2> QED BY <1>4, <2>1 DEF Calls
<1>5. CASE r \in [kind : {"fixed"}, arg : Marks, answer : {{}}, done : BOOLEAN]
  <2>1. [r EXCEPT !.done = TRUE] \in
          [kind : {"fixed"}, arg : Marks, answer : {{}}, done : BOOLEAN]
    BY <1>5
  <2> QED BY <1>5, <2>1 DEF Calls
<1> QED BY <1>1, <1>2, <1>3, <1>4, <1>5 DEF Calls, PageArgs

LEMMA PerformStep ==
  ASSUME IInv, NEW i \in DOMAIN requests, Perform(i)
  PROVE  IInv'
<1>1. Good(State) /\ InStep(State.list) /\ server \in Servers /\ State \in States
      /\ State.list = list /\ requests \in Seq(Calls) /\ State.requests = requests
      /\ State.browser = browser
  BY Now
<1>2. requests[i] \in Calls BY <1>1
<1>3. /\ requests[i].kind = "remove" => requests[i].arg \in Serials
      /\ requests[i].kind = "fixed" => requests[i].arg \in Marks
      /\ [requests[i] EXCEPT !.done = TRUE] \in Calls
  BY <1>2, CallFacts
<1>4. server' \in Servers
  <2>1. server' = Effect(requests[i].kind, requests[i].arg)
        /\ requests[i].kind \in {"remove", "fixed"}
    BY DEF Perform
  <2>2. CASE requests[i].kind = "remove" BY <1>1, <2>1, <2>2 DEF Effect, Servers
  <2>3. CASE requests[i].kind = "fixed"
    <3>1. requests[i].arg.serial \in Serials /\ requests[i].arg.to \in BOOLEAN
      BY <1>3, <2>3 DEF Marks
    <3> QED BY <1>1, <2>1, <2>3, <3>1 DEF Effect, Servers
  <2> QED BY <2>1, <2>2, <2>3
<1>5. requests' = [requests EXCEPT ![i] = [requests[i] EXCEPT !.done = TRUE]]
      /\ list' = list /\ browser' = browser /\ app' = app
  BY DEF Perform
<1>6. requests' \in Seq(Calls) BY <1>1, <1>3, <1>5
<1> DEFINE s == [State EXCEPT !.requests = requests']
<1>7. s \in States /\ s.list = list /\ s.requests = requests' /\ s.browser = browser
  BY <1>1, <1>6 DEF States
<1> HIDE DEF s
<1>8. Good(s) /\ InStep(s.list) BY <1>1, <1>7 DEF Good
<1>9. Becomes(s) BY <1>5, <1>7 DEF Becomes
<1> QED BY <1>4, <1>8, <1>9, BecomesFacts

\* A call that is heard of is not under way any more; the rest stays as it is.
LEMMA HeardFacts ==
  ASSUME IInv, NEW i, NEW kind, Deliver(i, kind)
  PROVE  /\ Good(Heard(i)) /\ Heard(i).list = list /\ InStep(Heard(i).list)
         /\ requests[i] \in Calls /\ requests[i].kind = kind
         /\ server' = server /\ server \in Servers
<1>1. Good(State) /\ InStep(State.list) /\ server \in Servers /\ State \in States
      /\ State.list = list /\ requests \in Seq(Calls) /\ State.requests = requests
  BY Now
<1>2. i \in DOMAIN requests /\ requests[i].kind = kind /\ server' = server
  BY DEF Deliver
<1>3. RemoveAt(requests, i) \in Seq(Calls) BY <1>1, <1>2, RemoveFacts
<1>4. Heard(i) = [State EXCEPT !.requests = RemoveAt(requests, i)]
  BY <1>1 DEF Heard
<1>5. Heard(i) \in States /\ Heard(i).list = State.list BY <1>1, <1>3, <1>4 DEF States
<1>6. Good(Heard(i)) BY <1>1, <1>5 DEF Good
<1> QED BY <1>1, <1>2, <1>5, <1>6

LEMMA PageStep ==
  ASSUME IInv, NEW i \in DOMAIN requests, PageArrives(i)
  PROVE  IInv'
<1>1. Deliver(i, "page") BY DEF PageArrives
<1>2. /\ Heard(i) \in States /\ requests[i] \in Calls /\ requests[i].kind = "page"
      /\ server' = server /\ server \in Servers
  BY <1>1, HeardFacts DEF Good
<1>3. requests[i].arg \in PageArgs /\ requests[i].answer \in Pages BY <1>2, CallFacts
<1>4. AnswerOf("page", requests[i].arg, server) \in Pages BY <1>2, <1>3, PageAnswer
<1>5. PICK page \in Answers(i) :
        Becomes(GetDeviceNotes(AfterDataloaded(Heard(i), page, FALSE)))
  BY DEF PageArrives
<1>6. page \in Pages BY <1>2, <1>3, <1>4 DEF Answers
<1>7. /\ Good(AfterDataloaded(Heard(i), page, FALSE))
      /\ InStep(AfterDataloaded(Heard(i), page, FALSE).list)
  BY <1>2, <1>6, AfterDataloadedFacts
<1>8. /\ Good(GetDeviceNotes(AfterDataloaded(Heard(i), page, FALSE)))
      /\ InStep(GetDeviceNotes(AfterDataloaded(Heard(i), page, FALSE)).list)
  BY <1>2, <1>7, GetNotesFacts
<1> QED BY <1>2, <1>5, <1>8, BecomesFacts

LEMMA NotesStep ==
  ASSUME IInv, NEW i \in DOMAIN requests, NotesArrive(i)
  PROVE  IInv'
<1>1. Deliver(i, "notes") BY DEF NotesArrive
<1>2. /\ Good(Heard(i)) /\ InStep(Heard(i).list)
      /\ requests[i] \in Calls /\ requests[i].kind = "notes"
      /\ server' = server /\ server \in Servers
  BY <1>1, HeardFacts
<1>3. requests[i].arg \in Seq(Serials) /\ requests[i].answer \in Notes
  BY <1>2, CallFacts
<1>4. AnswerOf("notes", requests[i].arg, server) \in Notes BY <1>2, <1>3, NotesAnswer
<1>5. PICK notes \in Answers(i) : Becomes(SetDeviceNotes(Heard(i), notes))
  BY DEF NotesArrive
<1>6. notes \in Notes BY <1>2, <1>3, <1>4 DEF Answers
<1>7. Good(SetDeviceNotes(Heard(i), notes)) /\ InStep(SetDeviceNotes(Heard(i), notes).list)
  BY <1>2, <1>6, SetNotesFacts
<1> QED BY <1>2, <1>5, <1>7, BecomesFacts

\* Rows of which each was there before, changed but for its device, still follow
\* the token that goes back.
LEMMA RowsChange ==
  ASSUME NEW s, Good(s), NEW rows \in Seq(Rows),
         \A j \in DOMAIN rows : \E k \in DOMAIN s.list.rows :
           rows[j].serial = s.list.rows[k].serial
  PROVE  /\ Good([s EXCEPT !.list.rows = rows])
         /\ InStep(s.list) => InStep([s EXCEPT !.list.rows = rows].list)
<1> DEFINE l == [s.list EXCEPT !.rows = rows]
           t == [s EXCEPT !.list = l]
<1>1. s \in States /\ s.list \in Lists BY ListUpdates DEF Good
<1>2. l \in Lists BY <1>1 DEF Lists
<1>3. t \in States /\ t.list = l
  <2> HIDE DEF l
  <2> QED BY <1>1, <1>2 DEF States
<1>4. [s EXCEPT !.list.rows = rows] = t OBVIOUS
<1> HIDE DEF t
<1>5. l.rows = rows /\ l.prevPageToken = s.list.prevPageToken BY <1>1 DEF Lists
<1>6. Precedes(l) BY <1>5 DEF Good, Precedes
<1>7. OneSelection(l) BY <1>1 DEF Good, OneSelection, Lists
<1>8. InStep(s.list) => InStep(l) BY <1>1 DEF InStep, Lists
<1> QED BY <1>3, <1>4, <1>6, <1>7, <1>8 DEF Good

LEMMA RemovedStep ==
  ASSUME IInv, NEW i \in DOMAIN requests, DeviceRemoved(i)
  PROVE  IInv'
<1> DEFINE places == {j \in DOMAIN list.rows : list.rows[j].serial = requests[i].arg}
           rows == WithoutRow(list.rows, places)
           s == [Heard(i) EXCEPT !.list.rows = rows]
<1>1. Deliver(i, "remove") BY DEF DeviceRemoved
<1>2. /\ Good(Heard(i)) /\ Heard(i).list = list
      /\ server' = server /\ server \in Servers
  BY <1>1, HeardFacts
<1>3. Becomes(Load(s, 0, TRUE)) BY <1>2 DEF DeviceRemoved
<1>4. list.rows \in Seq(Rows) BY Now, ListFields
<1>5. /\ rows \in Seq(Rows)
      /\ \A j \in DOMAIN rows : \E k \in DOMAIN list.rows : rows[j] = list.rows[k]
  <2>1. places # {} => (CHOOSE j \in places : TRUE) \in DOMAIN list.rows OBVIOUS
  <2> DEFINE k == CHOOSE j \in places : TRUE
  <2>2. rows = IF places = {} THEN list.rows ELSE RemoveAt(list.rows, k)
    BY DEF WithoutRow
  <2>3. CASE places = {} BY <1>4, <2>2, <2>3
  <2>4. CASE places # {}
    <3>1. k \in DOMAIN list.rows BY <2>1, <2>4
    <3> HIDE DEF places, k, rows
    <3> QED BY <1>4, <2>2, <2>4, <3>1, RemoveFacts
  <2> QED BY <2>3, <2>4
<1> HIDE DEF rows
<1>6. Good(s) BY <1>2, <1>5, RowsChange
<1> HIDE DEF s
<1> QED BY <1>2, <1>3, <1>6, LoadFacts, BecomesFacts

LEMMA MarkedStep ==
  ASSUME IInv, NEW i \in DOMAIN requests, DeviceMarked(i)
  PROVE  IInv'
<1> DEFINE mark == requests[i].arg
           New(row) == IF row.serial = mark.serial THEN [row EXCEPT !.fixed = mark.to] ELSE row
           rows == [j \in DOMAIN list.rows |-> New(list.rows[j])]
           s == [Heard(i) EXCEPT !.list.rows = rows]
<1>1. Deliver(i, "fixed") BY DEF DeviceMarked
<1>2. /\ Good(Heard(i)) /\ Heard(i).list = list /\ InStep(Heard(i).list)
      /\ requests[i] \in Calls /\ requests[i].kind = "fixed"
      /\ server' = server /\ server \in Servers
  BY <1>1, HeardFacts
<1>3. mark \in Marks BY <1>2, CallFacts
<1>4. Becomes(IF ~ mark.attached THEN Heard(i) ELSE s) BY <1>2 DEF DeviceMarked
<1>5. list.rows \in Seq(Rows) BY Now, ListFields
<1>6. ASSUME NEW row \in Rows PROVE New(row) \in Rows /\ New(row).serial = row.serial
  BY <1>3 DEF Rows, Marks
<1> HIDE DEF New
<1>7. /\ rows \in Seq(Rows)
      /\ \A j \in DOMAIN rows : \E k \in DOMAIN list.rows :
           rows[j].serial = list.rows[k].serial
  BY <1>5, <1>6
<1> HIDE DEF rows
<1>8. Good(s) /\ InStep(s.list) BY <1>2, <1>7, RowsChange
<1> HIDE DEF s, mark
<1> QED BY <1>2, <1>4, <1>8, BecomesFacts

\* What was not found is dropped from the selection and from what the table
\* hands out, even if the table goes on counting it.
LEMMA ValidatedStep ==
  ASSUME IInv, NEW i \in DOMAIN requests, SelectionValidated(i)
  PROVE  IInv'
<1>1. Deliver(i, "validate") BY DEF SelectionValidated
<1>2. /\ Good(Heard(i)) /\ Heard(i).list = list /\ InStep(Heard(i).list)
      /\ server' = server /\ server \in Servers
  BY <1>1, HeardFacts
<1>3. PICK found \in Answers(i) :
        LET unknown == requests[i].arg \ found
            kept == list.selected \ unknown
            last == CHOOSE d \in requests[i].arg : \A e \in requests[i].arg : e <= d
            told == SelectSelection(ClearSelection(list.table), kept)
        IN Becomes([Heard(i) EXCEPT
             !.list.selected = kept,
             !.list.table = IF last \in unknown \cap list.selected THEN told
                            ELSE [@ EXCEPT !.view = kept]])
  BY DEF SelectionValidated
<1> DEFINE unknown == requests[i].arg \ found
           kept == list.selected \ unknown
           last == CHOOSE d \in requests[i].arg : \A e \in requests[i].arg : e <= d
           told == SelectSelection(ClearSelection(list.table), kept)
           table == IF last \in unknown \cap list.selected THEN told
                    ELSE [list.table EXCEPT !.view = kept]
           s == [Heard(i) EXCEPT !.list.selected = kept, !.list.table = table]
           t == [Heard(i) EXCEPT !.list.table = table, !.list.selected = table.view]
<1>4. /\ list \in Lists /\ list.table \in Tables /\ list.selected \in SUBSET Serials
      /\ list.selected = list.table.view /\ list.table.view \subseteq list.table.selection
  BY Now, ListFields DEF Good, OneSelection
<1>5. kept \in SUBSET Serials /\ kept \subseteq list.table.selection BY <1>4
<1>6. GoodTable(told) /\ told.view = kept
  <2> HIDE DEF kept
  <2>1. ClearSelection(list.table) \in Tables BY <1>4, TableFacts DEF GoodTable
  <2> QED BY <1>4, <1>5, <2>1, TableFacts
<1>7. GoodTable([list.table EXCEPT !.view = kept])
      /\ [list.table EXCEPT !.view = kept].view = kept
  <2> HIDE DEF kept
  <2> QED BY <1>4, <1>5 DEF GoodTable, Tables
<1>8. GoodTable(table) /\ table.view = kept
  <2> HIDE DEF kept, told, last, unknown
  <2> QED BY <1>6, <1>7
<1>9. Heard(i) \in States BY <1>2 DEF Good
<1>10. Becomes(s)
  <2>1. [Heard(i) EXCEPT
             !.list.selected = kept,
             !.list.table = IF last \in unknown \cap list.selected THEN told
                            ELSE [@ EXCEPT !.view = kept]] = s
    <3> HIDE DEF kept, told, last, unknown
    <3> QED BY <1>2, <1>4, <1>9 DEF States, Lists
  <2> QED BY <1>3, <2>1
<1>11. s = t
  <2> HIDE DEF kept, table
  <2> QED BY <1>2, <1>4, <1>8, <1>9 DEF States, Lists
<1> HIDE DEF s, table
<1>12. Good(t) /\ InStep(t.list) BY <1>2, <1>8, SelectionChange
<1> QED BY <1>2, <1>10, <1>11, <1>12, BecomesFacts

-----------------------------------------------------------------------------
(* The theorems.                                                           *)

LEMMA InitIInv == Init => IInv
<1> SUFFICES ASSUME Init PROVE IInv OBVIOUS
<1> DEFINE b == [session |-> <<>>, criteria |-> NoCriteria, lab |-> "", hints |-> {},
                 url |-> NoUrl]
           s == [list |-> FreshList(NoUrl), browser |-> b, requests |-> <<>>]
<1>1. browser = b /\ requests = <<>> /\ app \in Apps /\ list = Open(s, NoUrl).list
  BY DEF Init
<1>2. b \in Browsers
  <2>1. <<>> \in Sessions
    <3>1. <<>> \in [{} -> Pages] OBVIOUS
    <3> QED BY <3>1 DEF Sessions
  <2>2. "" \in LabNames BY DEF LabNames
  <2> QED BY <2>1, <2>2, FreshUrls DEF Browsers
<1>3. server \in Servers BY DEF Init, Servers
<1> HIDE DEF b
<1>4. s.browser = b /\ s = [list |-> s.list, browser |-> s.browser, requests |-> s.requests]
  OBVIOUS
<1> HIDE DEF s
<1>5. /\ Good(Open(s, NoUrl)) /\ InStep(Open(s, NoUrl).list)
      /\ Open(s, NoUrl).browser = b /\ Open(s, NoUrl).requests = <<>>
  BY <1>2, <1>4, FreshUrls, OpenFacts
<1>6. Open(s, NoUrl) = State
  <2>1. Open(s, NoUrl) \in States BY <1>5 DEF Good
  <2>2. Open(s, NoUrl) = [list |-> Open(s, NoUrl).list, browser |-> Open(s, NoUrl).browser,
                          requests |-> Open(s, NoUrl).requests]
    BY <2>1 DEF States
  <2> QED BY <1>1, <1>5, <2>2 DEF State
<1> QED BY <1>1, <1>3, <1>5, <1>6 DEF IInv

\* Nothing that is not in the lists changes the invariant.
LEMMA StutterStep ==
  ASSUME IInv, UNCHANGED <<list, browser, requests, app>>, server' \in Servers
  PROVE  IInv'
  BY DEF IInv, Good, InStep, OneSelection, Precedes, State

LEMMA ReopenStep ==
  ASSUME IInv, NEW url \in {NoUrl, OddUrl, browser.url}, Reopen(url)
  PROVE  IInv'
<1>1. browser \in Browsers /\ State.browser = browser /\ server \in Servers
  BY Now
<1>2. url \in Urls BY <1>1, FreshUrls DEF Browsers
<1>3. State = [list |-> State.list, browser |-> State.browser, requests |-> State.requests]
  BY DEF State
<1>4. Good(Open(State, url)) /\ InStep(Open(State, url).list)
  BY <1>1, <1>2, <1>3, OpenFacts
<1>5. Becomes(Open(State, url)) /\ server' = server BY DEF Reopen
<1> QED BY <1>1, <1>4, <1>5, BecomesFacts

LEMMA PagerSteps ==
  ASSUME IInv, ClickNext \/ ClickPrevious \/ ClickRefresh \/ TimerFires
  PROVE  IInv'
<1>1. list.paginator \in Pagers /\ State.list = list BY Now, ListFields
<1>2. CASE ClickNext
  <2>1. NextPage(list.paginator) \in Pagers BY <1>1 DEF NextPage, Pagers
  <2>2. Becomes(Load([State EXCEPT !.list.paginator = NextPage(list.paginator)], 1, FALSE))
        /\ server' = server
    BY <1>1, <1>2 DEF ClickNext
  <2> QED BY <2>1, <2>2, PagerStep
<1>3. CASE ClickPrevious
  <2>1. PreviousPage(list.paginator) \in Pagers BY <1>1 DEF PreviousPage, Pagers
  <2>2. Becomes(Load([State EXCEPT !.list.paginator = PreviousPage(list.paginator)], -1, FALSE))
        /\ server' = server
    BY <1>1, <1>3 DEF ClickPrevious
  <2> QED BY <2>1, <2>2, PagerStep
<1>4. CASE ClickRefresh BY <1>4, ReloadStep DEF ClickRefresh
<1>5. CASE TimerFires BY <1>5, ReloadStep DEF TimerFires
<1> QED BY <1>2, <1>3, <1>4, <1>5

LEMMA NextIInv == IInv /\ [Next]_vars => IInv'
<1> SUFFICES ASSUME IInv, [Next]_vars PROVE IInv' OBVIOUS
<1>0. server \in Servers BY Now
<1>1. CASE UNCHANGED vars BY <1>0, <1>1, StutterStep DEF vars
<1>2. CASE \E hint \in Hints : HintArrives(hint) BY <1>2, HintStep
<1>3. CASE ClickNext \/ ClickPrevious \/ ClickRefresh \/ TimerFires BY <1>3, PagerSteps
<1>4. CASE \E size \in PageSizes : ClickPageSize(size) BY <1>4, PageSizeStep
<1>5. CASE \E lab \in Labs \cup {AllLabs} : SelectLabOption(lab) BY <1>5, LabStep
<1>6. CASE \/ \E option \in list.bar.options : ToggleSelection(option)
           \/ ToggleSelectAll
           \/ BackToRoot
           \/ \E c \in InputColumns : \E value \in Attributes(c) : AddInputOption(value)
           \/ \E value \in Everything(list.bar) : TypeText({value})
  BY <1>6, InBarSteps
<1>7. CASE RenderSelectedOptionsAndResetFilterbar \/ ResetFilters BY <1>7, CloseSteps
<1>8. CASE \E c \in FilterColumns : SubmitText(c, {})
  <2>1. PICK c \in FilterColumns : SubmitText(c, {}) BY <1>8
  <2>2. {} \in SUBSET Attributes(c) OBVIOUS
  <2> QED BY <2>1, <2>2, SubmitStep
<1>9. CASE \E c \in FilterColumns : \E v \in Attributes(c) : SubmitText(c, {v})
  <2>1. PICK c \in FilterColumns : \E v \in Attributes(c) : SubmitText(c, {v}) BY <1>9
  <2>2. PICK v \in Attributes(c) : SubmitText(c, {v}) BY <2>1
  <2>3. {v} \in SUBSET Attributes(c) OBVIOUS
  <2> QED BY <2>2, <2>3, SubmitStep
<1>10. CASE \/ \E i \in 1 .. N, shift \in BOOLEAN : SelectRow(i, shift)
            \/ SelectAllRows
  BY <1>10, SelectSteps
<1>11. CASE \E ids \in {{}, Serials} : InitialSelectionChanges(ids)
  BY <1>11, InitialSelectionStep
<1>12. CASE \/ \E d \in Serials : RemoveDevice(d)
            \/ \E i \in 1 .. N : ToggleDeviceFixedState(i)
  BY <1>12, CommandSteps
<1>13. CASE LoadDeviceNotes BY <1>13, LoadNotesStep
<1>14. CASE \E i \in DOMAIN requests : Perform(i) BY <1>14, PerformStep
<1>15. CASE \E i \in DOMAIN requests : PageArrives(i) BY <1>15, PageStep
<1>16. CASE \E i \in DOMAIN requests : NotesArrive(i) BY <1>16, NotesStep
<1>17. CASE \E i \in DOMAIN requests : DeviceRemoved(i) BY <1>17, RemovedStep
<1>18. CASE \E i \in DOMAIN requests : DeviceMarked(i) BY <1>18, MarkedStep
<1>19. CASE \E i \in DOMAIN requests : SelectionValidated(i) BY <1>19, ValidatedStep
<1>20. CASE OthersRemove(N)
  <2>1. server' \in Servers /\ UNCHANGED <<list, browser, requests, app>>
    BY <1>0, <1>20 DEF OthersRemove, Servers
  <2> QED BY <2>1, StutterStep
<1>21. CASE \E url \in {NoUrl, OddUrl, browser.url} : Reopen(url) BY <1>21, ReopenStep
<1> QED
  BY <1>1, <1>2, <1>3, <1>4, <1>5, <1>6, <1>7, <1>8, <1>9, <1>10, <1>11, <1>12, <1>13,
     <1>14, <1>15, <1>16, <1>17, <1>18, <1>19, <1>20, <1>21 DEF Next

LEMMA Invariance == Spec => []IInv
<1>1. Init => IInv BY InitIInv
<1>2. IInv /\ [Next]_vars => IInv' BY NextIInv
<1> QED BY <1>1, <1>2, PTL DEF Spec

\* Whatever the address says and in whatever order the answers come, the rows
\* and the selection are devices, the options are columns and their values, and
\* the size of a page is one that is offered.
THEOREM TypesHold == Spec => []TypeOK
<1>1. IInv => TypeOK
  <2> SUFFICES ASSUME IInv PROVE TypeOK OBVIOUS
  <2>1. list \in Lists /\ server \in Servers BY Now
  <2>2. Range(SerialsOf(list.rows)) \subseteq Serials
    BY <2>1, ListFields, SerialsFacts DEF Range
  <2>3. list.table.selection \subseteq Serials BY <2>1, ListFields DEF Tables
  <2>4. list.paginator.pageIndex \in Int /\ list.paginator.pageSize \in PageSizes
    BY <2>1, ListFields DEF Pagers
  <2>5. list.bar.options \subseteq
          Options(FilterColumns \cup {Root},
                  FilterColumns \cup UNION {Attributes(c) : c \in FilterColumns})
    BY <2>1, ListFields, BarFields DEF AllOptions, OptionTypes, Values
  <2> QED BY <2>1, <2>2, <2>3, <2>4, <2>5, ListFields DEF TypeOK, Servers
<1> QED BY <1>1, Invariance, PTL

\* The selection handed to the page around the list is the one its table counts
\* and ticks, on whatever page it was made and whatever was dropped from it.
THEOREM SelectionIsShown == Spec => []TableShowsSelection
<1>1. IInv => TableShowsSelection
  BY Now DEF IInv, Good, OneSelection, TableShowsSelection
<1> QED BY <1>1, Invariance, PTL

\* When the mask is gone, the buttons of the paginator are those of the tokens
\* that the next query uses.
THEOREM PagerIsInStep == Spec => []PagerAgrees
<1>1. IInv => PagerAgrees BY DEF IInv, InStep, PagerAgrees
<1> QED BY <1>1, Invariance, PTL

\* The token that goes back precedes every row of the list and of each cached
\* page: no device is skipped on the way back.
THEOREM NothingIsSkipped == Spec => []GoingBackSkipsNothing
<1>1. IInv => GoingBackSkipsNothing
  <2> SUFFICES ASSUME IInv PROVE GoingBackSkipsNothing OBVIOUS
  <2>1. browser \in Browsers /\ State.list = list /\ Good(State) BY Now
  <2>2. BackTokenPrecedes(Page(State))
    BY <2>1 DEF BackTokenPrecedes, Page, Good, Precedes
  <2>3. browser.session \in Sessions BY <2>1 DEF Browsers
  <2>4. PICK K \in SUBSET Keys : browser.session \in [K -> Pages]
    BY <2>3 DEF Sessions
  <2>5. \A key \in DOMAIN browser.session : BackTokenPrecedes(browser.session[key])
    BY <2>4 DEF Pages
  <2> QED BY <2>2, <2>5 DEF GoingBackSkipsNothing
<1> QED BY <1>1, Invariance, PTL
=============================================================================
