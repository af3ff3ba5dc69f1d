---------------------------- MODULE UiPage_proofs ----------------------------
(***************************************************************************)
(* What a proof about a page uses of its calls: they are a sequence, which *)
(* a step makes longer by one, shorter by one, or changes at one place.    *)
(***************************************************************************)
EXTENDS UiPage, FiniteSetTheorems, TLAPS

IsSeq(s) == \E S : s \in Seq(S)

\* The calls that are under way stay where they are, the new one is the last.
LEMMA AppendCall ==
  ASSUME NEW s, IsSeq(s), NEW r
  PROVE  /\ IsSeq(Append(s, r))
         /\ DOMAIN Append(s, r) = DOMAIN s \cup {Len(s) + 1}
         /\ \A i \in DOMAIN s : Append(s, r)[i] = s[i]
         /\ Append(s, r)[Len(s) + 1] = r
<1>1. PICK S : s \in Seq(S) BY DEF IsSeq
<1>2. s \in Seq(S \cup {r}) BY <1>1
<1>3. Append(s, r) \in Seq(S \cup {r}) BY <1>2
<1> QED BY <1>1, <1>2, <1>3 DEF IsSeq

\* The calls after the one that is removed move up.
LEMMA RemovedPlaces ==
  ASSUME NEW s, IsSeq(s), NEW k \in DOMAIN s
  PROVE  /\ IsSeq(RemoveAt(s, k)) /\ DOMAIN s = 1 .. Len(s) /\ Len(s) \in Nat
         /\ DOMAIN RemoveAt(s, k) = 1 .. Len(s) - 1
         /\ \A i \in 1 .. Len(s) - 1 :
              RemoveAt(s, k)[i] = IF i < k THEN s[i] ELSE s[i + 1]
<1>1. PICK S : s \in Seq(S) BY DEF IsSeq
<1>2. k \in 1 .. Len(s) /\ Len(s) \in Nat BY <1>1
<1> DEFINE before == SubSeq(s, 1, k - 1)
           after == SubSeq(s, k + 1, Len(s))
<1>3. /\ before \in Seq(S) /\ Len(before) = k - 1
      /\ \A i \in 1 .. k - 1 : before[i] = s[i]
  BY <1>1, <1>2
<1>4. /\ after \in Seq(S) /\ Len(after) = Len(s) - k
      /\ \A i \in 1 .. Len(s) - k : after[i] = s[k + i]
  BY <1>1, <1>2
<1>5. RemoveAt(s, k) = before \o after BY DEF RemoveAt
<1> HIDE DEF before, after
<1>6. /\ before \o after \in Seq(S) /\ Len(before \o after) = Len(s) - 1
      /\ \A i \in 1 .. Len(s) - 1 :
           (before \o after)[i] = IF i < k THEN before[i] ELSE after[i - (k - 1)]
  BY <1>2, <1>3, <1>4
<1>7. ASSUME NEW i \in 1 .. Len(s) - 1
      PROVE  (before \o after)[i] = IF i < k THEN s[i] ELSE s[i + 1]
  <2>1. CASE i < k BY <2>1, <1>2, <1>3, <1>6
  <2>2. CASE ~ (i < k)
    <3>1. i - (k - 1) \in 1 .. Len(s) - k /\ k + (i - (k - 1)) = i + 1 BY <2>2, <1>2
    <3> QED BY <2>2, <3>1, <1>4, <1>6
  <2> QED BY <2>1, <2>2
<1>8. DOMAIN (before \o after) = 1 .. Len(s) - 1 /\ DOMAIN s = 1 .. Len(s)
  BY <1>1, <1>2, <1>6
<1> QED BY <1>2, <1>5, <1>6, <1>7, <1>8 DEF IsSeq

\* Every call that is left was there before, and all others are left.
LEMMA RemoveCall ==
  ASSUME NEW s, IsSeq(s), NEW k \in DOMAIN s
  PROVE  /\ IsSeq(RemoveAt(s, k))
         /\ \A i \in DOMAIN RemoveAt(s, k) : \E j \in DOMAIN s : RemoveAt(s, k)[i] = s[j]
         /\ \A j \in DOMAIN s \ {k} : \E i \in DOMAIN RemoveAt(s, k) : RemoveAt(s, k)[i] = s[j]
<1> DEFINE left == RemoveAt(s, k)
<1>1. /\ IsSeq(left) /\ DOMAIN s = 1 .. Len(s) /\ Len(s) \in Nat
      /\ DOMAIN left = 1 .. Len(s) - 1
      /\ \A i \in 1 .. Len(s) - 1 : left[i] = IF i < k THEN s[i] ELSE s[i + 1]
  BY RemovedPlaces
<1> HIDE DEF left
<1>2. ASSUME NEW i \in DOMAIN left PROVE \E j \in DOMAIN s : left[i] = s[j]
  <2>1. i \in 1 .. Len(s) - 1 /\ i \in DOMAIN s /\ i + 1 \in DOMAIN s BY <1>1
  <2>2. left[i] = s[i] \/ left[i] = s[i + 1] BY <1>1, <2>1
  <2> QED BY <2>1, <2>2
<1>3. ASSUME NEW j \in DOMAIN s \ {k} PROVE \E i \in DOMAIN left : left[i] = s[j]
  <2>1. j \in 1 .. Len(s) /\ k \in 1 .. Len(s) BY <1>1
  <2>2. CASE j < k
    <3>1. j \in 1 .. Len(s) - 1 BY <1>1, <2>1, <2>2
    <3> QED BY <1>1, <2>2, <3>1
  <2>3. CASE ~ (j < k)
    <3>1. j - 1 \in 1 .. Len(s) - 1 /\ ~ (j - 1 < k) /\ (j - 1) + 1 = j
      BY <1>1, <2>1, <2>3
    <3> QED BY <1>1, <3>1
  <2> QED BY <2>2, <2>3
<1> QED BY <1>1, <1>2, <1>3 DEF left

\* A call that is served or fails stays where it is, as do the others.
LEMMA ChangeCall ==
  ASSUME NEW s, IsSeq(s), NEW k \in DOMAIN s, NEW r
  PROVE  IsSeq([s EXCEPT ![k] = r])
<1>1. PICK S : s \in Seq(S) BY DEF IsSeq
<1>2. [s EXCEPT ![k] = r] \in Seq(S \cup {r}) BY <1>1
<1> QED BY <1>2 DEF IsSeq

-----------------------------------------------------------------------------
(* Lists of numbers, and lists with elements left out.                     *)

\* How many numbers of S are less than x.
Rank(S, x) == Cardinality({y \in S : y < x})

LEMMA RankGrows ==
  ASSUME NEW S \in SUBSET Nat, IsFiniteSet(S), NEW x \in S, NEW z \in Nat, x < z
  PROVE  Rank(S, x) < Rank(S, z)
<1> DEFINE A == {y \in S : y < x}
           B == {y \in S : y < z}
<1>1. IsFiniteSet(A) /\ IsFiniteSet(B)
  <2>1. A \in SUBSET S /\ B \in SUBSET S OBVIOUS
  <2> HIDE DEF A, B
  <2> QED BY <2>1, FS_Subset
<1>2. A \cup {x} \subseteq B /\ x \notin A
  <2>1. \A y \in S : y < x => y < z OBVIOUS
  <2>2. x \notin A BY SMT
  <2>3. A \subseteq B BY <2>1
  <2>4. x \in B OBVIOUS
  <2> QED BY <2>2, <2>3, <2>4
<1>3. IsFiniteSet(A \cup {x}) /\ Cardinality(A \cup {x}) = Cardinality(A) + 1
  BY <1>1, <1>2, FS_AddElement
<1>4. Cardinality(A \cup {x}) <= Cardinality(B)
  <2> HIDE DEF A, B
  <2>1. A \cup {x} \in SUBSET B BY <1>2
  <2> QED BY <1>1, <2>1, FS_Subset
<1>5. Cardinality(A) \in Nat /\ Cardinality(B) \in Nat BY <1>1, FS_CardinalityType
<1> QED BY <1>3, <1>4, <1>5 DEF Rank

LEMMA RankBound ==
  ASSUME NEW S \in SUBSET Nat, IsFiniteSet(S), NEW x \in S
  PROVE  Rank(S, x) \in 0 .. Cardinality(S) - 1
<1> DEFINE A == {y \in S : y < x}
<1>1. IsFiniteSet(A) /\ A \cup {x} \subseteq S /\ x \notin A BY FS_Subset
<1>2. IsFiniteSet(A \cup {x}) /\ Cardinality(A \cup {x}) = Cardinality(A) + 1
  BY <1>1, FS_AddElement
<1>3. Cardinality(A \cup {x}) <= Cardinality(S) BY <1>1, FS_Subset
<1>4. Cardinality(A) \in Nat /\ Cardinality(S) \in Nat BY <1>1, FS_CardinalityType
<1> QED BY <1>2, <1>3, <1>4 DEF Rank

\* The numbers of a finite set in order: each place has one of them, and a later
\* place a greater one (there are as many places as numbers, and no two numbers
\* have the same rank, so that every place is the rank of one).
LEMMA AscendingFacts ==
  ASSUME NEW S \in SUBSET Nat, IsFiniteSet(S)
  PROVE  /\ Cardinality(S) \in Nat
         /\ Ascending(S) \in [1 .. Cardinality(S) -> S]
         /\ \A k \in 1 .. Cardinality(S) : Rank(S, Ascending(S)[k]) = k - 1
         /\ \A i, j \in 1 .. Cardinality(S) :
              i < j => Ascending(S)[i] < Ascending(S)[j]
<1> DEFINE n == Cardinality(S)
           place == [x \in S |-> Rank(S, x) + 1]
<1>1. n \in Nat BY FS_CardinalityType
<1>2. place \in [S -> 1 .. n]
  <2>1. ASSUME NEW x \in S PROVE Rank(S, x) + 1 \in 1 .. n
    BY <1>1, RankBound
  <2> QED BY <2>1
<1>3. \A x, z \in S : x # z => place[x] # place[z]
  <2>1. SUFFICES ASSUME NEW x \in S, NEW z \in S, x < z PROVE place[x] # place[z]
    OBVIOUS
  <2>2. Rank(S, x) < Rank(S, z) BY <2>1, RankGrows
  <2>3. Rank(S, x) \in Int /\ Rank(S, z) \in Int BY <1>1, RankBound
  <2> QED BY <2>2, <2>3
<1>4. place \in Injection(S, 1 .. n) BY <1>2, <1>3 DEF Injection, IsInjective
<1>5. IsFiniteSet(1 .. n) /\ Cardinality(1 .. n) = n BY <1>1, FS_Interval
<1>6. place \in Surjection(S, 1 .. n) BY <1>4, <1>5, FS_Injection
<1> DEFINE e(k) == CHOOSE x \in S : Rank(S, x) = k - 1
<1>10. Ascending(S) = [k \in 1 .. n |-> e(k)] BY DEF Ascending, Rank
<1>11. ASSUME NEW k \in 1 .. n
       PROVE  e(k) \in S /\ Rank(S, e(k)) = k - 1
  <2>1. PICK x \in S : place[x] = k BY <1>6 DEF Surjection
  <2>2. Rank(S, x) = k - 1 BY <1>1, <2>1, RankBound
  <2> HIDE DEF n
  <2> QED BY <2>2
<1> HIDE DEF e
<1>7. \A k \in 1 .. n : Ascending(S)[k] \in S /\ Rank(S, Ascending(S)[k]) = k - 1
  <2> HIDE DEF n
  <2> QED BY <1>10, <1>11
<1>8. Ascending(S) \in [1 .. n -> S]
  <2> HIDE DEF n
  <2> QED BY <1>10, <1>11
<1>9. ASSUME NEW i \in 1 .. n, NEW j \in 1 .. n, i < j,
             ~ (Ascending(S)[i] < Ascending(S)[j])
      PROVE  FALSE
  <2>1. Ascending(S)[i] \in S /\ Ascending(S)[j] \in S BY <1>7
  <2>2. Rank(S, Ascending(S)[i]) = i - 1 /\ Rank(S, Ascending(S)[j]) = j - 1
    BY <1>7
  <2>3. i \in Int /\ j \in Int BY <1>1
  <2>4. CASE Ascending(S)[j] = Ascending(S)[i] BY <1>9, <2>2, <2>3, <2>4
  <2>5. CASE Ascending(S)[j] < Ascending(S)[i]
    <3>1. Rank(S, Ascending(S)[j]) < Rank(S, Ascending(S)[i])
      BY <2>1, <2>5, RankGrows
    <3> QED BY <1>9, <2>2, <2>3, <3>1
  <2>6. Ascending(S)[i] \in Nat /\ Ascending(S)[j] \in Nat BY <2>1
  <2> QED BY <1>9, <2>4, <2>5, <2>6
<1> QED BY <1>1, <1>7, <1>8, <1>9

\* Each number of the set is in the list.
LEMMA AscendingRange ==
  ASSUME NEW S \in SUBSET Nat, IsFiniteSet(S)
  PROVE  /\ IsSeq(Ascending(S)) /\ DOMAIN Ascending(S) = 1 .. Cardinality(S)
         /\ Range(Ascending(S)) = S
<1>1. /\ Cardinality(S) \in Nat
      /\ Ascending(S) \in [1 .. Cardinality(S) -> S]
      /\ \A k \in 1 .. Cardinality(S) : Rank(S, Ascending(S)[k]) = k - 1
  BY AscendingFacts
<1>2. ASSUME NEW x \in S PROVE \E k \in 1 .. Cardinality(S) : Ascending(S)[k] = x
  <2> DEFINE k == Rank(S, x) + 1
             y == Ascending(S)[k]
  <2>1. k \in 1 .. Cardinality(S) /\ Rank(S, x) = k - 1 BY <1>1, RankBound
  <2> HIDE DEF k
  <2>2. y \in S /\ Rank(S, y) = Rank(S, x) BY <1>1, <2>1
  <2> HIDE DEF y
  <2>3. x \in Nat /\ y \in Nat BY <2>2
  <2>4. Rank(S, x) \in Int BY <1>1, RankBound
  <2>5. ~ (x < y) BY <2>2, <2>3, <2>4, RankGrows
  <2>6. ~ (y < x) BY <2>2, <2>3, <2>4, RankGrows
  <2>7. x = y BY <2>3, <2>5, <2>6
  <2> QED BY <2>1, <2>7 DEF y
<1>3. Ascending(S) \in Seq(S) BY <1>1
<1> QED BY <1>1, <1>2, <1>3 DEF IsSeq, Range

\* filter keeps what is at the places, and nothing else.
LEMMA KeptFacts ==
  ASSUME NEW s, IsSeq(s), NEW places \in SUBSET DOMAIN s
  PROVE  /\ IsSeq(Kept(s, places))
         /\ \A k \in DOMAIN Kept(s, places) : \E i \in places : Kept(s, places)[k] = s[i]
         /\ \A i \in places : \E k \in DOMAIN Kept(s, places) : Kept(s, places)[k] = s[i]
<1>1. PICK S : s \in Seq(S) BY DEF IsSeq
<1>2. places \in SUBSET Nat /\ IsFiniteSet(places)
  <2>1. DOMAIN s = 1 .. Len(s) /\ Len(s) \in Nat BY <1>1
  <2>2. IsFiniteSet(1 .. Len(s)) BY <2>1, FS_Interval
  <2> QED BY <2>1, <2>2, FS_Subset
<1> DEFINE order == Ascending(places)
           n == Cardinality(places)
<1>3. order \in [1 .. n -> places] /\ n \in Nat BY <1>2, AscendingFacts
<1>4. Range(order) = places BY <1>2, AscendingRange
<1>5. Kept(s, places) = [k \in 1 .. n |-> s[order[k]]] BY <1>3 DEF Kept
<1> HIDE DEF order, n
<1>6. Kept(s, places) \in Seq(S) BY <1>1, <1>3, <1>5
<1>7. \A k \in 1 .. n : order[k] \in places BY <1>3
<1>8. \A i \in places : \E k \in 1 .. n : order[k] = i BY <1>3, <1>4 DEF Range
<1>9. IsSeq(Kept(s, places)) BY <1>6 DEF IsSeq
<1> QED BY <1>5, <1>7, <1>8, <1>9

\* A list of S that has nothing twice.
Distinct(s, S) == s \in Seq(S) /\ \A i, j \in DOMAIN s : s[i] = s[j] => i = j

LEMMA AscendingDistinct ==
  ASSUME NEW T \in SUBSET Nat, NEW S \in SUBSET T, IsFiniteSet(S)
  PROVE  Distinct(Ascending(S), T) /\ Range(Ascending(S)) = S
<1> DEFINE a == Ascending(S)
           n == Cardinality(S)
<1>1. /\ n \in Nat /\ a \in [1 .. n -> S]
      /\ \A i, j \in 1 .. n : i < j => a[i] < a[j]
  BY AscendingFacts
<1>2. Range(a) = S BY AscendingRange
<1> HIDE DEF a, n
<1>3. a \in Seq(T) /\ DOMAIN a = 1 .. n
  <2>1. a \in [1 .. n -> T] BY <1>1
  <2> QED BY <1>1, <2>1
<1>4. ASSUME NEW i \in 1 .. n, NEW j \in 1 .. n, a[i] = a[j] PROVE i = j
  <2>1. a[i] \in Nat /\ a[j] \in Nat BY <1>1
  <2> QED BY <1>1, <1>4, <2>1
<1> QED BY <1>2, <1>3, <1>4 DEF Distinct, a

\* A list that is turned round has the same in it.
LEMMA ReversedRange ==
  ASSUME NEW s, IsSeq(s)
  PROVE  IsSeq(Reversed(s)) /\ Range(Reversed(s)) = Range(s)
<1> DEFINE n == Len(s)
           r == Reversed(s)
<1>1. PICK S : s \in Seq(S) BY DEF IsSeq
<1>2. n \in Nat /\ DOMAIN s = 1 .. n BY <1>1
<1>3. \A k \in 1 .. n : n + 1 - k \in 1 .. n /\ n + 1 - (n + 1 - k) = k BY <1>2
<1>4. r = [k \in 1 .. n |-> s[n + 1 - k]] BY <1>2 DEF Reversed
<1> HIDE DEF n, r
<1>5. r \in [1 .. n -> S] BY <1>1, <1>2, <1>3, <1>4
<1>6. r \in Seq(S) /\ DOMAIN r = 1 .. n BY <1>2, <1>5
<1>7. \A k \in 1 .. n : r[k] \in Range(s) BY <1>2, <1>3, <1>4 DEF Range
<1>8. \A k \in 1 .. n : s[k] \in Range(r)
  <2> TAKE k \in 1 .. n
  <2>1. r[n + 1 - k] = s[k] BY <1>3, <1>4
  <2> QED BY <1>3, <1>6, <2>1 DEF Range
<1>9. Range(r) = Range(s) BY <1>2, <1>6, <1>7, <1>8 DEF Range
<1> QED BY <1>6, <1>9 DEF IsSeq, r

LEMMA ReversedDistinct ==
  ASSUME NEW T, NEW s, Distinct(s, T)
  PROVE  Distinct(Reversed(s), T) /\ Range(Reversed(s)) = Range(s)
<1> DEFINE n == Len(s)
           r == Reversed(s)
<1>1. /\ s \in Seq(T) /\ n \in Nat /\ DOMAIN s = 1 .. n
      /\ \A i, j \in 1 .. n : s[i] = s[j] => i = j
  BY DEF Distinct
<1>2. Range(r) = Range(s) BY <1>1, ReversedRange DEF IsSeq
<1>3. \A k \in 1 .. n : n + 1 - k \in 1 .. n /\ n + 1 - (n + 1 - k) = k BY <1>1
<1>4. r = [k \in 1 .. n |-> s[n + 1 - k]] BY <1>1 DEF Reversed
<1> HIDE DEF n, r
<1>5. r \in [1 .. n -> T] BY <1>1, <1>3, <1>4
<1>6. r \in Seq(T) /\ DOMAIN r = 1 .. n BY <1>1, <1>5
<1>7. ASSUME NEW i \in 1 .. n, NEW j \in 1 .. n, r[i] = r[j] PROVE i = j
  <2>1. n + 1 - i = n + 1 - j BY <1>1, <1>3, <1>4, <1>7
  <2> QED BY <1>1, <2>1
<1> QED BY <1>2, <1>6, <1>7 DEF Distinct, r

\* What is left of a list has nothing twice either.
LEMMA KeptDistinct ==
  ASSUME NEW T, NEW s, Distinct(s, T), NEW places \in SUBSET DOMAIN s
  PROVE  /\ Distinct(Kept(s, places), T)
         /\ Range(Kept(s, places)) = {s[i] : i \in places}
<1>1. s \in Seq(T) /\ DOMAIN s = 1 .. Len(s) /\ Len(s) \in Nat BY DEF Distinct
<1>2. places \in SUBSET Nat /\ IsFiniteSet(places)
  <2>1. IsFiniteSet(1 .. Len(s)) BY <1>1, FS_Interval
  <2> QED BY <1>1, <2>1, FS_Subset
<1>3. Distinct(Ascending(places), Nat) /\ Range(Ascending(places)) = places
  BY <1>2, AscendingDistinct
<1> DEFINE order == Ascending(places)
           kept == Kept(s, places)
<1>4. kept = [k \in DOMAIN order |-> s[order[k]]] BY DEF Kept
<1> HIDE DEF order, kept
<1>5. order \in Seq(Nat) /\ \A i, j \in DOMAIN order : order[i] = order[j] => i = j
  BY <1>3 DEF Distinct, order
<1>6. \A k \in DOMAIN order : order[k] \in places BY <1>3 DEF order, Range
<1>7. \A i \in places : \E k \in DOMAIN order : order[k] = i BY <1>3 DEF order, Range
<1>8. DOMAIN order = 1 .. Len(order) /\ Len(order) \in Nat BY <1>5
<1>9. kept \in [1 .. Len(order) -> T] BY <1>1, <1>4, <1>6, <1>8
<1>10. kept \in Seq(T) /\ DOMAIN kept = DOMAIN order BY <1>8, <1>9
<1>11. \A i, j \in DOMAIN order : kept[i] = kept[j] => i = j
  BY <1>1, <1>4, <1>5, <1>6 DEF Distinct
<1>12. Range(kept) = {s[i] : i \in places}
  <2>1. \A k \in DOMAIN kept : \E i \in places : kept[k] = s[i] BY <1>4, <1>6, <1>10
  <2>2. \A i \in places : \E k \in DOMAIN kept : kept[k] = s[i] BY <1>4, <1>7, <1>10
  <2> QED BY <2>1, <2>2 DEF Range
<1> QED BY <1>10, <1>11, <1>12 DEF Distinct, kept

-----------------------------------------------------------------------------
(* The state of a handler while it makes calls.                            *)

IsCall(r) ==
  r = [kind |-> r.kind, arg |-> r.arg, status |-> r.status, answer |-> r.answer]

AreCalls(q) == IsSeq(q) /\ \A i \in DOMAIN q : IsCall(q[i])

\* The calls of q that are left, and new ones that the service has not handled.
Follows(q, r) ==
  /\ AreCalls(r)
  /\ \A i \in DOMAIN r : r[i].status = "sent" \/ \E j \in DOMAIN q : r[i] = q[j]

IsState(s) == s = [page |-> s.page, browser |-> s.browser, requests |-> s.requests]

\* A call that is made leaves the component as it is.
LEMMA SendFacts ==
  ASSUME NEW q, NEW s, IsState(s), Follows(q, s.requests), NEW kind, NEW arg
  PROVE  /\ IsState(Send(s, kind, arg))
         /\ Send(s, kind, arg).page = s.page
         /\ Send(s, kind, arg).browser = s.browser
         /\ Follows(q, Send(s, kind, arg).requests)
<1> DEFINE r == Request(kind, arg)
<1>1. Send(s, kind, arg) = [page |-> s.page, browser |-> s.browser,
                            requests |-> Append(s.requests, r)]
  BY DEF Send, IsState
<1>2. IsCall(r) /\ r.status = "sent" BY DEF Request, IsCall
<1> HIDE DEF r
<1>3. /\ IsSeq(Append(s.requests, r))
      /\ DOMAIN Append(s.requests, r) = DOMAIN s.requests \cup {Len(s.requests) + 1}
      /\ \A i \in DOMAIN s.requests : Append(s.requests, r)[i] = s.requests[i]
      /\ Append(s.requests, r)[Len(s.requests) + 1] = r
  BY AppendCall DEF Follows, AreCalls
<1>4. Follows(q, Append(s.requests, r))
  BY <1>2, <1>3 DEF Follows, AreCalls
<1> QED BY <1>1, <1>4 DEF IsState

\* A handler that changes a field of the component.
LEMMA ShowFacts ==
  ASSUME NEW s, IsState(s), NEW f, NEW v
  PROVE  [s EXCEPT !.page[f] = v] =
           [page |-> [s.page EXCEPT ![f] = v], browser |-> s.browser,
            requests |-> s.requests]
<1>1. ASSUME NEW p, NEW b, NEW r
      PROVE  [[page |-> p, browser |-> b, requests |-> r] EXCEPT !.page[f] = v] =
               [page |-> [p EXCEPT ![f] = v], browser |-> b, requests |-> r]
  OBVIOUS
<1> QED BY <1>1 DEF IsState

\* A call that is heard of is not under way any more.
LEMMA HeardFacts ==
  ASSUME AreCalls(requests), NEW i \in DOMAIN requests
  PROVE  /\ Heard(i) = [page |-> page, browser |-> browser,
                        requests |-> Heard(i).requests]
         /\ Follows(requests, Heard(i).requests)
<1>1. Heard(i) = [page |-> page, browser |-> browser, requests |-> RemoveAt(requests, i)]
  BY DEF Heard, State
<1>2. Follows(requests, RemoveAt(requests, i))
  BY RemoveCall DEF Follows, AreCalls
<1> QED BY <1>1, <1>2

\* The state of a handler that has not made a call.
LEMMA StateFacts ==
  ASSUME AreCalls(requests)
  PROVE  /\ State = [page |-> page, browser |-> browser, requests |-> requests]
         /\ Follows(requests, requests)
BY DEF State, Follows

\* A served call has the answer of the service, the others are as they were.
LEMMA AnswerFacts ==
  ASSUME AreCalls(requests), NEW i \in DOMAIN requests, NEW answer, Answer(i, answer)
  PROVE  /\ AreCalls(requests') /\ DOMAIN requests' = DOMAIN requests
         /\ requests'[i] = [kind |-> requests[i].kind, arg |-> requests[i].arg,
                            status |-> "ok", answer |-> answer]
         /\ \A j \in DOMAIN requests \ {i} : requests'[j] = requests[j]
<1> DEFINE r == [requests[i] EXCEPT !.status = "ok", !.answer = answer]
<1>1. requests' = [requests EXCEPT ![i] = r] BY DEF Answer
<1>2. r = [kind |-> requests[i].kind, arg |-> requests[i].arg,
           status |-> "ok", answer |-> answer]
  <2> DEFINE c == requests[i]
  <2>1. c = [kind |-> c.kind, arg |-> c.arg, status |-> c.status, answer |-> c.answer]
    BY DEF AreCalls, IsCall
  <2>2. r = [c EXCEPT !.status = "ok", !.answer = answer] OBVIOUS
  <2> HIDE DEF c, r
  <2>3. r = [kind |-> c.kind, arg |-> c.arg, status |-> "ok", answer |-> answer]
    BY <2>1, <2>2
  <2> QED BY <2>3 DEF c
<1> HIDE DEF r
<1>3. IsSeq(requests')
  <2>1. IsSeq(requests) BY DEF AreCalls
  <2>2. IsSeq([requests EXCEPT ![i] = r]) BY <2>1, ChangeCall
  <2> QED BY <1>1, <2>2
<1>4. /\ DOMAIN requests' = DOMAIN requests /\ requests'[i] = r
      /\ \A j \in DOMAIN requests \ {i} : requests'[j] = requests[j]
  BY <1>1
<1>5. IsCall(r) BY <1>2 DEF IsCall
<1> QED BY <1>2, <1>3, <1>4, <1>5 DEF AreCalls

\* A failed call has the answer it had.
LEMMA FailFacts ==
  ASSUME AreCalls(requests), NEW i \in DOMAIN requests, NEW status,
         requests' = [requests EXCEPT ![i].status = status]
  PROVE  /\ AreCalls(requests') /\ DOMAIN requests' = DOMAIN requests
         /\ requests'[i] = [kind |-> requests[i].kind, arg |-> requests[i].arg,
                            status |-> status, answer |-> requests[i].answer]
         /\ \A j \in DOMAIN requests \ {i} : requests'[j] = requests[j]
<1> DEFINE r == [requests[i] EXCEPT !.status = status]
<1>1. requests' = [requests EXCEPT ![i] = r] OBVIOUS
<1>2. r = [kind |-> requests[i].kind, arg |-> requests[i].arg,
           status |-> status, answer |-> requests[i].answer]
  BY DEF AreCalls, IsCall
<1> HIDE DEF r
<1>3. IsSeq(requests')
  <2>1. IsSeq(requests) BY DEF AreCalls
  <2>2. IsSeq([requests EXCEPT ![i] = r]) BY <2>1, ChangeCall
  <2> QED BY <1>1, <2>2
<1>4. /\ DOMAIN requests' = DOMAIN requests /\ requests'[i] = r
      /\ \A j \in DOMAIN requests \ {i} : requests'[j] = requests[j]
  BY <1>1
<1>5. IsCall(r) BY <1>2 DEF IsCall
<1> QED BY <1>2, <1>3, <1>4, <1>5 DEF AreCalls

-----------------------------------------------------------------------------
(* Calls that are under way stay so until they are heard of.               *)

\* The state of a handler: the component, the browser and the calls.
Of(p, b, q) == [page |-> p, browser |-> b, requests |-> q]

CallFields == {"kind", "arg", "status", "answer"}
Calls(q) == IsSeq(q) /\ \A i \in DOMAIN q : DOMAIN q[i] = CallFields

\* A call of one of these kinds is under way.
Waits(q, kinds) == \E i \in DOMAIN q : q[i].kind \in kinds

\* The calls of q are still there in r.
Keeps(q, r) == Calls(r) /\ \A i \in DOMAIN q : \E j \in DOMAIN r : r[j] = q[i]

LEMMA NoCalls == Calls(<<>>)
<1>1. <<>> \in Seq({}) OBVIOUS
<1>2. IsSeq(<<>>) BY <1>1 DEF IsSeq
<1> QED BY <1>2 DEF Calls

LEMMA Appended ==
  ASSUME NEW q, Calls(q), NEW r, DOMAIN r = CallFields
  PROVE  Keeps(q, Append(q, r)) /\ Waits(Append(q, r), {r.kind})
<1>1. /\ IsSeq(Append(q, r))
      /\ DOMAIN Append(q, r) = DOMAIN q \cup {Len(q) + 1}
      /\ \A i \in DOMAIN q : Append(q, r)[i] = q[i]
      /\ Append(q, r)[Len(q) + 1] = r
  BY AppendCall DEF Calls
<1> QED BY <1>1 DEF Keeps, Waits, Calls

LEMMA Concatenated ==
  ASSUME NEW q, NEW r, Calls(q), Calls(r)
  PROVE  Keeps(q, q \o r) /\ Keeps(r, q \o r)
<1>1. PICK S : q \in Seq(S) BY DEF IsSeq, Calls
<1>2. PICK T : r \in Seq(T) BY DEF IsSeq, Calls
<1>3. q \in Seq(S \cup T) /\ r \in Seq(S \cup T) BY <1>1, <1>2
<1>4. IsSeq(q \o r) BY <1>3 DEF IsSeq
<1>5. \A i \in DOMAIN q : i \in DOMAIN (q \o r) /\ (q \o r)[i] = q[i] BY <1>3
<1>6. \A i \in DOMAIN r : Len(q) + i \in DOMAIN (q \o r) /\ (q \o r)[Len(q) + i] = r[i]
  BY <1>3
<1>7. ASSUME NEW k \in DOMAIN (q \o r), k \notin DOMAIN q
      PROVE  k - Len(q) \in DOMAIN r /\ (q \o r)[k] = r[k - Len(q)]
  BY <1>3, <1>7
<1> QED BY <1>4, <1>5, <1>6, <1>7 DEF Keeps, Calls

\* The call that is heard of is the only one to go.
LEMMA HeardKeeps ==
  ASSUME NEW q, Calls(q), NEW i \in DOMAIN q
  PROVE  /\ Calls(RemoveAt(q, i))
         /\ \A k \in DOMAIN RemoveAt(q, i) : \E j \in DOMAIN q : RemoveAt(q, i)[k] = q[j]
         /\ \A kinds : Waits(q, kinds) /\ q[i].kind \notin kinds
              => Waits(RemoveAt(q, i), kinds)
<1>1. /\ IsSeq(RemoveAt(q, i))
      /\ \A k \in DOMAIN RemoveAt(q, i) : \E j \in DOMAIN q : RemoveAt(q, i)[k] = q[j]
      /\ \A j \in DOMAIN q \ {i} : \E k \in DOMAIN RemoveAt(q, i) : RemoveAt(q, i)[k] = q[j]
  BY RemoveCall DEF Calls
<1> QED BY <1>1 DEF Calls, Waits

LEMMA KeepsOn ==
  ASSUME NEW q, NEW r, NEW t, Keeps(q, r), Keeps(r, t) PROVE Keeps(q, t)
BY DEF Keeps

LEMMA WaitsOn ==
  ASSUME NEW q, NEW r, Keeps(q, r), NEW kinds, Waits(q, kinds)
  PROVE  Waits(r, kinds)
BY DEF Waits, Keeps

\* A call that is served or fails keeps its kind.
SameKinds(q, r) ==
  Calls(r) /\ DOMAIN r = DOMAIN q /\ \A i \in DOMAIN q : r[i].kind = q[i].kind

LEMMA WaitsStill ==
  ASSUME NEW q, NEW r, SameKinds(q, r), NEW kinds
  PROVE  Waits(q, kinds) <=> Waits(r, kinds)
BY DEF Waits, SameKinds

LEMMA Answered ==
  ASSUME NEW q, Calls(q), NEW i \in DOMAIN q, NEW status, NEW answer
  PROVE  /\ SameKinds(q, [q EXCEPT ![i].status = status, ![i].answer = answer])
         /\ SameKinds(q, [q EXCEPT ![i].status = status])
<1> DEFINE c == [q[i] EXCEPT !.status = status, !.answer = answer]
           d == [q[i] EXCEPT !.status = status]
<1>1. /\ c.kind = q[i].kind /\ DOMAIN c = CallFields
      /\ d.kind = q[i].kind /\ DOMAIN d = CallFields
  BY DEF Calls, CallFields
<1>2. /\ [q EXCEPT ![i].status = status, ![i].answer = answer] = [q EXCEPT ![i] = c]
      /\ [q EXCEPT ![i].status = status] = [q EXCEPT ![i] = d]
  OBVIOUS
<1> HIDE DEF c, d
<1> QED BY <1>1, <1>2, ChangeCall DEF SameKinds, Calls

\* What a handler works on: the state of the component, the browser and the calls.
IsOf(s) == DOMAIN s = {"page", "browser", "requests"}
=============================================================================
