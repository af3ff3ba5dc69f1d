-------------------------- MODULE RunPages_proofs --------------------------
(***************************************************************************)
(* The inductive invariants of the pages of test runs, for any values of   *)
(* their constants, any calls that are under way and any number of steps.  *)
(***************************************************************************)
EXTENDS RunPages, UiPage_proofs, WellFoundedInduction, TLAPS

-----------------------------------------------------------------------------
(* The console of a test run.                                              *)

Attempts == 1 .. ConsolePage.LastAttempt
ConsoleFields == {"disabled", "invocations", "attempt", "type", "offset", "output", "polling"}

\* Lines of one log, in order and without overlap, that end before a place of it.
Line(attempt, type) == [attempt : {attempt}, type : {type}, from : Nat, to : Nat]
IsOutput(lines, attempt, type, end) ==
  /\ lines \in Seq(Line(attempt, type))
  /\ \A k \in 2 .. Len(lines) : lines[k - 1].to <= lines[k].from
  /\ \A k \in DOMAIN lines : lines[k].to <= end

\* The last byte that was read is read again: the lines end before the one after it.
GoodConsole(p) ==
  /\ DOMAIN p = ConsoleFields
  /\ p.invocations \in Seq(BOOLEAN) /\ Len(p.invocations) <= ConsolePage.LastAttempt
  /\ p.attempt \in Attempts \cup {0}
  /\ p.offset \in Nat \/ (p.offset = -1 /\ p.output = <<>>)
  /\ IsOutput(p.output, p.attempt, p.type, p.offset + 1)

\* The call is for the log that is selected, from where its output ends.
IsOutputCall(p, c) ==
  /\ DOMAIN c = CallFields /\ c.kind = "output" /\ p.attempt \in Attempts
  /\ c.arg.attempt = p.attempt /\ c.arg.type = p.type /\ c.arg.offset = p.offset
  /\ c.status = "ok" =>
       /\ c.answer.offset \in Nat /\ c.answer.length \in Nat \ {0}
       /\ p.offset # -1 => c.answer.offset = p.offset

OneCall(p, q) == q = <<>> \/ (p.polling # "timer" /\ \E c : q = <<c>> /\ IsOutputCall(p, c))

\* Only the last attempt may be active.
GoodLog(a) ==
  /\ DOMAIN a = {"final", "size"}
  /\ a.final \in Seq(BOOLEAN) /\ Len(a.final) <= ConsolePage.LastAttempt
  /\ \A k \in DOMAIN a.final : k < Len(a.final) => a.final[k]
  /\ a.size \in [Attempts -> Nat]

ConsoleState(s) == IsOf(s) /\ GoodConsole(s.page) /\ OneCall(s.page, s.requests)

LEMMA ConsoleConstants ==
  /\ ConsolePage.LastAttempt \in Nat \ {0} /\ ConsolePage.ReadLength \in Nat \ {0}
  /\ ConsolePage.MaxLines \in Nat \ {0}
BY RunPagesAssumption DEF Console!TestRunConsoleAssumption

LEMMA LineFacts ==
  ASSUME NEW a, NEW t, NEW lines \in Seq(Line(a, t)), NEW k \in DOMAIN lines
  PROVE  lines[k].from \in Nat /\ lines[k].to \in Nat
<1>1. lines[k] \in Line(a, t) OBVIOUS
<1> QED BY <1>1 DEF Line

LEMMA NoOutput == ASSUME NEW a, NEW t, NEW end PROVE IsOutput(<<>>, a, t, end)
BY DEF IsOutput

\* A new part goes on where the last one ended.
LEMMA OutputGoesOn ==
  ASSUME NEW a, NEW t, NEW end \in Int, NEW last \in Int, end <= last,
         NEW old, IsOutput(old, a, t, end), NEW new, IsOutput(new, a, t, last),
         \A k \in DOMAIN new : end <= new[k].from
  PROVE  IsOutput(old \o new, a, t, last)
<1> DEFINE all == old \o new
<1>1. old \in Seq(Line(a, t)) /\ new \in Seq(Line(a, t)) BY DEF IsOutput
<1>2. all \in Seq(Line(a, t)) BY <1>1
<1>3. /\ Len(all) = Len(old) + Len(new) /\ Len(old) \in Nat /\ Len(new) \in Nat
      /\ \A k \in 1 .. Len(old) : all[k] = old[k]
      /\ \A k \in 1 .. Len(all) : k > Len(old) => all[k] = new[k - Len(old)]
  BY <1>1
<1> HIDE DEF all
<1>4. ASSUME NEW k \in 1 .. Len(all) PROVE all[k].to <= last
  <2>1. CASE k <= Len(old)
    <3>1. k \in DOMAIN old /\ all[k] = old[k] BY <1>1, <1>3, <2>1
    <3>2. old[k].to <= end BY <3>1 DEF IsOutput
    <3>3. old[k].to \in Nat BY <1>1, <3>1, LineFacts
    <3> QED BY <3>1, <3>2, <3>3
  <2>2. CASE k > Len(old)
    <3>1. k - Len(old) \in DOMAIN new /\ all[k] = new[k - Len(old)] BY <1>1, <1>3, <2>2
    <3> QED BY <3>1 DEF IsOutput
  <2> QED BY <1>3, <2>1, <2>2
<1>5. ASSUME NEW k \in 2 .. Len(all) PROVE all[k - 1].to <= all[k].from
  <2>1. CASE k <= Len(old)
    <3>1. k \in 2 .. Len(old) /\ all[k] = old[k] /\ all[k - 1] = old[k - 1]
      BY <1>1, <1>3, <2>1
    <3> QED BY <3>1 DEF IsOutput
  <2>2. CASE k = Len(old) + 1
    <3>1. k - 1 \in DOMAIN old /\ all[k - 1] = old[k - 1] BY <1>1, <1>3, <2>2
    <3>2. 1 \in DOMAIN new /\ all[k] = new[1] BY <1>1, <1>3, <2>2
    <3>3. old[k - 1].to <= end BY <3>1 DEF IsOutput
    <3>4. end <= new[1].from BY <3>2
    <3>5. old[k - 1].to \in Nat /\ new[1].from \in Nat BY <1>1, <3>1, <3>2, LineFacts
    <3> QED BY <3>1, <3>2, <3>3, <3>4, <3>5
  <2>3. CASE k > Len(old) + 1
    <3>1. /\ k - Len(old) \in 2 .. Len(new) /\ k \in 1 .. Len(all) /\ k - 1 \in 1 .. Len(all)
          /\ k > Len(old) /\ k - 1 > Len(old) /\ (k - 1) - Len(old) = (k - Len(old)) - 1
      BY <1>3, <2>3
    <3>2. all[k] = new[k - Len(old)] /\ all[k - 1] = new[(k - Len(old)) - 1]
      BY <1>3, <3>1
    <3> QED BY <3>1, <3>2 DEF IsOutput
  <2> QED BY <1>3, <2>1, <2>2, <2>3
<1>6. DOMAIN all = 1 .. Len(all) BY <1>2
<1>7. IsOutput(all, a, t, last) BY <1>2, <1>4, <1>5, <1>6 DEF IsOutput
<1> QED BY <1>7 DEF all

\* What is dropped from the front leaves the rest in order.
LEMMA LastLinesAreOutput ==
  ASSUME NEW a, NEW t, NEW end, NEW all, IsOutput(all, a, t, end)
  PROVE  IsOutput(Console!LastLines(all), a, t, end)
<1>1. all \in Seq(Line(a, t)) /\ Len(all) \in Nat BY DEF IsOutput
<1>2. PICK m \in Nat : /\ m <= Len(all)
                       /\ Console!LastLines(all) = SubSeq(all, m + 1, Len(all))
  <2>1. CASE Len(all) > ConsolePage.MaxLines
    <3>1. /\ Len(all) - ConsolePage.MaxLines \in Nat
          /\ Len(all) - ConsolePage.MaxLines <= Len(all)
      BY <1>1, <2>1, ConsoleConstants
    <3> QED BY <2>1, <3>1 DEF Console!LastLines
  <2>2. CASE ~ (Len(all) > ConsolePage.MaxLines)
    <3>1. Console!LastLines(all) = SubSeq(all, 0 + 1, Len(all))
      BY <2>2 DEF Console!LastLines
    <3> QED BY <1>1, <3>1
  <2> QED BY <2>1, <2>2
<1> DEFINE rest == SubSeq(all, m + 1, Len(all))
<1>3. /\ rest \in Seq(Line(a, t)) /\ Len(rest) = Len(all) - m
      /\ \A k \in 1 .. Len(rest) : rest[k] = all[k + m]
  BY <1>1, <1>2
<1> HIDE DEF rest
<1>4. ASSUME NEW k \in 1 .. Len(rest) PROVE rest[k].to <= end
  <2>1. k + m \in DOMAIN all /\ rest[k] = all[k + m] BY <1>1, <1>2, <1>3
  <2> QED BY <2>1 DEF IsOutput
<1>5. ASSUME NEW k \in 2 .. Len(rest) PROVE rest[k - 1].to <= rest[k].from
  <2>1. /\ k + m \in 2 .. Len(all) /\ k \in 1 .. Len(rest) /\ k - 1 \in 1 .. Len(rest)
        /\ (k - 1) + m = (k + m) - 1
    BY <1>1, <1>2, <1>3
  <2>2. rest[k] = all[k + m] /\ rest[k - 1] = all[(k + m) - 1] BY <1>3, <2>1
  <2> QED BY <2>1, <2>2 DEF IsOutput
<1>6. DOMAIN rest = 1 .. Len(rest) BY <1>3
<1>7. IsOutput(rest, a, t, end) BY <1>3, <1>4, <1>5, <1>6 DEF IsOutput
<1> QED BY <1>2, <1>7 DEF rest

LEMMA FunctionIsSequence ==
  ASSUME NEW S, NEW n \in Nat, NEW f \in [1 .. n -> S]
  PROVE  f \in Seq(S) /\ Len(f) = n
OBVIOUS

\* The lines of a part, but for the first: none begins at the first byte.
PartOf(all, a, t) ==
  [k \in 1 .. Len(all) - 1 |->
     [attempt |-> a, type |-> t, from |-> all[k + 1].from, to |-> all[k + 1].to]]

LEMMA LinesOfPart ==
  ASSUME NEW from \in Nat, NEW to \in Nat, from < to, NEW a, NEW t, NEW all, NEW lines,
         all = Console!LinesOf(from, to), lines = PartOf(all, a, t)
  PROVE  /\ IsOutput(lines, a, t, to)
         /\ \A k \in DOMAIN lines : from + 1 <= lines[k].from
<1> DEFINE f == from \div 2
           g == (to - 1) \div 2
           n == g - f + 1
<1>1. f \in Nat /\ 2 * f <= from /\ from <= 2 * f + 1 OBVIOUS
<1>2. g \in Nat /\ 2 * g <= to - 1 /\ to - 1 <= 2 * g + 1 OBVIOUS
<1>3. n \in Nat /\ n >= 1 BY <1>1, <1>2
<1> DEFINE B(k) == IF k = 1 THEN from ELSE 2 * (f + k - 1)
           E(b) == IF 2 * ((b \div 2) + 1) < to THEN 2 * ((b \div 2) + 1) ELSE to
<1>4. all = [k \in 1 .. n |-> [from |-> B(k), to |-> E(B(k))]]
  BY DEF Console!LinesOf
<1>5. ASSUME NEW k \in 2 .. n
      PROVE  /\ B(k) \in Nat /\ from + 1 <= B(k) /\ B(k) = 2 * (f + k - 1)
             /\ E(B(k)) \in Nat /\ E(B(k)) <= to /\ E(B(k)) <= 2 * (f + k)
  <2>1. B(k) = 2 * (f + k - 1) /\ f + k - 1 \in Nat BY <1>1
  <2>2. PICK m : m = f + k - 1 OBVIOUS
  <2>3. m \in Nat /\ B(k) = 2 * m /\ (2 * m) \div 2 = m BY <2>1, <2>2
  <2>4. E(2 * m) = IF 2 * (m + 1) < to THEN 2 * (m + 1) ELSE to BY <2>3
  <2>5. 2 * (m + 1) = 2 * (f + k) /\ from + 1 <= 2 * m BY <1>1, <2>2
  <2> QED BY <2>1, <2>3, <2>4, <2>5
<1> HIDE DEF f, g, n, B, E
<1>6. DOMAIN all = 1 .. n /\ Len(all) = n BY <1>3, <1>4
<1>7. ASSUME NEW k \in 1 .. n - 1
      PROVE  lines[k] = [attempt |-> a, type |-> t, from |-> B(k + 1), to |-> E(B(k + 1))]
  <2>1. k + 1 \in 1 .. n BY <1>3
  <2>2. all[k + 1] = [from |-> B(k + 1), to |-> E(B(k + 1))] BY <1>4, <2>1
  <2> QED BY <1>6, <2>2 DEF PartOf
<1>8. DOMAIN lines = 1 .. n - 1 /\ n - 1 \in Nat BY <1>3, <1>6 DEF PartOf
<1>9. ASSUME NEW k \in 1 .. n - 1
      PROVE  /\ lines[k] \in Line(a, t) /\ lines[k].to <= to /\ from + 1 <= lines[k].from
             /\ lines[k].from = 2 * (f + k) /\ lines[k].to <= 2 * (f + k + 1)
  <2>1. k + 1 \in 2 .. n BY <1>3
  <2>2. f + (k + 1) - 1 = f + k /\ f + (k + 1) = f + k + 1 BY <1>1
  <2>3. /\ B(k + 1) \in Nat /\ from + 1 <= B(k + 1) /\ B(k + 1) = 2 * (f + k)
        /\ E(B(k + 1)) \in Nat /\ E(B(k + 1)) <= to /\ E(B(k + 1)) <= 2 * (f + k + 1)
    BY <1>5, <2>1, <2>2
  <2>4. PICK x, y : x = B(k + 1) /\ y = E(B(k + 1)) OBVIOUS
  <2>5. lines[k] = [attempt |-> a, type |-> t, from |-> x, to |-> y] BY <1>7, <2>4
  <2>6. x \in Nat /\ y \in Nat BY <2>3, <2>4
  <2>7. lines[k] \in Line(a, t) BY <2>5, <2>6 DEF Line
  <2>8. lines[k].from = x /\ lines[k].to = y BY <2>5
  <2> QED BY <2>3, <2>4, <2>7, <2>8
<1>10. lines \in Seq(Line(a, t)) /\ Len(lines) = n - 1
  <2>1. lines \in [1 .. n - 1 -> Line(a, t)]
    <3>1. lines = [k \in 1 .. n - 1 |-> lines[k]] BY <1>6 DEF PartOf
    <3> QED BY <1>9, <3>1
  <2>2. PICK m : m = n - 1 OBVIOUS
  <2>3. m \in Nat /\ lines \in [1 .. m -> Line(a, t)] BY <1>8, <2>1, <2>2
  <2>4. lines \in Seq(Line(a, t)) /\ Len(lines) = m BY <2>3, FunctionIsSequence
  <2> QED BY <2>2, <2>4
<1>11. ASSUME NEW k \in 2 .. n - 1 PROVE lines[k - 1].to <= lines[k].from
  <2>1. k - 1 \in 1 .. n - 1 /\ k \in 1 .. n - 1 /\ f + (k - 1) + 1 = f + k BY <1>1, <1>3
  <2>2. lines[k - 1].to <= 2 * (f + k) /\ lines[k].from = 2 * (f + k) BY <1>9, <2>1
  <2> QED BY <2>2
<1> QED BY <1>8, <1>9, <1>10, <1>11 DEF IsOutput

LEMMA OneCallThere ==
  ASSUME NEW p, NEW q, OneCall(p, q), NEW i \in DOMAIN q
  PROVE  /\ i = 1 /\ IsOutputCall(p, q[1]) /\ q = <<q[1]>> /\ p.polling # "timer"
         /\ RemoveAt(q, i) = <<>>
<1>1. PICK c : q = <<c>> /\ IsOutputCall(p, c) /\ p.polling # "timer" BY DEF OneCall
<1>2. q \in Seq({c}) /\ Len(q) = 1 /\ i = 1 /\ q[1] = c BY <1>1
<1>3. RemoveAt(q, i) = <<>> BY <1>2 DEF RemoveAt
<1> QED BY <1>1, <1>2, <1>3

LEMMA ConsoleHeard ==
  ASSUME NEW i, NEW s, s = Console!Heard(i)
  PROVE  IsOf(s) /\ s.page = page /\ s.requests = RemoveAt(requests, i)
BY DEF IsOf, Console!Heard, Console!State, Console!RemoveAt, RemoveAt

\* A fetch asks for what is selected.
LEMMA ConsoleFetch ==
  ASSUME NEW s, IsOf(s), GoodConsole(s.page), s.page.attempt \in Attempts, s.requests = <<>>,
         NEW t, t = Console!Fetch(s)
  PROVE  ConsoleState(t)
<1>1. PICK p, b : p = s.page /\ b = s.browser OBVIOUS
<1>2. PICK u : u = [s EXCEPT !.page.polling = "call"] OBVIOUS
<1>3. PICK final, arg, r :
        /\ arg = [attempt |-> p.attempt, type |-> p.type, offset |-> p.offset, final |-> final]
        /\ r = Console!Request("output", arg)
        /\ t = [u EXCEPT !.requests = Append(@, r)]
  BY <1>1, <1>2 DEF Console!Fetch, Console!Send
<1>4. /\ IsOf(u) /\ DOMAIN u.page = ConsoleFields /\ u.page.polling = "call"
      /\ u.page.invocations = p.invocations /\ u.page.attempt = p.attempt
      /\ u.page.type = p.type /\ u.page.offset = p.offset /\ u.page.output = p.output
      /\ u.requests = <<>>
  BY <1>1, <1>2 DEF IsOf, GoodConsole, ConsoleFields
<1>5. IsOf(t) /\ t.page = u.page /\ t.requests = <<r>> BY <1>3, <1>4 DEF IsOf
<1>6. GoodConsole(t.page) BY <1>1, <1>4, <1>5 DEF GoodConsole
<1>7. IsOutputCall(t.page, r)
  BY <1>1, <1>3, <1>4, <1>5 DEF IsOutputCall, Console!Request, CallFields
<1> QED BY <1>4, <1>5, <1>6, <1>7 DEF ConsoleState, OneCall

LEMMA ConsoleReset ==
  ASSUME NEW s, IsOf(s), GoodConsole(s.page), NEW t, t = Console!ResetPolling(s)
  PROVE  ConsoleState(t)
<1>1. PICK p : p = s.page OBVIOUS
<1>2. PICK u : u = [s EXCEPT !.page.polling = "off", !.requests = <<>>] OBVIOUS
<1>3. /\ IsOf(u) /\ DOMAIN u.page = ConsoleFields /\ u.requests = <<>>
      /\ u.page.invocations = p.invocations /\ u.page.attempt = p.attempt
      /\ u.page.type = p.type /\ u.page.offset = p.offset /\ u.page.output = p.output
  BY <1>1, <1>2 DEF IsOf, GoodConsole, ConsoleFields
<1>4. GoodConsole(u.page) BY <1>1, <1>3 DEF GoodConsole
<1>5. CASE p.attempt = 0
  <2>1. t = [u EXCEPT !.page.polling = "timer"]
    BY <1>1, <1>2, <1>5 DEF Console!ResetPolling, Console!StopPolling, Console!NoAttempt
  <2>2. /\ IsOf(t) /\ DOMAIN t.page = ConsoleFields /\ t.requests = <<>>
        /\ t.page.invocations = p.invocations /\ t.page.attempt = p.attempt
        /\ t.page.type = p.type /\ t.page.offset = p.offset /\ t.page.output = p.output
    BY <1>3, <2>1 DEF IsOf, ConsoleFields
  <2> QED BY <1>1, <2>2 DEF ConsoleState, GoodConsole, OneCall
<1>6. CASE p.attempt # 0
  <2>1. t = Console!Fetch(u)
    BY <1>1, <1>2, <1>6 DEF Console!ResetPolling, Console!StopPolling, Console!NoAttempt
  <2>2. u.page.attempt \in Attempts BY <1>3, <1>4, <1>6 DEF GoodConsole
  <2> QED BY <1>3, <1>4, <2>1, <2>2, ConsoleFetch
<1> QED BY <1>5, <1>6

\* An empty console is good whatever is selected.
LEMMA ConsoleClear ==
  ASSUME NEW s, IsOf(s), DOMAIN s.page = ConsoleFields,
         s.page.invocations \in Seq(BOOLEAN), Len(s.page.invocations) <= ConsolePage.LastAttempt,
         s.page.attempt \in Attempts \cup {0}, NEW t, t = Console!ClearConsole(s)
  PROVE  /\ IsOf(t) /\ GoodConsole(t.page) /\ t.page.polling = s.page.polling
         /\ t.requests = s.requests
<1>1. PICK p : p = s.page OBVIOUS
<1>2. /\ IsOf(t) /\ DOMAIN t.page = ConsoleFields /\ t.requests = s.requests
      /\ t.page.invocations = p.invocations /\ t.page.attempt = p.attempt
      /\ t.page.offset = -1 /\ t.page.output = <<>> /\ t.page.polling = p.polling
  BY <1>1 DEF IsOf, ConsoleFields, Console!ClearConsole, Console!NoOffset
<1> QED BY <1>1, <1>2, NoOutput DEF GoodConsole

LEMMA ConsoleUpdate ==
  ASSUME NEW s, ConsoleState(s), NEW force \in BOOLEAN, NEW t, t = Console!Update(s, force)
  PROVE  ConsoleState(t)
<1>1. IsOf(s) /\ GoodConsole(s.page) BY DEF ConsoleState
<1>2. PICK c : c = Console!ClearConsole(s) OBVIOUS
<1>3. IsOf(c) /\ GoodConsole(c.page) BY <1>1, <1>2, ConsoleClear DEF GoodConsole
<1>4. CASE s.page.disabled
  <2>1. t = [c EXCEPT !.page.polling = "off", !.requests = <<>>]
    BY <1>2, <1>4 DEF Console!Update, Console!StopPolling
  <2>2. PICK p : p = c.page OBVIOUS
  <2>3. /\ IsOf(t) /\ DOMAIN t.page = ConsoleFields /\ t.requests = <<>>
        /\ t.page.invocations = p.invocations /\ t.page.attempt = p.attempt
        /\ t.page.type = p.type /\ t.page.offset = p.offset /\ t.page.output = p.output
    BY <1>3, <2>1, <2>2 DEF IsOf, GoodConsole, ConsoleFields
  <2> QED BY <1>3, <2>2, <2>3 DEF ConsoleState, GoodConsole, OneCall
<1>5. CASE ~ s.page.disabled /\ s.page.attempt = 0
  <2>1. PICK u : u = [s EXCEPT !.page.attempt = Len(s.page.invocations)] OBVIOUS
  <2>2. PICK v : v = Console!ClearConsole(u) OBVIOUS
  <2>3. t = Console!ResetPolling(v)
    BY <1>5, <2>1, <2>2 DEF Console!Update, Console!NoAttempt
  <2>4. PICK p : p = s.page OBVIOUS
  <2>5. /\ IsOf(u) /\ DOMAIN u.page = ConsoleFields
        /\ u.page.invocations = p.invocations /\ u.page.attempt = Len(p.invocations)
    BY <1>1, <2>1, <2>4 DEF IsOf, GoodConsole, ConsoleFields
  <2>6. /\ p.invocations \in Seq(BOOLEAN) /\ Len(p.invocations) <= ConsolePage.LastAttempt
        /\ Len(p.invocations) \in Nat
    BY <1>1, <2>4 DEF GoodConsole
  <2>7. Len(p.invocations) \in Attempts \cup {0} BY <2>6, ConsoleConstants DEF Attempts
  <2>8. IsOf(v) /\ GoodConsole(v.page) BY <2>2, <2>5, <2>6, <2>7, ConsoleClear
  <2> QED BY <2>3, <2>8, ConsoleReset
<1>6. CASE ~ s.page.disabled /\ s.page.attempt # 0
  <2>1. CASE force
    BY <1>1, <1>6, <2>1, ConsoleReset DEF Console!Update, Console!NoAttempt
  <2>2. CASE ~ force
    BY <1>6, <2>2 DEF Console!Update, Console!NoAttempt
  <2> QED BY <2>1, <2>2
<1> QED BY <1>4, <1>5, <1>6

LEMMA ConsoleBecomes ==
  ASSUME NEW t, Console!Becomes(t), ConsoleState(t)
  PROVE  GoodConsole(page') /\ OneCall(page', requests')
BY DEF ConsoleState, Console!Becomes

\* The part goes on where the output ended, or it is the first.
LEMMA ConsoleOutput ==
  ASSUME GoodConsole(page), OneCall(page, requests), NEW i \in DOMAIN requests,
         Console!OutputArrives(i)
  PROVE  GoodConsole(page') /\ OneCall(page', requests')
<1>1. PICK h : h = Console!Heard(i) OBVIOUS
<1>2. IsOf(h) /\ h.page = page /\ h.requests = <<>>
  BY <1>1, ConsoleHeard, OneCallThere
<1>3. IsOutputCall(page, requests[i]) BY OneCallThere
<1>4. CASE Console!Hears(i, "output", "error")
           /\ Console!Becomes([Console!ClearConsole(h) EXCEPT !.page.polling = "timer"])
  <2>1. PICK c : c = Console!ClearConsole(h) OBVIOUS
  <2>2. IsOf(c) /\ GoodConsole(c.page) /\ c.requests = <<>>
    BY <1>2, <2>1, ConsoleClear DEF GoodConsole
  <2>3. PICK p : p = c.page OBVIOUS
  <2>4. PICK t : t = [c EXCEPT !.page.polling = "timer"] OBVIOUS
  <2>5. /\ IsOf(t) /\ DOMAIN t.page = ConsoleFields /\ t.requests = <<>>
        /\ t.page.invocations = p.invocations /\ t.page.attempt = p.attempt
        /\ t.page.type = p.type /\ t.page.offset = p.offset /\ t.page.output = p.output
    BY <2>2, <2>3, <2>4 DEF IsOf, GoodConsole, ConsoleFields
  <2>6. ConsoleState(t) BY <2>2, <2>3, <2>5 DEF ConsoleState, GoodConsole, OneCall
  <2> QED BY <1>4, <2>1, <2>4, <2>6, ConsoleBecomes
<1> DEFINE c == requests[i]
           part == c.answer
           from == part.offset
           to == part.offset + part.length
           all == Console!LinesOf(from, to)
           lines == [k \in 1 .. Len(all) - 1 |->
                       [attempt |-> c.arg.attempt, type |-> c.arg.type,
                        from |-> all[k + 1].from, to |-> all[k + 1].to]]
<1>5. CASE c.status = "ok"
           /\ Console!Becomes([h EXCEPT
                !.page.output = Console!LastLines(IF Len(lines) >= ConsolePage.MaxLines
                                                  THEN lines ELSE @ \o lines),
                !.page.offset = part.offset + part.length - 1, !.page.polling = "timer"])
  <2>1. /\ from \in Nat /\ part.length \in Nat \ {0}
        /\ page.offset # -1 => from = page.offset
        /\ c.arg.attempt = page.attempt /\ c.arg.type = page.type
    BY <1>3, <1>5 DEF IsOutputCall
  <2>2. to \in Nat /\ from < to BY <2>1
  <2>3. PICK ls : ls = lines OBVIOUS
  <2>4. /\ IsOutput(ls, page.attempt, page.type, to)
        /\ \A k \in DOMAIN ls : from + 1 <= ls[k].from
    <3>1. PICK a, y : a = c.arg.attempt /\ y = c.arg.type OBVIOUS
    <3>2. PICK f, g, al : f = from /\ g = to /\ al = Console!LinesOf(f, g) OBVIOUS
    <3>3. f \in Nat /\ g \in Nat /\ f < g BY <2>1, <2>2, <3>2
    <3>4. ls = PartOf(al, a, y) BY <2>3, <3>1, <3>2 DEF PartOf
    <3> HIDE DEF from, to, lines, c
    <3>5. IsOutput(ls, a, y, g) /\ \A k \in DOMAIN ls : f + 1 <= ls[k].from
      BY <3>2, <3>3, <3>4, LinesOfPart
    <3> QED BY <2>1, <3>1, <3>2, <3>5 DEF c
  <2>5. PICK o, last : o = page.output /\ last = part.offset + part.length - 1 OBVIOUS
  <2>6. PICK new : new = Console!LastLines(IF Len(ls) >= ConsolePage.MaxLines THEN ls
                                           ELSE o \o ls)
    OBVIOUS
  <2>7. Console!Becomes([h EXCEPT !.page.output = new, !.page.offset = last,
                                  !.page.polling = "timer"])
    <3> HIDE DEF lines
    <3> QED BY <1>2, <1>5, <2>3, <2>5, <2>6
  <2> HIDE DEF lines, all
  <2>8. last \in Nat /\ last + 1 = to BY <2>1, <2>5
  <2>9. IsOutput(new, page.attempt, page.type, to)
    <3>1. PICK end, g, a, y : /\ end = page.offset + 1 /\ g = to /\ a = page.attempt
                              /\ y = page.type
      OBVIOUS
    <3>2. IsOutput(o, a, y, end) /\ (page.offset \in Nat \/ (page.offset = -1 /\ o = <<>>))
      BY <2>5, <3>1 DEF GoodConsole
    <3>3. end \in Int /\ g \in Int /\ end <= g BY <2>1, <2>2, <3>1, <3>2
    <3>4. IsOutput(ls, a, y, g) BY <2>4, <3>1
    <3>5. \A k \in DOMAIN ls : end <= ls[k].from
      <4>1. ls \in Seq(Line(a, y)) BY <3>4 DEF IsOutput
      <4>2. \A k \in DOMAIN ls : ls[k].from \in Nat BY <4>1, LineFacts
      <4> QED BY <2>1, <2>4, <3>1, <3>2, <4>2
    <3> HIDE DEF from, to, c
    <3>6. IsOutput(o \o ls, a, y, g) BY <3>2, <3>3, <3>4, <3>5, OutputGoesOn
    <3>7. IsOutput(IF Len(ls) >= ConsolePage.MaxLines THEN ls ELSE o \o ls, a, y, g)
      BY <3>4, <3>6
    <3>8. IsOutput(new, a, y, g) BY <2>6, <3>7, LastLinesAreOutput
    <3> QED BY <3>1, <3>8
  <2>10. PICK t : t = [h EXCEPT !.page.output = new, !.page.offset = last,
                                !.page.polling = "timer"]
    OBVIOUS
  <2>11. /\ IsOf(t) /\ DOMAIN t.page = ConsoleFields /\ t.requests = <<>>
         /\ t.page.invocations = page.invocations /\ t.page.attempt = page.attempt
         /\ t.page.type = page.type /\ t.page.offset = last /\ t.page.output = new
    BY <1>2, <2>10 DEF IsOf, GoodConsole, ConsoleFields
  <2>12. ConsoleState(t) BY <2>8, <2>9, <2>11 DEF ConsoleState, GoodConsole, OneCall
  <2> QED BY <2>7, <2>10, <2>12, ConsoleBecomes
<1> QED BY <1>1, <1>4, <1>5, <1>2 DEF Console!OutputArrives, Console!Hears

LEMMA ConsoleUser ==
  ASSUME GoodConsole(page), OneCall(page, requests), GoodLog(api),
         \/ Console!Poll
         \/ Console!InvocationsChange
         \/ Console!SwitchTab
         \/ \E a \in DOMAIN page.invocations : Console!SelectAttempt(a)
         \/ \E y : Console!SelectType(y)
  PROVE  GoodConsole(page') /\ OneCall(page', requests')
<1>1. PICK n : n = Console!State OBVIOUS
<1>2. IsOf(n) /\ n.page = page /\ n.requests = requests BY <1>1 DEF Console!State, IsOf
<1>3. CASE Console!Poll
  <2>1. page.attempt \in Attempts /\ requests = <<>>
    BY <1>3 DEF Console!Poll, Console!IsActive, Console!NoAttempt, GoodConsole, OneCall
  <2>2. PICK t : t = Console!Fetch(n) OBVIOUS
  <2>3. Console!Becomes(t) BY <1>1, <1>3, <2>2 DEF Console!Poll
  <2> QED BY <1>2, <2>1, <2>2, <2>3, ConsoleFetch, ConsoleBecomes
<1>4. ASSUME NEW s, IsOf(s), NEW force \in BOOLEAN, Console!Becomes(Console!Update(s, force)),
             DOMAIN s.page = ConsoleFields, s.requests = requests,
             s.page.invocations \in Seq(BOOLEAN),
             Len(s.page.invocations) <= ConsolePage.LastAttempt,
             s.page.attempt = page.attempt, s.page.type = page.type,
             s.page.offset = page.offset, s.page.output = page.output,
             s.page.polling = page.polling
      PROVE  GoodConsole(page') /\ OneCall(page', requests')
  <2>1. GoodConsole(s.page) BY <1>4 DEF GoodConsole
  <2>2. OneCall(s.page, s.requests) BY <1>4 DEF OneCall, IsOutputCall
  <2>3. PICK t : t = Console!Update(s, force) OBVIOUS
  <2>4. ConsoleState(t) BY <1>4, <2>1, <2>2, <2>3, ConsoleUpdate DEF ConsoleState
  <2> QED BY <1>4, <2>3, <2>4, ConsoleBecomes
<1>5. CASE Console!InvocationsChange
  <2>1. PICK s : s = [n EXCEPT !.page.invocations = api.final] OBVIOUS
  <2>2. Console!Becomes(Console!Update(s, FALSE))
    BY <1>1, <1>5, <2>1 DEF Console!InvocationsChange
  <2>3. /\ IsOf(s) /\ DOMAIN s.page = ConsoleFields /\ s.requests = requests
        /\ s.page.invocations = api.final
        /\ s.page.attempt = page.attempt /\ s.page.type = page.type
        /\ s.page.offset = page.offset /\ s.page.output = page.output
        /\ s.page.polling = page.polling
    BY <1>2, <2>1 DEF IsOf, GoodConsole, ConsoleFields
  <2> QED BY <1>4, <2>2, <2>3 DEF GoodLog
<1>6. CASE Console!SwitchTab
  <2>1. PICK s : s = [n EXCEPT !.page.disabled = ~ @] OBVIOUS
  <2>2. Console!Becomes(Console!Update(s, TRUE))
    BY <1>1, <1>6, <2>1 DEF Console!SwitchTab
  <2>3. /\ IsOf(s) /\ DOMAIN s.page = ConsoleFields /\ s.requests = requests
        /\ s.page.invocations = page.invocations
        /\ s.page.attempt = page.attempt /\ s.page.type = page.type
        /\ s.page.offset = page.offset /\ s.page.output = page.output
        /\ s.page.polling = page.polling
    BY <1>2, <2>1 DEF IsOf, GoodConsole, ConsoleFields
  <2> QED BY <1>4, <2>2, <2>3 DEF GoodConsole
<1>7. ASSUME NEW s, IsOf(s), DOMAIN s.page = ConsoleFields,
             s.page.invocations = page.invocations, s.page.attempt \in Attempts \cup {0},
             Console!Select(s)
      PROVE  GoodConsole(page') /\ OneCall(page', requests')
  <2>1. PICK c : c = Console!ClearConsole(s) OBVIOUS
  <2>2. IsOf(c) /\ GoodConsole(c.page) BY <1>7, <2>1, ConsoleClear DEF GoodConsole
  <2>3. PICK t : t = Console!ResetPolling(c) OBVIOUS
  <2>4. Console!Becomes(t) BY <1>7, <2>1, <2>3 DEF Console!Select
  <2> QED BY <2>2, <2>3, <2>4, ConsoleReset, ConsoleBecomes
<1>8. ASSUME NEW a \in DOMAIN page.invocations, Console!SelectAttempt(a)
      PROVE  GoodConsole(page') /\ OneCall(page', requests')
  <2>1. PICK s : s = [n EXCEPT !.page.attempt = a] OBVIOUS
  <2>2. Console!Select(s) BY <1>1, <1>8, <2>1 DEF Console!SelectAttempt
  <2>3. /\ IsOf(s) /\ DOMAIN s.page = ConsoleFields
        /\ s.page.invocations = page.invocations /\ s.page.attempt = a
    BY <1>2, <2>1 DEF IsOf, GoodConsole, ConsoleFields
  <2>4. a \in Attempts
    <3>1. page.invocations \in Seq(BOOLEAN) /\ Len(page.invocations) <= ConsolePage.LastAttempt
      BY DEF GoodConsole
    <3> QED BY <3>1, ConsoleConstants DEF Attempts
  <2> QED BY <1>7, <2>2, <2>3, <2>4
<1>9. ASSUME NEW y, Console!SelectType(y)
      PROVE  GoodConsole(page') /\ OneCall(page', requests')
  <2>1. PICK s : s = [n EXCEPT !.page.type = y] OBVIOUS
  <2>2. Console!Select(s) BY <1>1, <1>9, <2>1 DEF Console!SelectType
  <2>3. /\ IsOf(s) /\ DOMAIN s.page = ConsoleFields
        /\ s.page.invocations = page.invocations /\ s.page.attempt = page.attempt
    BY <1>2, <2>1 DEF IsOf, GoodConsole, ConsoleFields
  <2> QED BY <1>7, <2>2, <2>3 DEF GoodConsole
<1> QED BY <1>3, <1>5, <1>6, <1>8, <1>9

\* What is answered is from where it was asked for, or the end of the log.
LEMMA ConsoleService ==
  ASSUME GoodConsole(page), OneCall(page, requests), GoodLog(api), NEW i \in DOMAIN requests,
         Console!Serve(i) \/ Console!Fail(i)
  PROVE  GoodConsole(page') /\ OneCall(page', requests')
<1>1. page' = page BY DEF Console!Serve, Console!Fail
<1>2. PICK c : c = requests[1] OBVIOUS
<1>3. i = 1 /\ requests = <<c>> /\ IsOutputCall(page, c) /\ page.polling # "timer"
  BY <1>2, OneCallThere
<1>4. ASSUME NEW d, IsOutputCall(page, d), requests' = <<d>>
      PROVE  GoodConsole(page') /\ OneCall(page', requests')
  BY <1>1, <1>3, <1>4 DEF OneCall
<1>5. CASE requests' = [requests EXCEPT ![i].status = "error"]
  <2>1. PICK d : d = [c EXCEPT !.status = "error"] OBVIOUS
  <2>2. requests' = <<d>> BY <1>3, <1>5, <2>1
  <2>3. IsOutputCall(page, d) BY <1>3, <2>1 DEF IsOutputCall, CallFields
  <2> QED BY <1>4, <2>2, <2>3
<1>6. ASSUME NEW from \in Nat, NEW to \in Nat, from < to,
             page.offset # -1 => from = page.offset,
             Console!Answer(i, [offset |-> from, length |-> to - from])
      PROVE  GoodConsole(page') /\ OneCall(page', requests')
  <2>1. PICK part : part = [offset |-> from, length |-> to - from] OBVIOUS
  <2>2. PICK d : d = [c EXCEPT !.status = "ok", !.answer = part] OBVIOUS
  <2>3. requests' = <<d>> BY <1>3, <1>6, <2>1, <2>2 DEF Console!Answer
  <2>4. part.offset = from /\ part.length = to - from BY <2>1
  <2>5. to - from \in Nat \ {0} BY <1>6
  <2>6. IsOutputCall(page, d)
    BY <1>3, <1>6, <2>2, <2>4, <2>5 DEF IsOutputCall, CallFields
  <2> QED BY <1>4, <2>3, <2>6
<1>7. CASE Console!Serve(i)
  <2>1. PICK size, from, to :
          /\ size = api.size[c.arg.attempt]
          /\ from = IF c.arg.offset # -1 THEN c.arg.offset
                    ELSE IF size > ConsolePage.ReadLength THEN size - ConsolePage.ReadLength
                    ELSE 0
          /\ to = IF c.arg.offset = -1 \/ from + ConsolePage.ReadLength > size THEN size
                  ELSE from + ConsolePage.ReadLength
          /\ \/ from < to /\ Console!Answer(i, [offset |-> from, length |-> to - from])
             \/ requests' = [requests EXCEPT ![i].status = "error"]
    BY <1>2, <1>3, <1>7 DEF Console!Serve, Console!NoOffset
  <2>2. /\ c.arg.attempt \in Attempts /\ c.arg.offset = page.offset
        /\ page.offset \in Nat \/ page.offset = -1
    BY <1>3 DEF IsOutputCall, GoodConsole
  <2>3. size \in Nat BY <2>1, <2>2 DEF GoodLog
  <2>4. from \in Nat /\ (page.offset # -1 => from = page.offset)
    BY <2>1, <2>2, <2>3, ConsoleConstants
  <2>5. to \in Nat BY <2>1, <2>3, <2>4, ConsoleConstants
  <2> QED BY <1>5, <1>6, <2>1, <2>4, <2>5
<1>8. CASE Console!Fail(i) BY <1>5, <1>8 DEF Console!Fail
<1> QED BY <1>7, <1>8

LEMMA AppendKeeps ==
  ASSUME NEW S, NEW s \in Seq(S), NEW e \in S, NEW k \in 1 .. Len(s)
  PROVE  Append(s, e)[k] = s[k]
OBVIOUS

LEMMA ConsoleLog ==
  ASSUME GoodLog(api), Console!AttemptEnds \/ \E a \in DOMAIN api.final : Console!LogGrows(a)
  PROVE  GoodLog(api')
<1>1. /\ DOMAIN api = {"final", "size"} /\ api.final \in Seq(BOOLEAN)
      /\ Len(api.final) \in Nat /\ Len(api.final) <= ConsolePage.LastAttempt
      /\ \A k \in DOMAIN api.final : k < Len(api.final) => api.final[k]
      /\ api.size \in [Attempts -> Nat]
  BY DEF GoodLog
<1>2. ASSUME NEW a \in DOMAIN api.final, Console!LogGrows(a) PROVE GoodLog(api')
  <2>1. PICK n \in api.size[a] + 1 .. ConsolePage.MaxBytes : api' = [api EXCEPT !.size[a] = n]
    BY <1>2 DEF Console!LogGrows
  <2>2. a \in Attempts BY <1>1, ConsoleConstants DEF Attempts
  <2>3. api.size[a] \in Nat BY <1>1, <2>2
  <2>4. n \in Nat BY <2>3
  <2>5. /\ DOMAIN api' = DOMAIN api /\ api'.final = api.final
        /\ api'.size = [api.size EXCEPT ![a] = n]
    BY <1>1, <2>1
  <2>6. api'.size \in [Attempts -> Nat] BY <1>1, <2>4, <2>5
  <2> QED BY <1>1, <2>5, <2>6 DEF GoodLog
<1>3. CASE Console!AttemptEnds
  <2>1. PICK a \in DOMAIN api.final :
          /\ ~ api.final[a]
          /\ api' = [api EXCEPT !.final = IF a < ConsolePage.LastAttempt
                                         THEN Append([@ EXCEPT ![a] = TRUE], FALSE)
                                         ELSE [@ EXCEPT ![a] = TRUE]]
    BY <1>3 DEF Console!AttemptEnds
  <2>2. PICK f, n : f = api.final /\ n = Len(api.final) OBVIOUS
  <2>3. /\ f \in Seq(BOOLEAN) /\ n = Len(f) /\ n \in Nat /\ n <= ConsolePage.LastAttempt
        /\ a \in 1 .. n /\ \A k \in 1 .. n : k < n => f[k]
    BY <1>1, <2>1, <2>2
  <2>4. a = n BY <2>1, <2>2, <2>3
  <2>5. PICK g : g = [f EXCEPT ![a] = TRUE] OBVIOUS
  <2>6. g \in Seq(BOOLEAN) /\ Len(g) = n /\ \A k \in 1 .. n : g[k]
    BY <2>3, <2>4, <2>5
  <2>7. PICK h : h = IF a < ConsolePage.LastAttempt THEN Append(g, FALSE) ELSE g OBVIOUS
  <2>8. /\ DOMAIN api' = DOMAIN api /\ api'.final = h /\ api'.size = api.size
    BY <1>1, <2>1, <2>2, <2>5, <2>7
  <2>9. /\ h \in Seq(BOOLEAN) /\ Len(h) <= ConsolePage.LastAttempt
        /\ \A k \in DOMAIN h : k < Len(h) => h[k]
    <3>1. CASE a < ConsolePage.LastAttempt
      <4>1. h = Append(g, FALSE) BY <2>7, <3>1
      <4>2. h \in Seq(BOOLEAN) /\ Len(h) = n + 1 BY <2>6, <4>1
      <4>3. DOMAIN h = 1 .. n + 1 BY <2>3, <4>2
      <4>4. ASSUME NEW k \in 1 .. n PROVE h[k]
        <5>1. k \in 1 .. Len(g) /\ g \in Seq(BOOLEAN) /\ g[k] BY <2>6
        <5>2. Append(g, FALSE)[k] = g[k] BY <5>1, AppendKeeps
        <5> QED BY <4>1, <5>1, <5>2
      <4> QED BY <2>3, <2>4, <2>6, <3>1, <4>2, <4>3, <4>4, ConsoleConstants
    <3>2. CASE ~ (a < ConsolePage.LastAttempt)
      <4>1. h = g BY <2>7, <3>2
      <4>2. DOMAIN h = 1 .. n /\ Len(h) = n /\ h \in Seq(BOOLEAN) BY <2>6, <4>1
      <4>3. \A k \in 1 .. n : h[k] BY <2>6, <4>1
      <4>4. Len(h) <= ConsolePage.LastAttempt BY <2>3, <4>2
      <4>5. \A k \in DOMAIN h : k < Len(h) => h[k] BY ONLY <4>2, <4>3
      <4> QED BY ONLY <4>2, <4>4, <4>5
    <3> QED BY <3>1, <3>2
  <2> QED BY <1>1, <2>8, <2>9 DEF GoodLog
<1> QED BY <1>2, <1>3

LEMMA ConsoleInit ==
  ASSUME Console!Init PROVE GoodConsole(page) /\ OneCall(page, requests) /\ GoodLog(api)
<1>1. /\ DOMAIN page = ConsoleFields /\ page.invocations = <<>> /\ page.attempt = 0
      /\ page.offset = -1 /\ page.output = <<>>
  BY DEF Console!Init, Console!NoAttempt, Console!NoOffset, ConsoleFields
<1>2. GoodConsole(page) BY <1>1, NoOutput, ConsoleConstants DEF GoodConsole
<1>3. OneCall(page, requests) BY DEF Console!Init, OneCall
<1>4. GoodLog(api)
  <2>1. PICK f : f = <<FALSE>> OBVIOUS
  <2>2. f \in Seq(BOOLEAN) /\ Len(f) = 1 /\ DOMAIN f = 1 .. 1 BY <2>1
  <2>3. /\ DOMAIN api = {"final", "size"} /\ api.final = f
        /\ api.size = [a \in 1 .. ConsolePage.LastAttempt |-> 0]
    BY <2>1 DEF Console!Init
  <2>4. Len(f) <= ConsolePage.LastAttempt BY <2>2, ConsoleConstants
  <2>5. \A k \in DOMAIN f : k < Len(f) => f[k] BY <2>2
  <2>6. api.size \in [Attempts -> Nat] BY <2>3 DEF Attempts
  <2> QED BY <2>2, <2>3, <2>4, <2>5, <2>6 DEF GoodLog
<1> QED BY <1>2, <1>3, <1>4

LEMMA ConsoleNext ==
  ASSUME GoodConsole(page), OneCall(page, requests), GoodLog(api), [Console!Next]_vars
  PROVE  GoodConsole(page') /\ OneCall(page', requests') /\ GoodLog(api')
<1>1. CASE UNCHANGED vars BY <1>1 DEF vars
<1>2. CASE \E i \in DOMAIN requests : Console!OutputArrives(i)
  <2>1. GoodConsole(page') /\ OneCall(page', requests') BY <1>2, ConsoleOutput
  <2>2. api' = api BY <1>2 DEF Console!OutputArrives, Console!Hears
  <2> QED BY <2>1, <2>2
<1>3. CASE \/ Console!Poll
           \/ Console!InvocationsChange
           \/ Console!SwitchTab
           \/ \E a \in DOMAIN page.invocations : Console!SelectAttempt(a)
           \/ \E y : Console!SelectType(y)
  <2>1. GoodConsole(page') /\ OneCall(page', requests') BY <1>3, ConsoleUser
  <2>2. api' = api
    BY <1>3 DEF Console!Poll, Console!InvocationsChange, Console!SwitchTab,
      Console!SelectAttempt, Console!SelectType
  <2> QED BY <2>1, <2>2
<1>4. CASE \E i \in DOMAIN requests : Console!Serve(i) \/ Console!Fail(i)
  <2>1. GoodConsole(page') /\ OneCall(page', requests') BY <1>4, ConsoleService
  <2>2. api' = api BY <1>4 DEF Console!Serve, Console!Fail
  <2> QED BY <2>1, <2>2
<1>5. CASE Console!AttemptEnds \/ \E a \in DOMAIN api.final : Console!LogGrows(a)
  <2>1. GoodLog(api') BY <1>5, ConsoleLog
  <2>2. page' = page /\ requests' = requests
    BY <1>5 DEF Console!AttemptEnds, Console!LogGrows
  <2> QED BY <2>1, <2>2
<1> QED BY <1>1, <1>2, <1>3, <1>4, <1>5 DEF Console!Next

LEMMA ConsoleShows == ASSUME GoodConsole(page) PROVE Console!OutputIsOfTheLog
<1>1. /\ page.output \in Seq(Line(page.attempt, page.type))
      /\ \A k \in 2 .. Len(page.output) : page.output[k - 1].to <= page.output[k].from
  BY DEF GoodConsole, IsOutput
<1>2. ASSUME NEW k \in DOMAIN page.output
      PROVE  page.output[k].attempt = page.attempt /\ page.output[k].type = page.type
  <2>1. page.output[k] \in Line(page.attempt, page.type) BY <1>1
  <2> QED BY <2>1 DEF Line
<1> QED BY <1>1, <1>2 DEF Console!OutputIsOfTheLog

-----------------------------------------------------------------------------
(* The page of a test run does not stop updating before its run is final.  *)

\* What holds of the calls of any page holds of those of this one.
LEMMA RunSendFacts ==
  ASSUME NEW q, NEW s, IsState(s), Follows(q, s.requests), NEW kind, NEW arg
  PROVE  /\ IsState(Run!Send(s, kind, arg))
         /\ Run!Send(s, kind, arg).page = s.page
         /\ Run!Send(s, kind, arg).browser = s.browser
         /\ Follows(q, Run!Send(s, kind, arg).requests)
BY SendFacts DEF Run!Send, Send, Run!Request, Request

LEMMA RunHeardFacts ==
  ASSUME AreCalls(requests), NEW i \in DOMAIN requests
  PROVE  /\ Run!Heard(i) = [page |-> page, browser |-> browser,
                        requests |-> Run!Heard(i).requests]
         /\ Follows(requests, Run!Heard(i).requests)
BY HeardFacts DEF Run!Heard, Heard, Run!State, State, Run!RemoveAt, RemoveAt

LEMMA RunStateFacts ==
  ASSUME AreCalls(requests)
  PROVE  /\ Run!State = [page |-> page, browser |-> browser, requests |-> requests]
         /\ Follows(requests, requests)
BY StateFacts DEF Run!State, State

LEMMA RunAnswerFacts ==
  ASSUME AreCalls(requests), NEW i \in DOMAIN requests, NEW answer, Run!Answer(i, answer)
  PROVE  /\ AreCalls(requests') /\ DOMAIN requests' = DOMAIN requests
         /\ requests'[i] = [kind |-> requests[i].kind, arg |-> requests[i].arg,
                            status |-> "ok", answer |-> answer]
         /\ \A j \in DOMAIN requests \ {i} : requests'[j] = requests[j]
BY AnswerFacts DEF Run!Answer, Answer

RunFields ==
  /\ "autoUpdate" \in DOMAIN page
  /\ api = [run |-> api.run, commands |-> api.commands, deleted |-> api.deleted]
  /\ api.run = [state |-> api.run.state, hasRequest |-> api.run.hasRequest]

\* A run that was final when a load was answered is final ever since.
AnswersLast ==
  \A i \in DOMAIN requests :
    requests[i].kind = "run" /\ requests[i].status = "ok"
      /\ Run!IsFinal(requests[i].answer.state) => Run!IsFinal(api.run.state)

RunIInv == RunFields /\ AreCalls(requests) /\ AnswersLast /\ Run!UpdatesUntilFinal

\* A step of the page stops the updates only when its run is final.
LEMMA RunPageStep ==
  ASSUME RunIInv, UNCHANGED api, Follows(requests, requests'),
         "autoUpdate" \in DOMAIN page',
         page'.autoUpdate = page.autoUpdate \/ Run!IsFinal(api.run.state)
  PROVE  RunIInv'
<1>1. RunFields' BY DEF RunIInv, RunFields
<1>2. AreCalls(requests)' BY DEF Follows
<1>3. AnswersLast'
  <2> SUFFICES ASSUME NEW i \in DOMAIN requests', requests'[i].kind = "run",
                      requests'[i].status = "ok", Run!IsFinal(requests'[i].answer.state)
               PROVE  Run!IsFinal(api.run.state)
    BY DEF AnswersLast
  <2>1. PICK j \in DOMAIN requests : requests'[i] = requests[j]
    BY DEF Follows
  <2> QED BY <2>1 DEF RunIInv, AnswersLast
<1>4. Run!UpdatesUntilFinal' BY DEF RunIInv, Run!UpdatesUntilFinal
<1> QED BY <1>1, <1>2, <1>3, <1>4 DEF RunIInv

\* loadTestRun and loadCommandStateStats make a call or none.
LEMMA RunLoads ==
  ASSUME NEW q, NEW s, IsState(s), Follows(q, s.requests), "autoUpdate" \in DOMAIN s.page
  PROVE  /\ IsState(Run!LoadTestRun(s)) /\ Follows(q, Run!LoadTestRun(s).requests)
         /\ "autoUpdate" \in DOMAIN Run!LoadTestRun(s).page
         /\ Run!LoadTestRun(s).page.autoUpdate = s.page.autoUpdate
         /\ IsState(Run!LoadCommandStateStats(s))
         /\ Follows(q, Run!LoadCommandStateStats(s).requests)
         /\ Run!LoadCommandStateStats(s).page = s.page
<1> DEFINE l == [s EXCEPT !.page.isLoading = TRUE]
<1>1. l = [page |-> [s.page EXCEPT !.isLoading = TRUE], browser |-> s.browser,
           requests |-> s.requests]
  BY ShowFacts
<1>2. /\ IsState(l) /\ l.requests = s.requests /\ "autoUpdate" \in DOMAIN l.page
      /\ l.page.autoUpdate = s.page.autoUpdate
  BY <1>1 DEF IsState
<1> HIDE DEF l
<1>3. /\ IsState(Run!LoadTestRun(s)) /\ Follows(q, Run!LoadTestRun(s).requests)
      /\ Run!LoadTestRun(s).page = l.page
  <2>1. Run!LoadTestRun(s) = Run!Send(l, "run", [id |-> "run"]) BY DEF Run!LoadTestRun, l
  <2> QED BY <1>2, <2>1, RunSendFacts
<1>4. /\ IsState(Run!LoadCommandStateStats(s))
      /\ Follows(q, Run!LoadCommandStateStats(s).requests)
      /\ Run!LoadCommandStateStats(s).page = s.page
  BY RunSendFacts DEF Run!LoadCommandStateStats
<1> QED BY <1>2, <1>3, <1>4

LEMMA RunArrivesStep ==
  ASSUME RunIInv, NEW i \in DOMAIN requests, Run!RunArrives(i)
  PROVE  RunIInv'
<1> DEFINE run == requests[i].answer
           h == Run!Heard(i)
<1>1. /\ h = [page |-> page, browser |-> browser, requests |-> h.requests]
      /\ Follows(requests, h.requests)
  BY RunHeardFacts DEF RunIInv
<1>2. UNCHANGED api BY DEF Run!RunArrives, Run!Hears
<1>3. CASE Run!Hears(i, "run", "error")
  <2>1. requests[i].status = "error" BY <1>3 DEF Run!Hears
  <2>2. Run!Becomes([h EXCEPT !.page.isLoading = FALSE]) BY <2>1 DEF Run!RunArrives, Run!Hears
  <2>3. /\ page' = [page EXCEPT !.isLoading = FALSE] /\ requests' = h.requests
    <3>1. IsState(h) /\ h.page = page BY <1>1 DEF IsState
    <3> HIDE DEF h
    <3>2. [h EXCEPT !.page.isLoading = FALSE] =
            [page |-> [page EXCEPT !.isLoading = FALSE], browser |-> h.browser,
             requests |-> h.requests]
      BY <3>1, ShowFacts
    <3> QED BY <2>2, <3>2 DEF Run!Becomes
  <2> QED BY <1>1, <1>2, <2>3, RunPageStep DEF RunIInv, RunFields
<1>4. CASE Run!Hears(i, "run", "ok")
  <2> DEFINE shown == [h EXCEPT !.page.run = run]
             quiet == [shown EXCEPT !.page.autoUpdate = FALSE]
             acts == IF Run!IsFinal(run.state) THEN Run!Send(quiet, "actions", [id |-> "run"])
                     ELSE shown
             s == Run!LoadCommandStateStats(acts)
             t == IF run.hasRequest THEN Run!Send(s, "request", [id |-> "request"])
                  ELSE [s EXCEPT !.page.isLoading = FALSE]
  <2>1. requests[i].status = "ok" /\ requests[i].kind = "run" BY <1>4 DEF Run!Hears
  <2>2. Run!Becomes(t) BY <2>1 DEF Run!RunArrives, Run!Hears
  <2>3. Run!IsFinal(run.state) => Run!IsFinal(api.run.state)
    BY <2>1 DEF RunIInv, AnswersLast
  <2>4. IsState(h) /\ h.page = page /\ "autoUpdate" \in DOMAIN page
    BY <1>1 DEF IsState, RunIInv, RunFields
  <2> HIDE DEF h
  <2>5. /\ IsState(shown) /\ Follows(requests, shown.requests)
        /\ "autoUpdate" \in DOMAIN shown.page
        /\ shown.page.autoUpdate = page.autoUpdate
    <3>1. shown = [page |-> [page EXCEPT !.run = run], browser |-> h.browser,
                   requests |-> h.requests]
      BY <2>4, ShowFacts
    <3> QED BY <1>1, <2>4, <3>1 DEF IsState
  <2> HIDE DEF shown
  <2>6. /\ IsState(quiet) /\ Follows(requests, quiet.requests)
        /\ "autoUpdate" \in DOMAIN quiet.page
    <3>1. quiet = [page |-> [shown.page EXCEPT !.autoUpdate = FALSE],
                   browser |-> shown.browser, requests |-> shown.requests]
      BY <2>5, ShowFacts
    <3> QED BY <2>5, <3>1 DEF IsState
  <2> HIDE DEF quiet
  <2>7. /\ IsState(acts) /\ Follows(requests, acts.requests)
        /\ "autoUpdate" \in DOMAIN acts.page
        /\ acts.page.autoUpdate = page.autoUpdate \/ Run!IsFinal(api.run.state)
    BY <2>3, <2>5, <2>6, RunSendFacts
  <2> HIDE DEF acts
  <2>8. /\ IsState(s) /\ Follows(requests, s.requests) /\ s.page = acts.page
    BY <2>7, RunLoads
  <2> HIDE DEF s
  <2>9. /\ Follows(requests, t.requests)
        /\ "autoUpdate" \in DOMAIN t.page /\ t.page.autoUpdate = s.page.autoUpdate
    <3>1. CASE run.hasRequest BY <3>1, <2>7, <2>8, RunSendFacts
    <3>2. CASE ~ run.hasRequest
      <4>1. t = [page |-> [s.page EXCEPT !.isLoading = FALSE], browser |-> s.browser,
                 requests |-> s.requests]
        BY <2>8, <3>2, ShowFacts
      <4> QED BY <4>1, <2>7, <2>8
    <3> QED BY <3>1, <3>2
  <2> HIDE DEF t
  <2> QED BY <1>2, <2>2, <2>7, <2>8, <2>9, RunPageStep DEF Run!Becomes
<1> QED BY <1>3, <1>4 DEF Run!RunArrives

-----------------------------------------------------------------------------
(* The other steps of the page leave its updates alone.                    *)

RunQuiet(s) ==
  /\ IsState(s) /\ Follows(requests, s.requests)
  /\ "autoUpdate" \in DOMAIN s.page /\ s.page.autoUpdate = page.autoUpdate

LEMMA RunQuietStart ==
  ASSUME RunIInv
  PROVE  /\ RunQuiet(Run!State)
         /\ \A i \in DOMAIN requests : RunQuiet(Run!Heard(i))
<1>1. RunQuiet(Run!State) BY RunStateFacts DEF RunIInv, RunFields, RunQuiet, IsState
<1>2. ASSUME NEW i \in DOMAIN requests
      PROVE  RunQuiet(Run!Heard(i))
  <2>1. /\ Run!Heard(i) = [page |-> page, browser |-> browser,
                       requests |-> Run!Heard(i).requests]
        /\ Follows(requests, Run!Heard(i).requests)
    BY RunHeardFacts DEF RunIInv
  <2>2. IsState(Run!Heard(i)) /\ Run!Heard(i).page = page BY <2>1 DEF IsState
  <2> QED BY <2>1, <2>2 DEF RunIInv, RunFields, RunQuiet
<1> QED BY <1>1, <1>2

LEMMA RunQuietShow ==
  ASSUME NEW s, RunQuiet(s), NEW f, f # "autoUpdate", NEW v
  PROVE  RunQuiet([s EXCEPT !.page[f] = v])
<1>1. [s EXCEPT !.page[f] = v] =
        [page |-> [s.page EXCEPT ![f] = v], browser |-> s.browser, requests |-> s.requests]
  BY ShowFacts DEF RunQuiet
<1> QED BY <1>1 DEF RunQuiet, IsState

LEMMA RunQuietCall ==
  ASSUME NEW s, RunQuiet(s)
  PROVE  /\ \A kind, arg : RunQuiet(Run!Send(s, kind, arg))
         /\ RunQuiet(Run!LoadTestRun(s))
         /\ RunQuiet(Run!LoadCommandStateStats(s))
<1>1. ASSUME NEW kind, NEW arg
      PROVE  RunQuiet(Run!Send(s, kind, arg))
  BY RunSendFacts DEF RunQuiet
<1>2. RunQuiet(Run!LoadTestRun(s)) /\ RunQuiet(Run!LoadCommandStateStats(s))
  BY RunLoads DEF RunQuiet
<1> QED BY <1>1, <1>2

LEMMA RunQuietStep ==
  ASSUME RunIInv, UNCHANGED api, NEW s, RunQuiet(s), Run!Becomes(s)
  PROVE  RunIInv'
<1>1. /\ Follows(requests, requests') /\ "autoUpdate" \in DOMAIN page'
      /\ page'.autoUpdate = page.autoUpdate
  BY DEF RunQuiet, Run!Becomes
<1>2. page'.autoUpdate = page.autoUpdate \/ Run!IsFinal(api.run.state)
  BY <1>1
<1> QED BY <1>1, <1>2, RunPageStep

LEMMA RequestArrivesStep ==
  ASSUME RunIInv, NEW i \in DOMAIN requests, Run!RequestArrives(i)
  PROVE  RunIInv'
<1> DEFINE h == Run!Heard(i)
           done == [h EXCEPT !.page.isLoading = FALSE]
           loaded == [h EXCEPT !.page.hasRequest = TRUE, !.page.isLoading = FALSE]
<1>1. RunQuiet(h) BY RunQuietStart
<1>2. UNCHANGED api /\ (Run!Becomes(done) \/ Run!Becomes(Run!LoadCommandStateStats(loaded)))
  BY DEF Run!RequestArrives, Run!Hears
<1> HIDE DEF h
<1>3. RunQuiet(done) BY <1>1, RunQuietShow
<1>4. RunQuiet(loaded)
  <2>1. RunQuiet([h EXCEPT !.page.hasRequest = TRUE]) BY <1>1, RunQuietShow
  <2>2. RunQuiet([[h EXCEPT !.page.hasRequest = TRUE] EXCEPT !.page.isLoading = FALSE])
    BY <2>1, RunQuietShow
  <2> QED BY <2>2
<1> HIDE DEF done, loaded
<1> QED BY <1>2, <1>3, <1>4, RunQuietCall, RunQuietStep

LEMMA ActionsArriveStep ==
  ASSUME RunIInv, NEW i \in DOMAIN requests, Run!ActionsArrive(i)
  PROVE  RunIInv'
<1> DEFINE h == Run!Heard(i)
           shown == [h EXCEPT !.page.hasActions = TRUE]
<1>1. RunQuiet(h) BY RunQuietStart
<1>2. UNCHANGED api /\ (Run!Becomes(h) \/ Run!Becomes(shown)) BY DEF Run!ActionsArrive, Run!Hears
<1> HIDE DEF h
<1>3. RunQuiet(shown) BY <1>1, RunQuietShow
<1> QED BY <1>1, <1>2, <1>3, RunQuietStep

LEMMA StatsArriveStep ==
  ASSUME RunIInv, NEW i \in DOMAIN requests, Run!StatsArrive(i)
  PROVE  RunIInv'
<1> DEFINE h == Run!Heard(i)
<1>1. RunQuiet(h) BY RunQuietStart
<1>2. /\ UNCHANGED api
      /\ \/ Run!Becomes(h)
         \/ \E stats, nodes :
              Run!Becomes([h EXCEPT !.page.stats = stats, !.page.nodes = nodes])
  BY DEF Run!StatsArrive, Run!Hears
<1> HIDE DEF h
<1>3. ASSUME NEW stats, NEW nodes
      PROVE  RunQuiet([h EXCEPT !.page.stats = stats, !.page.nodes = nodes])
  <2>1. RunQuiet([h EXCEPT !.page.stats = stats]) BY <1>1, RunQuietShow
  <2>2. RunQuiet([[h EXCEPT !.page.stats = stats] EXCEPT !.page.nodes = nodes])
    BY <2>1, RunQuietShow
  <2> QED BY <2>2
<1> QED BY <1>1, <1>2, <1>3, RunQuietStep

LEMMA AutoUpdateStep ==
  ASSUME RunIInv, Run!AutoUpdate
  PROVE  RunIInv'
<1>1. RunQuiet(Run!LoadTestRun(Run!State)) BY RunQuietStart, RunQuietCall
<1> QED BY <1>1, RunQuietStep DEF Run!AutoUpdate

\* Whatever becomes of the nodes.
LEMMA RunQuietNodes ==
  ASSUME RunIInv, NEW s, RunQuiet(s), NEW st
  PROVE  /\ \A v : /\ RunQuiet([s EXCEPT !.page.nodes[st].expanded = v])
                   /\ RunQuiet([s EXCEPT !.page.nodes[st].isLoading = v])
         /\ \A c : /\ \A v : RunQuiet([s EXCEPT !.page.nodes[st].commands[c].expanded = v])
                   /\ RunQuiet([s EXCEPT !.page.nodes[st].commands[c].attempts = TRUE])
         /\ \A token, commands :
              RunQuiet([s EXCEPT !.page.nodes[st].token = token,
                              !.page.nodes[st].commands = commands])
<1> DEFINE nodes == s.page.nodes
<1>1. ASSUME NEW v
      PROVE  RunQuiet([s EXCEPT !.page.nodes[st].expanded = v])
  <2> DEFINE n == [nodes EXCEPT ![st].expanded = v]
             t == [s EXCEPT !.page.nodes = n]
  <2>1. RunQuiet(t)
    <3> HIDE DEF n
    <3> QED BY RunQuietShow
  <2>2. t = [s EXCEPT !.page.nodes[st].expanded = v] OBVIOUS
  <2> HIDE DEF t
  <2> QED BY <2>1, <2>2
<1>2. ASSUME NEW v
      PROVE  RunQuiet([s EXCEPT !.page.nodes[st].isLoading = v])
  <2> DEFINE n == [nodes EXCEPT ![st].isLoading = v]
             t == [s EXCEPT !.page.nodes = n]
  <2>1. RunQuiet(t)
    <3> HIDE DEF n
    <3> QED BY RunQuietShow
  <2>2. t = [s EXCEPT !.page.nodes[st].isLoading = v] OBVIOUS
  <2> HIDE DEF t
  <2> QED BY <2>1, <2>2
<1>3. ASSUME NEW c, NEW v
      PROVE  RunQuiet([s EXCEPT !.page.nodes[st].commands[c].expanded = v])
  <2> DEFINE n == [nodes EXCEPT ![st].commands[c].expanded = v]
             t == [s EXCEPT !.page.nodes = n]
  <2>1. RunQuiet(t)
    <3> HIDE DEF n
    <3> QED BY RunQuietShow
  <2>2. t = [s EXCEPT !.page.nodes[st].commands[c].expanded = v] OBVIOUS
  <2> HIDE DEF t
  <2> QED BY <2>1, <2>2
<1>4. ASSUME NEW c
      PROVE  RunQuiet([s EXCEPT !.page.nodes[st].commands[c].attempts = TRUE])
  <2> DEFINE n == [nodes EXCEPT ![st].commands[c].attempts = TRUE]
             t == [s EXCEPT !.page.nodes = n]
  <2>1. RunQuiet(t)
    <3> HIDE DEF n
    <3> QED BY RunQuietShow
  <2>2. t = [s EXCEPT !.page.nodes[st].commands[c].attempts = TRUE] OBVIOUS
  <2> HIDE DEF t
  <2> QED BY <2>1, <2>2
<1>5. ASSUME NEW token, NEW commands
      PROVE  RunQuiet([s EXCEPT !.page.nodes[st].token = token,
                             !.page.nodes[st].commands = commands])
  <2> DEFINE first == [s EXCEPT !.page.nodes = [nodes EXCEPT ![st].token = token]]
             then == [first.page.nodes EXCEPT ![st].commands = commands]
             both == [first EXCEPT !.page.nodes = then]
  <2>1. RunQuiet(first) BY RunQuietShow
  <2>2. RunQuiet(both)
    <3> HIDE DEF first, then
    <3> QED BY <2>1, RunQuietShow
  <2>3. both = [s EXCEPT !.page.nodes[st].token = token,
                         !.page.nodes[st].commands = commands]
    OBVIOUS
  <2> HIDE DEF both
  <2> QED BY <2>2, <2>3
<1> QED BY <1>1, <1>2, <1>3, <1>4, <1>5

LEMMA ExpandStatNodeStep ==
  ASSUME RunIInv, NEW st, Run!ExpandStatNode(st)
  PROVE  RunIInv'
<1> DEFINE s(v) == [Run!State EXCEPT !.page.nodes[st].expanded = v]
<1>1. \A v : RunQuiet(s(v)) BY RunQuietStart, RunQuietNodes
<1>2. UNCHANGED api /\ \E v : Run!Becomes(s(v)) \/ Run!Becomes(Run!LoadCommands(s(v), st, 0))
  BY DEF Run!ExpandStatNode
<1> HIDE DEF s
<1> QED BY <1>1, <1>2, RunQuietCall, RunQuietStep DEF Run!LoadCommands

LEMMA LoadMoreCommandsStep ==
  ASSUME RunIInv, NEW st, Run!LoadMoreCommands(st)
  PROVE  RunIInv'
<1> DEFINE s == [Run!State EXCEPT !.page.nodes[st].isLoading = TRUE]
<1>1. RunQuiet(s) BY RunQuietStart, RunQuietNodes
<1>2. UNCHANGED api /\ Run!Becomes(Run!LoadCommands(s, st, page.nodes[st].token))
  BY DEF Run!LoadMoreCommands
<1> HIDE DEF s
<1> QED BY <1>1, <1>2, RunQuietCall, RunQuietStep DEF Run!LoadCommands

LEMMA ExpandCommandNodeStep ==
  ASSUME RunIInv, NEW st, NEW c, Run!ExpandCommandNode(st, c)
  PROVE  RunIInv'
<1> DEFINE s(v) == [Run!State EXCEPT !.page.nodes[st].commands[c].expanded = v]
<1>1. \A v : RunQuiet(s(v)) BY RunQuietStart, RunQuietNodes
<1>2. /\ UNCHANGED api
      /\ \E v : \/ Run!Becomes(s(v))
                \/ Run!Becomes(Run!Send(s(v), "attempts", [state |-> st, command |-> c]))
  BY DEF Run!ExpandCommandNode
<1> HIDE DEF s
<1> QED BY <1>1, <1>2, RunQuietCall, RunQuietStep

LEMMA CommandsArriveStep ==
  ASSUME RunIInv, NEW i \in DOMAIN requests, Run!CommandsArrive(i)
  PROVE  RunIInv'
<1> DEFINE h == Run!Heard(i)
           st == requests[i].arg.state
           s(v) == [h EXCEPT !.page.nodes[st].isLoading = v]
           t(v, token, commands) == [s(v) EXCEPT !.page.nodes[st].token = token,
                                                 !.page.nodes[st].commands = commands]
<1>1. RunQuiet(h) BY RunQuietStart
<1>2. /\ UNCHANGED api
      /\ \E v : Run!Becomes(s(v)) \/ \E token, commands : Run!Becomes(t(v, token, commands))
  BY DEF Run!CommandsArrive, Run!Hears
<1> HIDE DEF h
<1>3. \A v : RunQuiet(s(v)) BY <1>1, RunQuietNodes
<1> HIDE DEF s
<1>4. \A v, token, commands : RunQuiet(t(v, token, commands)) BY <1>3, RunQuietNodes
<1> HIDE DEF t
<1> QED BY <1>2, <1>3, <1>4, RunQuietStep

LEMMA AttemptsArriveStep ==
  ASSUME RunIInv, NEW i \in DOMAIN requests, Run!AttemptsArrive(i)
  PROVE  RunIInv'
<1> DEFINE h == Run!Heard(i)
           s(st, c) == [h EXCEPT !.page.nodes[st].commands[c].attempts = TRUE]
<1>1. RunQuiet(h) BY RunQuietStart
<1>2. UNCHANGED api /\ (Run!Becomes(h) \/ \E st, c : Run!Becomes(s(st, c)))
  BY DEF Run!AttemptsArrive, Run!Hears
<1> HIDE DEF h
<1>3. \A st, c : RunQuiet(s(st, c)) BY <1>1, RunQuietNodes
<1> HIDE DEF s
<1> QED BY <1>1, <1>2, <1>3, RunQuietStep

LEMMA AskStep ==
  ASSUME RunIInv, Run!Ask
  PROVE  RunIInv'
<1>1. /\ UNCHANGED <<requests, api>>
      /\ \E question : page' = [page EXCEPT !.asks = question]
  BY DEF Run!Ask, Run!Shows
<1>2. "autoUpdate" \in DOMAIN page' /\ page'.autoUpdate = page.autoUpdate
  BY <1>1 DEF RunIInv, RunFields
<1>3. Follows(requests, requests') BY <1>1, RunStateFacts DEF RunIInv
<1> QED BY <1>1, <1>2, <1>3, RunPageStep

LEMMA AnswerDialogStep ==
  ASSUME RunIInv, NEW b, Run!AnswerDialog(b)
  PROVE  RunIInv'
<1> DEFINE s == [Run!State EXCEPT !.page.asks = "nothing"]
<1>1. RunQuiet(s) BY RunQuietStart, RunQuietShow
<1>2. /\ UNCHANGED api
      /\ Run!Becomes(s) \/ Run!Becomes(Run!Send(s, page.asks, [id |-> "run"]))
  BY DEF Run!AnswerDialog
<1> HIDE DEF s
<1> QED BY <1>1, <1>2, RunQuietCall, RunQuietStep

LEMMA DoneStep ==
  ASSUME RunIInv, NEW i \in DOMAIN requests, Run!Done(i)
  PROVE  RunIInv'
<1> DEFINE h == Run!Heard(i)
<1>1. RunQuiet(h) BY RunQuietStart
<1>2. UNCHANGED api BY DEF Run!Done, Run!Hears
<1>3. CASE page' = [page EXCEPT !.isOpen = FALSE, !.asks = "nothing"] /\ requests' = <<>>
  <2>1. "autoUpdate" \in DOMAIN page' /\ page'.autoUpdate = page.autoUpdate
    BY <1>3 DEF RunIInv, RunFields
  <2>2. <<>> \in Seq({}) OBVIOUS
  <2>3. Follows(requests, requests')
    BY <1>3, <2>2 DEF Follows, AreCalls, IsSeq
  <2> QED BY <1>2, <2>1, <2>3, RunPageStep
<1>4. CASE Run!Becomes(h) \/ Run!Becomes(Run!LoadTestRun(h))
  BY <1>1, <1>2, <1>4, RunQuietCall, RunQuietStep
<1> QED BY <1>3, <1>4 DEF Run!Done

-----------------------------------------------------------------------------
(* The steps of the services.                                              *)

\* What is served is the run as it is, and a final run stays final.
LEMMA RunServed ==
  ASSUME RunFields, NEW i, Run!Served(i)
  PROVE  /\ \E answer : Run!Answer(i, answer)
                          /\ (requests[i].kind = "run" => answer = api.run)
         /\ api' = [run |-> api'.run, commands |-> api'.commands, deleted |-> api'.deleted]
         /\ api'.run = [state |-> api'.run.state, hasRequest |-> api'.run.hasRequest]
         /\ Run!IsFinal(api.run.state) => Run!IsFinal(api'.run.state)
<1> DEFINE kind == requests[i].kind
           Same == UNCHANGED api
           Cancel == api' = [api EXCEPT !.run.state =
                               IF Run!IsFinal(@) THEN @ ELSE "CANCELED"]
           Delete == api' = [api EXCEPT !.deleted = TRUE]
<1>1. \E answer : Run!Answer(i, answer) /\ (kind = "run" => answer = api.run)
  BY DEF Run!Served
<1>2. Same \/ Cancel \/ Delete BY DEF Run!Served
<1>3. CASE Same BY <1>1, <1>3 DEF RunFields
<1>4. CASE Cancel
  <2> DEFINE new == IF Run!IsFinal(api.run.state) THEN api.run.state ELSE "CANCELED"
  <2>1. api' = [run |-> [state |-> new, hasRequest |-> api.run.hasRequest],
                commands |-> api.commands, deleted |-> api.deleted]
    BY <1>4 DEF RunFields
  <2>2. Run!IsFinal(new) BY DEF Run!IsFinal
  <2> HIDE DEF new
  <2> QED BY <1>1, <2>1, <2>2
<1>5. CASE Delete
  <2>1. api' = [run |-> api.run, commands |-> api.commands, deleted |-> TRUE]
    BY <1>5 DEF RunFields
  <2> QED BY <1>1, <2>1 DEF RunFields
<1> QED BY <1>2, <1>3, <1>4, <1>5

LEMMA RunServeStep ==
  ASSUME RunIInv, NEW i \in DOMAIN requests, Run!Serve(i)
  PROVE  RunIInv'
<1>1. Run!Served(i) /\ UNCHANGED page BY DEF Run!Serve
<1>2. /\ \E answer : Run!Answer(i, answer)
                       /\ (requests[i].kind = "run" => answer = api.run)
      /\ api' = [run |-> api'.run, commands |-> api'.commands, deleted |-> api'.deleted]
      /\ api'.run = [state |-> api'.run.state, hasRequest |-> api'.run.hasRequest]
      /\ Run!IsFinal(api.run.state) => Run!IsFinal(api'.run.state)
  BY <1>1, RunServed DEF RunIInv
<1>3. PICK answer : Run!Answer(i, answer) /\ (requests[i].kind = "run" => answer = api.run)
  BY <1>2
<1>4. /\ AreCalls(requests') /\ DOMAIN requests' = DOMAIN requests
      /\ requests'[i].kind = requests[i].kind /\ requests'[i].answer = answer
      /\ \A j \in DOMAIN requests \ {i} : requests'[j] = requests[j]
  <2>1. AreCalls(requests) /\ Run!Answer(i, answer) BY <1>3 DEF RunIInv
  <2>2. /\ AreCalls(requests') /\ DOMAIN requests' = DOMAIN requests
        /\ requests'[i] = [kind |-> requests[i].kind, arg |-> requests[i].arg,
                           status |-> "ok", answer |-> answer]
        /\ \A j \in DOMAIN requests \ {i} : requests'[j] = requests[j]
    BY <2>1, RunAnswerFacts
  <2> QED BY <2>2
<1>5. RunFields' BY <1>1, <1>2 DEF RunIInv, RunFields
<1>6. AnswersLast'
  <2> SUFFICES ASSUME NEW j \in DOMAIN requests, requests'[j].kind = "run",
                      requests'[j].status = "ok", Run!IsFinal(requests'[j].answer.state)
               PROVE  Run!IsFinal(api'.run.state)
    BY <1>4 DEF AnswersLast
  <2>1. CASE j = i BY <2>1, <1>2, <1>3, <1>4
  <2>2. CASE j # i BY <2>2, <1>2, <1>4 DEF RunIInv, AnswersLast
  <2> QED BY <2>1, <2>2
<1>7. Run!UpdatesUntilFinal' BY <1>1, <1>2 DEF RunIInv, Run!UpdatesUntilFinal
<1> QED BY <1>4, <1>5, <1>6, <1>7 DEF RunIInv

LEMMA RunFailStep ==
  ASSUME RunIInv, NEW i \in DOMAIN requests, Run!Fail(i)
  PROVE  RunIInv'
<1>1. /\ requests' = [requests EXCEPT ![i].status = "error"]
      /\ UNCHANGED <<page, api>>
  BY DEF Run!Fail
<1>2. /\ AreCalls(requests') /\ DOMAIN requests' = DOMAIN requests
      /\ requests'[i].status = "error"
      /\ \A j \in DOMAIN requests \ {i} : requests'[j] = requests[j]
  BY <1>1, FailFacts DEF RunIInv
<1>3. RunFields' BY <1>1 DEF RunIInv, RunFields
<1>4. AnswersLast' BY <1>1, <1>2 DEF RunIInv, AnswersLast
<1>5. Run!UpdatesUntilFinal' BY <1>1 DEF RunIInv, Run!UpdatesUntilFinal
<1> QED BY <1>2, <1>3, <1>4, <1>5 DEF RunIInv

\* No load that was answered before has shown the run to be final.
LEMMA RunGoesOnStep ==
  ASSUME RunIInv, Run!RunGoesOn
  PROVE  RunIInv'
<1>1. UNCHANGED <<page, requests>> /\ ~ Run!IsFinal(api.run.state) BY DEF Run!RunGoesOn
<1>2. /\ api' = [run |-> api'.run, commands |-> api'.commands, deleted |-> api'.deleted]
      /\ api'.run = [state |-> api'.run.state, hasRequest |-> api'.run.hasRequest]
  <2>1. CASE api' = [api EXCEPT !.run = [state |-> "RUNNING", hasRequest |-> TRUE]]
    <3>1. api' = [run |-> [state |-> "RUNNING", hasRequest |-> TRUE],
                  commands |-> api.commands, deleted |-> api.deleted]
      BY <2>1 DEF RunIInv, RunFields
    <3> QED BY <3>1
  <2>2. ASSUME NEW c, NEW st,
               api' = [api EXCEPT !.commands[c] = "COMPLETED", !.run.state = st]
        PROVE  /\ api' = [run |-> api'.run, commands |-> api'.commands,
                          deleted |-> api'.deleted]
               /\ api'.run = [state |-> api'.run.state, hasRequest |-> api'.run.hasRequest]
    <3>1. api' = [run |-> [state |-> st, hasRequest |-> api.run.hasRequest],
                  commands |-> [api.commands EXCEPT ![c] = "COMPLETED"],
                  deleted |-> api.deleted]
      BY <2>2 DEF RunIInv, RunFields
    <3> QED BY <3>1
  <2>3. \/ api' = [api EXCEPT !.run = [state |-> "RUNNING", hasRequest |-> TRUE]]
        \/ \E c, st : api' = [api EXCEPT !.commands[c] = "COMPLETED", !.run.state = st]
    BY DEF Run!RunGoesOn
  <2> QED BY <2>1, <2>2, <2>3
<1>3. RunFields' BY <1>1, <1>2 DEF RunIInv, RunFields
<1>4. AreCalls(requests)' BY <1>1 DEF RunIInv
<1>5. AnswersLast' BY <1>1 DEF RunIInv, AnswersLast
<1>6. Run!UpdatesUntilFinal' BY <1>1 DEF RunIInv, Run!UpdatesUntilFinal
<1> QED BY <1>3, <1>4, <1>5, <1>6 DEF RunIInv

-----------------------------------------------------------------------------
(* The page.                                                               *)

LEMMA RunInit ==
  ASSUME Run!Init
  PROVE  RunIInv
<1> DEFINE fresh ==
      [run |-> Run!NoRun, hasRequest |-> FALSE, autoUpdate |-> TRUE, isLoading |-> TRUE,
       hasActions |-> FALSE, asks |-> "nothing", stats |-> <<>>, nodes |-> <<>>,
       isOpen |-> TRUE]
           r == Run!Request("run", [id |-> "run"])
<1>1. page = fresh /\ requests = Append(<<>>, r) BY DEF Run!Init, Run!LoadTestRun, Run!Send
<1>2. /\ api.run = [state |-> "QUEUED", hasRequest |-> FALSE]
      /\ api = [run |-> api.run, commands |-> api.commands, deleted |-> api.deleted]
  BY DEF Run!Init
<1>3. IsCall(r) /\ r.status = "sent" BY DEF Run!Request, IsCall
<1>4. page.autoUpdate = TRUE /\ "autoUpdate" \in DOMAIN page BY <1>1
<1> HIDE DEF r, fresh
<1>5. IsSeq(<<>>)
  <2>1. <<>> \in Seq({}) OBVIOUS
  <2> QED BY <2>1 DEF IsSeq
<1>6. IsSeq(requests) /\ \A i \in DOMAIN requests : requests[i] = r
  <2>1. DOMAIN <<>> = {} /\ Len(<<>>) + 1 = 1 OBVIOUS
  <2>2. /\ IsSeq(Append(<<>>, r))
        /\ DOMAIN Append(<<>>, r) = DOMAIN <<>> \cup {Len(<<>>) + 1}
        /\ Append(<<>>, r)[Len(<<>>) + 1] = r
    BY <1>5, AppendCall
  <2> QED BY <1>1, <2>1, <2>2
<1>7. AreCalls(requests) /\ AnswersLast BY <1>3, <1>6 DEF AreCalls, AnswersLast
<1>8. RunFields BY <1>2, <1>4 DEF RunFields
<1>9. Run!UpdatesUntilFinal BY <1>4 DEF Run!UpdatesUntilFinal
<1> QED BY <1>7, <1>8, <1>9 DEF RunIInv

LEMMA RunNext ==
  ASSUME RunIInv, [Run!Next]_vars
  PROVE  RunIInv'
<1>1. CASE UNCHANGED vars
  BY <1>1 DEF vars, RunIInv, RunFields, AnswersLast, Run!UpdatesUntilFinal
<1>2. ASSUME NEW i \in DOMAIN requests, Run!RunArrives(i) PROVE RunIInv'
  BY <1>2, RunArrivesStep
<1>3. ASSUME NEW i \in DOMAIN requests, Run!RequestArrives(i) PROVE RunIInv'
  BY <1>3, RequestArrivesStep
<1>4. ASSUME NEW i \in DOMAIN requests, Run!ActionsArrive(i) PROVE RunIInv'
  BY <1>4, ActionsArriveStep
<1>5. ASSUME NEW i \in DOMAIN requests, Run!StatsArrive(i) PROVE RunIInv'
  BY <1>5, StatsArriveStep
<1>6. ASSUME Run!AutoUpdate PROVE RunIInv' BY <1>6, AutoUpdateStep
<1>7. ASSUME NEW st, Run!ExpandStatNode(st) PROVE RunIInv' BY <1>7, ExpandStatNodeStep
<1>8. ASSUME NEW st, Run!LoadMoreCommands(st) PROVE RunIInv' BY <1>8, LoadMoreCommandsStep
<1>9. ASSUME NEW i \in DOMAIN requests, Run!CommandsArrive(i) PROVE RunIInv'
  BY <1>9, CommandsArriveStep
<1>10. ASSUME NEW st, NEW c, Run!ExpandCommandNode(st, c) PROVE RunIInv'
  BY <1>10, ExpandCommandNodeStep
<1>11. ASSUME NEW i \in DOMAIN requests, Run!AttemptsArrive(i) PROVE RunIInv'
  BY <1>11, AttemptsArriveStep
<1>12. ASSUME Run!Ask PROVE RunIInv' BY <1>12, AskStep
<1>13. ASSUME NEW b, Run!AnswerDialog(b) PROVE RunIInv' BY <1>13, AnswerDialogStep
<1>14. ASSUME NEW i \in DOMAIN requests, Run!Done(i) PROVE RunIInv' BY <1>14, DoneStep
<1>15. ASSUME NEW i \in DOMAIN requests, Run!Serve(i) PROVE RunIInv' BY <1>15, RunServeStep
<1>16. ASSUME NEW i \in DOMAIN requests, Run!Fail(i) PROVE RunIInv' BY <1>16, RunFailStep
<1>17. ASSUME Run!RunGoesOn PROVE RunIInv' BY <1>17, RunGoesOnStep
<1> QED
  BY <1>1, <1>2, <1>3, <1>4, <1>5, <1>6, <1>7, <1>8, <1>9, <1>10, <1>11, <1>12,
     <1>13, <1>14, <1>15, <1>16, <1>17 DEF Run!Next

-----------------------------------------------------------------------------
(* An uploaded file has no gap, for any files and chunk sizes.             *)

LEMMA FilesAnswerFacts ==
  ASSUME AreCalls(requests), NEW i \in DOMAIN requests, NEW answer, LocalFiles!Answer(i, answer)
  PROVE  /\ AreCalls(requests') /\ DOMAIN requests' = DOMAIN requests
         /\ requests'[i] = [kind |-> requests[i].kind, arg |-> requests[i].arg,
                            status |-> "ok", answer |-> answer]
         /\ \A j \in DOMAIN requests \ {i} : requests'[j] = requests[j]
BY AnswerFacts DEF LocalFiles!Answer, Answer

Puts == {"chunk", "abandoned", "dropped"}

\* A chunk is a part of its file, for a path of the file's name.
IsChunk(r) ==
  r.kind \in Puts =>
    /\ r.arg.file \in LocalFilesPage.Files /\ NameOfFile(r.arg.file) = r.arg.path[2]
    /\ r.arg.from \in Nat /\ r.arg.to \in Nat
    /\ r.arg.from <= r.arg.to /\ r.arg.to <= SizeOfFile(r.arg.file)

\* Every byte is where an upload had it.
InPlace(content) ==
  IsSeq(content) /\ \A k \in DOMAIN content : content[k] = k

IsBegun(r) == r.status \in {"checked", "open", "astray", "written"}

\* A chunk the server has begun is put where the file ends, and after it is written the
\* file ends with it, if no other was under way for the path at once.
FitsFile(r) ==
  /\ r.kind \in Puts
  /\ r.arg.path \notin api.overlapped =>
       /\ r.status # "astray" /\ r.arg.path \in DOMAIN api.temporary
       /\ Len(api.temporary[r.arg.path]) =
            IF r.status = "written" THEN r.arg.to ELSE r.arg.from
       /\ r.status = "written" => r.arg.to = SizeOfFile(r.arg.file)

IsOnlyOne(q, i) ==
  \A j \in DOMAIN q : IsBegun(q[j]) /\ q[j].arg.path = q[i].arg.path => j = i

UploadsFit(q) ==
  \A i \in DOMAIN q : IsBegun(q[i]) =>
    FitsFile(q[i]) /\ (q[i].arg.path \notin api.overlapped => IsOnlyOne(q, i))

\* The calls and the size of a chunk, in the page or in a handler.
Sound(s) ==
  /\ IsState(s) /\ AreCalls(s.requests)
  /\ \A i \in DOMAIN s.requests : IsChunk(s.requests[i])
  /\ "chunkSize" \in DOMAIN s.browser /\ s.browser.chunkSize \in Nat
  /\ UploadsFit(s.requests)

FilesStored ==
  /\ api = [store |-> api.store, temporary |-> api.temporary, overlapped |-> api.overlapped]
  /\ \A p \in DOMAIN api.temporary \ api.overlapped : InPlace(api.temporary[p])

FilesIInv == Sound(LocalFiles!State) /\ FilesStored /\ LocalFiles!FileHasNoGap

-----------------------------------------------------------------------------
(* The handlers of the page.                                               *)

\* Calls that are each one that was there, turned round or not, or one that is new.
LEMMA UploadsKept ==
  ASSUME NEW q, UploadsFit(q), NEW r, NEW f,
         \A i \in DOMAIN r : IsBegun(r[i]) =>
           /\ f[i] \in DOMAIN q /\ r[i].kind \in Puts
           /\ r[i].status = q[f[i]].status /\ r[i].arg = q[f[i]].arg,
         \A i, j \in DOMAIN r : IsBegun(r[i]) /\ IsBegun(r[j]) /\ f[i] = f[j] => i = j
  PROVE  UploadsFit(r)
<1> SUFFICES ASSUME NEW i \in DOMAIN r, IsBegun(r[i])
             PROVE  /\ FitsFile(r[i])
                    /\ r[i].arg.path \notin api.overlapped => IsOnlyOne(r, i)
  BY DEF UploadsFit
<1>1. /\ f[i] \in DOMAIN q /\ r[i].kind \in Puts /\ IsBegun(q[f[i]])
      /\ r[i].status = q[f[i]].status /\ r[i].arg = q[f[i]].arg
  BY DEF IsBegun
<1>2. FitsFile(q[f[i]]) BY <1>1 DEF UploadsFit
<1>3. FitsFile(r[i]) BY <1>1, <1>2 DEF FitsFile
<1>4. ASSUME r[i].arg.path \notin api.overlapped PROVE IsOnlyOne(r, i)
  <2> SUFFICES ASSUME NEW j \in DOMAIN r, IsBegun(r[j]), r[j].arg.path = r[i].arg.path
               PROVE  j = i
    BY DEF IsOnlyOne
  <2>1. f[j] \in DOMAIN q /\ IsBegun(q[f[j]]) /\ q[f[j]].arg.path = q[f[i]].arg.path
    BY <1>1 DEF IsBegun
  <2>2. IsOnlyOne(q, f[i]) BY <1>1, <1>4 DEF UploadsFit
  <2>3. f[j] = f[i] BY <2>1, <2>2 DEF IsOnlyOne
  <2> QED BY <2>3
<1> QED BY <1>3, <1>4

LEMMA SoundStart ==
  ASSUME FilesIInv
  PROVE  /\ Sound(LocalFiles!State) /\ AreCalls(requests)
         /\ \A i \in DOMAIN requests : IsChunk(requests[i]) /\ Sound(LocalFiles!Heard(i))
<1>1. LocalFiles!State = [page |-> page, browser |-> browser, requests |-> requests] BY DEF LocalFiles!State
<1>2. /\ AreCalls(requests) /\ \A i \in DOMAIN requests : IsChunk(requests[i])
      /\ "chunkSize" \in DOMAIN browser /\ browser.chunkSize \in Nat
      /\ UploadsFit(requests)
  BY <1>1 DEF FilesIInv, Sound
<1>3. ASSUME NEW i \in DOMAIN requests
      PROVE  Sound(LocalFiles!Heard(i))
  <2> DEFINE left == RemoveAt(requests, i)
  <2>0. left = LocalFiles!RemoveAt(requests, i) BY DEF RemoveAt, LocalFiles!RemoveAt
  <2>1. LocalFiles!Heard(i) = [page |-> page, browser |-> browser, requests |-> left]
    <3> HIDE DEF left
    <3> QED BY <1>1, <2>0 DEF LocalFiles!Heard
  <2>2. /\ IsSeq(RemoveAt(requests, i))
        /\ \A k \in DOMAIN RemoveAt(requests, i) :
             \E j \in DOMAIN requests : RemoveAt(requests, i)[k] = requests[j]
    BY <1>2, RemoveCall DEF AreCalls
  <2>3. /\ AreCalls(RemoveAt(requests, i))
        /\ \A k \in DOMAIN RemoveAt(requests, i) : IsChunk(RemoveAt(requests, i)[k])
    BY <1>2, <2>2 DEF AreCalls
  <2>4. UploadsFit(left)
    <3>1. /\ DOMAIN requests = 1 .. Len(requests) /\ Len(requests) \in Nat
          /\ DOMAIN left = 1 .. Len(requests) - 1
          /\ \A k \in 1 .. Len(requests) - 1 :
               left[k] = IF k < i THEN requests[k] ELSE requests[k + 1]
      BY <1>2, RemovedPlaces DEF AreCalls
    <3> HIDE DEF left
    <3>2. PICK f : f = [k \in DOMAIN left |-> IF k < i THEN k ELSE k + 1] OBVIOUS
    <3>3. ASSUME NEW k \in DOMAIN left PROVE f[k] \in DOMAIN requests /\ left[k] = requests[f[k]]
      BY <3>1, <3>2, <3>3
    <3>4. \A j, k \in DOMAIN left : f[j] = f[k] => j = k BY <3>1, <3>2
    <3>5. ASSUME NEW k \in DOMAIN left, IsBegun(left[k]) PROVE left[k].kind \in Puts
      BY <1>2, <3>3, <3>5 DEF UploadsFit, FitsFile
    <3> QED BY <1>2, <3>3, <3>4, <3>5, UploadsKept
  <2> QED BY <1>2, <2>1, <2>3, <2>4 DEF Sound, IsState
<1> QED BY <1>1, <1>2, <1>3 DEF FilesIInv

LEMMA SoundShow ==
  ASSUME NEW s, Sound(s), NEW f, NEW v
  PROVE  Sound([s EXCEPT !.page[f] = v])
<1>1. [s EXCEPT !.page[f] = v] =
        [page |-> [s.page EXCEPT ![f] = v], browser |-> s.browser, requests |-> s.requests]
  BY ShowFacts DEF Sound
<1> QED BY <1>1 DEF Sound, IsState

LEMMA SoundFields ==
  ASSUME NEW s, Sound(s)
  PROVE  /\ \A p : Sound([s EXCEPT !.page = p])
         /\ \A v : Sound([s EXCEPT !.browser.url = v])
         /\ \A n \in Nat : Sound([s EXCEPT !.browser.chunkSize = n])
<1>1. ASSUME NEW p, NEW b, NEW r, NEW v
      PROVE  /\ [[page |-> p, browser |-> b, requests |-> r] EXCEPT !.page = v] =
                  [page |-> v, browser |-> b, requests |-> r]
             /\ [[page |-> p, browser |-> b, requests |-> r] EXCEPT !.browser.url = v] =
                  [page |-> p, browser |-> [b EXCEPT !.url = v], requests |-> r]
             /\ [[page |-> p, browser |-> b, requests |-> r] EXCEPT !.browser.chunkSize = v] =
                  [page |-> p, browser |-> [b EXCEPT !.chunkSize = v], requests |-> r]
  OBVIOUS
<1>2. ASSUME NEW p
      PROVE  Sound([s EXCEPT !.page = p])
  <2>1. [s EXCEPT !.page = p] =
          [page |-> p, browser |-> s.browser, requests |-> s.requests]
    BY <1>1 DEF Sound, IsState
  <2> QED BY <2>1 DEF Sound, IsState
<1>3. ASSUME NEW v
      PROVE  Sound([s EXCEPT !.browser.url = v])
  <2>1. [s EXCEPT !.browser.url = v] =
          [page |-> s.page, browser |-> [s.browser EXCEPT !.url = v],
           requests |-> s.requests]
    BY <1>1 DEF Sound, IsState
  <2> QED BY <2>1 DEF Sound, IsState
<1>4. ASSUME NEW n \in Nat
      PROVE  Sound([s EXCEPT !.browser.chunkSize = n])
  <2>1. [s EXCEPT !.browser.chunkSize = n] =
          [page |-> s.page, browser |-> [s.browser EXCEPT !.chunkSize = n],
           requests |-> s.requests]
    BY <1>1 DEF Sound, IsState
  <2> QED BY <2>1 DEF Sound, IsState
<1> QED BY <1>2, <1>3, <1>4

LEMMA SoundSend ==
  ASSUME NEW s, Sound(s), NEW kind, NEW arg, IsChunk(LocalFiles!Request(kind, arg))
  PROVE  Sound(LocalFiles!Send(s, kind, arg))
<1> DEFINE r == LocalFiles!Request(kind, arg)
           new == Append(s.requests, r)
<1>1. LocalFiles!Send(s, kind, arg) =
        [page |-> s.page, browser |-> s.browser, requests |-> new]
  <2>1. IsState(s) BY DEF Sound
  <2> QED BY <2>1 DEF LocalFiles!Send, IsState
<1>2. IsCall(r) BY DEF LocalFiles!Request, IsCall
<1>3. /\ IsSeq(new) /\ DOMAIN new = DOMAIN s.requests \cup {Len(s.requests) + 1}
      /\ \A i \in DOMAIN s.requests : new[i] = s.requests[i]
      /\ new[Len(s.requests) + 1] = r
  BY AppendCall DEF Sound, AreCalls
<1> HIDE DEF r, new
<1>4. AreCalls(new) BY <1>2, <1>3 DEF Sound, AreCalls
<1>5. \A i \in DOMAIN new : IsChunk(new[i]) BY <1>3 DEF Sound, r
<1>6. UploadsFit(new)
  <2>1. PICK f : f = [k \in DOMAIN new |-> k] OBVIOUS
  <2>2. ~ IsBegun(r) BY DEF r, LocalFiles!Request, IsBegun
  <2>3. ASSUME NEW k \in DOMAIN new, IsBegun(new[k])
        PROVE  k \in DOMAIN s.requests /\ new[k] = s.requests[k] /\ new[k].kind \in Puts
    <3>1. k \in DOMAIN s.requests /\ new[k] = s.requests[k] BY <1>3, <2>2, <2>3
    <3> QED BY <2>3, <3>1 DEF Sound, UploadsFit, FitsFile
  <2>4. UploadsFit(s.requests) BY DEF Sound
  <2> QED BY <2>1, <2>3, <2>4, UploadsKept
<1> QED BY <1>1, <1>4, <1>5, <1>6 DEF Sound, IsState

LEMMA SoundList ==
  ASSUME NEW s, Sound(s)
  PROVE  /\ Sound(LocalFiles!LoadFiles(s))
         /\ \A directory : Sound(LocalFiles!ChangeDirectoryTo(s, directory))
         /\ \A path : Sound(LocalFiles!Select(s, path))
         /\ Sound(LocalFiles!Ends(s))
<1>1. ASSUME NEW t, Sound(t)
      PROVE  Sound(LocalFiles!LoadFiles(t))
  <2> DEFINE u == [t EXCEPT !.page.isLoading = TRUE]
             arg == [directory |-> u.page.directory]
  <2>1. Sound(u) BY <1>1, SoundShow
  <2>2. LocalFiles!LoadFiles(t) = LocalFiles!Send(u, "list", [directory |-> t.page.directory])
    BY DEF LocalFiles!LoadFiles
  <2>3. IsChunk(LocalFiles!Request("list", [directory |-> t.page.directory]))
    BY DEF IsChunk, Puts, LocalFiles!Request
  <2> HIDE DEF u
  <2> QED BY <2>1, <2>2, <2>3, SoundSend
<1>2. ASSUME NEW directory
      PROVE  Sound(LocalFiles!ChangeDirectoryTo(s, directory))
  BY <1>1, SoundShow DEF LocalFiles!ChangeDirectoryTo
<1>3. ASSUME NEW path
      PROVE  Sound(LocalFiles!Select(s, path))
  <2> DEFINE t == [s EXCEPT !.page.selected = path]
  <2>1. Sound(t) BY SoundShow
  <2>2. LocalFiles!Select(s, path) = [t EXCEPT !.browser.url = path] BY DEF LocalFiles!Select
  <2> HIDE DEF t
  <2> QED BY <2>1, <2>2, SoundFields
<1>4. Sound(LocalFiles!Ends(s))
  <2> DEFINE t == [s EXCEPT !.page.isUploading = FALSE]
  <2>1. Sound(t) BY SoundShow
  <2>2. LocalFiles!Ends(s) = [t EXCEPT !.page.progress = 0] BY DEF LocalFiles!Ends
  <2> HIDE DEF t
  <2> QED BY <2>1, <2>2, SoundShow
<1> QED BY <1>1, <1>2, <1>3, <1>4

LEMMA SoundTurn ==
  ASSUME NEW s, Sound(s), NEW kind, NEW new,
         \/ kind = "chunk" /\ new \in {"abandoned", "dropped"}
         \/ kind = "list" /\ new = "unheard"
  PROVE  Sound(LocalFiles!Turn(s, kind, new))
<1> DEFINE q == s.requests
           Turned(r) == IF r.kind = kind THEN [r EXCEPT !.kind = new] ELSE r
           t == [i \in DOMAIN q |-> Turned(q[i])]
<1>1. LocalFiles!Turn(s, kind, new) = [page |-> s.page, browser |-> s.browser, requests |-> t]
  <2>1. ASSUME NEW p, NEW b, NEW r, NEW v
        PROVE  [[page |-> p, browser |-> b, requests |-> r] EXCEPT !.requests = v] =
                 [page |-> p, browser |-> b, requests |-> v]
    OBVIOUS
  <2>2. LocalFiles!Turn(s, kind, new) = [s EXCEPT !.requests = t] BY DEF LocalFiles!Turn
  <2> HIDE DEF t
  <2> QED BY <2>1, <2>2 DEF Sound, IsState
<1>2. ASSUME NEW r, IsCall(r), IsChunk(r)
      PROVE  /\ IsCall(Turned(r)) /\ IsChunk(Turned(r))
             /\ Turned(r).status = r.status /\ Turned(r).arg = r.arg
             /\ r.kind \in Puts => Turned(r).kind \in Puts
  <2>1. CASE r.kind = kind
    <3>1. Turned(r) = [kind |-> new, arg |-> r.arg, status |-> r.status,
                       answer |-> r.answer]
      <4>1. Turned(r) = [r EXCEPT !.kind = new] BY <2>1
      <4>2. ASSUME NEW k, NEW a, NEW u, NEW w
            PROVE  [[kind |-> k, arg |-> a, status |-> u, answer |-> w] EXCEPT !.kind = new] =
                     [kind |-> new, arg |-> a, status |-> u, answer |-> w]
        OBVIOUS
      <4> HIDE DEF Turned
      <4> QED BY <1>2, <4>1, <4>2 DEF IsCall
    <3> HIDE DEF Turned
    <3> QED BY <1>2, <2>1, <3>1 DEF IsCall, IsChunk, Puts
  <2>2. CASE r.kind # kind BY <1>2, <2>2
  <2> QED BY <2>1, <2>2
<1>3. AreCalls(q) /\ \A i \in DOMAIN q : IsCall(q[i]) /\ IsChunk(q[i])
  BY DEF Sound, AreCalls
<1>4. PICK S : q \in Seq(S) BY <1>3 DEF AreCalls, IsSeq
<1> HIDE DEF q, Turned
<1>5. t \in Seq({Turned(r) : r \in S}) BY <1>4
<1>6. AreCalls(t) /\ \A i \in DOMAIN t : IsChunk(t[i])
  BY <1>2, <1>3, <1>5 DEF AreCalls, IsSeq
<1>7. UploadsFit(t)
  <2>1. PICK f : f = [k \in DOMAIN t |-> k] OBVIOUS
  <2>2. DOMAIN t = DOMAIN q /\ \A k \in DOMAIN t : t[k] = Turned(q[k]) OBVIOUS
  <2>3. UploadsFit(q) BY DEF Sound, q
  <2> HIDE DEF t
  <2>4. ASSUME NEW k \in DOMAIN t, IsBegun(t[k])
        PROVE  /\ k \in DOMAIN q /\ t[k].kind \in Puts
               /\ t[k].status = q[k].status /\ t[k].arg = q[k].arg
    <3>1. /\ k \in DOMAIN q /\ t[k].status = q[k].status /\ t[k].arg = q[k].arg
          /\ q[k].kind \in Puts => t[k].kind \in Puts
      BY <1>2, <1>3, <2>2, <2>4
    <3>2. q[k].kind \in Puts BY <2>3, <2>4, <3>1 DEF UploadsFit, FitsFile, IsBegun
    <3> QED BY <3>1, <3>2
  <2> QED BY <2>1, <2>3, <2>4, UploadsKept
<1> HIDE DEF t
<1> QED BY <1>1, <1>6, <1>7 DEF Sound, IsState

LEMMA SoundReadChunk ==
  ASSUME LocalFiles!FileStoreAssumption, NEW s, Sound(s), NEW file \in LocalFilesPage.Files, NEW path,
         NameOfFile(file) = path[2], NEW from \in Nat, from <= SizeOfFile(file)
  PROVE  Sound(LocalFiles!ReadChunk(s, path, file, from))
<1> DEFINE to == IF from + s.browser.chunkSize < SizeOfFile(file)
                 THEN from + s.browser.chunkSize ELSE SizeOfFile(file)
           arg == [path |-> path, file |-> file, from |-> from, to |-> to]
<1>1. to \in Nat /\ from <= to /\ to <= SizeOfFile(file)
  BY DEF LocalFiles!FileStoreAssumption, Sound
<1>2. LocalFiles!ReadChunk(s, path, file, from) = LocalFiles!Send(s, "chunk", arg) BY DEF LocalFiles!ReadChunk
<1> HIDE DEF to
<1>3. IsChunk(LocalFiles!Request("chunk", arg)) BY <1>1 DEF IsChunk, LocalFiles!Request
<1> HIDE DEF arg
<1> QED BY <1>2, <1>3, SoundSend

LEMMA SoundStep ==
  ASSUME FilesIInv, UNCHANGED api, NEW s, Sound(s), LocalFiles!Becomes(s)
  PROVE  FilesIInv'
<1>1. LocalFiles!State' = s BY DEF LocalFiles!State, LocalFiles!Becomes, Sound, IsState
<1>2. Sound(LocalFiles!State)'
  BY <1>1 DEF Sound, UploadsFit, FitsFile
<1>3. FilesStored' BY DEF FilesIInv, FilesStored
<1>4. LocalFiles!FileHasNoGap' BY DEF FilesIInv, LocalFiles!FileHasNoGap
<1> QED BY <1>2, <1>3, <1>4 DEF FilesIInv

-----------------------------------------------------------------------------
(* The steps of the page.                                                  *)

LEMMA FilesArriveStep ==
  ASSUME FilesIInv, NEW i \in DOMAIN requests, LocalFiles!FilesArrive(i)
  PROVE  FilesIInv'
<1> DEFINE h == LocalFiles!Heard(i)
           s == [h EXCEPT !.page.isLoading = FALSE]
           t(files) == [s EXCEPT !.page.files = files]
<1>1. Sound(h) BY SoundStart
<1>2. /\ UNCHANGED api
      /\ \/ \E files, path : LocalFiles!Becomes(LocalFiles!Select(t(files), path))
         \/ LocalFiles!Becomes(s) \/ LocalFiles!Becomes(h)
  BY DEF LocalFiles!FilesArrive, LocalFiles!Hears
<1> HIDE DEF h
<1>3. Sound(s) BY <1>1, SoundShow
<1> HIDE DEF s
<1>4. \A files : Sound(t(files)) BY <1>3, SoundShow
<1> HIDE DEF t
<1> QED BY <1>1, <1>2, <1>3, <1>4, SoundList, SoundStep

LEMMA ListSteps ==
  ASSUME FilesIInv,
         \/ \E d : LocalFiles!ChangeDirectory(d)
         \/ \E path : LocalFiles!SelectFile(path)
         \/ LocalFiles!Reopen
  PROVE  FilesIInv'
<1>1. Sound(LocalFiles!State) BY SoundStart
<1>2. CASE \E d : LocalFiles!ChangeDirectory(d)
  BY <1>1, <1>2, SoundList, SoundStep DEF LocalFiles!ChangeDirectory
<1>3. CASE \E path : LocalFiles!SelectFile(path)
  BY <1>1, <1>3, SoundList, SoundStep DEF LocalFiles!SelectFile
<1>4. CASE LocalFiles!Reopen
  <2> DEFINE t == [LocalFiles!State EXCEPT !.page = [LocalFiles!Closed EXCEPT !.isOpen = TRUE]]
  <2>1. UNCHANGED api /\ \E d : LocalFiles!Becomes(LocalFiles!ChangeDirectoryTo(t, d))
    BY <1>4 DEF LocalFiles!Reopen, LocalFiles!Open
  <2>2. Sound(t)
    <3> DEFINE p == [LocalFiles!Closed EXCEPT !.isOpen = TRUE]
    <3> HIDE DEF p
    <3>1. Sound([LocalFiles!State EXCEPT !.page = p]) BY <1>1, SoundFields
    <3> QED BY <3>1 DEF p
  <2> HIDE DEF t
  <2> QED BY <2>1, <2>2, SoundList, SoundStep
<1> QED BY <1>2, <1>3, <1>4

LEMMA DeleteSteps ==
  ASSUME FilesIInv,
         \/ \E path : LocalFiles!DeleteFile(path)
         \/ \E b : LocalFiles!Confirm(b)
         \/ \E i \in DOMAIN requests : LocalFiles!Deleted(i)
  PROVE  FilesIInv'
<1>1. Sound(LocalFiles!State) BY SoundStart
<1>2. CASE \E path : LocalFiles!DeleteFile(path)
  <2>1. UNCHANGED api /\ \E path : LocalFiles!Becomes([LocalFiles!State EXCEPT !.page.asks = path])
    <3>1. PICK path : /\ page' = [page EXCEPT !.asks = path]
                      /\ UNCHANGED <<browser, requests, api>>
      BY <1>2 DEF LocalFiles!DeleteFile, LocalFiles!Shows
    <3>2. [LocalFiles!State EXCEPT !.page.asks = path] =
            [page |-> [page EXCEPT !.asks = path], browser |-> browser,
             requests |-> requests]
      BY DEF LocalFiles!State
    <3>3. LocalFiles!Becomes([LocalFiles!State EXCEPT !.page.asks = path]) BY <3>1, <3>2 DEF LocalFiles!Becomes
    <3> QED BY <3>1, <3>3
  <2> QED BY <1>1, <2>1, SoundShow, SoundStep
<1>3. CASE \E b : LocalFiles!Confirm(b)
  <2> DEFINE s == [LocalFiles!State EXCEPT !.page.asks = LocalFiles!NoPath]
             arg == [path |-> page.asks]
  <2>1. UNCHANGED api /\ (LocalFiles!Becomes(s) \/ LocalFiles!Becomes(LocalFiles!Send(s, "delete", arg)))
    BY <1>3 DEF LocalFiles!Confirm
  <2>2. Sound(s) BY <1>1, SoundShow
  <2>3. IsChunk(LocalFiles!Request("delete", arg)) BY DEF IsChunk, Puts, LocalFiles!Request
  <2> HIDE DEF s, arg
  <2> QED BY <2>1, <2>2, <2>3, SoundSend, SoundStep
<1>4. ASSUME NEW i \in DOMAIN requests, LocalFiles!Deleted(i) PROVE FilesIInv'
  <2>1. /\ UNCHANGED api
        /\ LocalFiles!Becomes(LocalFiles!LoadFiles(LocalFiles!Heard(i))) \/ LocalFiles!Becomes(LocalFiles!Heard(i))
    BY <1>4 DEF LocalFiles!Deleted, LocalFiles!Hears
  <2>2. Sound(LocalFiles!Heard(i)) BY SoundStart
  <2> QED BY <2>1, <2>2, SoundList, SoundStep
<1> QED BY <1>2, <1>3, <1>4

LEMMA UploadSteps ==
  ASSUME LocalFiles!FileStoreAssumption, FilesIInv,
         \/ \E file \in LocalFilesPage.Files : LocalFiles!UploadFile(file)
         \/ LocalFiles!Cancel
         \/ LocalFiles!Leave
         \/ \E i : LocalFiles!ConnectionLost(i)
  PROVE  FilesIInv'
<1>1. Sound(LocalFiles!State) BY SoundStart
<1>2. ASSUME NEW file \in LocalFilesPage.Files, LocalFiles!UploadFile(file) PROVE FilesIInv'
  <2> DEFINE s == [LocalFiles!State EXCEPT !.page.isUploading = TRUE]
             path == LocalFiles!Path(page.directory, NameOfFile(file))
  <2>1. Sound(s) BY <1>1, SoundShow
  <2>2. path[2] = NameOfFile(file) BY DEF LocalFiles!Path
  <2>3. 0 <= SizeOfFile(file) BY DEF LocalFiles!FileStoreAssumption
  <2>4. UNCHANGED api /\ LocalFiles!Becomes(LocalFiles!ReadChunk(s, path, file, 0)) BY <1>2 DEF LocalFiles!UploadFile
  <2> HIDE DEF s, path
  <2>5. Sound(LocalFiles!ReadChunk(s, path, file, 0)) BY <2>1, <2>2, <2>3, SoundReadChunk
  <2> QED BY <2>4, <2>5, SoundStep
<1>3. Sound(LocalFiles!Abandon(LocalFiles!State)) BY <1>1, SoundTurn DEF LocalFiles!Abandon
<1>4. CASE LocalFiles!Cancel
  <2>1. UNCHANGED api /\ LocalFiles!Becomes(LocalFiles!Ends(LocalFiles!Abandon(LocalFiles!State))) BY <1>4 DEF LocalFiles!Cancel
  <2> QED BY <1>3, <2>1, SoundList, SoundStep
<1>5. CASE LocalFiles!Leave
  <2> DEFINE s == LocalFiles!Turn(LocalFiles!Abandon(LocalFiles!State), "list", "unheard")
  <2>1. Sound(s) BY <1>3, SoundTurn
  <2>2. UNCHANGED api /\ LocalFiles!Becomes([s EXCEPT !.page = LocalFiles!Closed]) BY <1>5 DEF LocalFiles!Leave
  <2> HIDE DEF s
  <2> QED BY <2>1, <2>2, SoundFields, SoundStep
<1>6. CASE \E i : LocalFiles!ConnectionLost(i)
  <2>1. Sound(LocalFiles!Turn(LocalFiles!State, "chunk", "dropped")) BY <1>1, SoundTurn
  <2>2. /\ UNCHANGED api
        /\ LocalFiles!Becomes(LocalFiles!Ends(
             LocalFiles!Turn(LocalFiles!State, "chunk", "dropped")))
    BY <1>6 DEF LocalFiles!ConnectionLost
  <2> QED BY <2>1, <2>2, SoundList, SoundStep
<1> QED BY <1>2, <1>4, <1>5, <1>6

LEMMA ChunkUploadedStep ==
  ASSUME LocalFiles!FileStoreAssumption, FilesIInv, NEW i \in DOMAIN requests,
         requests[i].kind \in {"chunk", "abandoned"}, LocalFiles!ChunkUploaded(i)
  PROVE  FilesIInv'
<1> DEFINE h == LocalFiles!Heard(i)
           arg == requests[i].arg
           adjusted == LocalFiles!AdjustChunkSize(browser.chunkSize)
           s(size) == [h EXCEPT !.page.progress = arg.to, !.browser.chunkSize = size]
           t(size) == [h EXCEPT !.browser.chunkSize = size]
<1>1. Sound(h) /\ IsChunk(requests[i]) BY SoundStart
<1>2. browser.chunkSize \in Nat BY SoundStart DEF Sound, LocalFiles!State
<1>3. \A size \in adjusted : size \in Nat
  BY <1>2 DEF LocalFiles!AdjustChunkSize, LocalFiles!FileStoreAssumption
<1>4. /\ UNCHANGED api
      /\ \/ LocalFiles!Becomes(LocalFiles!LoadFiles(LocalFiles!Ends(h)))
         \/ \E size \in adjusted :
              LocalFiles!Becomes(LocalFiles!ReadChunk(s(size), arg.path, arg.file, arg.to))
         \/ LocalFiles!Becomes(LocalFiles!Ends(h))
         \/ \E size \in {browser.chunkSize} \cup adjusted : LocalFiles!Becomes(t(size))
         \/ LocalFiles!Becomes(h)
  BY DEF LocalFiles!ChunkUploaded, LocalFiles!Hears
<1> HIDE DEF h, adjusted
<1>5. \A size \in {browser.chunkSize} \cup adjusted : Sound(t(size))
  BY <1>1, <1>2, <1>3, SoundFields
<1>6. ASSUME NEW size \in adjusted
      PROVE  Sound(LocalFiles!ReadChunk(s(size), arg.path, arg.file, arg.to))
  <2> DEFINE u == [h EXCEPT !.page.progress = arg.to]
  <2>1. Sound(u) BY <1>1, SoundShow
  <2>2. s(size) = [u EXCEPT !.browser.chunkSize = size] OBVIOUS
  <2> HIDE DEF u, s
  <2>3. Sound(s(size)) BY <1>3, <2>1, <2>2, SoundFields
  <2> QED BY <1>1, <2>3, SoundReadChunk DEF IsChunk, Puts
<1> HIDE DEF s, t, arg
<1> QED BY <1>1, <1>4, <1>5, <1>6, SoundList, SoundStep

-----------------------------------------------------------------------------
(* The steps of the file server.                                           *)

\* A call whose state alone changes is a call as before.
LEMMA SoundServed ==
  ASSUME FilesIInv, UNCHANGED <<page, browser>>, IsSeq(requests'),
         DOMAIN requests' = DOMAIN requests,
         \A j \in DOMAIN requests : \E status, answer :
           requests'[j] = [kind |-> requests[j].kind, arg |-> requests[j].arg,
                           status |-> status, answer |-> answer],
         UploadsFit(requests)'
  PROVE  Sound(LocalFiles!State)'
<1>1. /\ \A j \in DOMAIN requests : IsChunk(requests[j])
      /\ "chunkSize" \in DOMAIN browser /\ browser.chunkSize \in Nat
  BY SoundStart DEF Sound, LocalFiles!State
<1>2. ASSUME NEW j \in DOMAIN requests PROVE IsCall(requests'[j]) /\ IsChunk(requests'[j])
  <2>1. PICK status, answer :
          requests'[j] = [kind |-> requests[j].kind, arg |-> requests[j].arg,
                          status |-> status, answer |-> answer]
    OBVIOUS
  <2> QED BY <1>1, <2>1 DEF IsCall, IsChunk
<1>3. AreCalls(requests') BY <1>2 DEF AreCalls
<1>4. LocalFiles!State' = [page |-> page', browser |-> browser', requests |-> requests']
  BY DEF LocalFiles!State
<1> QED BY <1>1, <1>2, <1>3, <1>4 DEF Sound, IsState

\* One call gets another state, and the others keep theirs.
LEMMA SoundTurned ==
  ASSUME FilesIInv, NEW i \in DOMAIN requests, UNCHANGED <<page, browser>>,
         \/ \E answer : LocalFiles!Answer(i, answer)
         \/ \E status : requests' = [requests EXCEPT ![i].status = status]
  PROVE  /\ DOMAIN requests' = DOMAIN requests
         /\ requests'[i].kind = requests[i].kind /\ requests'[i].arg = requests[i].arg
         /\ \A j \in DOMAIN requests \ {i} : requests'[j] = requests[j]
         /\ \A status : requests' = [requests EXCEPT ![i].status = status]
                          => requests'[i].status = status
         /\ (\E answer : LocalFiles!Answer(i, answer)) => requests'[i].status = "ok"
         /\ UploadsFit(requests)' => Sound(LocalFiles!State)'
<1>1. AreCalls(requests) BY SoundStart
<1>2. ASSUME NEW status, NEW answer, AreCalls(requests'), DOMAIN requests' = DOMAIN requests,
             requests'[i] = [kind |-> requests[i].kind, arg |-> requests[i].arg,
                             status |-> status, answer |-> answer],
             \A j \in DOMAIN requests \ {i} : requests'[j] = requests[j]
      PROVE  UploadsFit(requests)' => Sound(LocalFiles!State)'
  <2>1. ASSUME NEW j \in DOMAIN requests
        PROVE  \E x, y : requests'[j] = [kind |-> requests[j].kind, arg |-> requests[j].arg,
                                         status |-> x, answer |-> y]
    <3>1. CASE j = i BY <1>2, <3>1
    <3>2. CASE j # i BY <1>1, <1>2, <3>2 DEF AreCalls, IsCall
    <3> QED BY <3>1, <3>2
  <2> QED BY <1>2, <2>1, SoundServed DEF AreCalls
<1>3. CASE \E answer : LocalFiles!Answer(i, answer)
  <2>1. PICK answer : LocalFiles!Answer(i, answer) BY <1>3
  <2>2. /\ AreCalls(requests') /\ DOMAIN requests' = DOMAIN requests
        /\ requests'[i] = [kind |-> requests[i].kind, arg |-> requests[i].arg,
                           status |-> "ok", answer |-> answer]
        /\ \A j \in DOMAIN requests \ {i} : requests'[j] = requests[j]
    BY <1>1, <2>1, FilesAnswerFacts
  <2>3. ASSUME NEW status, requests' = [requests EXCEPT ![i].status = status]
        PROVE  requests'[i].status = status
    <3>1. requests'[i] = [kind |-> requests[i].kind, arg |-> requests[i].arg,
                          status |-> status, answer |-> requests[i].answer]
      BY <1>1, <2>3, FailFacts
    <3> QED BY <3>1
  <2> QED BY <1>2, <2>2, <2>3
<1>4. CASE \E status : requests' = [requests EXCEPT ![i].status = status]
  <2>1. ASSUME NEW status, requests' = [requests EXCEPT ![i].status = status]
        PROVE  /\ AreCalls(requests') /\ DOMAIN requests' = DOMAIN requests
               /\ requests'[i] = [kind |-> requests[i].kind, arg |-> requests[i].arg,
                                  status |-> status, answer |-> requests[i].answer]
               /\ \A j \in DOMAIN requests \ {i} : requests'[j] = requests[j]
    BY <1>1, <2>1, FailFacts
  <2>2. PICK status : requests' = [requests EXCEPT ![i].status = status] BY <1>4
  <2>3. (\E answer : LocalFiles!Answer(i, answer)) => requests'[i].status = "ok"
    <3>1. ASSUME NEW answer, LocalFiles!Answer(i, answer) PROVE requests'[i].status = "ok"
      <4>1. requests'[i] = [kind |-> requests[i].kind, arg |-> requests[i].arg,
                            status |-> "ok", answer |-> answer]
        BY <1>1, <3>1, FilesAnswerFacts
      <4> QED BY <4>1
    <3> QED BY <3>1
  <2>4. PICK old : old = requests[i].answer OBVIOUS
  <2>5. /\ AreCalls(requests') /\ DOMAIN requests' = DOMAIN requests
        /\ requests'[i] = [kind |-> requests[i].kind, arg |-> requests[i].arg,
                           status |-> status, answer |-> old]
        /\ \A j \in DOMAIN requests \ {i} : requests'[j] = requests[j]
    BY <2>1, <2>2, <2>4
  <2>6. UploadsFit(requests)' => Sound(LocalFiles!State)' BY <1>2, <2>5
  <2>7. requests'[i].kind = requests[i].kind /\ requests'[i].arg = requests[i].arg
    BY <2>5
  <2>8. ASSUME NEW x, requests' = [requests EXCEPT ![i].status = x]
        PROVE  requests'[i].status = x
    <3>1. requests'[i] = [kind |-> requests[i].kind, arg |-> requests[i].arg,
                          status |-> x, answer |-> requests[i].answer]
      BY <2>1, <2>8
    <3> QED BY <3>1
  <2> QED BY <2>3, <2>5, <2>6, <2>7, <2>8
<1> QED BY <1>3, <1>4

\* A call that is done, or is no chunk, leaves the chunks the server has begun.
LEMMA UploadsStay ==
  ASSUME FilesIInv, DOMAIN requests' = DOMAIN requests, NEW i \in DOMAIN requests,
         ~ IsBegun(requests'[i]),
         \A j \in DOMAIN requests \ {i} : requests'[j] = requests[j],
         api'.temporary = api.temporary, api'.overlapped = api.overlapped
  PROVE  UploadsFit(requests)'
<1>1. UploadsFit(requests) BY SoundStart DEF Sound, LocalFiles!State
<1> SUFFICES ASSUME NEW k \in DOMAIN requests, IsBegun(requests'[k])
             PROVE  /\ FitsFile(requests[k])'
                    /\ requests'[k].arg.path \notin api'.overlapped => IsOnlyOne(requests, k)'
  BY DEF UploadsFit
<1>2. requests'[k] = requests[k] /\ IsBegun(requests[k]) BY DEF IsBegun
<1>3. FitsFile(requests[k])' BY <1>1, <1>2 DEF UploadsFit, FitsFile
<1>4. ASSUME requests'[k].arg.path \notin api'.overlapped PROVE IsOnlyOne(requests, k)'
  <2>1. IsOnlyOne(requests, k) BY <1>1, <1>2, <1>4 DEF UploadsFit
  <2>2. \A j \in DOMAIN requests : IsBegun(requests'[j]) => requests'[j] = requests[j]
    OBVIOUS
  <2> QED BY <1>2, <2>1, <2>2 DEF IsOnlyOne
<1> QED BY <1>3, <1>4

\* A chunk that goes on leaves the files of other paths as they are.
LEMMA UploadGoesOn ==
  ASSUME FilesIInv, DOMAIN requests' = DOMAIN requests, NEW i \in DOMAIN requests,
         NEW path, path = requests[i].arg.path, requests'[i].arg = requests[i].arg,
         \A j \in DOMAIN requests \ {i} : requests'[j] = requests[j],
         api.overlapped \subseteq api'.overlapped,
         \A p : p # path /\ p \in DOMAIN api.temporary =>
           p \in DOMAIN api'.temporary /\ api'.temporary[p] = api.temporary[p],
         path \notin api'.overlapped =>
           \A j \in DOMAIN requests \ {i} :
             ~ (IsBegun(requests[j]) /\ requests[j].arg.path = path),
         IsBegun(requests'[i]) => FitsFile(requests[i])'
  PROVE  UploadsFit(requests)'
<1>1. UploadsFit(requests) BY SoundStart DEF Sound, LocalFiles!State
<1> SUFFICES ASSUME NEW k \in DOMAIN requests, IsBegun(requests'[k])
             PROVE  /\ FitsFile(requests[k])'
                    /\ requests'[k].arg.path \notin api'.overlapped => IsOnlyOne(requests, k)'
  BY DEF UploadsFit
<1>2. CASE k = i
  <2>1. FitsFile(requests[k])' BY <1>2
  <2>2. requests'[k].arg.path \notin api'.overlapped => IsOnlyOne(requests, k)'
    BY <1>2 DEF IsOnlyOne
  <2> QED BY <2>1, <2>2
<1>3. CASE k # i
  <2>1. requests'[k] = requests[k] /\ IsBegun(requests[k]) BY <1>3
  <2>2. FitsFile(requests[k]) BY <1>1, <2>1 DEF UploadsFit
  <2>3. ASSUME requests[k].arg.path \notin api'.overlapped
        PROVE  requests[k].arg.path # path /\ IsOnlyOne(requests, k)
    BY <1>1, <1>3, <2>1, <2>3 DEF UploadsFit
  <2>4. FitsFile(requests[k])' BY <2>1, <2>2, <2>3 DEF FitsFile
  <2>5. ASSUME requests'[k].arg.path \notin api'.overlapped PROVE IsOnlyOne(requests, k)'
    BY <2>1, <2>3, <2>5 DEF IsOnlyOne
  <2> QED BY <2>4, <2>5
<1> QED BY <1>2, <1>3

\* Chunks of a path that are under way at once are recorded.
LEMMA OverlappedFacts ==
  ASSUME NEW path, NEW o, o = LocalFiles!Overlapped(path)
  PROVE  /\ api.overlapped \subseteq o /\ o \subseteq api.overlapped \cup {path}
         /\ path \notin o => \A j \in DOMAIN requests :
              ~ (IsBegun(requests[j]) /\ requests[j].arg.path = path)
BY DEF LocalFiles!Overlapped, LocalFiles!IsUnderWay, IsBegun

\* What is appended where the file ends is in its place.
LEMMA ConcatInPlace ==
  ASSUME NEW s, InPlace(s), NEW t, IsSeq(t), NEW m \in Nat, NEW n \in Nat,
         Len(s) = m, Len(t) = n, \A k \in 1 .. n : t[k] = m + k
  PROVE  InPlace(s \o t) /\ Len(s \o t) = m + n
<1> DEFINE all == s \o t
<1>1. PICK S : s \in Seq(S) /\ t \in Seq(S)
  <2>1. PICK S1 : s \in Seq(S1) BY DEF InPlace, IsSeq
  <2>2. PICK S2 : t \in Seq(S2) BY DEF IsSeq
  <2>3. s \in Seq(S1 \cup S2) /\ t \in Seq(S1 \cup S2) BY <2>1, <2>2
  <2> QED BY <2>3
<1>2. all \in Seq(S) /\ Len(all) = m + n
  <2>1. ASSUME NEW q \in Seq(S), NEW r \in Seq(S)
        PROVE  q \o r \in Seq(S) /\ Len(q \o r) = Len(q) + Len(r)
    OBVIOUS
  <2>2. all \in Seq(S) /\ Len(all) = Len(s) + Len(t) BY <1>1, <2>1
  <2> HIDE DEF all
  <2> QED BY <2>2
<1>3. IsSeq(all) /\ DOMAIN all = 1 .. m + n BY <1>2 DEF IsSeq
<1>4. ASSUME NEW k \in 1 .. m + n, k <= m PROVE all[k] = k
  <2>1. all[k] = s[k] BY <1>1, <1>4
  <2>2. k \in DOMAIN s BY <1>1, <1>4
  <2> QED BY <2>1, <2>2 DEF InPlace
<1>5. ASSUME NEW k \in 1 .. m + n, ~ k <= m PROVE all[k] = k
  <2> DEFINE j == k - m
  <2>1. j \in 1 .. n /\ m + j = k BY <1>5
  <2>2. all[m + j] = t[j]
    <3> HIDE DEF j
    <3>1. m + j \in 1 .. m + n /\ ~ (m + j <= m) /\ (m + j) - m = j BY <2>1
    <3>2. all[m + j] = t[(m + j) - m] BY <1>1, <3>1
    <3> QED BY <3>1, <3>2
  <2> HIDE DEF j, all
  <2> QED BY <2>1, <2>2
<1> HIDE DEF all
<1>6. \A k \in DOMAIN all : all[k] = k BY <1>3, <1>4, <1>5
<1>7. InPlace(all) /\ Len(all) = m + n BY <1>2, <1>3, <1>6 DEF InPlace
<1> QED BY <1>7 DEF all

\* A chunk that is appended where the file ends, all of it or what has come.
LEMMA WrittenInPlace ==
  ASSUME NEW arg, arg.from \in Nat, NEW to \in Nat, arg.from <= to,
         NEW content, InPlace(content), Len(content) = arg.from,
         NEW whole, whole = LocalFiles!Written(content, arg, to)
  PROVE  InPlace(whole) /\ Len(whole) = to
<1> DEFINE chunk == LocalFiles!Bytes(arg.from, to)
<1>1. chunk = [k \in 1 .. to - arg.from |-> arg.from + k]
  BY DEF LocalFiles!Bytes
<1>2. to - arg.from \in Nat OBVIOUS
<1>3. /\ chunk \in Seq(Nat) /\ Len(chunk) = to - arg.from
      /\ \A k \in 1 .. to - arg.from : chunk[k] = arg.from + k
  <2>1. \A k \in 1 .. to - arg.from : arg.from + k \in Nat OBVIOUS
  <2> HIDE DEF chunk
  <2> QED BY <1>1, <1>2, <2>1
<1> HIDE DEF chunk
<1>4. CASE arg.from = 0
  <2>1. whole = LocalFiles!Bytes(0, to) \o SubSeq(content, to + 1, Len(content))
    BY <1>4 DEF LocalFiles!Written
  <2>2. SubSeq(content, to + 1, Len(content)) = <<>>
    <3>1. PICK S : content \in Seq(S) BY DEF InPlace, IsSeq
    <3>2. to + 1 > Len(content) BY <1>4
    <3> QED BY <3>1, <3>2
  <2>3. chunk \o <<>> = chunk BY <1>3
  <2>4. whole = chunk BY <1>4, <2>1, <2>2, <2>3 DEF chunk
  <2> QED BY <1>3, <1>4, <2>4 DEF InPlace, IsSeq
<1>5. CASE arg.from # 0
  <2>1. whole = content \o chunk BY <1>5 DEF chunk, LocalFiles!Written
  <2>2. IsSeq(chunk) BY <1>3 DEF IsSeq
  <2> DEFINE m == arg.from
             n == to - arg.from
  <2>3. /\ m \in Nat /\ n \in Nat /\ m + n = to
        /\ Len(content) = m /\ Len(chunk) = n
        /\ \A k \in 1 .. n : chunk[k] = m + k
    BY <1>3
  <2> HIDE DEF m, n
  <2>4. InPlace(content \o chunk) /\ Len(content \o chunk) = m + n
    BY <2>2, <2>3, ConcatInPlace
  <2> QED BY <2>1, <2>3, <2>4
<1> QED BY <1>4, <1>5

LEMMA EmptyInPlace == InPlace(<<>>) /\ Len(<<>>) = 0
<1>1. <<>> \in Seq({}) OBVIOUS
<1> QED BY <1>1 DEF InPlace, IsSeq

LEMMA CheckOffsetStep ==
  ASSUME LocalFiles!FileStoreAssumption, FilesIInv, NEW i \in DOMAIN requests,
         LocalFiles!CheckOffset(i)
  PROVE  FilesIInv'
<1> DEFINE arg == requests[i].arg
           o == LocalFiles!Overlapped(arg.path)
<1>1. UNCHANGED <<page, browser>> BY DEF LocalFiles!CheckOffset, LocalFiles!Stays
<1>2. CASE UNCHANGED api /\ requests' = [requests EXCEPT ![i].status = "error"]
  <2>1. ~ IsBegun(requests'[i]) BY <1>1, <1>2, SoundTurned DEF IsBegun
  <2>2. UploadsFit(requests)' BY <1>1, <1>2, <2>1, SoundTurned, UploadsStay
  <2>3. Sound(LocalFiles!State)' BY <1>1, <1>2, <2>2, SoundTurned
  <2> QED BY <1>2, <2>3 DEF FilesIInv, FilesStored, LocalFiles!FileHasNoGap
<1>3. CASE /\ ~ LocalFiles!IsRefused(arg)
           /\ requests' = [requests EXCEPT ![i].status = "checked"]
           /\ api' = [api EXCEPT !.overlapped = o]
  <2>1. api' = [store |-> api.store, temporary |-> api.temporary, overlapped |-> o]
    BY <1>3 DEF FilesIInv, FilesStored
  <2>2. /\ api.overlapped \subseteq o
        /\ arg.path \notin o => \A j \in DOMAIN requests :
             ~ (IsBegun(requests[j]) /\ requests[j].arg.path = arg.path)
    BY OverlappedFacts
  <2> HIDE DEF o
  <2>3. /\ requests'[i].kind \in Puts /\ requests'[i].status = "checked"
        /\ requests'[i].arg = arg
    BY <1>1, <1>3, SoundTurned DEF LocalFiles!CheckOffset, LocalFiles!IsPut, Puts
  <2>4. arg.path \in DOMAIN api.temporary /\ Len(api.temporary[arg.path]) = arg.from
    BY <1>3 DEF LocalFiles!CheckOffset, LocalFiles!IsRefused
  <2>5. FitsFile(requests[i])' BY <2>1, <2>3, <2>4 DEF FitsFile
  <2> HIDE DEF arg
  <2>6. UploadsFit(requests)'
    <3>1. /\ DOMAIN requests' = DOMAIN requests
          /\ \A j \in DOMAIN requests \ {i} : requests'[j] = requests[j]
      BY <1>1, <1>3, SoundTurned
    <3> QED BY <2>1, <2>2, <2>3, <2>5, <3>1, UploadGoesOn DEF arg
  <2>7. Sound(LocalFiles!State)' BY <1>1, <1>3, <2>6, SoundTurned
  <2>8. FilesStored' /\ LocalFiles!FileHasNoGap'
    BY <2>1, <2>2 DEF FilesIInv, FilesStored, LocalFiles!FileHasNoGap
  <2> QED BY <2>7, <2>8 DEF FilesIInv
<1> QED BY <1>2, <1>3 DEF LocalFiles!CheckOffset

LEMMA OpenTemporaryStep ==
  ASSUME LocalFiles!FileStoreAssumption, FilesIInv, NEW i \in DOMAIN requests,
         LocalFiles!OpenTemporary(i)
  PROVE  FilesIInv'
<1> DEFINE arg == requests[i].arg
           path == requests[i].arg.path
           o == LocalFiles!Overlapped(path)
           emptied == LocalFiles!With(api.temporary, path, <<>>)
<1>1. UNCHANGED <<page, browser>> /\ requests' = [requests EXCEPT ![i].status = "open"]
  BY DEF LocalFiles!OpenTemporary, LocalFiles!Stays
<1>2. /\ DOMAIN requests' = DOMAIN requests
      /\ requests'[i].kind = requests[i].kind /\ requests'[i].arg = arg
      /\ requests'[i].status = "open"
      /\ \A j \in DOMAIN requests \ {i} : requests'[j] = requests[j]
      /\ UploadsFit(requests)' => Sound(LocalFiles!State)'
  BY <1>1, SoundTurned
<1>3. /\ DOMAIN emptied = DOMAIN api.temporary \cup {path} /\ emptied[path] = <<>>
      /\ \A p \in DOMAIN api.temporary : p # path => emptied[p] = api.temporary[p]
  BY DEF LocalFiles!With
<1>4. api = [store |-> api.store, temporary |-> api.temporary, overlapped |-> api.overlapped]
  BY DEF FilesIInv, FilesStored
<1> HIDE DEF emptied
<1>5. CASE /\ LocalFiles!IsPut(i) /\ arg.from = 0
           /\ api' = [api EXCEPT !.temporary = emptied, !.overlapped = o]
  <2>1. api' = [store |-> api.store, temporary |-> emptied, overlapped |-> o] BY <1>4, <1>5
  <2>2. /\ api.overlapped \subseteq o
        /\ path \notin o => \A j \in DOMAIN requests :
             ~ (IsBegun(requests[j]) /\ requests[j].arg.path = path)
    BY OverlappedFacts
  <2> HIDE DEF o
  <2>3. FitsFile(requests[i])'
    BY <1>2, <1>3, <1>5, <2>1, EmptyInPlace DEF FitsFile, LocalFiles!IsPut, Puts
  <2>4. UploadsFit(requests)' BY <1>2, <1>3, <2>1, <2>2, <2>3, UploadGoesOn
  <2>5. FilesStored'
    BY <1>3, <2>1, <2>2, EmptyInPlace DEF FilesIInv, FilesStored
  <2>6. LocalFiles!FileHasNoGap' BY <2>1, <2>2 DEF FilesIInv, LocalFiles!FileHasNoGap
  <2> QED BY <1>2, <2>4, <2>5, <2>6 DEF FilesIInv
<1>6. CASE /\ requests[i].status = "checked"
           /\ api' = IF path \in DOMAIN api.temporary THEN api
                     ELSE [api EXCEPT !.temporary = emptied]
  <2>1. /\ FitsFile(requests[i])
        /\ path \notin api.overlapped => IsOnlyOne(requests, i)
    BY <1>6, SoundStart DEF Sound, LocalFiles!State, UploadsFit, IsBegun
  <2>2. PICK temporary :
          /\ api' = [store |-> api.store, temporary |-> temporary,
                     overlapped |-> api.overlapped]
          /\ \/ temporary = api.temporary
             \/ path \in api.overlapped /\ temporary = emptied
    BY <1>4, <1>6, <2>1 DEF FitsFile
  <2>3. FitsFile(requests[i])' BY <1>2, <1>6, <2>1, <2>2 DEF FitsFile
  <2>4. UploadsFit(requests)'
    <3>1. path \notin api.overlapped => \A j \in DOMAIN requests \ {i} :
            ~ (IsBegun(requests[j]) /\ requests[j].arg.path = path)
      BY <2>1 DEF IsOnlyOne
    <3> QED BY <1>2, <1>3, <2>2, <2>3, <3>1, UploadGoesOn
  <2>5. FilesStored' BY <1>3, <2>2 DEF FilesIInv, FilesStored
  <2>6. LocalFiles!FileHasNoGap' BY <2>2 DEF FilesIInv, LocalFiles!FileHasNoGap
  <2> QED BY <1>2, <2>4, <2>5, <2>6 DEF FilesIInv
<1> QED BY <1>5, <1>6 DEF LocalFiles!OpenTemporary, emptied

LEMMA WriteChunkStep ==
  ASSUME LocalFiles!FileStoreAssumption, FilesIInv, NEW i \in DOMAIN requests, NEW to,
         LocalFiles!WriteChunk(i, to)
  PROVE  FilesIInv'
<1> DEFINE arg == requests[i].arg
           path == requests[i].arg.path
           old == api.temporary[path]
           whole == LocalFiles!Written(old, arg, to)
<1>1. PICK status :
        /\ UNCHANGED <<page, browser>> /\ requests' = [requests EXCEPT ![i].status = status]
        /\ status \in {"error", "ok", "written"}
        /\ status = "written" => ~ (to < arg.to) /\ to = SizeOfFile(arg.file)
  <2>1. PICK status : status = IF to < arg.to THEN "error"
                               ELSE IF to = SizeOfFile(arg.file) THEN "written" ELSE "ok"
    OBVIOUS
  <2>2. /\ UNCHANGED <<page, browser>>
        /\ requests' = [requests EXCEPT ![i].status = status]
    BY <2>1 DEF LocalFiles!WriteChunk
  <2>3. /\ status \in {"error", "ok", "written"}
        /\ status = "written" => ~ (to < arg.to) /\ to = SizeOfFile(arg.file)
    BY <2>1, Zenon
  <2> QED BY <2>2, <2>3
<1>2. /\ DOMAIN requests' = DOMAIN requests
      /\ requests'[i].kind = requests[i].kind /\ requests'[i].arg = arg
      /\ requests'[i].status = status
      /\ \A j \in DOMAIN requests \ {i} : requests'[j] = requests[j]
      /\ UploadsFit(requests)' => Sound(LocalFiles!State)'
  BY <1>1, SoundTurned
<1>3. api = [store |-> api.store, temporary |-> api.temporary, overlapped |-> api.overlapped]
  BY DEF FilesIInv, FilesStored
<1>4. /\ FitsFile(requests[i])
      /\ path \notin api.overlapped => \A j \in DOMAIN requests \ {i} :
           ~ (IsBegun(requests[j]) /\ requests[j].arg.path = path)
  BY SoundStart
  DEF LocalFiles!WriteChunk, Sound, LocalFiles!State, UploadsFit, IsBegun, IsOnlyOne
<1>5. /\ arg.from \in Nat /\ to \in Nat /\ arg.from <= to
      /\ ~ (to < arg.to) => to = arg.to
  <2>1. arg.from \in Nat /\ arg.to \in Nat BY <1>4, SoundStart DEF IsChunk, FitsFile
  <2>2. to \in arg.from .. arg.to BY DEF LocalFiles!WriteChunk
  <2> QED BY <2>1, <2>2
<1>6. CASE requests[i].status = "open" /\ api' = [api EXCEPT !.temporary[path] = whole]
  <2>1. PICK temporary :
          /\ temporary = [api.temporary EXCEPT ![path] = whole]
          /\ api' = [store |-> api.store, temporary |-> temporary,
                     overlapped |-> api.overlapped]
    BY <1>3, <1>6
  <2>2. /\ DOMAIN temporary = DOMAIN api.temporary
        /\ \A p \in DOMAIN api.temporary : p # path => temporary[p] = api.temporary[p]
        /\ path \in DOMAIN api.temporary => temporary[path] = whole
    BY <2>1
  <2>3. ASSUME path \notin api.overlapped
        PROVE  path \in DOMAIN api.temporary /\ InPlace(whole) /\ Len(whole) = to
    <3>1. path \in DOMAIN api.temporary /\ Len(old) = arg.from
      BY <1>4, <1>6, <2>3 DEF FitsFile
    <3>2. InPlace(old) BY <2>3, <3>1 DEF FilesIInv, FilesStored
    <3> HIDE DEF old, whole, arg
    <3>3. InPlace(whole) /\ Len(whole) = to
      BY <1>5, <3>1, <3>2, WrittenInPlace DEF whole
    <3> QED BY <3>1, <3>3
  <2> HIDE DEF whole
  <2>4. IsBegun(requests'[i]) => FitsFile(requests[i])'
    BY <1>1, <1>2, <1>4, <1>5, <2>1, <2>2, <2>3 DEF FitsFile, IsBegun
  <2>5. UploadsFit(requests)'
    BY <1>2, <1>4, <2>1, <2>2, <2>4, UploadGoesOn
  <2>6. FilesStored' BY <2>1, <2>2, <2>3 DEF FilesIInv, FilesStored
  <2>7. LocalFiles!FileHasNoGap' BY <2>1 DEF FilesIInv, LocalFiles!FileHasNoGap
  <2> QED BY <1>2, <2>5, <2>6, <2>7 DEF FilesIInv
<1>7. CASE /\ requests[i].status = "astray"
           /\ api' = api \/ \E x : api' = [api EXCEPT !.store[path] = x]
  <2>1. path \in api.overlapped BY <1>4, <1>7 DEF FitsFile
  <2>2. PICK store :
          /\ api' = [store |-> store, temporary |-> api.temporary,
                     overlapped |-> api.overlapped]
          /\ DOMAIN store = DOMAIN api.store
          /\ \A p \in DOMAIN api.store : p # path => store[p] = api.store[p]
    <3>1. CASE api' = api BY <1>3, <3>1
    <3>2. ASSUME NEW x, api' = [api EXCEPT !.store[path] = x]
          PROVE  \E store :
                   /\ api' = [store |-> store, temporary |-> api.temporary,
                              overlapped |-> api.overlapped]
                   /\ DOMAIN store = DOMAIN api.store
                   /\ \A p \in DOMAIN api.store : p # path => store[p] = api.store[p]
      <4>1. PICK store : store = [api.store EXCEPT ![path] = x] OBVIOUS
      <4>2. api' = [store |-> store, temporary |-> api.temporary,
                    overlapped |-> api.overlapped]
        BY <1>3, <3>2, <4>1
      <4> QED BY <4>1, <4>2
    <3> QED BY <1>7, <3>1, <3>2
  <2>3. IsBegun(requests'[i]) => FitsFile(requests[i])'
    BY <1>2, <1>4, <2>1, <2>2 DEF FitsFile
  <2>4. UploadsFit(requests)' BY <1>2, <1>4, <2>2, <2>3, UploadGoesOn
  <2>5. FilesStored' BY <2>2 DEF FilesIInv, FilesStored
  <2>6. LocalFiles!FileHasNoGap' BY <2>1, <2>2 DEF FilesIInv, LocalFiles!FileHasNoGap
  <2> QED BY <1>2, <2>4, <2>5, <2>6 DEF FilesIInv
<1> QED BY <1>6, <1>7 DEF LocalFiles!WriteChunk

\* Only a chunk that shares its path with another finds its file moved away.
LEMMA MoveToPlaceStep ==
  ASSUME LocalFiles!FileStoreAssumption, FilesIInv, NEW i \in DOMAIN requests,
         LocalFiles!MoveToPlace(i)
  PROVE  FilesIInv'
<1> DEFINE arg == requests[i].arg
           path == requests[i].arg.path
           Astray(r) == IF r.status = "open" /\ r.arg.path = path
                        THEN [r EXCEPT !.status = "astray"] ELSE r
           moved == [j \in DOMAIN requests |-> Astray(requests[j])]
           left == LocalFiles!Without(api.temporary, path)
           stored == LocalFiles!With(api.store, path, api.temporary[path])
<1>1. UNCHANGED <<page, browser>> /\ requests[i].status = "written"
  BY DEF LocalFiles!MoveToPlace, LocalFiles!Stays
<1>2. /\ FitsFile(requests[i])
      /\ path \notin api.overlapped => IsOnlyOne(requests, i)
      /\ UploadsFit(requests) /\ AreCalls(requests) /\ IsChunk(requests[i])
  BY <1>1, SoundStart DEF Sound, LocalFiles!State, UploadsFit, IsBegun
<1>3. api = [store |-> api.store, temporary |-> api.temporary, overlapped |-> api.overlapped]
  BY DEF FilesIInv, FilesStored
<1>4. CASE UNCHANGED api /\ requests' = [requests EXCEPT ![i].status = "error"]
  <2>1. ~ IsBegun(requests'[i]) BY <1>1, <1>4, SoundTurned DEF IsBegun
  <2>2. UploadsFit(requests)' BY <1>1, <1>4, <2>1, SoundTurned, UploadsStay
  <2>3. Sound(LocalFiles!State)' BY <1>1, <1>4, <2>2, SoundTurned
  <2> QED BY <1>4, <2>3 DEF FilesIInv, FilesStored, LocalFiles!FileHasNoGap
<1>5. CASE /\ path \in DOMAIN api.temporary
           /\ api' = [api EXCEPT !.store = stored, !.temporary = left]
           /\ requests' = [moved EXCEPT ![i].status = "ok"]
  <2>1. api' = [store |-> stored, temporary |-> left, overlapped |-> api.overlapped]
    BY <1>3, <1>5
  <2>2. /\ DOMAIN left = DOMAIN api.temporary \ {path}
        /\ \A p \in DOMAIN left : left[p] = api.temporary[p]
        /\ DOMAIN stored = DOMAIN api.store \cup {path}
        /\ stored[path] = api.temporary[path]
        /\ \A p \in DOMAIN api.store : p # path => stored[p] = api.store[p]
    BY DEF LocalFiles!With, LocalFiles!Without
  <2> HIDE DEF left, stored
  <2>3. IsSeq(requests') /\ DOMAIN requests' = DOMAIN requests
    <3>1. PICK S : requests \in Seq(S) BY <1>2 DEF AreCalls, IsSeq
    <3> DEFINE T == {Astray(r) : r \in S}
    <3>2. moved \in Seq(T) BY <3>1
    <3> HIDE DEF moved, T
    <3>3. IsSeq(moved) BY <3>2 DEF IsSeq
    <3>4. DOMAIN moved = DOMAIN requests BY DEF moved
    <3>5. PICK r : requests' = [moved EXCEPT ![i] = r] BY <1>5
    <3> QED BY <3>3, <3>4, <3>5, ChangeCall
  <2>4. ASSUME NEW j \in DOMAIN requests
        PROVE  \E status, answer :
                 /\ requests'[j] = [kind |-> requests[j].kind, arg |-> requests[j].arg,
                                    status |-> status, answer |-> answer]
                 /\ j = i => status = "ok"
                 /\ j # i => \/ status = requests[j].status
                             \/ /\ status = "astray" /\ requests[j].status = "open"
                                /\ requests[j].arg.path = path
    <3>1. PICK c : c = requests[j] OBVIOUS
    <3>2. c = [kind |-> c.kind, arg |-> c.arg, status |-> c.status, answer |-> c.answer]
      BY <1>2, <3>1 DEF AreCalls, IsCall
    <3>3. requests'[j] = IF j = i THEN [Astray(c) EXCEPT !.status = "ok"] ELSE Astray(c)
      <4>1. DOMAIN moved = DOMAIN requests /\ moved[j] = Astray(c) BY <3>1
      <4> HIDE DEF moved, Astray
      <4> QED BY <1>5, <4>1
    <3>4. CASE c.status = "open" /\ c.arg.path = path
      <4>1. Astray(c) = [c EXCEPT !.status = "astray"] BY <3>4
      <4>2. ASSUME NEW a, NEW b, NEW d, NEW e, NEW f
            PROVE  /\ [[kind |-> a, arg |-> b, status |-> d, answer |-> e]
                         EXCEPT !.status = f]
                        = [kind |-> a, arg |-> b, status |-> f, answer |-> e]
        OBVIOUS
      <4>3. Astray(c) = [kind |-> c.kind, arg |-> c.arg, status |-> "astray",
                         answer |-> c.answer]
        <5> HIDE DEF Astray
        <5> QED BY <3>2, <4>1, <4>2
      <4> HIDE DEF Astray
      <4>4. CASE j = i
        <5>1. requests'[j] = [kind |-> c.kind, arg |-> c.arg, status |-> "ok",
                              answer |-> c.answer]
          BY <3>3, <4>2, <4>3, <4>4
        <5> QED BY <3>1, <4>4, <5>1
      <4>5. CASE j # i BY <3>1, <3>3, <3>4, <4>3, <4>5
      <4> QED BY <4>4, <4>5
    <3>5. CASE ~ (c.status = "open" /\ c.arg.path = path)
      <4>1. Astray(c) = c BY <3>5
      <4> HIDE DEF Astray
      <4>2. CASE j = i
        <5>1. ASSUME NEW a, NEW b, NEW d, NEW e
              PROVE  [[kind |-> a, arg |-> b, status |-> d, answer |-> e]
                        EXCEPT !.status = "ok"]
                       = [kind |-> a, arg |-> b, status |-> "ok", answer |-> e]
          OBVIOUS
        <5>2. requests'[j] = [kind |-> c.kind, arg |-> c.arg, status |-> "ok",
                              answer |-> c.answer]
          BY <3>2, <3>3, <4>1, <4>2, <5>1
        <5> QED BY <3>1, <4>2, <5>2
      <4>3. CASE j # i
        <5>1. requests'[j] = c BY <3>3, <4>1, <4>3
        <5> QED BY <3>1, <3>2, <4>3, <5>1
      <4> QED BY <4>2, <4>3
    <3> QED BY <3>4, <3>5
  <2> HIDE DEF Astray, moved
  <2>5. ASSUME NEW j \in DOMAIN requests
        PROVE  /\ requests'[j].kind = requests[j].kind /\ requests'[j].arg = requests[j].arg
               /\ j = i => requests'[j].status = "ok"
               /\ j # i => \/ requests'[j].status = requests[j].status
                           \/ /\ requests'[j].status = "astray"
                              /\ requests[j].status = "open" /\ requests[j].arg.path = path
    <3>1. PICK status, answer :
            /\ requests'[j] = [kind |-> requests[j].kind, arg |-> requests[j].arg,
                               status |-> status, answer |-> answer]
            /\ j = i => status = "ok"
            /\ j # i => \/ status = requests[j].status
                        \/ /\ status = "astray" /\ requests[j].status = "open"
                           /\ requests[j].arg.path = path
      BY <2>4
    <3> QED BY <3>1
  <2>6. ASSUME NEW k \in DOMAIN requests, IsBegun(requests'[k])
        PROVE  /\ FitsFile(requests[k])'
               /\ requests'[k].arg.path \notin api'.overlapped => IsOnlyOne(requests, k)'
    <3>1. /\ k # i /\ IsBegun(requests[k]) /\ requests'[k].kind = requests[k].kind
          /\ requests'[k].arg = requests[k].arg
      BY <2>5, <2>6 DEF IsBegun
    <3>2. FitsFile(requests[k]) BY <1>2, <3>1 DEF UploadsFit
    <3>3. ASSUME requests[k].arg.path \notin api.overlapped
          PROVE  requests[k].arg.path # path /\ IsOnlyOne(requests, k)
      <4>1. IsOnlyOne(requests, k) BY <1>2, <3>1, <3>3 DEF UploadsFit
      <4> QED BY <1>1, <3>1, <4>1 DEF IsOnlyOne, IsBegun
    <3>4. FitsFile(requests[k])'
      <4>1. requests[k].arg.path \notin api.overlapped =>
              /\ requests'[k].status = requests[k].status
              /\ requests[k].arg.path # path
        BY <2>5, <3>1, <3>3
      <4> QED BY <2>1, <2>2, <3>1, <3>2, <4>1 DEF FitsFile
    <3>5. ASSUME requests'[k].arg.path \notin api'.overlapped PROVE IsOnlyOne(requests, k)'
      <4>1. requests[k].arg.path \notin api.overlapped BY <2>1, <3>1, <3>5
      <4>2. ASSUME NEW j \in DOMAIN requests, IsBegun(requests'[j]),
                   requests'[j].arg.path = requests'[k].arg.path
            PROVE  j = k
        <5>1. IsBegun(requests[j]) /\ requests[j].arg.path = requests[k].arg.path
          BY <2>5, <3>1, <4>2 DEF IsBegun
        <5> QED BY <3>3, <4>1, <5>1 DEF IsOnlyOne
      <4> QED BY <2>3, <4>2 DEF IsOnlyOne
    <3> QED BY <3>4, <3>5
  <2>7. UploadsFit(requests)' BY <2>3, <2>6 DEF UploadsFit
  <2>8. Sound(LocalFiles!State)' BY <1>1, <2>3, <2>4, <2>7, SoundServed
  <2>9. FilesStored' BY <2>1, <2>2 DEF FilesIInv, FilesStored
  <2>10. LocalFiles!FileHasNoGap'
    <3>1. ASSUME path \notin api.overlapped
          PROVE  /\ arg.file \in LocalFilesPage.Files /\ NameOfFile(arg.file) = path[2]
                 /\ InPlace(api.temporary[path])
                 /\ Len(api.temporary[path]) = SizeOfFile(arg.file)
      <4>1. arg.file \in LocalFilesPage.Files /\ NameOfFile(arg.file) = path[2]
        BY <1>2 DEF IsChunk, FitsFile
      <4>2. InPlace(api.temporary[path]) BY <1>5, <3>1 DEF FilesIInv, FilesStored
      <4>3. Len(api.temporary[path]) = SizeOfFile(arg.file)
        BY <1>1, <1>2, <3>1 DEF FitsFile
      <4> QED BY <4>1, <4>2, <4>3
    <3> HIDE DEF arg, path
    <3> QED BY <2>1, <2>2, <3>1 DEF FilesIInv, LocalFiles!FileHasNoGap, InPlace
  <2> QED BY <2>8, <2>9, <2>10 DEF FilesIInv
<1> QED BY <1>4, <1>5 DEF LocalFiles!MoveToPlace

LEMMA FilesServeStep ==
  ASSUME LocalFiles!FileStoreAssumption, FilesIInv, NEW i \in DOMAIN requests,
         LocalFiles!Serve(i) \/ LocalFiles!Fail(i)
  PROVE  FilesIInv'
<1>1. UNCHANGED <<page, browser>>
  BY DEF LocalFiles!Serve, LocalFiles!Fail, LocalFiles!Stays
<1>2. /\ \/ \E answer : LocalFiles!Answer(i, answer)
         \/ requests' = [requests EXCEPT ![i].status = "error"]
      /\ UNCHANGED api \/ \E path : api' = [api EXCEPT !.store = LocalFiles!Without(@, path)]
  BY DEF LocalFiles!Serve, LocalFiles!Fail
<1>3. PICK store :
        /\ api' = [store |-> store, temporary |-> api.temporary, overlapped |-> api.overlapped]
        /\ DOMAIN store \subseteq DOMAIN api.store
        /\ \A p \in DOMAIN store : store[p] = api.store[p]
  <2>1. api = [store |-> api.store, temporary |-> api.temporary,
               overlapped |-> api.overlapped]
    BY DEF FilesIInv, FilesStored
  <2>2. CASE UNCHANGED api BY <2>1, <2>2
  <2>3. ASSUME NEW path, api' = [api EXCEPT !.store = LocalFiles!Without(@, path)]
        PROVE  \E store :
                 /\ api' = [store |-> store, temporary |-> api.temporary,
                            overlapped |-> api.overlapped]
                 /\ DOMAIN store \subseteq DOMAIN api.store
                 /\ \A p \in DOMAIN store : store[p] = api.store[p]
    <3>1. PICK store : store = LocalFiles!Without(api.store, path) OBVIOUS
    <3>2. api' = [store |-> store, temporary |-> api.temporary,
                  overlapped |-> api.overlapped]
      BY <2>1, <2>3, <3>1
    <3>3. /\ DOMAIN store \subseteq DOMAIN api.store
          /\ \A p \in DOMAIN store : store[p] = api.store[p]
      BY <3>1 DEF LocalFiles!Without
    <3> QED BY <3>2, <3>3
  <2> QED BY <1>2, <2>2, <2>3
<1>4. ~ IsBegun(requests'[i]) BY <1>1, <1>2, SoundTurned DEF IsBegun
<1>5. UploadsFit(requests)' BY <1>1, <1>2, <1>3, <1>4, SoundTurned, UploadsStay
<1>6. Sound(LocalFiles!State)' BY <1>1, <1>2, <1>5, SoundTurned
<1>7. FilesStored' BY <1>3 DEF FilesIInv, FilesStored
<1>8. LocalFiles!FileHasNoGap' BY <1>3 DEF FilesIInv, LocalFiles!FileHasNoGap
<1> QED BY <1>6, <1>7, <1>8 DEF FilesIInv

-----------------------------------------------------------------------------
(* The page.                                                               *)

LEMMA FilesInit ==
  ASSUME LocalFiles!FileStoreAssumption, LocalFiles!Init
  PROVE  FilesIInv
<1> DEFINE first == [page |-> LocalFiles!Closed, requests |-> <<>>,
                     browser |-> [url |-> LocalFiles!NoPath, chunkSize |-> LocalFilesPage.InitialChunk]]
           shown == [first EXCEPT !.page = [LocalFiles!Closed EXCEPT !.isOpen = TRUE]]
           s == LocalFiles!Open(first)
<1>1. /\ page = s.page /\ browser = s.browser /\ requests = s.requests
      /\ api = [store |-> [p \in LocalFilesPage.FirstFiles |-> <<>>], temporary |-> <<>>,
                overlapped |-> {}]
  BY DEF LocalFiles!Init
<1>2. IsSeq(<<>>)
  <2>1. <<>> \in Seq({}) OBVIOUS
  <2> QED BY <2>1 DEF IsSeq
<1>3. AreCalls(<<>>) /\ (\A i \in DOMAIN <<>> : IsChunk(<<>>[i])) /\ UploadsFit(<<>>)
  BY <1>2 DEF AreCalls, UploadsFit
<1>4. LocalFilesPage.InitialChunk \in Nat BY DEF LocalFiles!FileStoreAssumption
<1>5. Sound(first) BY <1>3, <1>4 DEF Sound, IsState
<1>6. \E directory : s = LocalFiles!ChangeDirectoryTo(shown, directory) BY DEF LocalFiles!Open
<1> HIDE DEF first
<1>7. Sound(shown)
  <2> DEFINE p == [LocalFiles!Closed EXCEPT !.isOpen = TRUE]
  <2> HIDE DEF p
  <2>1. Sound([first EXCEPT !.page = p]) BY <1>5, SoundFields
  <2> QED BY <2>1 DEF p
<1> HIDE DEF shown, s
<1>8. Sound(s) BY <1>6, <1>7, SoundList
<1>9. LocalFiles!State = s BY <1>1, <1>8 DEF LocalFiles!State, Sound, IsState
<1>10. FilesStored BY <1>1 DEF FilesStored
<1>11. LocalFiles!FileHasNoGap BY <1>1 DEF LocalFiles!FileHasNoGap
<1> QED BY <1>8, <1>9, <1>10, <1>11 DEF FilesIInv

LEMMA FilesNext ==
  ASSUME LocalFiles!FileStoreAssumption, FilesIInv, [LocalFiles!Next]_vars
  PROVE  FilesIInv'
<1>1. CASE UNCHANGED vars
  <2>1. UNCHANGED <<page, browser, requests, api>> BY <1>1 DEF vars
  <2>2. LocalFiles!State' = LocalFiles!State BY <2>1 DEF LocalFiles!State
  <2>3. Sound(LocalFiles!State)'
    BY <2>1, <2>2 DEF FilesIInv, Sound, UploadsFit, FitsFile
  <2> QED BY <2>1, <2>3 DEF FilesIInv, FilesStored, LocalFiles!FileHasNoGap
<1>2. ASSUME NEW i \in DOMAIN requests, LocalFiles!FilesArrive(i) PROVE FilesIInv'
  BY <1>2, FilesArriveStep
<1>3. ASSUME NEW d \in LocalFilesPage.Directories, LocalFiles!ChangeDirectory(d) PROVE FilesIInv'
  BY <1>3, ListSteps
<1>4. ASSUME NEW path \in page.files, LocalFiles!SelectFile(path) PROVE FilesIInv'
  BY <1>4, ListSteps
<1>5. ASSUME NEW path \in page.files, LocalFiles!DeleteFile(path) PROVE FilesIInv'
  BY <1>5, DeleteSteps
<1>6. ASSUME NEW b \in BOOLEAN, LocalFiles!Confirm(b) PROVE FilesIInv' BY <1>6, DeleteSteps
<1>7. ASSUME NEW i \in DOMAIN requests, LocalFiles!Deleted(i) PROVE FilesIInv' BY <1>7, DeleteSteps
<1>8. ASSUME NEW file \in LocalFilesPage.Files, LocalFiles!UploadFile(file) PROVE FilesIInv' BY <1>8, UploadSteps
<1>9. ASSUME LocalFiles!Cancel PROVE FilesIInv' BY <1>9, UploadSteps
<1>10. ASSUME NEW i \in DOMAIN requests, requests[i].kind \in {"chunk", "abandoned"},
              LocalFiles!ChunkUploaded(i)
       PROVE  FilesIInv'
  BY <1>10, ChunkUploadedStep
<1>11. ASSUME LocalFiles!Leave PROVE FilesIInv' BY <1>11, UploadSteps
<1>12. ASSUME LocalFiles!Reopen PROVE FilesIInv' BY <1>12, ListSteps
<1>13. ASSUME NEW i \in DOMAIN requests, LocalFiles!Serve(i) \/ LocalFiles!Fail(i)
       PROVE  FilesIInv'
  BY <1>13, FilesServeStep
<1>14. ASSUME NEW i \in DOMAIN requests, LocalFiles!ConnectionLost(i) PROVE FilesIInv'
  BY <1>14, UploadSteps
<1>15. ASSUME NEW i \in DOMAIN requests, LocalFiles!CheckOffset(i) PROVE FilesIInv'
  BY <1>15, CheckOffsetStep
<1>16. ASSUME NEW i \in DOMAIN requests, LocalFiles!OpenTemporary(i) PROVE FilesIInv'
  BY <1>16, OpenTemporaryStep
<1>17. ASSUME NEW i \in DOMAIN requests, NEW to, LocalFiles!WriteChunk(i, to) PROVE FilesIInv'
  BY <1>17, WriteChunkStep
<1>18. ASSUME NEW i \in DOMAIN requests, LocalFiles!MoveToPlace(i) PROVE FilesIInv'
  BY <1>18, MoveToPlaceStep
<1> QED
  BY <1>1, <1>2, <1>3, <1>4, <1>5, <1>6, <1>7, <1>8, <1>9, <1>10, <1>11, <1>12,
     <1>13, <1>14, <1>15, <1>16, <1>17, <1>18 DEF LocalFiles!Next

-----------------------------------------------------------------------------
(* The forms of test run configs.                                          *)

FormFields == {"config", "deviceActions", "runActions", "mapped"}
ConfigFields == {"test", "specs", "deviceActions", "runActions", "resources"}
EditorFields == {"at", "opened", "step", "form"}

IsConfig(c) == DOMAIN c = ConfigFields
IsForm(f) == DOMAIN f = FormFields /\ IsConfig(f.config)

-----------------------------------------------------------------------------
(* The form of a test run config, on the page of a new test run.           *)

LEMMA UpdateOfRun ==
  ASSUME NEW f, IsForm(f), NEW urls, NEW t, t = NewRun!UpdateTestResources(f, urls)
  PROVE  IsForm(t) /\ NewRun!ResourcesFit(t)
<1>1. PICK resources : /\ t = [f EXCEPT !.config.resources = resources]
                       /\ DOMAIN resources = NewRun!Needs(f)
  <2>1. PICK resources :
          resources = [r \in NewRun!Needs(f) |->
            IF r \in DOMAIN f.config.resources THEN f.config.resources[r]
            ELSE IF r \in urls THEN "node" ELSE NewRun!NoUrl]
    OBVIOUS
  <2>2. t = [f EXCEPT !.config.resources = resources]
    BY <2>1 DEF NewRun!UpdateTestResources
  <2>3. DOMAIN resources = NewRun!Needs(f) BY <2>1
  <2> QED BY <2>2, <2>3
<1>2. /\ IsForm(t) /\ t.mapped = f.mapped /\ t.deviceActions = f.deviceActions
      /\ t.config.test = f.config.test /\ t.config.resources = resources
  BY <1>1 DEF IsForm, FormFields, IsConfig, ConfigFields
<1>3. NewRun!Needs(t) = NewRun!Needs(f) BY <1>2 DEF NewRun!Needs
<1> QED BY <1>1, <1>2, <1>3 DEF NewRun!ResourcesFit

LEMMA LoadOfRun ==
  ASSUME NEW f, IsForm(f), NEW t, t = NewRun!LoadSelectedActions(f)
  PROVE  IsForm(t)
<1>1. PICK a, b : t = [f EXCEPT !.mapped = TRUE, !.deviceActions = a, !.runActions = b]
  BY DEF NewRun!LoadSelectedActions
<1> QED BY <1>1 DEF IsForm, FormFields

LEMMA FirstOfRun ==
  ASSUME NEW test, NEW config, IsConfig(config)
  PROVE  /\ IsConfig(NewRun!InitTestRunConfig(test))
         /\ IsForm(NewRun!Form(config)) /\ NewRun!ResourcesFit(NewRun!Form(config))
BY DEF NewRun!InitTestRunConfig, NewRun!Form, NewRun!ResourcesFit, IsForm, FormFields, IsConfig,
   ConfigFields

\* An edit of the user keeps the resources in step with what is selected.
LEMMA EditOfRun ==
  ASSUME NEW f, IsForm(f), NewRun!ResourcesFit(f), NEW step, NEW urls,
         NEW t \in NewRun!Edits(step, f, urls)
  PROVE  IsForm(t) /\ NewRun!ResourcesFit(t)
<1>1. \/ \E test : t = NewRun!LoadTest(f, test, urls)
      \/ \E specs : t = NewRun!PickDevices(f, specs, urls)
      \/ \E sel : t = NewRun!UpdateConfigDeviceActionIds(f, sel, urls)
      \/ \E sel : t = NewRun!UpdateConfigRunActionRefs(f, sel)
      \/ \E r \in DOMAIN f.config.resources : \E url : t = NewRun!SetUrl(f, r, url)
  <2>1. CASE step = NewRun!Configure BY <2>1 DEF NewRun!Edits
  <2>2. CASE step = NewRun!SelectDevices BY <2>2 DEF NewRun!Edits, NewRun!Configure, NewRun!SelectDevices
  <2>3. CASE step = NewRun!AddActions
    BY <2>3 DEF NewRun!Edits, NewRun!Configure, NewRun!SelectDevices, NewRun!AddActions
  <2>4. CASE step = NewRun!SetResources
    BY <2>4 DEF NewRun!Edits, NewRun!Configure, NewRun!SelectDevices, NewRun!AddActions, NewRun!SetResources
  <2>5. CASE step \notin {NewRun!Configure, NewRun!SelectDevices, NewRun!AddActions, NewRun!SetResources}
    BY <2>5 DEF NewRun!Edits
  <2> QED BY <2>1, <2>2, <2>3, <2>4, <2>5
<1>2. ASSUME NEW g, IsForm(g), NEW sel, t = NewRun!UpdateConfigDeviceActionIds(g, sel, urls)
      PROVE  IsForm(t) /\ NewRun!ResourcesFit(t)
  <2>1. PICK h : h = [g EXCEPT !.deviceActions = sel, !.config.deviceActions = sel]
    OBVIOUS
  <2>2. IsForm(h) BY <1>2, <2>1 DEF IsForm, FormFields, IsConfig, ConfigFields
  <2>3. t = NewRun!UpdateTestResources(h, urls)
    BY <1>2, <2>1 DEF NewRun!UpdateConfigDeviceActionIds
  <2> QED BY <2>2, <2>3, UpdateOfRun
<1>3. ASSUME NEW test, t = NewRun!LoadTest(f, test, urls)
      PROVE  IsForm(t) /\ NewRun!ResourcesFit(t)
  <2>1. PICK c : c = NewRun!InitTestRunConfig(test) OBVIOUS
  <2>2. IsConfig(c) BY <2>1 DEF NewRun!InitTestRunConfig, IsConfig, ConfigFields
  <2>3. PICK g : g = [f EXCEPT !.config = c] /\ t = NewRun!UpdateTestResources(g, urls)
    BY <1>3, <2>1 DEF NewRun!LoadTest
  <2>4. IsForm(g) BY <2>2, <2>3 DEF IsForm, FormFields
  <2> QED BY <2>3, <2>4, UpdateOfRun
<1>4. ASSUME NEW specs, t = NewRun!PickDevices(f, specs, urls)
      PROVE  IsForm(t) /\ NewRun!ResourcesFit(t)
  <2>1. PICK g : g = [f EXCEPT !.config.specs = specs] OBVIOUS
  <2>2. IsForm(g) BY <2>1 DEF IsForm, FormFields, IsConfig, ConfigFields
  <2>3. \E sel : t = NewRun!UpdateConfigDeviceActionIds(g, sel, urls)
    BY <1>4, <2>1 DEF NewRun!PickDevices
  <2> QED BY <1>2, <2>2, <2>3
<1>5. ASSUME NEW sel, t = NewRun!UpdateConfigRunActionRefs(f, sel)
      PROVE  IsForm(t) /\ NewRun!ResourcesFit(t)
  <2>1. t = [f EXCEPT !.runActions = sel, !.config.runActions = sel]
    BY <1>5 DEF NewRun!UpdateConfigRunActionRefs
  <2>2. /\ IsForm(t) /\ t.mapped = f.mapped /\ t.deviceActions = f.deviceActions
        /\ t.config.test = f.config.test /\ t.config.resources = f.config.resources
    BY <2>1 DEF IsForm, FormFields, IsConfig, ConfigFields
  <2> QED BY <2>2 DEF NewRun!ResourcesFit, NewRun!Needs
<1>6. ASSUME NEW r, NEW url, t = NewRun!SetUrl(f, r, url)
      PROVE  IsForm(t) /\ NewRun!ResourcesFit(t)
  <2>1. PICK resources : resources = [f.config.resources EXCEPT ![r] = url] OBVIOUS
  <2>2. t = [f EXCEPT !.config.resources = resources]
    BY <1>6, <2>1 DEF NewRun!SetUrl, IsForm, FormFields, IsConfig, ConfigFields
  <2>3. /\ IsForm(t) /\ t.mapped = f.mapped /\ t.deviceActions = f.deviceActions
        /\ t.config.test = f.config.test /\ t.config.resources = resources
    BY <2>2 DEF IsForm, FormFields, IsConfig, ConfigFields
  <2>4. DOMAIN resources = DOMAIN f.config.resources BY <2>1
  <2> QED BY <2>3, <2>4 DEF NewRun!ResourcesFit, NewRun!Needs
<1> QED BY <1>1, <1>2, <1>3, <1>4, <1>5, <1>6

\* The dialog, if it is open.
GoodEditorOfRun(e) ==
  e # NewRun!NoEditor =>
    DOMAIN e = EditorFields /\ IsForm(e.form) /\ NewRun!ResourcesFit(e.form)

\* Only the dialog has changed, and it is as it has to be.
EditedOfRun(p, t) == \E e : GoodEditorOfRun(e) /\ t = [p EXCEPT !.editor = e]

\* The map is shared, or asked for: the form does not show its actions before.
LEMMA OpenOfRun ==
  ASSUME NEW s, "page" \in DOMAIN s, NEW config, IsConfig(config), NEW at,
         NEW t, t = NewRun!OpenEditor(s, config, at)
  PROVE  EditedOfRun(s.page, t.page)
<1>1. PICK form : form = NewRun!Form(config) OBVIOUS
<1>2. PICK loaded, full :
        /\ loaded = NewRun!LoadSelectedActions(form)
        /\ full = NewRun!UpdateTestResources(loaded, {})
  OBVIOUS
<1>3. IsForm(form) /\ NewRun!ResourcesFit(form) BY <1>1, FirstOfRun
<1>4. IsForm(full) /\ NewRun!ResourcesFit(full) BY <1>2, <1>3, LoadOfRun, UpdateOfRun
<1>5. PICK e, d :
        /\ e = [at |-> at, opened |-> spent, step |-> NewRun!Configure, form |-> form]
        /\ d = [e EXCEPT !.form = full]
        /\ \/ t = [s EXCEPT !.page.editor = d]
           \/ \E arg : t = NewRun!Send([s EXCEPT !.page.editor = e], "map", arg)
  BY <1>1, <1>2 DEF NewRun!OpenEditor
<1>6. GoodEditorOfRun(e) /\ GoodEditorOfRun(d)
  <2>1. DOMAIN e = EditorFields /\ e.form = form BY <1>5 DEF EditorFields
  <2>2. DOMAIN d = EditorFields /\ d.form = full BY <1>5, <2>1 DEF EditorFields
  <2> QED BY <1>3, <1>4, <2>1, <2>2 DEF GoodEditorOfRun
<1>7. t.page = [s.page EXCEPT !.editor = d] \/ t.page = [s.page EXCEPT !.editor = e]
  BY <1>5 DEF NewRun!Send
<1> QED BY <1>6, <1>7 DEF EditedOfRun

LEMMA EditorOfRun ==
  ASSUME "editor" \in DOMAIN page, GoodEditorOfRun(page.editor), NewRun!EditorNext
  PROVE  page' = page \/ EditedOfRun(page, page')
<1>1. CASE \E i \in DOMAIN requests : NewRun!EditorMapArrives(i)
  <2>1. PICK i : NewRun!EditorMapArrives(i) BY <1>1
  <2>2. PICK h : h = NewRun!Heard(i) /\ h.page = page /\ "page" \in DOMAIN h
    <3>1. PICK h : h = NewRun!Heard(i) OBVIOUS
    <3> QED BY <3>1 DEF NewRun!Heard, NewRun!State
  <2>3. PICK s : /\ s = [h EXCEPT !.browser.mapped = TRUE]
                 /\ \/ /\ NewRun!Becomes([s EXCEPT !.page.editor.form =
                              NewRun!UpdateTestResources(NewRun!LoadSelectedActions(@), {})])
                       /\ page.editor # NewRun!NoEditor
                    \/ NewRun!Becomes(s) \/ NewRun!Becomes(h)
    BY <2>1, <2>2 DEF NewRun!EditorMapArrives, NewRun!IsEditing
  <2>4. s.page = page /\ "page" \in DOMAIN s BY <2>2, <2>3
  <2>5. CASE NewRun!Becomes(s) \/ NewRun!Becomes(h) BY <2>2, <2>4, <2>5 DEF NewRun!Becomes
  <2>6. CASE /\ NewRun!Becomes([s EXCEPT !.page.editor.form =
                  NewRun!UpdateTestResources(NewRun!LoadSelectedActions(@), {})])
             /\ page.editor # NewRun!NoEditor
    <3>1. PICK e : e = page.editor OBVIOUS
    <3>2. DOMAIN e = EditorFields /\ IsForm(e.form) BY <2>6, <3>1 DEF GoodEditorOfRun
    <3>3. PICK loaded, full :
            /\ loaded = NewRun!LoadSelectedActions(e.form)
            /\ full = NewRun!UpdateTestResources(loaded, {})
      OBVIOUS
    <3>4. IsForm(full) /\ NewRun!ResourcesFit(full) BY <3>2, <3>3, LoadOfRun, UpdateOfRun
    <3>5. PICK d : d = [e EXCEPT !.form = full] OBVIOUS
    <3>6. page' = [page EXCEPT !.editor = d]
      BY <2>4, <2>6, <3>1, <3>2, <3>3, <3>5 DEF NewRun!Becomes, EditorFields
    <3>7. GoodEditorOfRun(d) BY <3>2, <3>4, <3>5 DEF GoodEditorOfRun, EditorFields
    <3> QED BY <3>6, <3>7 DEF EditedOfRun
  <2> QED BY <2>3, <2>5, <2>6
<1>2. CASE NewRun!EditorEdit
  <2>1. PICK f : /\ f \in NewRun!Edits(page.editor.step, page.editor.form, {})
                 /\ page' = [page EXCEPT !.editor.form = f] /\ page.editor # NewRun!NoEditor
    BY <1>2 DEF NewRun!EditorEdit, NewRun!IsEditing, NewRun!Shows
  <2>2. PICK d : d = [page.editor EXCEPT !.form = f] OBVIOUS
  <2>3. DOMAIN page.editor = EditorFields /\ IsForm(page.editor.form)
          /\ NewRun!ResourcesFit(page.editor.form)
    BY <2>1 DEF GoodEditorOfRun
  <2>4. IsForm(f) /\ NewRun!ResourcesFit(f) BY <2>1, <2>3, EditOfRun
  <2>5. GoodEditorOfRun(d) BY <2>2, <2>3, <2>4 DEF GoodEditorOfRun, EditorFields
  <2> QED BY <2>1, <2>2, <2>5 DEF EditedOfRun
<1>3. CASE NewRun!EditorMove
  <2>1. PICK k : page' = [page EXCEPT !.editor.step = k] /\ page.editor # NewRun!NoEditor
    BY <1>3 DEF NewRun!EditorMove, NewRun!IsEditing, NewRun!Shows
  <2>2. PICK d : d = [page.editor EXCEPT !.step = k] OBVIOUS
  <2>3. GoodEditorOfRun(d) BY <2>1, <2>2 DEF GoodEditorOfRun, EditorFields
  <2> QED BY <2>1, <2>2, <2>3 DEF EditedOfRun
<1>4. CASE NewRun!CloseEditor
  <2>1. GoodEditorOfRun(NewRun!NoEditor) BY DEF GoodEditorOfRun
  <2> QED BY <1>4, <2>1 DEF NewRun!CloseEditor, NewRun!Shows, EditedOfRun
<1> QED BY <1>1, <1>2, <1>3, <1>4 DEF NewRun!EditorNext

-----------------------------------------------------------------------------
(* The form of a test run config, in the dialog of a test plan.            *)

LEMMA UpdateOfPlan ==
  ASSUME NEW f, IsForm(f), NEW urls, NEW t, t = Plan!UpdateTestResources(f, urls)
  PROVE  IsForm(t) /\ Plan!ResourcesFit(t)
<1>1. PICK resources : /\ t = [f EXCEPT !.config.resources = resources]
                       /\ DOMAIN resources = Plan!Needs(f)
  <2>1. PICK resources :
          resources = [r \in Plan!Needs(f) |->
            IF r \in DOMAIN f.config.resources THEN f.config.resources[r]
            ELSE IF r \in urls THEN "node" ELSE Plan!NoUrl]
    OBVIOUS
  <2>2. t = [f EXCEPT !.config.resources = resources]
    BY <2>1 DEF Plan!UpdateTestResources
  <2>3. DOMAIN resources = Plan!Needs(f) BY <2>1
  <2> QED BY <2>2, <2>3
<1>2. /\ IsForm(t) /\ t.mapped = f.mapped /\ t.deviceActions = f.deviceActions
      /\ t.config.test = f.config.test /\ t.config.resources = resources
  BY <1>1 DEF IsForm, FormFields, IsConfig, ConfigFields
<1>3. Plan!Needs(t) = Plan!Needs(f) BY <1>2 DEF Plan!Needs
<1> QED BY <1>1, <1>2, <1>3 DEF Plan!ResourcesFit

LEMMA LoadOfPlan ==
  ASSUME NEW f, IsForm(f), NEW t, t = Plan!LoadSelectedActions(f)
  PROVE  IsForm(t)
<1>1. PICK a, b : t = [f EXCEPT !.mapped = TRUE, !.deviceActions = a, !.runActions = b]
  BY DEF Plan!LoadSelectedActions
<1> QED BY <1>1 DEF IsForm, FormFields

LEMMA FirstOfPlan ==
  ASSUME NEW test, NEW config, IsConfig(config)
  PROVE  /\ IsConfig(Plan!InitTestRunConfig(test))
         /\ IsForm(Plan!Form(config)) /\ Plan!ResourcesFit(Plan!Form(config))
BY DEF Plan!InitTestRunConfig, Plan!Form, Plan!ResourcesFit, IsForm, FormFields, IsConfig,
   ConfigFields

\* An edit of the user keeps the resources in step with what is selected.
LEMMA EditOfPlan ==
  ASSUME NEW f, IsForm(f), Plan!ResourcesFit(f), NEW step, NEW urls,
         NEW t \in Plan!Edits(step, f, urls)
  PROVE  IsForm(t) /\ Plan!ResourcesFit(t)
<1>1. \/ \E test : t = Plan!LoadTest(f, test, urls)
      \/ \E specs : t = Plan!PickDevices(f, specs, urls)
      \/ \E sel : t = Plan!UpdateConfigDeviceActionIds(f, sel, urls)
      \/ \E sel : t = Plan!UpdateConfigRunActionRefs(f, sel)
      \/ \E r \in DOMAIN f.config.resources : \E url : t = Plan!SetUrl(f, r, url)
  <2>1. CASE step = Plan!Configure BY <2>1 DEF Plan!Edits
  <2>2. CASE step = Plan!SelectDevices BY <2>2 DEF Plan!Edits, Plan!Configure, Plan!SelectDevices
  <2>3. CASE step = Plan!AddActions
    BY <2>3 DEF Plan!Edits, Plan!Configure, Plan!SelectDevices, Plan!AddActions
  <2>4. CASE step = Plan!SetResources
    BY <2>4 DEF Plan!Edits, Plan!Configure, Plan!SelectDevices, Plan!AddActions, Plan!SetResources
  <2>5. CASE step \notin {Plan!Configure, Plan!SelectDevices, Plan!AddActions, Plan!SetResources}
    BY <2>5 DEF Plan!Edits
  <2> QED BY <2>1, <2>2, <2>3, <2>4, <2>5
<1>2. ASSUME NEW g, IsForm(g), NEW sel, t = Plan!UpdateConfigDeviceActionIds(g, sel, urls)
      PROVE  IsForm(t) /\ Plan!ResourcesFit(t)
  <2>1. PICK h : h = [g EXCEPT !.deviceActions = sel, !.config.deviceActions = sel]
    OBVIOUS
  <2>2. IsForm(h) BY <1>2, <2>1 DEF IsForm, FormFields, IsConfig, ConfigFields
  <2>3. t = Plan!UpdateTestResources(h, urls)
    BY <1>2, <2>1 DEF Plan!UpdateConfigDeviceActionIds
  <2> QED BY <2>2, <2>3, UpdateOfPlan
<1>3. ASSUME NEW test, t = Plan!LoadTest(f, test, urls)
      PROVE  IsForm(t) /\ Plan!ResourcesFit(t)
  <2>1. PICK c : c = Plan!InitTestRunConfig(test) OBVIOUS
  <2>2. IsConfig(c) BY <2>1 DEF Plan!InitTestRunConfig, IsConfig, ConfigFields
  <2>3. PICK g : g = [f EXCEPT !.config = c] /\ t = Plan!UpdateTestResources(g, urls)
    BY <1>3, <2>1 DEF Plan!LoadTest
  <2>4. IsForm(g) BY <2>2, <2>3 DEF IsForm, FormFields
  <2> QED BY <2>3, <2>4, UpdateOfPlan
<1>4. ASSUME NEW specs, t = Plan!PickDevices(f, specs, urls)
      PROVE  IsForm(t) /\ Plan!ResourcesFit(t)
  <2>1. PICK g : g = [f EXCEPT !.config.specs = specs] OBVIOUS
  <2>2. IsForm(g) BY <2>1 DEF IsForm, FormFields, IsConfig, ConfigFields
  <2>3. \E sel : t = Plan!UpdateConfigDeviceActionIds(g, sel, urls)
    BY <1>4, <2>1 DEF Plan!PickDevices
  <2> QED BY <1>2, <2>2, <2>3
<1>5. ASSUME NEW sel, t = Plan!UpdateConfigRunActionRefs(f, sel)
      PROVE  IsForm(t) /\ Plan!ResourcesFit(t)
  <2>1. t = [f EXCEPT !.runActions = sel, !.config.runActions = sel]
    BY <1>5 DEF Plan!UpdateConfigRunActionRefs
  <2>2. /\ IsForm(t) /\ t.mapped = f.mapped /\ t.deviceActions = f.deviceActions
        /\ t.config.test = f.config.test /\ t.config.resources = f.config.resources
    BY <2>1 DEF IsForm, FormFields, IsConfig, ConfigFields
  <2> QED BY <2>2 DEF Plan!ResourcesFit, Plan!Needs
<1>6. ASSUME NEW r, NEW url, t = Plan!SetUrl(f, r, url)
      PROVE  IsForm(t) /\ Plan!ResourcesFit(t)
  <2>1. PICK resources : resources = [f.config.resources EXCEPT ![r] = url] OBVIOUS
  <2>2. t = [f EXCEPT !.config.resources = resources]
    BY <1>6, <2>1 DEF Plan!SetUrl, IsForm, FormFields, IsConfig, ConfigFields
  <2>3. /\ IsForm(t) /\ t.mapped = f.mapped /\ t.deviceActions = f.deviceActions
        /\ t.config.test = f.config.test /\ t.config.resources = resources
    BY <2>2 DEF IsForm, FormFields, IsConfig, ConfigFields
  <2>4. DOMAIN resources = DOMAIN f.config.resources BY <2>1
  <2> QED BY <2>3, <2>4 DEF Plan!ResourcesFit, Plan!Needs
<1> QED BY <1>1, <1>2, <1>3, <1>4, <1>5, <1>6

\* The dialog, if it is open.
GoodEditorOfPlan(e) ==
  e # Plan!NoEditor =>
    DOMAIN e = EditorFields /\ IsForm(e.form) /\ Plan!ResourcesFit(e.form)

\* Only the dialog has changed, and it is as it has to be.
EditedOfPlan(p, t) == \E e : GoodEditorOfPlan(e) /\ t = [p EXCEPT !.editor = e]

\* The map is shared, or asked for: the form does not show its actions before.
LEMMA OpenOfPlan ==
  ASSUME NEW s, "page" \in DOMAIN s, NEW config, IsConfig(config), NEW at,
         NEW t, t = Plan!OpenEditor(s, config, at)
  PROVE  EditedOfPlan(s.page, t.page)
<1>1. PICK form : form = Plan!Form(config) OBVIOUS
<1>2. PICK loaded, full :
        /\ loaded = Plan!LoadSelectedActions(form)
        /\ full = Plan!UpdateTestResources(loaded, {})
  OBVIOUS
<1>3. IsForm(form) /\ Plan!ResourcesFit(form) BY <1>1, FirstOfPlan
<1>4. IsForm(full) /\ Plan!ResourcesFit(full) BY <1>2, <1>3, LoadOfPlan, UpdateOfPlan
<1>5. PICK e, d :
        /\ e = [at |-> at, opened |-> spent, step |-> Plan!Configure, form |-> form]
        /\ d = [e EXCEPT !.form = full]
        /\ \/ t = [s EXCEPT !.page.editor = d]
           \/ \E arg : t = Plan!Send([s EXCEPT !.page.editor = e], "map", arg)
  BY <1>1, <1>2 DEF Plan!OpenEditor
<1>6. GoodEditorOfPlan(e) /\ GoodEditorOfPlan(d)
  <2>1. DOMAIN e = EditorFields /\ e.form = form BY <1>5 DEF EditorFields
  <2>2. DOMAIN d = EditorFields /\ d.form = full BY <1>5, <2>1 DEF EditorFields
  <2> QED BY <1>3, <1>4, <2>1, <2>2 DEF GoodEditorOfPlan
<1>7. t.page = [s.page EXCEPT !.editor = d] \/ t.page = [s.page EXCEPT !.editor = e]
  BY <1>5 DEF Plan!Send
<1> QED BY <1>6, <1>7 DEF EditedOfPlan

LEMMA EditorOfPlan ==
  ASSUME "editor" \in DOMAIN page, GoodEditorOfPlan(page.editor), Plan!EditorNext
  PROVE  page' = page \/ EditedOfPlan(page, page')
<1>1. CASE \E i \in DOMAIN requests : Plan!EditorMapArrives(i)
  <2>1. PICK i : Plan!EditorMapArrives(i) BY <1>1
  <2>2. PICK h : h = Plan!Heard(i) /\ h.page = page /\ "page" \in DOMAIN h
    <3>1. PICK h : h = Plan!Heard(i) OBVIOUS
    <3> QED BY <3>1 DEF Plan!Heard, Plan!State
  <2>3. PICK s : /\ s = [h EXCEPT !.browser.mapped = TRUE]
                 /\ \/ /\ Plan!Becomes([s EXCEPT !.page.editor.form =
                              Plan!UpdateTestResources(Plan!LoadSelectedActions(@), {})])
                       /\ page.editor # Plan!NoEditor
                    \/ Plan!Becomes(s) \/ Plan!Becomes(h)
    BY <2>1, <2>2 DEF Plan!EditorMapArrives, Plan!IsEditing
  <2>4. s.page = page /\ "page" \in DOMAIN s BY <2>2, <2>3
  <2>5. CASE Plan!Becomes(s) \/ Plan!Becomes(h) BY <2>2, <2>4, <2>5 DEF Plan!Becomes
  <2>6. CASE /\ Plan!Becomes([s EXCEPT !.page.editor.form =
                  Plan!UpdateTestResources(Plan!LoadSelectedActions(@), {})])
             /\ page.editor # Plan!NoEditor
    <3>1. PICK e : e = page.editor OBVIOUS
    <3>2. DOMAIN e = EditorFields /\ IsForm(e.form) BY <2>6, <3>1 DEF GoodEditorOfPlan
    <3>3. PICK loaded, full :
            /\ loaded = Plan!LoadSelectedActions(e.form)
            /\ full = Plan!UpdateTestResources(loaded, {})
      OBVIOUS
    <3>4. IsForm(full) /\ Plan!ResourcesFit(full) BY <3>2, <3>3, LoadOfPlan, UpdateOfPlan
    <3>5. PICK d : d = [e EXCEPT !.form = full] OBVIOUS
    <3>6. page' = [page EXCEPT !.editor = d]
      BY <2>4, <2>6, <3>1, <3>2, <3>3, <3>5 DEF Plan!Becomes, EditorFields
    <3>7. GoodEditorOfPlan(d) BY <3>2, <3>4, <3>5 DEF GoodEditorOfPlan, EditorFields
    <3> QED BY <3>6, <3>7 DEF EditedOfPlan
  <2> QED BY <2>3, <2>5, <2>6
<1>2. CASE Plan!EditorEdit
  <2>1. PICK f : /\ f \in Plan!Edits(page.editor.step, page.editor.form, {})
                 /\ page' = [page EXCEPT !.editor.form = f] /\ page.editor # Plan!NoEditor
    BY <1>2 DEF Plan!EditorEdit, Plan!IsEditing, Plan!Shows
  <2>2. PICK d : d = [page.editor EXCEPT !.form = f] OBVIOUS
  <2>3. DOMAIN page.editor = EditorFields /\ IsForm(page.editor.form)
          /\ Plan!ResourcesFit(page.editor.form)
    BY <2>1 DEF GoodEditorOfPlan
  <2>4. IsForm(f) /\ Plan!ResourcesFit(f) BY <2>1, <2>3, EditOfPlan
  <2>5. GoodEditorOfPlan(d) BY <2>2, <2>3, <2>4 DEF GoodEditorOfPlan, EditorFields
  <2> QED BY <2>1, <2>2, <2>5 DEF EditedOfPlan
<1>3. CASE Plan!EditorMove
  <2>1. PICK k : page' = [page EXCEPT !.editor.step = k] /\ page.editor # Plan!NoEditor
    BY <1>3 DEF Plan!EditorMove, Plan!IsEditing, Plan!Shows
  <2>2. PICK d : d = [page.editor EXCEPT !.step = k] OBVIOUS
  <2>3. GoodEditorOfPlan(d) BY <2>1, <2>2 DEF GoodEditorOfPlan, EditorFields
  <2> QED BY <2>1, <2>2, <2>3 DEF EditedOfPlan
<1>4. CASE Plan!CloseEditor
  <2>1. GoodEditorOfPlan(Plan!NoEditor) BY DEF GoodEditorOfPlan
  <2> QED BY <1>4, <2>1 DEF Plan!CloseEditor, Plan!Shows, EditedOfPlan
<1> QED BY <1>1, <1>2, <1>3, <1>4 DEF Plan!EditorNext

-----------------------------------------------------------------------------
(* The page of a new test run.                                             *)

NewRunFields ==
  {"step", "form", "nodeUrls", "isRerun", "isRemote", "uploaded", "context", "reruns",
   "editor", "isLoading", "warning", "isStarting"}

AreConfigs(s) == IsSeq(s) /\ \A k \in DOMAIN s : IsConfig(s[k])

\* The form and the dialog ask for what they show; rerun configs are configs.
GoodNewRun(p) ==
  /\ DOMAIN p = NewRunFields
  /\ IsForm(p.form) /\ NewRun!ResourcesFit(p.form)
  /\ AreConfigs(p.reruns) /\ GoodEditorOfRun(p.editor)

LEMMA ConfigOfInstances ==
  /\ \A c : NewRun!IsConfig(c) <=> IsConfig(c)
  /\ \A c : Plan!IsConfig(c) <=> IsConfig(c)
BY DEF NewRun!IsConfig, Plan!IsConfig, IsConfig, NewRun!InitTestRunConfig,
   Plan!InitTestRunConfig, ConfigFields

\* Lists of configs: one more, one changed, one less.
LEMMA ConfigsFacts ==
  ASSUME NEW s, AreConfigs(s), NEW c, IsConfig(c)
  PROVE  /\ AreConfigs(Append(s, c)) /\ AreConfigs(<<c>>) /\ AreConfigs(<<>>)
         /\ \A k : AreConfigs([s EXCEPT ![k] = c])
         /\ \A k \in DOMAIN s : AreConfigs(RemoveAt(s, k))
         /\ s # <<>> => Len(s) \in DOMAIN s /\ 1 \in DOMAIN s
<1>1. AreConfigs(Append(s, c)) BY AppendCall DEF AreConfigs
<1>2. AreConfigs(<<c>>)
  <2>1. <<c>> \in Seq({c}) /\ Len(<<c>>) = 1 /\ <<c>>[1] = c OBVIOUS
  <2>2. DOMAIN <<c>> = 1 .. 1 BY <2>1
  <2>3. \A k \in 1 .. 1 : k = 1 OBVIOUS
  <2>4. \A k \in DOMAIN <<c>> : <<c>>[k] = c BY <2>1, <2>2, <2>3
  <2> QED BY <2>1, <2>4 DEF AreConfigs, IsSeq
<1>3. AreConfigs(<<>>) BY NoCalls DEF Calls, AreConfigs
<1>4. ASSUME NEW k PROVE AreConfigs([s EXCEPT ![k] = c])
  <2>1. CASE k \in DOMAIN s
    <3>1. IsSeq([s EXCEPT ![k] = c]) BY <2>1, ChangeCall DEF AreConfigs
    <3> QED BY <3>1 DEF AreConfigs
  <2>2. CASE k \notin DOMAIN s
    <3>1. PICK S : s \in Seq(S) BY DEF AreConfigs, IsSeq
    <3>2. s = [j \in DOMAIN s |-> s[j]] BY <3>1
    <3>3. [s EXCEPT ![k] = c] = s BY <2>2, <3>2
    <3> QED BY <3>3
  <2> QED BY <2>1, <2>2
<1>5. ASSUME NEW k \in DOMAIN s PROVE AreConfigs(RemoveAt(s, k))
  BY RemoveCall DEF AreConfigs
<1>6. ASSUME s # <<>> PROVE Len(s) \in DOMAIN s /\ 1 \in DOMAIN s
  <2>1. PICK S : s \in Seq(S) BY DEF AreConfigs, IsSeq
  <2> QED BY <1>6, <2>1
<1> QED BY <1>1, <1>2, <1>3, <1>4, <1>5, <1>6

LEMMA NewRunShow ==
  ASSUME NEW p, GoodNewRun(p)
  PROVE  /\ \A f \in NewRunFields \ {"form", "reruns", "editor"} : \A x :
              GoodNewRun([p EXCEPT ![f] = x])
         /\ \A f : IsForm(f) /\ NewRun!ResourcesFit(f) => GoodNewRun([p EXCEPT !.form = f])
         /\ \A s : AreConfigs(s) => GoodNewRun([p EXCEPT !.reruns = s])
         /\ \A e : GoodEditorOfRun(e) => GoodNewRun([p EXCEPT !.editor = e])
         /\ \A t : EditedOfRun(p, t) => GoodNewRun(t)
<1>1. ASSUME NEW f \in NewRunFields \ {"form", "reruns", "editor"}, NEW x
      PROVE  GoodNewRun([p EXCEPT ![f] = x])
  BY DEF GoodNewRun, NewRunFields
<1>2. ASSUME NEW f, IsForm(f), NewRun!ResourcesFit(f) PROVE GoodNewRun([p EXCEPT !.form = f])
  BY <1>2 DEF GoodNewRun, NewRunFields
<1>3. ASSUME NEW s, AreConfigs(s) PROVE GoodNewRun([p EXCEPT !.reruns = s])
  BY <1>3 DEF GoodNewRun, NewRunFields
<1>4. ASSUME NEW e, GoodEditorOfRun(e) PROVE GoodNewRun([p EXCEPT !.editor = e])
  BY <1>4 DEF GoodNewRun, NewRunFields
<1> QED BY <1>1, <1>2, <1>3, <1>4 DEF EditedOfRun

\* The state of a handler of the page, after a call that it makes too.
LEMMA NewRunHeard ==
  ASSUME NEW i
  PROVE  /\ NewRun!Heard(i).page = page /\ NewRun!State.page = page
         /\ DOMAIN NewRun!Heard(i) = {"page", "browser", "requests"}
         /\ DOMAIN NewRun!State = {"page", "browser", "requests"}
         /\ \A s, kind, arg : "page" \in DOMAIN s => NewRun!Send(s, kind, arg).page = s.page
<1>1. NewRun!State.page = page /\ DOMAIN NewRun!State = {"page", "browser", "requests"}
  BY DEF NewRun!State
<1>2. /\ NewRun!Heard(i).page = page
      /\ DOMAIN NewRun!Heard(i) = {"page", "browser", "requests"}
  BY <1>1 DEF NewRun!Heard
<1>3. \A s, kind, arg : "page" \in DOMAIN s => NewRun!Send(s, kind, arg).page = s.page
  BY DEF NewRun!Send
<1> QED BY <1>1, <1>2, <1>3

LEMMA LoadArrivesStep ==
  ASSUME GoodNewRun(page), NEW i, NewRun!LoadArrives(i)
  PROVE  GoodNewRun(page')
<1>1. PICK h : /\ h = NewRun!Heard(i) /\ h.page = page
               /\ DOMAIN h = {"page", "browser", "requests"}
  <2>1. PICK h : h = NewRun!Heard(i) OBVIOUS
  <2> QED BY <2>1, NewRunHeard
<1>2. CASE \E mapped : NewRun!Becomes([h EXCEPT !.browser.mapped = mapped])
  BY <1>1, <1>2 DEF NewRun!Becomes
<1>3. CASE NewRun!Hears(i, "load", "ok")
  <2> DEFINE Fresh(test) ==
               [page.form EXCEPT !.config = NewRun!InitTestRunConfig(test), !.mapped = TRUE]
             Full(f) == NewRun!UpdateTestResources(f, NewRunPage.NodeUrls)
             After(f) == [h EXCEPT !.page.form = f,
               !.page.nodeUrls = NewRunPage.NodeUrls, !.page.isLoading = FALSE,
               !.browser.mapped = TRUE]
  <2>a. PICK previous : previous = [page.form EXCEPT !.config = NewRunPage.PreviousConfig]
    OBVIOUS
  <2>b. PICK loaded : loaded = NewRun!LoadSelectedActions(previous) OBVIOUS
  <2>c. ~ NewRun!Hears(i, "load", "error") BY <1>3 DEF NewRun!Hears
  <2>d. PICK test : NewRun!Becomes(After(Full(IF page.isRerun THEN loaded ELSE Fresh(test))))
    <3>1. PICK test : test = IF requests[i].arg.test = "" THEN NewRun!FirstTest
                             ELSE requests[i].arg.test
      OBVIOUS
    <3>2. NewRun!Becomes(
            [NewRun!Heard(i) EXCEPT
               !.page.form = Full(IF page.isRerun THEN loaded ELSE Fresh(test)),
               !.page.nodeUrls = NewRunPage.NodeUrls, !.page.isLoading = FALSE,
               !.browser.mapped = TRUE])
      BY <1>3, <2>a, <2>b, <2>c, <3>1 DEF NewRun!LoadArrives
    <3> QED BY <1>1, <3>2
  <2>e. PICK fresh : fresh = Fresh(test) OBVIOUS
  <2>f. PICK f : f = IF page.isRerun THEN loaded ELSE fresh OBVIOUS
  <2>g. PICK full : full = Full(f) OBVIOUS
  <2>h. After(Full(IF page.isRerun THEN loaded ELSE Fresh(test))) = After(full)
    BY <2>e, <2>f, <2>g
  <2>i. PICK c : c = NewRun!InitTestRunConfig(test) OBVIOUS
  <2>1. /\ c = NewRun!InitTestRunConfig(test)
        /\ fresh = [page.form EXCEPT !.config = c, !.mapped = TRUE]
        /\ previous = [page.form EXCEPT !.config = NewRunPage.PreviousConfig]
        /\ loaded = NewRun!LoadSelectedActions(previous)
        /\ f = IF page.isRerun THEN loaded ELSE fresh
        /\ full = NewRun!UpdateTestResources(f, NewRunPage.NodeUrls)
        /\ NewRun!Becomes(After(full))
    BY <2>a, <2>b, <2>d, <2>e, <2>f, <2>g, <2>h, <2>i
  <2>2. IsForm(page.form) BY DEF GoodNewRun
  <2>3. IsForm(fresh) BY <2>1, <2>2, FirstOfRun DEF IsForm, FormFields,
          NewRun!InitTestRunConfig, IsConfig, ConfigFields
  <2>4. IsForm(previous)
    <3>1. IsConfig(NewRunPage.PreviousConfig)
      BY RunPagesAssumption, ConfigOfInstances DEF NewRun!NewTestRunAssumption
    <3> QED BY <2>1, <2>2, <3>1 DEF IsForm, FormFields
  <2>5. IsForm(loaded) BY <2>1, <2>4, LoadOfRun
  <2>6. IsForm(f) BY <2>1, <2>3, <2>5
  <2>7. IsForm(full) /\ NewRun!ResourcesFit(full) BY <2>1, <2>6, UpdateOfRun
  <2>8. PICK q, r : /\ q = [page EXCEPT !.form = full]
                    /\ r = [q EXCEPT !["nodeUrls"] = NewRunPage.NodeUrls]
    OBVIOUS
  <2>9. page' = [r EXCEPT !["isLoading"] = FALSE]
    BY <1>1, <2>1, <2>8 DEF NewRun!Becomes, GoodNewRun, NewRunFields
  <2>10. GoodNewRun(q) BY <2>7, <2>8, NewRunShow
  <2>11. GoodNewRun(r) BY <2>8, <2>10, NewRunShow DEF NewRunFields
  <2> QED BY <2>9, <2>11, NewRunShow DEF NewRunFields
<1> QED BY <1>1, <1>2, <1>3 DEF NewRun!LoadArrives, NewRun!Hears

\* What the user does on the page.
LEMMA NewRunUserSteps ==
  ASSUME GoodNewRun(page),
         \/ NewRun!Edit \/ NewRun!Move \/ NewRun!ChooseRerun \/ NewRun!UploadResults
         \/ NewRun!StartTestRun
  PROVE  GoodNewRun(page')
<1>1. PICK s : s = NewRun!State /\ s.page = page /\ DOMAIN s = {"page", "browser", "requests"}
  <2>1. PICK s : s = NewRun!State OBVIOUS
  <2> QED BY <2>1, NewRunHeard
<1>2. CASE NewRun!Edit
  <2>1. PICK f : /\ f \in NewRun!Edits(page.step, page.form, page.nodeUrls)
                 /\ page' = [page EXCEPT !.form = f]
    BY <1>2 DEF NewRun!Edit, NewRun!Shows
  <2>2. IsForm(f) /\ NewRun!ResourcesFit(f) BY <2>1, EditOfRun DEF GoodNewRun
  <2> QED BY <2>1, <2>2, NewRunShow
<1>3. CASE NewRun!Move
  <2>1. PICK k : page' = [page EXCEPT !["step"] = k]
    BY <1>3 DEF NewRun!Move, NewRun!Shows
  <2> QED BY <2>1, NewRunShow DEF NewRunFields
<1>4. CASE NewRun!ChooseRerun
  <2>1. PICK q, x, b :
          /\ q = [page EXCEPT !["isRemote"] = b] \/ q = [page EXCEPT !["isRerun"] = b]
          /\ page' = [q EXCEPT !["context"] = x]
    BY <1>4 DEF NewRun!ChooseRerun, NewRun!Shows, NewRun!UpdateRerunContext
  <2>2. GoodNewRun(q) BY <2>1, NewRunShow DEF NewRunFields
  <2> QED BY <2>1, <2>2, NewRunShow DEF NewRunFields
<1>5. CASE NewRun!UploadResults
  <2>1. PICK arg : NewRun!Becomes(NewRun!Send(s, "upload", arg))
    BY <1>1, <1>5 DEF NewRun!UploadResults
  <2>2. page' = page BY <1>1, <2>1, NewRunHeard DEF NewRun!Becomes
  <2> QED BY <2>2
<1>6. CASE NewRun!StartTestRun
  <2>a. PICK u : u = [s EXCEPT !.page.isStarting = TRUE] OBVIOUS
  <2>b. PICK kind, arg : NewRun!Becomes(NewRun!Send(u, kind, arg))
    BY <1>1, <1>6, <2>a DEF NewRun!StartTestRun, NewRun!Create
  <2>2. u.page = [page EXCEPT !["isStarting"] = TRUE] /\ "page" \in DOMAIN u
    BY <1>1, <2>a
  <2>c. PICK v : v = NewRun!Send(u, kind, arg) OBVIOUS
  <2>d. v.page = u.page BY <2>2, <2>c, NewRunHeard
  <2>3. page' = u.page BY <2>b, <2>c, <2>d DEF NewRun!Becomes
  <2>e. GoodNewRun([page EXCEPT !["isStarting"] = TRUE]) BY NewRunShow DEF NewRunFields
  <2>f. page' = [page EXCEPT !["isStarting"] = TRUE] BY <2>2, <2>3
  <2> QED BY <2>e, <2>f
<1> QED BY <1>2, <1>3, <1>4, <1>5, <1>6

\* The list of rerun configs and its dialog.
LEMMA RerunSteps ==
  ASSUME GoodNewRun(page),
         \/ NewRun!AddConfig \/ NewRun!EditConfig \/ NewRun!DeleteConfig
         \/ NewRun!SubmitConfig \/ NewRun!EditorNext
  PROVE  GoodNewRun(page')
<1>1. PICK s : s = NewRun!State /\ s.page = page /\ DOMAIN s = {"page", "browser", "requests"}
  <2>1. PICK s : s = NewRun!State OBVIOUS
  <2> QED BY <2>1, NewRunHeard
<1>2. /\ AreConfigs(page.reruns) /\ IsConfig(page.form.config)
      /\ DOMAIN page = NewRunFields /\ GoodEditorOfRun(page.editor)
  BY DEF GoodNewRun, IsForm
<1>3. ASSUME NEW config, IsConfig(config), NEW at,
             NewRun!Becomes(NewRun!OpenEditor(s, config, at))
      PROVE  GoodNewRun(page')
  <2>1. PICK t : t = NewRun!OpenEditor(s, config, at) OBVIOUS
  <2>2. EditedOfRun(page, t.page) BY <1>1, <1>3, <2>1, OpenOfRun
  <2>3. page' = t.page BY <1>3, <2>1 DEF NewRun!Becomes
  <2> QED BY <2>2, <2>3, NewRunShow
<1>4. CASE NewRun!AddConfig
  <2>1. PICK config :
          /\ config = IF page.reruns = <<>> THEN page.form.config
                      ELSE page.reruns[Len(page.reruns)]
          /\ NewRun!Becomes(NewRun!OpenEditor(s, config, <<0>>))
    BY <1>1, <1>4 DEF NewRun!AddConfig
  <2>2. IsConfig(config) BY <1>2, <2>1, ConfigsFacts DEF AreConfigs
  <2> QED BY <1>3, <2>1, <2>2
<1>5. CASE NewRun!EditConfig
  <2>1. PICK k \in DOMAIN page.reruns :
          NewRun!Becomes(NewRun!OpenEditor(s, page.reruns[k], <<k>>))
    BY <1>1, <1>5 DEF NewRun!EditConfig
  <2> QED BY <1>2, <1>3, <2>1 DEF AreConfigs
<1>6. CASE NewRun!DeleteConfig
  <2>1. PICK k \in DOMAIN page.reruns :
          page' = [page EXCEPT !.reruns = NewRun!RemoveAt(@, k)]
    BY <1>6 DEF NewRun!DeleteConfig, NewRun!Shows
  <2>2. NewRun!RemoveAt(page.reruns, k) = RemoveAt(page.reruns, k)
    BY DEF NewRun!RemoveAt, RemoveAt
  <2>3. AreConfigs(RemoveAt(page.reruns, k)) BY <1>2, ConfigsFacts
  <2>4. page' = [page EXCEPT !.reruns = RemoveAt(page.reruns, k)]
    BY <1>2, <2>1, <2>2 DEF NewRunFields
  <2> QED BY <2>3, <2>4, NewRunShow
<1>7. CASE NewRun!SubmitConfig
  <2>1. PICK config, k, reruns :
          /\ config = page.editor.form.config
          /\ reruns = IF k = 0 THEN Append(page.reruns, config)
                      ELSE [page.reruns EXCEPT ![k] = config]
          /\ page' = [page EXCEPT !.editor = NewRun!NoEditor, !.reruns = reruns]
          /\ page.editor # NewRun!NoEditor
    BY <1>2, <1>7 DEF NewRun!SubmitConfig, NewRun!Shows, NewRun!CanSubmit,
       NewRun!IsEditing, NewRunFields
  <2>2. IsConfig(config) BY <1>2, <2>1 DEF GoodEditorOfRun, IsForm
  <2>3. AreConfigs(reruns) BY <1>2, <2>1, <2>2, ConfigsFacts
  <2>4. PICK q : q = [page EXCEPT !.editor = NewRun!NoEditor] OBVIOUS
  <2>5. GoodNewRun(q) BY <2>4, NewRunShow DEF GoodEditorOfRun
  <2>6. page' = [q EXCEPT !.reruns = reruns] BY <2>1, <2>4
  <2> QED BY <2>3, <2>5, <2>6, NewRunShow
<1>8. CASE NewRun!EditorNext
  <2>1. page' = page \/ EditedOfRun(page, page')
    BY <1>2, <1>8, EditorOfRun DEF NewRunFields
  <2> QED BY <2>1, NewRunShow
<1> QED BY <1>4, <1>5, <1>6, <1>7, <1>8

\* The answers that the page hears of.
LEMMA NewRunHearsSteps ==
  ASSUME GoodNewRun(page), NEW i,
         NewRun!Uploaded(i) \/ NewRun!DiskSpaceChecked(i) \/ NewRun!Created(i)
  PROVE  GoodNewRun(page')
<1>1. PICK h : h = NewRun!Heard(i) /\ h.page = page /\ DOMAIN h = {"page", "browser", "requests"}
  <2>1. PICK h : h = NewRun!Heard(i) OBVIOUS
  <2> QED BY <2>1, NewRunHeard
<1>2. DOMAIN page = NewRunFields BY DEF GoodNewRun
<1>3. CASE NewRun!Uploaded(i)
  <2>1. CASE NewRun!Becomes(h) BY <1>1, <2>1 DEF NewRun!Becomes
  <2>2. CASE NewRun!Becomes(
               [h EXCEPT !.page = NewRun!UpdateRerunContext([@ EXCEPT !.uploaded = TRUE])])
    <3>1. PICK q : q = [page EXCEPT !["uploaded"] = TRUE] OBVIOUS
    <3>2. page' = NewRun!UpdateRerunContext(q) BY <1>1, <2>2, <3>1 DEF NewRun!Becomes
    <3>3. PICK x : page' = [q EXCEPT !["context"] = x]
      BY <3>2 DEF NewRun!UpdateRerunContext
    <3>4. GoodNewRun(q) BY <3>1, NewRunShow DEF NewRunFields
    <3> QED BY <3>3, <3>4, NewRunShow DEF NewRunFields
  <2> QED BY <1>1, <1>3, <2>1, <2>2 DEF NewRun!Uploaded
<1>4. CASE NewRun!DiskSpaceChecked(i)
  <2>1. CASE NewRun!Becomes([h EXCEPT !.page.warning = TRUE, !.page.isStarting = FALSE])
    <3>1. PICK q : q = [page EXCEPT !["warning"] = TRUE] OBVIOUS
    <3>2. page' = [q EXCEPT !["isStarting"] = FALSE] BY <1>1, <2>1, <3>1 DEF NewRun!Becomes
    <3>3. GoodNewRun(q) BY <3>1, NewRunShow DEF NewRunFields
    <3> QED BY <3>2, <3>3, NewRunShow DEF NewRunFields
  <2>2. CASE \E arg : NewRun!Becomes(NewRun!Send(h, "create", arg))
    BY <1>1, <2>2, NewRunHeard DEF NewRun!Becomes
  <2>3. CASE NewRun!Becomes([h EXCEPT !.page.isStarting = FALSE])
    <3>1. page' = [page EXCEPT !["isStarting"] = FALSE] BY <1>1, <2>3 DEF NewRun!Becomes
    <3> QED BY <3>1, NewRunShow DEF NewRunFields
  <2> QED BY <1>1, <1>4, <2>1, <2>2, <2>3 DEF NewRun!DiskSpaceChecked, NewRun!Create
<1>5. CASE NewRun!Created(i)
  <2>1. CASE NewRun!Becomes([h EXCEPT !.page.isStarting = FALSE])
    <3>1. page' = [page EXCEPT !["isStarting"] = FALSE] BY <1>1, <2>1 DEF NewRun!Becomes
    <3> QED BY <3>1, NewRunShow DEF NewRunFields
  <2>2. CASE NewRun!Becomes([h EXCEPT !.page.isStarting = FALSE,
               !.page.step = NewRun!Left, !.page.editor = NewRun!NoEditor])
    <3>1. PICK q, r : /\ q = [page EXCEPT !["isStarting"] = FALSE]
                      /\ r = [q EXCEPT !["step"] = NewRun!Left]
      OBVIOUS
    <3>2. page' = [r EXCEPT !.editor = NewRun!NoEditor]
      BY <1>1, <2>2, <3>1 DEF NewRun!Becomes
    <3>3. GoodNewRun(q) BY <3>1, NewRunShow DEF NewRunFields
    <3>4. GoodNewRun(r) BY <3>1, <3>3, NewRunShow DEF NewRunFields
    <3>5. GoodEditorOfRun(NewRun!NoEditor) BY DEF GoodEditorOfRun
    <3> QED BY <3>2, <3>4, <3>5, NewRunShow
  <2> QED BY <1>1, <1>5, <2>1, <2>2 DEF NewRun!Created
<1> QED BY <1>3, <1>4, <1>5

LEMMA NewRunInit ==
  ASSUME NewRun!Init
  PROVE  GoodNewRun(page)
<1>a. PICK b, test : page = NewRun!UpdateRerunContext(
                              [NewRun!FreshPage(b) EXCEPT !.form.config.test = test])
  BY DEF NewRun!Init
<1>b. PICK p : p = NewRun!FreshPage(b) OBVIOUS
<1>c. PICK q : q = [p EXCEPT !.form.config.test = test] OBVIOUS
<1>d. page = NewRun!UpdateRerunContext(q) BY <1>a, <1>b, <1>c
<1>e. PICK x : page = [q EXCEPT !["context"] = x] BY <1>d DEF NewRun!UpdateRerunContext
<1>1. /\ p = NewRun!FreshPage(b) /\ q = [p EXCEPT !.form.config.test = test]
      /\ page = [q EXCEPT !["context"] = x]
  BY <1>b, <1>c, <1>e
<1>2. PICK c, f : c = NewRun!InitTestRunConfig("") /\ f = NewRun!Form(c) OBVIOUS
<1>3. IsConfig(c) BY <1>2 DEF NewRun!InitTestRunConfig, IsConfig, ConfigFields
<1>4. IsForm(f) /\ f.mapped = FALSE
  BY <1>2, <1>3 DEF NewRun!Form, IsForm, FormFields
<1>5. /\ DOMAIN p = NewRunFields /\ p.form = f /\ p.reruns = <<>>
      /\ p.editor = NewRun!NoEditor
  BY <1>1, <1>2 DEF NewRun!FreshPage, NewRunFields
<1>6. PICK g : g = [f EXCEPT !.config.test = test] OBVIOUS
<1>7. IsForm(g) /\ NewRun!ResourcesFit(g)
  BY <1>4, <1>6 DEF IsForm, FormFields, IsConfig, ConfigFields, NewRun!ResourcesFit
<1>8. q = [p EXCEPT !.form = g] BY <1>1, <1>5, <1>6
<1>9. AreConfigs(<<>>) BY NoCalls DEF Calls, AreConfigs
<1>10. GoodNewRun(q)
  BY <1>5, <1>7, <1>8, <1>9 DEF GoodNewRun, NewRunFields, GoodEditorOfRun
<1> QED BY <1>1, <1>10, NewRunShow DEF NewRunFields

LEMMA NewRunNext ==
  ASSUME GoodNewRun(page), [NewRun!Next]_vars
  PROVE  GoodNewRun(page)'
<1>1. CASE UNCHANGED vars BY <1>1 DEF vars
<1>2. CASE \E i : NewRun!Serve(i) \/ NewRun!Fail(i)
  BY <1>2 DEF NewRun!Serve, NewRun!Fail
<1> QED
  BY <1>1, <1>2, LoadArrivesStep, NewRunUserSteps, RerunSteps, NewRunHearsSteps
  DEF NewRun!Next

LEMMA NewRunShows ==
  ASSUME GoodNewRun(page)
  PROVE  NewRun!ResourcesFitTheRun
BY DEF GoodNewRun, GoodEditorOfRun, NewRun!ResourcesFitTheRun, NewRun!IsEditing

-----------------------------------------------------------------------------
(* The page of a test plan.                                                *)

PlanFields ==
  {"editMode", "step", "named", "loaded", "sequences", "hasTemplate", "editor", "isLoading"}

AreSequences(q) == IsSeq(q) /\ \A n \in DOMAIN q : AreConfigs(q[n])

\* The dialog asks for what it shows; the sequences of the plan are lists of configs.
GoodPlan(p) ==
  /\ DOMAIN p = PlanFields
  /\ AreSequences(p.sequences) /\ GoodEditorOfPlan(p.editor)

\* One sequence more or changed.
LEMMA SequencesFacts ==
  ASSUME NEW q, AreSequences(q), NEW s, AreConfigs(s)
  PROVE  /\ AreSequences(Append(q, s)) /\ AreSequences(<<>>)
         /\ \A n : AreSequences([q EXCEPT ![n] = s])
         /\ q # <<>> => Len(q) \in DOMAIN q
<1>1. AreSequences(Append(q, s)) BY AppendCall DEF AreSequences
<1>2. AreSequences(<<>>) BY NoCalls DEF Calls, AreSequences
<1>3. ASSUME NEW n PROVE AreSequences([q EXCEPT ![n] = s])
  <2>1. CASE n \in DOMAIN q
    <3>1. IsSeq([q EXCEPT ![n] = s]) BY <2>1, ChangeCall DEF AreSequences
    <3> QED BY <3>1 DEF AreSequences
  <2>2. CASE n \notin DOMAIN q
    <3>1. PICK S : q \in Seq(S) BY DEF AreSequences, IsSeq
    <3>2. q = [j \in DOMAIN q |-> q[j]] BY <3>1
    <3>3. [q EXCEPT ![n] = s] = q BY <2>2, <3>2
    <3> QED BY <3>3
  <2> QED BY <2>1, <2>2
<1>4. ASSUME q # <<>> PROVE Len(q) \in DOMAIN q
  <2>1. PICK S : q \in Seq(S) BY DEF AreSequences, IsSeq
  <2> QED BY <1>4, <2>1
<1> QED BY <1>1, <1>2, <1>3, <1>4

\* A change at a place that the list does not have changes nothing.
LEMMA SameSequences ==
  ASSUME NEW q, AreSequences(q), NEW n, n \notin DOMAIN q, NEW x
  PROVE  AreSequences([q EXCEPT ![n] = x])
<1>1. PICK S : q \in Seq(S) BY DEF AreSequences, IsSeq
<1>2. q = [j \in DOMAIN q |-> q[j]] BY <1>1
<1>3. [q EXCEPT ![n] = x] = q BY <1>2
<1> QED BY <1>3

\* What the dialog gives back is in the lists there are by then, or nowhere.
LEMMA SubmittedFacts ==
  ASSUME NEW q, AreSequences(q), NEW at, NEW c, IsConfig(c)
  PROVE  AreSequences(Plan!Submitted(q, at, c))
<1>1. AreConfigs(<<c>>)
  <2>1. AreConfigs(<<>>) BY NoCalls DEF Calls, AreConfigs
  <2> QED BY <2>1, ConfigsFacts
<1>2. PICK n, k : n = at[1] /\ k = at[2] OBVIOUS
<1>3. CASE n = 0
  <2>1. PICK t : t = Append(q, <<c>>) OBVIOUS
  <2>2. Plan!Submitted(q, at, c) = t BY <1>2, <1>3, <2>1 DEF Plan!Submitted
  <2> QED BY <1>1, <2>1, <2>2, SequencesFacts
<1>4. CASE n # 0
  <2>1. PICK x : x = IF k = 0 THEN Append(q[n], c) ELSE [q[n] EXCEPT ![k] = c] OBVIOUS
  <2>2. PICK t : t = [q EXCEPT ![n] = x] OBVIOUS
  <2>3. Plan!Submitted(q, at, c) = t BY <1>2, <1>4, <2>1, <2>2 DEF Plan!Submitted
  <2>4. CASE n \in DOMAIN q
    <3>1. AreConfigs(q[n]) BY <2>4 DEF AreSequences
    <3>2. AreConfigs(Append(q[n], c)) BY <3>1, ConfigsFacts
    <3>3. AreConfigs([q[n] EXCEPT ![k] = c]) BY <3>1, ConfigsFacts
    <3>4. AreConfigs(x) BY <2>1, <3>2, <3>3
    <3>5. AreSequences(t) BY <2>2, <3>4, SequencesFacts
    <3> QED BY <2>3, <3>5
  <2>5. CASE n \notin DOMAIN q
    <3>1. AreSequences(t) BY <2>2, <2>5, SameSequences
    <3> QED BY <2>3, <3>1
  <2> QED BY <2>4, <2>5
<1> QED BY <1>3, <1>4

LEMMA PlanShow ==
  ASSUME NEW p, GoodPlan(p)
  PROVE  /\ \A f \in PlanFields \ {"sequences", "editor"} : \A x : GoodPlan([p EXCEPT ![f] = x])
         /\ \A q : AreSequences(q) => GoodPlan([p EXCEPT !.sequences = q])
         /\ \A e : GoodEditorOfPlan(e) => GoodPlan([p EXCEPT !.editor = e])
         /\ \A t : EditedOfPlan(p, t) => GoodPlan(t)
<1>1. ASSUME NEW f \in PlanFields \ {"sequences", "editor"}, NEW x
      PROVE  GoodPlan([p EXCEPT ![f] = x])
  BY DEF GoodPlan, PlanFields
<1>2. ASSUME NEW q, AreSequences(q) PROVE GoodPlan([p EXCEPT !.sequences = q])
  BY <1>2 DEF GoodPlan, PlanFields
<1>3. ASSUME NEW e, GoodEditorOfPlan(e) PROVE GoodPlan([p EXCEPT !.editor = e])
  BY <1>3 DEF GoodPlan, PlanFields
<1> QED BY <1>1, <1>2, <1>3 DEF EditedOfPlan

LEMMA PlanHeard ==
  ASSUME NEW i
  PROVE  /\ Plan!Heard(i).page = page /\ Plan!State.page = page
         /\ DOMAIN Plan!Heard(i) = {"page", "browser", "requests"}
         /\ DOMAIN Plan!State = {"page", "browser", "requests"}
         /\ \A s, kind, arg : "page" \in DOMAIN s => Plan!Send(s, kind, arg).page = s.page
<1>1. Plan!State.page = page /\ DOMAIN Plan!State = {"page", "browser", "requests"}
  BY DEF Plan!State
<1>2. Plan!Heard(i).page = page /\ DOMAIN Plan!Heard(i) = {"page", "browser", "requests"}
  BY <1>1 DEF Plan!Heard
<1>3. \A s, kind, arg : "page" \in DOMAIN s => Plan!Send(s, kind, arg).page = s.page
  BY DEF Plan!Send
<1> QED BY <1>1, <1>2, <1>3

\* The answers that the page hears of.
LEMMA PlanHearsSteps ==
  ASSUME GoodPlan(page), NEW i,
         Plan!PlanArrives(i) \/ Plan!TemplateArrives(i) \/ Plan!Saved(i)
  PROVE  GoodPlan(page')
<1>1. PICK h : h = Plan!Heard(i) /\ h.page = page /\ DOMAIN h = {"page", "browser", "requests"}
  <2>1. PICK h : h = Plan!Heard(i) OBVIOUS
  <2> QED BY <2>1, PlanHeard
<1>2. CASE Plan!Becomes(h) BY <1>1, <1>2 DEF Plan!Becomes
<1>3. CASE Plan!PlanArrives(i)
  <2>1. CASE Plan!Becomes([h EXCEPT !.page.named = TRUE, !.page.loaded = TRUE,
               !.page.sequences = PlanPage.StoredSequences, !.page.isLoading = FALSE])
    <3>1. PICK C : /\ PlanPage.StoredSequences \in Seq(Seq(C))
                   /\ \A c \in C : Plan!IsConfig(c)
      BY RunPagesAssumption DEF Plan!TestPlanEditorAssumption
    <3>2. AreSequences(PlanPage.StoredSequences)
      <4>1. IsSeq(PlanPage.StoredSequences) BY <3>1 DEF IsSeq
      <4>2. ASSUME NEW n \in DOMAIN PlanPage.StoredSequences
            PROVE  AreConfigs(PlanPage.StoredSequences[n])
        <5>1. PlanPage.StoredSequences[n] \in Seq(C) BY <3>1
        <5>2. IsSeq(PlanPage.StoredSequences[n]) BY <5>1 DEF IsSeq
        <5>3. ASSUME NEW k \in DOMAIN PlanPage.StoredSequences[n]
              PROVE  IsConfig(PlanPage.StoredSequences[n][k])
          <6>1. PlanPage.StoredSequences[n][k] \in C BY <5>1
          <6> QED BY <3>1, <6>1, ConfigOfInstances
        <5> QED BY <5>2, <5>3 DEF AreConfigs
      <4> QED BY <4>1, <4>2 DEF AreSequences
    <3>3. PICK q : q = [page EXCEPT !["named"] = TRUE] OBVIOUS
    <3>4. PICK r : r = [q EXCEPT !["loaded"] = TRUE] OBVIOUS
    <3>5. PICK t : t = [r EXCEPT !.sequences = PlanPage.StoredSequences] OBVIOUS
    <3>6. page' = [t EXCEPT !["isLoading"] = FALSE]
      BY <1>1, <2>1, <3>3, <3>4, <3>5 DEF Plan!Becomes
    <3>7. GoodPlan(q) BY <3>3, PlanShow DEF PlanFields
    <3>8. GoodPlan(r) BY <3>4, <3>7, PlanShow DEF PlanFields
    <3>9. GoodPlan(t) BY <3>2, <3>5, <3>8, PlanShow
    <3> QED BY <3>6, <3>9, PlanShow DEF PlanFields
  <2> QED BY <1>1, <1>2, <1>3, <2>1 DEF Plan!PlanArrives
<1>4. CASE Plan!TemplateArrives(i)
  <2>1. CASE Plan!Becomes([h EXCEPT !.page.hasTemplate = TRUE, !.browser.mapped = TRUE])
    <3>1. page' = [page EXCEPT !["hasTemplate"] = TRUE] BY <1>1, <2>1 DEF Plan!Becomes
    <3> QED BY <3>1, PlanShow DEF PlanFields
  <2> QED BY <1>1, <1>2, <1>4, <2>1 DEF Plan!TemplateArrives
<1>5. CASE Plan!Saved(i)
  <2>1. CASE Plan!Becomes([h EXCEPT !.page.step = Plan!PlanLeft,
                                    !.page.editor = Plan!NoEditor])
    <3>1. PICK q : q = [page EXCEPT !["step"] = Plan!PlanLeft] OBVIOUS
    <3>2. page' = [q EXCEPT !.editor = Plan!NoEditor] BY <1>1, <2>1, <3>1 DEF Plan!Becomes
    <3>3. GoodPlan(q) BY <3>1, PlanShow DEF PlanFields
    <3>4. GoodEditorOfPlan(Plan!NoEditor) BY DEF GoodEditorOfPlan
    <3> QED BY <3>2, <3>3, <3>4, PlanShow
  <2> QED BY <1>1, <1>2, <1>5, <2>1 DEF Plan!Saved
<1> QED BY <1>3, <1>4, <1>5

\* What the user does to the plan.
LEMMA PlanUserSteps ==
  ASSUME GoodPlan(page),
         \/ Plan!EnterName \/ Plan!Move \/ Plan!Submit \/ Plan!SubmitConfig
         \/ \E n \in DOMAIN page.sequences :
              \E k \in DOMAIN page.sequences[n] : Plan!DeleteConfig(n, k)
  PROVE  GoodPlan(page')
<1>1. PICK s : s = Plan!State /\ s.page = page /\ DOMAIN s = {"page", "browser", "requests"}
  <2>1. PICK s : s = Plan!State OBVIOUS
  <2> QED BY <2>1, PlanHeard
<1>2. /\ AreSequences(page.sequences) /\ DOMAIN page = PlanFields
      /\ GoodEditorOfPlan(page.editor)
  BY DEF GoodPlan
<1>3. CASE Plan!EnterName
  <2>1. page' = [page EXCEPT !["named"] = TRUE] BY <1>3 DEF Plan!EnterName, Plan!Shows
  <2> QED BY <2>1, PlanShow DEF PlanFields
<1>4. CASE Plan!Move
  <2>1. PICK k : page' = [page EXCEPT !["step"] = k] BY <1>4 DEF Plan!Move, Plan!Shows
  <2> QED BY <2>1, PlanShow DEF PlanFields
<1>5. CASE Plan!Submit
  <2>1. PICK arg : Plan!Becomes(Plan!Send(s, "save", arg)) BY <1>1, <1>5 DEF Plan!Submit
  <2>2. page' = page BY <1>1, <2>1, PlanHeard DEF Plan!Becomes
  <2> QED BY <2>2
<1>6. CASE Plan!SubmitConfig
  <2>1. PICK config : config = page.editor.form.config OBVIOUS
  <2>2. PICK q : q = Plan!Submitted(page.sequences, page.editor.at, config) OBVIOUS
  <2>3. /\ page' = [page EXCEPT !.editor = Plan!NoEditor, !.sequences = q]
        /\ page.editor # Plan!NoEditor
    BY <1>2, <1>6, <2>1, <2>2 DEF Plan!SubmitConfig, Plan!Shows, Plan!CanSubmit,
       Plan!IsEditing, PlanFields
  <2>4. IsConfig(config) BY <1>2, <2>1, <2>3 DEF GoodEditorOfPlan, IsForm
  <2>5. AreSequences(q) BY <1>2, <2>2, <2>4, SubmittedFacts
  <2>6. PICK p : p = [page EXCEPT !.editor = Plan!NoEditor] OBVIOUS
  <2>7. GoodPlan(p) BY <2>6, PlanShow DEF GoodEditorOfPlan
  <2>8. page' = [p EXCEPT !.sequences = q] BY <2>3, <2>6
  <2> QED BY <2>5, <2>7, <2>8, PlanShow
<1>7. ASSUME NEW n \in DOMAIN page.sequences, NEW k \in DOMAIN page.sequences[n],
             Plan!DeleteConfig(n, k)
      PROVE  GoodPlan(page')
  <2>1. AreConfigs(page.sequences[n]) BY <1>2 DEF AreSequences
  <2>2. PICK c : c = RemoveAt(page.sequences[n], 1) OBVIOUS
  <2>3. page.sequences[n] # <<>> OBVIOUS
  <2>4. AreConfigs(c)
    <3>1. 1 \in DOMAIN page.sequences[n]
      <4>1. PICK S : page.sequences[n] \in Seq(S) BY <2>1 DEF AreConfigs, IsSeq
      <4> QED BY <4>1, <2>3
    <3> QED BY <2>1, <2>2, <3>1, RemoveCall DEF AreConfigs
  <2>5. Plan!RemoveAt(page.sequences[n], 1) = c BY <2>2 DEF Plan!RemoveAt, RemoveAt
  <2>6. PICK q : q = [page.sequences EXCEPT ![n] = c] OBVIOUS
  <2>7. page' = [page EXCEPT !.sequences = q]
    BY <1>2, <1>7, <2>5, <2>6 DEF Plan!DeleteConfig, Plan!Shows, PlanFields
  <2>8. AreSequences(q) BY <1>2, <2>4, <2>6, SequencesFacts
  <2> QED BY <2>7, <2>8, PlanShow
<1> QED BY <1>3, <1>4, <1>5, <1>6, <1>7

\* The dialog, opened for a copy of a config of the plan or a new one.
LEMMA PlanDialogSteps ==
  ASSUME GoodPlan(page),
         \/ Plan!AddSequence \/ Plan!EditorNext
         \/ \E n \in DOMAIN page.sequences : Plan!AddRerunConfig(n)
         \/ \E n \in DOMAIN page.sequences :
              \E k \in DOMAIN page.sequences[n] : Plan!EditConfig(n, k)
  PROVE  GoodPlan(page')
<1>1. PICK s : s = Plan!State /\ s.page = page /\ DOMAIN s = {"page", "browser", "requests"}
  <2>1. PICK s : s = Plan!State OBVIOUS
  <2> QED BY <2>1, PlanHeard
<1>2. /\ AreSequences(page.sequences) /\ DOMAIN page = PlanFields
      /\ GoodEditorOfPlan(page.editor)
  BY DEF GoodPlan
<1>3. ASSUME NEW config, IsConfig(config), NEW at,
             Plan!Becomes(Plan!OpenEditor(s, config, at))
      PROVE  GoodPlan(page')
  <2>1. PICK t : t = Plan!OpenEditor(s, config, at) OBVIOUS
  <2>2. EditedOfPlan(page, t.page) BY <1>1, <1>3, <2>1, OpenOfPlan
  <2>3. page' = t.page BY <1>3, <2>1 DEF Plan!Becomes
  <2> QED BY <2>2, <2>3, PlanShow
<1>4. ASSUME NEW c, AreConfigs(c), c # <<>> PROVE IsConfig(c[1]) /\ IsConfig(c[Len(c)])
  <2>1. PICK S : c \in Seq(S) BY <1>4 DEF AreConfigs, IsSeq
  <2>2. 1 \in DOMAIN c /\ Len(c) \in DOMAIN c BY <1>4, <2>1
  <2> QED BY <1>4, <2>2 DEF AreConfigs
<1>5. CASE Plan!AddSequence
  <2>1. PICK last : last = page.sequences[Len(page.sequences)] OBVIOUS
  <2>2. PICK config :
          /\ config = IF page.sequences = <<>> THEN Plan!Template ELSE last[1]
          /\ page.sequences # <<>> => last # <<>>
          /\ Plan!Becomes(Plan!OpenEditor(s, config, <<0, 0>>))
    BY <1>1, <1>5, <2>1 DEF Plan!AddSequence
  <2>3. IsConfig(Plan!Template)
    BY DEF Plan!Template, Plan!InitTestRunConfig, IsConfig, ConfigFields
  <2>4. page.sequences # <<>> => AreConfigs(last)
    <3>1. AreConfigs(<<>>) BY NoCalls DEF Calls, AreConfigs
    <3>2. page.sequences # <<>> => Len(page.sequences) \in DOMAIN page.sequences
      BY <1>2, <3>1, SequencesFacts
    <3> QED BY <1>2, <2>1, <3>2 DEF AreSequences
  <2>5. IsConfig(config) BY <1>4, <2>2, <2>3, <2>4
  <2> QED BY <1>3, <2>2, <2>5
<1>6. CASE Plan!EditorNext
  <2>1. page' = page \/ EditedOfPlan(page, page')
    BY <1>2, <1>6, EditorOfPlan DEF PlanFields
  <2> QED BY <2>1, PlanShow
<1>7. ASSUME NEW n \in DOMAIN page.sequences, Plan!AddRerunConfig(n) PROVE GoodPlan(page')
  <2>1. PICK c : c = page.sequences[n] OBVIOUS
  <2>2. c # <<>> /\ Plan!Becomes(Plan!OpenEditor(s, c[Len(c)], <<n, 0>>))
    BY <1>1, <1>7, <2>1 DEF Plan!AddRerunConfig
  <2>3. AreConfigs(c) BY <1>2, <2>1 DEF AreSequences
  <2> QED BY <1>3, <1>4, <2>2, <2>3
<1>8. ASSUME NEW n \in DOMAIN page.sequences, NEW k \in DOMAIN page.sequences[n],
             Plan!EditConfig(n, k)
      PROVE  GoodPlan(page')
  <2>1. Plan!Becomes(Plan!OpenEditor(s, page.sequences[n][k], <<n, k>>))
    BY <1>1, <1>8 DEF Plan!EditConfig
  <2>2. IsConfig(page.sequences[n][k]) BY <1>2 DEF AreSequences, AreConfigs
  <2> QED BY <1>3, <2>1, <2>2
<1> QED BY <1>5, <1>6, <1>7, <1>8

LEMMA PlanInit ==
  ASSUME Plan!Init
  PROVE  GoodPlan(page)
<1>1. /\ DOMAIN page = PlanFields /\ page.sequences = <<>>
      /\ page.editor = Plan!NoEditor
  BY DEF Plan!Init, PlanFields
<1>2. AreSequences(<<>>) BY NoCalls DEF Calls, AreSequences
<1> QED BY <1>1, <1>2 DEF GoodPlan, GoodEditorOfPlan

LEMMA PlanNext ==
  ASSUME GoodPlan(page), [Plan!Next]_vars
  PROVE  GoodPlan(page)'
<1>1. CASE UNCHANGED vars BY <1>1 DEF vars
<1>2. CASE \E i : Plan!Serve(i) \/ Plan!Fail(i)
  BY <1>2 DEF Plan!Serve, Plan!Fail
<1> QED
  BY <1>1, <1>2, PlanHearsSteps, PlanUserSteps, PlanDialogSteps DEF Plan!Next

LEMMA PlanShows ==
  ASSUME GoodPlan(page)
  PROVE  Plan!ResourcesFitThePlan
BY DEF GoodPlan, GoodEditorOfPlan, Plan!ResourcesFitThePlan, Plan!IsEditing

-----------------------------------------------------------------------------
(* Lists that are joined.                                                  *)

\* A set of numbers has a least one: the intervals up to them are well-founded.
LEMMA LeastNumber ==
  ASSUME NEW S, S \subseteq Nat, S # {}
  PROVE  \E n \in S : \A m \in S : n <= m
<1>1. PICK T : T = {0 .. n : n \in S} OBVIOUS
<1>2. T \subseteq FiniteSubsetsOf(Nat) /\ T # {}
  <2>1. ASSUME NEW t \in T PROVE t \in FiniteSubsetsOf(Nat)
    <3>1. PICK n \in S : t = 0 .. n BY <1>1
    <3>2. IsFiniteSet(t) BY <3>1, FS_Interval
    <3> QED BY <3>1, <3>2 DEF FiniteSubsetsOf
  <2> QED BY <1>1, <2>1
<1>3. PICK least \in T : \A t \in T : <<t, least>> \notin StrictSubsetOrdering(Nat)
  BY <1>2, FS_StrictSubsetOrderingWellFounded, WFMin
<1>4. PICK n \in S : least = 0 .. n BY <1>1
<1>5. ASSUME NEW m \in S PROVE n <= m
  <2>1. 0 .. m \in T /\ m \in Nat /\ n \in Nat BY <1>1
  <2>2. <<0 .. m, 0 .. n>> \notin StrictSubsetOrdering(Nat) BY <1>3, <1>4, <2>1
  <2>3. CASE m < n
    <3>1. 0 .. m \subseteq 0 .. n /\ 0 .. m \in SUBSET Nat /\ 0 .. n \in SUBSET Nat
      BY <2>1, <2>3
    <3>2. n \in 0 .. n /\ n \notin 0 .. m BY <2>1, <2>3
    <3>3. <<0 .. m, 0 .. n>> \in StrictSubsetOrdering(Nat)
      BY <3>1, <3>2 DEF StrictSubsetOrdering
    <3> QED BY <2>2, <3>3
  <2> QED BY <2>1, <2>3
<1> QED BY <1>5

\* The lists of the first parts, one after the other.
Joins(f, parts, k) ==
  /\ DOMAIN f = 0 .. k /\ f = [n \in 0 .. k |-> f[n]] /\ f[0] = <<>>
  /\ \A n \in 1 .. k : f[n] = f[n - 1] \o parts[n]

LEMMA JoiningExists ==
  ASSUME NEW parts, NEW k \in Nat
  PROVE  \E f : Joins(f, parts, k)
<1>1. PICK bad : bad = {n \in Nat : ~ \E f : Joins(f, parts, n)} OBVIOUS
<1>2. CASE bad # {}
  <2>1. PICK n \in bad : \A m \in bad : n <= m BY <1>1, <1>2, LeastNumber
  <2>2. CASE n = 0
    <3>1. PICK f : f = [i \in 0 .. 0 |-> <<>>] OBVIOUS
    <3>2. Joins(f, parts, 0) BY <3>1 DEF Joins
    <3> QED BY <1>1, <2>1, <2>2, <3>2
  <2>3. CASE n # 0
    <3>1. n \in Nat /\ n - 1 \in Nat /\ n - 1 \notin bad BY <1>1, <2>1, <2>3
    <3>2. PICK f : Joins(f, parts, n - 1) BY <1>1, <3>1
    <3>3. PICK g : g = [i \in 0 .. n |-> IF i = n THEN f[n - 1] \o parts[n] ELSE f[i]]
      OBVIOUS
    <3>4. DOMAIN g = 0 .. n /\ g = [i \in 0 .. n |-> g[i]] BY <3>3
    <3>5. g[0] = <<>> BY <2>3, <3>1, <3>2, <3>3 DEF Joins
    <3>6. ASSUME NEW i \in 1 .. n PROVE g[i] = g[i - 1] \o parts[i]
      <4>1. CASE i = n BY <3>1, <3>3, <4>1
      <4>2. CASE i # n
        <5>1. i \in 1 .. n - 1 /\ i - 1 \in 0 .. n /\ i - 1 # n /\ i \in 0 .. n
          BY <3>1, <4>2
        <5>2. f[i] = f[i - 1] \o parts[i] BY <3>2, <5>1 DEF Joins
        <5> QED BY <3>3, <4>2, <5>1, <5>2
      <4> QED BY <4>1, <4>2
    <3>7. Joins(g, parts, n) BY <3>4, <3>5, <3>6 DEF Joins
    <3> QED BY <1>1, <2>1, <3>7
  <2> QED BY <2>2, <2>3
<1> QED BY <1>1, <1>2

LEMMA JoiningIsUnique ==
  ASSUME NEW parts, NEW other, NEW k \in Nat, \A n \in 1 .. k : parts[n] = other[n],
         NEW j \in Nat, NEW l \in Nat, k <= j, k <= l,
         NEW f, Joins(f, parts, j), NEW g, Joins(g, other, l)
  PROVE  f[k] = g[k]
<1>1. PICK bad : bad = {n \in 0 .. k : f[n] # g[n]} OBVIOUS
<1>2. CASE bad # {}
  <2>0. bad \subseteq Nat BY <1>1
  <2>1. PICK n \in bad : \A m \in bad : n <= m BY <1>2, <2>0, LeastNumber
  <2>2. n \in 0 .. k /\ f[n] # g[n] BY <1>1, <2>1
  <2>3. n # 0 BY <2>2 DEF Joins
  <2>4. n - 1 \in 0 .. k /\ n - 1 \notin bad /\ n \in 1 .. k /\ n \in 1 .. j /\ n \in 1 .. l
    BY <2>1, <2>2, <2>3
  <2>5. f[n - 1] = g[n - 1] BY <1>1, <2>4
  <2>6. f[n] = f[n - 1] \o parts[n] /\ g[n] = g[n - 1] \o other[n] BY <2>4 DEF Joins
  <2> QED BY <2>2, <2>4, <2>5, <2>6
<1> QED BY <1>1, <1>2

\* Joined by what it does.
LEMMA JoinedBy ==
  ASSUME NEW parts, IsSeq(parts)
  PROVE  \E f : Joins(f, parts, Len(parts)) /\ Joined(parts) = f[Len(parts)]
<1>1. Len(parts) \in Nat BY DEF IsSeq
<1>2. PICK g : g = CHOOSE f : f = [n \in 0 .. Len(parts) |->
                  IF n = 0 THEN <<>> ELSE f[n - 1] \o parts[n]]
  OBVIOUS
<1>3. Joined(parts) = g[Len(parts)] BY <1>2 DEF Joined
<1>4. \E f : f = [n \in 0 .. Len(parts) |-> IF n = 0 THEN <<>> ELSE f[n - 1] \o parts[n]]
  <2>1. PICK f : Joins(f, parts, Len(parts)) BY <1>1, JoiningExists
  <2>2. PICK h : h = [n \in 0 .. Len(parts) |-> IF n = 0 THEN <<>> ELSE f[n - 1] \o parts[n]]
    OBVIOUS
  <2>3. \A n \in 0 .. Len(parts) : h[n] = f[n]
    BY <1>1, <2>1, <2>2 DEF Joins
  <2>4. h = [n \in 0 .. Len(parts) |-> f[n]] BY <2>2, <2>3
  <2>5. h = f BY <2>1, <2>4 DEF Joins
  <2> QED BY <2>2, <2>5
<1>5. g = [n \in 0 .. Len(parts) |-> IF n = 0 THEN <<>> ELSE g[n - 1] \o parts[n]]
  BY <1>2, <1>4
<1>6. Joins(g, parts, Len(parts))
  <2>1. DOMAIN g = 0 .. Len(parts) BY <1>5
  <2>2. g = [n \in 0 .. Len(parts) |-> g[n]] BY <1>5
  <2>3. g[0] = <<>> BY <1>1, <1>5
  <2>4. ASSUME NEW n \in 1 .. Len(parts) PROVE g[n] = g[n - 1] \o parts[n]
    <3>1. n \in 0 .. Len(parts) /\ n # 0 BY <1>1, <2>4
    <3> QED BY <1>5, <3>1
  <2> QED BY <2>1, <2>2, <2>3, <2>4 DEF Joins
<1> QED BY <1>3, <1>6

\* One part more, and the first one.
LEMMA JoinedMore ==
  ASSUME NEW parts, IsSeq(parts), NEW n \in Nat, n + 1 \in DOMAIN parts
  PROVE  Joined(SubSeq(parts, 1, n + 1)) = Joined(SubSeq(parts, 1, n)) \o parts[n + 1]
<1>1. PICK S : parts \in Seq(S) BY DEF IsSeq
<1>2. n + 1 <= Len(parts) BY <1>1
<1>3. PICK a, b : a = SubSeq(parts, 1, n) /\ b = SubSeq(parts, 1, n + 1) OBVIOUS
<1>4. /\ a \in Seq(S) /\ Len(a) = n /\ \A i \in 1 .. n : a[i] = parts[i]
      /\ b \in Seq(S) /\ Len(b) = n + 1 /\ \A i \in 1 .. n + 1 : b[i] = parts[i]
  BY <1>1, <1>2, <1>3
<1>5. PICK f : Joins(f, a, n) /\ Joined(a) = f[n] BY <1>4, JoinedBy DEF IsSeq
<1>6. PICK g : Joins(g, b, n + 1) /\ Joined(b) = g[n + 1] BY <1>4, JoinedBy DEF IsSeq
<1>7. f[n] = g[n]
  <2>1. \A i \in 1 .. n : a[i] = b[i] BY <1>4
  <2> QED BY <1>5, <1>6, <2>1, JoiningIsUnique
<1>8. g[n + 1] = g[n] \o b[n + 1]
  <2>1. n + 1 \in 1 .. n + 1 /\ (n + 1) - 1 = n OBVIOUS
  <2>2. g[n + 1] = g[(n + 1) - 1] \o b[n + 1] BY <1>6, <2>1 DEF Joins
  <2> QED BY <2>1, <2>2
<1>9. b[n + 1] = parts[n + 1] BY <1>4
<1> QED BY <1>3, <1>5, <1>6, <1>7, <1>8, <1>9

LEMMA JoinedNone ==
  ASSUME NEW parts, IsSeq(parts)
  PROVE  Joined(SubSeq(parts, 1, 0)) = <<>>
<1>1. PICK S : parts \in Seq(S) BY DEF IsSeq
<1>2. PICK a : a = SubSeq(parts, 1, 0) OBVIOUS
<1>3. a \in Seq(S) /\ Len(a) = 0 BY <1>1, <1>2
<1>4. PICK f : Joins(f, a, 0) /\ Joined(a) = f[0] BY <1>3, JoinedBy DEF IsSeq
<1> QED BY <1>2, <1>4 DEF Joins

-----------------------------------------------------------------------------
(* The dialog that picks a file of a build channel.                        *)

PickerFields ==
  {"isOpen", "channels", "available", "tab", "tabs", "channel", "url", "filename",
   "items", "token", "isLoading", "selection", "isTyping"}

\* The list is to be that of the search bar.
Settles(p) == p.isOpen /\ Picker!Loadable(p) /\ ~ p.isTyping

\* The list is the first parts of the directory, and the token that of the next one.
IsUpTo(p, pages, n) ==
  /\ n \in DOMAIN pages
  /\ p.items = Joined(SubSeq(pages, 1, n))
  /\ p.token = IF n = Len(pages) THEN 0 ELSE n + 1
Fits(p) == \E n : IsUpTo(p, PagesOf(p.channel, p.url), n)

\* A call for the part the list goes on with.
Continues(p, arg) ==
  /\ arg.channel = p.channel /\ arg.path = p.url
  /\ \/ arg.token = 0 /\ p.items = <<>>
     \/ arg.token # 0 /\ arg.token = p.token /\ Fits(p)

\* A list is called for once at a time.
ListCalls(q) == {i \in DOMAIN q : q[i].kind = "list"}
GoodList(p, q) ==
  Settles(p) =>
    /\ p.items = <<>> \/ Fits(p)
    /\ \A i, j \in ListCalls(q) : i = j
    /\ \A i \in ListCalls(q) : Continues(p, q[i].arg)

\* The tab of the local files has no directory of a channel.
GoodTab(p) ==
  /\ DOMAIN p = PickerFields /\ IsSeq(p.channels)
  /\ p.tab = 1 => ~ Picker!IsDirectory(p.channel)

GoodBrowser(b) == DOMAIN b = {"channels", "available", "resource"} /\ IsSeq(b.channels)

\* What the service has answered is there.
PartOfArg(arg) == IF arg.token = 0 THEN 1 ELSE arg.token
GoodParts(q) ==
  \A i \in ListCalls(q) : q[i].status = "ok" =>
    /\ PartOfArg(q[i].arg) \in DOMAIN PagesOf(q[i].arg.channel, q[i].arg.path)
    /\ q[i].answer = Picker!ServeList(q[i].arg)

PickerState(s) ==
  /\ IsOf(s) /\ GoodTab(s.page) /\ GoodBrowser(s.browser)
  /\ Calls(s.requests) /\ GoodParts(s.requests)

LEMMA ListIsSeq == ASSUME NEW s, IsList(s) PROVE IsSeq(s)
BY DEF IsList, IsSeq

LEMMA PagesAreLists ==
  ASSUME NEW c, NEW p
  PROVE  /\ IsSeq(PagesOf(c, p))
         /\ \A n \in DOMAIN PagesOf(c, p) : IsSeq(PagesOf(c, p)[n])
<1>1. CASE <<c, p>> \in DOMAIN PickerPage.Pages
  <2>1. PagesOf(c, p) = PickerPage.Pages[<<c, p>>] BY <1>1 DEF PagesOf
  <2>2. /\ IsList(PickerPage.Pages[<<c, p>>])
        /\ \A n \in DOMAIN PickerPage.Pages[<<c, p>>] :
             IsList(PickerPage.Pages[<<c, p>>][n])
    BY <1>1, PickerPageAssumption
  <2> QED BY <2>1, <2>2, ListIsSeq
<1>2. CASE <<c, p>> \notin DOMAIN PickerPage.Pages
  <2>1. PagesOf(c, p) = <<>> BY <1>2 DEF PagesOf
  <2>2. <<>> \in Seq({}) OBVIOUS
  <2> QED BY <2>1, <2>2 DEF IsSeq
<1> QED BY <1>1, <1>2

\* The first part, and one more.
LEMMA FirstPart ==
  ASSUME NEW pages, IsSeq(pages), 1 \in DOMAIN pages, IsSeq(pages[1])
  PROVE  <<>> \o pages[1] = Joined(SubSeq(pages, 1, 1))
<1>1. PICK n : n = 0 OBVIOUS
<1>2. n \in Nat /\ n + 1 = 1 /\ n + 1 \in DOMAIN pages BY <1>1
<1>3. Joined(SubSeq(pages, 1, n + 1)) = Joined(SubSeq(pages, 1, n)) \o pages[n + 1]
  BY <1>2, JoinedMore
<1>4. Joined(SubSeq(pages, 1, n)) = <<>> BY <1>1, JoinedNone
<1> QED BY <1>2, <1>3, <1>4

LEMMA OnePartMore ==
  ASSUME NEW pages, IsSeq(pages), NEW n \in DOMAIN pages, n + 1 \in DOMAIN pages
  PROVE  Joined(SubSeq(pages, 1, n)) \o pages[n + 1] = Joined(SubSeq(pages, 1, n + 1))
<1>1. n \in Nat BY DEF IsSeq
<1> QED BY <1>1, JoinedMore

\* A part of a list that a call continues goes on where the list ends.
LEMMA ListGoesOn ==
  ASSUME NEW p, NEW arg, Continues(p, arg), NEW r, r = Picker!ServeList(arg),
         PartOfArg(arg) \in DOMAIN PagesOf(arg.channel, arg.path),
         NEW o, o.channel = p.channel, o.url = p.url, o.items = p.items \o r.items,
         o.token = r.token
  PROVE  Fits(o)
<1>1. PICK pages : pages = PagesOf(p.channel, p.url) OBVIOUS
<1>2. IsSeq(pages) /\ \A n \in DOMAIN pages : IsSeq(pages[n]) BY <1>1, PagesAreLists
<1>3. PICK k : k = PartOfArg(arg) OBVIOUS
<1>4. k \in DOMAIN pages BY <1>1, <1>3 DEF Continues
<1>5. r.items = pages[k] /\ r.token = IF k = Len(pages) THEN 0 ELSE k + 1
  BY <1>1, <1>3 DEF Picker!ServeList, Picker!NoToken, PartOfArg, Continues
<1>6. o.items = Joined(SubSeq(pages, 1, k))
  <2>1. CASE arg.token = 0 /\ p.items = <<>>
    <3>1. k = 1 BY <1>3, <2>1 DEF PartOfArg
    <3> QED BY <1>2, <1>4, <1>5, <2>1, <3>1, FirstPart
  <2>2. CASE arg.token # 0 /\ arg.token = p.token /\ Fits(p)
    <3>1. PICK n : IsUpTo(p, pages, n) BY <1>1, <2>2 DEF Fits
    <3>2. k = p.token /\ p.token # 0 BY <1>3, <2>2 DEF PartOfArg
    <3>3. n \in DOMAIN pages /\ p.items = Joined(SubSeq(pages, 1, n)) /\ k = n + 1
      BY <3>1, <3>2 DEF IsUpTo
    <3> QED BY <1>2, <1>4, <1>5, <3>3, OnePartMore
  <2> QED BY <2>1, <2>2 DEF Continues
<1>7. IsUpTo(o, pages, k) BY <1>4, <1>5, <1>6 DEF IsUpTo
<1> QED BY <1>1, <1>7 DEF Fits

-----------------------------------------------------------------------------
(* The calls for the list.                                                 *)

\* Without the calls for the list.
LEMMA OthersFacts ==
  ASSUME NEW q, Calls(q), GoodParts(q), NEW o, o = Picker!Others(q)
  PROVE  Calls(o) /\ ListCalls(o) = {}
<1>1. PICK places : places = {i \in DOMAIN q : q[i].kind # "list"} OBVIOUS
<1>2. o = Kept(q, places)
  BY <1>1 DEF Picker!Others, Picker!Kept, Kept, Picker!Ascending, Ascending,
         Picker!Cardinality, Cardinality, Picker!IsFiniteSet, IsFiniteSet
<1>3. /\ IsSeq(Kept(q, places))
      /\ \A k \in DOMAIN Kept(q, places) : \E i \in places : Kept(q, places)[k] = q[i]
  <2>1. places \in SUBSET DOMAIN q BY <1>1
  <2> QED BY <2>1, KeptFacts DEF Calls
<1>4. \A k \in DOMAIN o : \E i \in DOMAIN q : o[k] = q[i] /\ q[i].kind # "list"
  BY <1>1, <1>2, <1>3
<1>5. Calls(o) BY <1>2, <1>3, <1>4 DEF Calls
<1>6. ListCalls(o) = {} BY <1>4 DEF ListCalls
<1> QED BY <1>5, <1>6

LEMMA Unsubscribes ==
  ASSUME NEW s, PickerState(s), NEW t, t = Picker!Unsubscribe(s)
  PROVE  /\ PickerState(t) /\ ListCalls(t.requests) = {}
         /\ t.page = [s.page EXCEPT !.isLoading = FALSE] /\ t.browser = s.browser
<1>1. PICK o : o = Picker!Others(s.requests) OBVIOUS
<1>2. Calls(o) /\ ListCalls(o) = {} BY <1>1, OthersFacts DEF PickerState
<1>3. PICK p : p = [s.page EXCEPT !.isLoading = FALSE] OBVIOUS
<1>4. t.requests = o /\ t.page = p /\ t.browser = s.browser /\ IsOf(t)
  BY <1>1, <1>3 DEF Picker!Unsubscribe, PickerState, IsOf
<1>5. GoodTab(p)
  BY <1>3 DEF PickerState, GoodTab, PickerFields
<1>6. GoodParts(o) BY <1>2 DEF GoodParts
<1> QED BY <1>2, <1>3, <1>4, <1>5, <1>6 DEF PickerState

\* Another call does not concern the list.
LEMMA SendsOther ==
  ASSUME NEW s, PickerState(s), NEW kind, NEW arg, NEW t, t = Picker!Send(s, kind, arg)
  PROVE  /\ IsOf(t) /\ t.page = s.page /\ t.browser = s.browser
         /\ PickerState(t)
         /\ kind # "list" => ListCalls(t.requests) = ListCalls(s.requests)
         /\ kind = "list" => ListCalls(t.requests)
                               = ListCalls(s.requests) \cup {Len(s.requests) + 1}
         /\ \A i \in ListCalls(s.requests) : t.requests[i] = s.requests[i]
         /\ t.requests[Len(s.requests) + 1].arg = arg
<1>1. PICK r : r = Picker!Request(kind, arg) OBVIOUS
<1>2. PICK q : q = s.requests OBVIOUS
<1>3. /\ IsOf(t) /\ t.page = s.page /\ t.browser = s.browser /\ t.requests = Append(q, r)
  BY <1>1, <1>2 DEF Picker!Send, PickerState, IsOf
<1>4. /\ DOMAIN r = CallFields /\ r.kind = kind /\ r.arg = arg /\ r.status = "sent"
  BY <1>1 DEF Picker!Request, CallFields
<1>5. /\ IsSeq(Append(q, r))
      /\ DOMAIN Append(q, r) = DOMAIN q \cup {Len(q) + 1}
      /\ \A i \in DOMAIN q : Append(q, r)[i] = q[i]
      /\ Append(q, r)[Len(q) + 1] = r
  BY <1>2, AppendCall DEF PickerState, Calls
<1>6. Calls(t.requests) BY <1>2, <1>3, <1>4, <1>5 DEF PickerState, Calls
<1>7. /\ kind # "list" => ListCalls(t.requests) = ListCalls(q)
      /\ kind = "list" => ListCalls(t.requests) = ListCalls(q) \cup {Len(q) + 1}
  <2>1. Len(q) + 1 \notin DOMAIN q BY <1>2 DEF PickerState, Calls, IsSeq
  <2> QED BY <1>3, <1>4, <1>5, <2>1 DEF ListCalls
<1>8. GoodParts(t.requests)
  <2>1. ASSUME NEW i \in ListCalls(t.requests), t.requests[i].status = "ok"
        PROVE  i \in ListCalls(q) /\ t.requests[i] = q[i]
    BY <1>3, <1>4, <1>5, <2>1 DEF ListCalls
  <2> QED BY <1>2, <2>1 DEF GoodParts, PickerState
<1> QED BY <1>2, <1>3, <1>4, <1>5, <1>6, <1>7, <1>8 DEF PickerState, ListCalls

\* Whatever was under way, the list is that of the search bar, from its start.
LEMMA LoadsList ==
  ASSUME NEW s, PickerState(s), NEW t, t = Picker!LoadBuildList(s, 0)
  PROVE  PickerState(t) /\ GoodList(t.page, t.requests)
<1>1. CASE ~ Picker!Loadable(s.page)
  <2>1. t = s BY <1>1 DEF Picker!LoadBuildList
  <2> QED BY <1>1, <2>1 DEF GoodList, Settles
<1>2. CASE Picker!Loadable(s.page)
  <2>1. PICK u : u = Picker!Unsubscribe(s) OBVIOUS
  <2>2. /\ PickerState(u) /\ ListCalls(u.requests) = {}
        /\ u.page = [s.page EXCEPT !.isLoading = FALSE]
    BY <2>1, Unsubscribes
  <2>3. PICK arg : arg = [channel |-> s.page.channel, path |-> s.page.url, token |-> 0]
    OBVIOUS
  <2>4. PICK v : v = [u EXCEPT !.page.items = <<>>, !.page.isLoading = TRUE] OBVIOUS
  <2>5. t = Picker!Send(v, "list", arg)
    <3>1. PICK c : c = [u EXCEPT !.page.items = <<>>] OBVIOUS
    <3>2. c = [u EXCEPT !.page.items = IF 0 = Picker!NoToken THEN <<>> ELSE @]
      BY <3>1 DEF Picker!NoToken
    <3>3. v = [c EXCEPT !.page.isLoading = TRUE] BY <2>4, <3>1
    <3> QED BY <1>2, <2>1, <2>3, <3>2, <3>3 DEF Picker!LoadBuildList
  <2>6. /\ DOMAIN v.page = PickerFields /\ v.page.items = <<>>
        /\ v.page.channel = s.page.channel /\ v.page.url = s.page.url
        /\ v.page.tab = s.page.tab /\ v.page.channels = s.page.channels
        /\ v.requests = u.requests /\ v.browser = u.browser /\ IsOf(v)
    BY <2>2, <2>4 DEF PickerState, IsOf, GoodTab, PickerFields
  <2>7. PickerState(v)
    <3>1. GoodTab(v.page) BY <2>6 DEF PickerState, GoodTab
    <3> QED BY <2>2, <2>6, <3>1 DEF PickerState
  <2>8. /\ PickerState(t) /\ t.page = v.page
        /\ ListCalls(t.requests) = {Len(v.requests) + 1}
        /\ t.requests[Len(v.requests) + 1].arg = arg
    <3>1. PICK kind : kind = "list" OBVIOUS
    <3>2. t = Picker!Send(v, kind, arg) BY <2>5, <3>1
    <3>3. /\ PickerState(t) /\ t.page = v.page
          /\ kind = "list" => ListCalls(t.requests)
                                = ListCalls(v.requests) \cup {Len(v.requests) + 1}
          /\ t.requests[Len(v.requests) + 1].arg = arg
      BY <2>7, <3>2, SendsOther
    <3>4. ListCalls(v.requests) = {} BY <2>2, <2>6
    <3> QED BY <3>1, <3>3, <3>4
  <2>9. Continues(t.page, arg) BY <2>3, <2>6, <2>8 DEF Continues
  <2> QED BY <2>6, <2>8, <2>9 DEF GoodList
<1> QED BY <1>1, <1>2

\* So it is when it goes on.
LEMMA LoadsMore ==
  ASSUME NEW s, PickerState(s), GoodList(s.page, s.requests), s.page.items # <<>>,
         s.page.token # 0, NEW t, t = Picker!LoadBuildList(s, s.page.token)
  PROVE  PickerState(t) /\ GoodList(t.page, t.requests)
<1>1. CASE ~ Picker!Loadable(s.page)
  <2>1. t = s BY <1>1 DEF Picker!LoadBuildList
  <2> QED BY <2>1
<1>2. CASE Picker!Loadable(s.page)
  <2>1. PICK u : u = Picker!Unsubscribe(s) OBVIOUS
  <2>2. /\ PickerState(u) /\ ListCalls(u.requests) = {}
        /\ u.page = [s.page EXCEPT !.isLoading = FALSE]
    BY <2>1, Unsubscribes
  <2>3. PICK arg : arg = [channel |-> s.page.channel, path |-> s.page.url,
                          token |-> s.page.token]
    OBVIOUS
  <2>4. PICK c : c = [u EXCEPT !.page.items =
                        IF s.page.token = Picker!NoToken THEN <<>> ELSE @]
    OBVIOUS
  <2>5. PICK v : v = [c EXCEPT !.page.isLoading = TRUE] OBVIOUS
  <2>6. t = Picker!Send(v, "list", arg)
    BY <1>2, <2>1, <2>3, <2>4, <2>5 DEF Picker!LoadBuildList
  <2>7. /\ DOMAIN v.page = PickerFields /\ v.page.items = s.page.items
        /\ v.page.token = s.page.token /\ v.page.isOpen = s.page.isOpen
        /\ v.page.available = s.page.available /\ v.page.isTyping = s.page.isTyping
        /\ v.page.channel = s.page.channel /\ v.page.url = s.page.url
        /\ v.page.tab = s.page.tab /\ v.page.channels = s.page.channels
    BY <2>2, <2>4, <2>5
    DEF PickerState, IsOf, GoodTab, PickerFields, Picker!NoToken
  <2>8. v.requests = u.requests /\ v.browser = u.browser /\ IsOf(v)
    BY <2>2, <2>4, <2>5 DEF PickerState, IsOf
  <2>9. PickerState(v)
    <3>1. GoodTab(v.page) BY <2>7 DEF PickerState, GoodTab
    <3> QED BY <2>2, <2>8, <3>1 DEF PickerState
  <2>10. /\ PickerState(t) /\ t.page = v.page
         /\ ListCalls(t.requests) = {Len(v.requests) + 1}
         /\ t.requests[Len(v.requests) + 1].arg = arg
    <3>1. PICK kind : kind = "list" OBVIOUS
    <3>2. t = Picker!Send(v, kind, arg) BY <2>6, <3>1
    <3>3. /\ PickerState(t) /\ t.page = v.page
          /\ kind = "list" => ListCalls(t.requests)
                                = ListCalls(v.requests) \cup {Len(v.requests) + 1}
          /\ t.requests[Len(v.requests) + 1].arg = arg
      BY <2>9, <3>2, SendsOther
    <3>4. ListCalls(v.requests) = {} BY <2>2, <2>8
    <3> QED BY <3>1, <3>3, <3>4
  <2>11. ASSUME Settles(t.page)
         PROVE  Fits(t.page) /\ Continues(t.page, arg)
    <3>1. Settles(s.page)
      BY <2>7, <2>10, <2>11 DEF Settles, Picker!Loadable, Picker!IsDirectory
    <3>2. Fits(s.page) BY <3>1 DEF GoodList
    <3>3. Fits(t.page) BY <2>7, <2>10, <3>2 DEF Fits, IsUpTo
    <3> QED BY <2>3, <2>7, <2>10, <3>3 DEF Continues
  <2> QED BY <2>10, <2>11 DEF GoodList
<1> QED BY <1>1, <1>2

-----------------------------------------------------------------------------
(* The steps of the dialog.                                                *)

\* Without the call that is heard of, the others are as they were.
LEMMA RemovesCall ==
  ASSUME NEW q, Calls(q), GoodParts(q), NEW k \in DOMAIN q, NEW r,
         r = Picker!RemoveAt(q, k)
  PROVE  /\ Calls(r) /\ GoodParts(r)
         /\ \A i \in ListCalls(r) : \E j \in ListCalls(q) : j # k /\ r[i] = q[j]
         /\ (\A i, j \in ListCalls(q) : i = j) => \A i, j \in ListCalls(r) : i = j
<1>1. r = RemoveAt(q, k) BY DEF Picker!RemoveAt, RemoveAt
<1>2. /\ IsSeq(r) /\ DOMAIN q = 1 .. Len(q) /\ Len(q) \in Nat
      /\ DOMAIN r = 1 .. Len(q) - 1
      /\ \A i \in 1 .. Len(q) - 1 : r[i] = IF i < k THEN q[i] ELSE q[i + 1]
  BY <1>1, RemovedPlaces DEF Calls
<1> DEFINE Place(i) == IF i < k THEN i ELSE i + 1
<1>3. ASSUME NEW i \in DOMAIN r
      PROVE  Place(i) \in DOMAIN q /\ Place(i) # k /\ r[i] = q[Place(i)]
  <2>1. i \in 1 .. Len(q) - 1 /\ k \in 1 .. Len(q) BY <1>2
  <2>2. CASE i < k BY <1>2, <2>1, <2>2
  <2>3. CASE ~ (i < k) BY <1>2, <2>1, <2>3
  <2> QED BY <2>2, <2>3
<1>4. ASSUME NEW i \in DOMAIN r, NEW j \in DOMAIN r, Place(i) = Place(j) PROVE i = j
  <2>1. i \in Int /\ j \in Int /\ k \in Int BY <1>2
  <2> QED BY <1>4, <2>1
<1> HIDE DEF Place
<1>5. Calls(r) BY <1>2, <1>3 DEF Calls
<1>6. \A i \in ListCalls(r) : i \in DOMAIN r /\ Place(i) \in ListCalls(q)
  BY <1>3 DEF ListCalls
<1>7. GoodParts(r)
  <2> SUFFICES ASSUME NEW i \in ListCalls(r), r[i].status = "ok"
      PROVE  /\ PartOfArg(r[i].arg) \in DOMAIN PagesOf(r[i].arg.channel, r[i].arg.path)
             /\ r[i].answer = Picker!ServeList(r[i].arg)
    BY DEF GoodParts
  <2>1. Place(i) \in ListCalls(q) /\ r[i] = q[Place(i)] BY <1>3, <1>6
  <2> QED BY <2>1 DEF GoodParts
<1>8. \A i \in ListCalls(r) : \E j \in ListCalls(q) : j # k /\ r[i] = q[j]
  BY <1>3, <1>6
<1>9. ASSUME \A i, j \in ListCalls(q) : i = j, NEW i \in ListCalls(r), NEW j \in ListCalls(r)
      PROVE  i = j
  BY <1>4, <1>6, <1>9
<1> QED BY <1>5, <1>7, <1>8, <1>9

\* A call that is heard of leaves the list as it is, but for what it brings.
LEMMA HearsCall ==
  ASSUME NEW p, NEW b, NEW q, PickerState(Of(p, b, q)), GoodList(p, q),
         NEW k \in DOMAIN q, NEW r, r = Picker!RemoveAt(q, k)
  PROVE  /\ PickerState(Of(p, b, r)) /\ GoodList(p, r)
         /\ Settles(p) /\ q[k].kind = "list" => ListCalls(r) = {}
<1>1. /\ DOMAIN Of(p, b, r) = {"page", "browser", "requests"}
      /\ Of(p, b, r).page = p /\ Of(p, b, r).browser = b /\ Of(p, b, r).requests = r
      /\ Of(p, b, q).page = p /\ Of(p, b, q).browser = b /\ Of(p, b, q).requests = q
  BY DEF Of
<1>2. GoodTab(p) /\ GoodBrowser(b) /\ Calls(q) /\ GoodParts(q) BY <1>1 DEF PickerState
<1>3. /\ Calls(r) /\ GoodParts(r)
      /\ \A i \in ListCalls(r) : \E j \in ListCalls(q) : j # k /\ r[i] = q[j]
      /\ (\A i, j \in ListCalls(q) : i = j) => \A i, j \in ListCalls(r) : i = j
  BY <1>2, RemovesCall
<1>4. PickerState(Of(p, b, r)) BY <1>1, <1>2, <1>3 DEF PickerState, IsOf
<1>5. GoodList(p, r) BY <1>3 DEF GoodList
<1>6. ASSUME Settles(p), q[k].kind = "list" PROVE ListCalls(r) = {}
  <2>1. k \in ListCalls(q) BY <1>6 DEF ListCalls
  <2> QED BY <1>3, <1>6, <2>1 DEF GoodList
<1> QED BY <1>4, <1>5, <1>6

PickerIInv == PickerState(State) /\ GoodList(page, requests)

LEMMA PickerBecomes ==
  ASSUME NEW t, PickerState(t), GoodList(t.page, t.requests), Picker!Becomes(t)
  PROVE  PickerIInv'
<1>1. page' = t.page /\ browser' = t.browser /\ requests' = t.requests
  BY DEF Picker!Becomes
<1>2. /\ DOMAIN State' = {"page", "browser", "requests"}
      /\ State'.page = t.page /\ State'.browser = t.browser
      /\ State'.requests = t.requests
  BY <1>1 DEF State
<1> QED BY <1>1, <1>2 DEF PickerIInv, PickerState, IsOf

LEMMA PickerLoads ==
  ASSUME NEW s, PickerState(s), Picker!Becomes(Picker!LoadBuildList(s, 0))
  PROVE  PickerIInv'
<1>1. PICK t : t = Picker!LoadBuildList(s, 0) OBVIOUS
<1>2. PickerState(t) /\ GoodList(t.page, t.requests) BY <1>1, LoadsList
<1> QED BY <1>1, <1>2, PickerBecomes

\* What a component keeps is kept with the calls and the browser as they are.
LEMMA PickerShows ==
  ASSUME PickerIInv, NEW p, GoodTab(p), GoodList(p, requests), Picker!Shows(p)
  PROVE  PickerIInv'
<1>1. page' = p /\ browser' = browser /\ requests' = requests BY DEF Picker!Shows
<1>2. GoodBrowser(browser) /\ Calls(requests) /\ GoodParts(requests)
  BY DEF PickerIInv, PickerState, State
<1>3. /\ DOMAIN State' = {"page", "browser", "requests"}
      /\ State'.page = p /\ State'.browser = browser /\ State'.requests = requests
  BY <1>1 DEF State
<1> QED BY <1>1, <1>2, <1>3 DEF PickerIInv, PickerState, IsOf

SameList(p, o) ==
  /\ o.isOpen = p.isOpen /\ o.channel = p.channel /\ o.available = p.available
  /\ o.url = p.url /\ o.items = p.items /\ o.token = p.token /\ o.isTyping = p.isTyping

LEMMA ListStays ==
  ASSUME NEW p, NEW o, SameList(p, o), NEW q, GoodList(p, q) PROVE GoodList(o, q)
<1>1. Settles(o) => Settles(p)
  BY DEF SameList, Settles, Picker!Loadable, Picker!IsDirectory
<1>2. Fits(p) => Fits(o) BY DEF SameList, Fits, IsUpTo
<1>3. \A arg : Continues(p, arg) => Continues(o, arg) BY <1>2 DEF SameList, Continues
<1> QED BY <1>1, <1>2, <1>3 DEF GoodList, SameList

LEMMA NotSettled ==
  ASSUME NEW p, ~ Settles(p), NEW q PROVE GoodList(p, q)
BY DEF GoodList

\* The first tab of a channel is the second after that of the local files.
LEMMA NoChannelOfLocalFiles ==
  ASSUME NEW channels, IsSeq(channels)
  PROVE  ~ Picker!IsDirectory(Picker!ChannelOfTab(channels, 1))
<1>1. 1 - Picker!NumStaticTabs + 1 \notin DOMAIN channels
  BY DEF IsSeq, Picker!NumStaticTabs
<1>2. Picker!ChannelOfTab(channels, 1) = Picker!NoChannel
  BY <1>1 DEF Picker!ChannelOfTab
<1> QED BY <1>2 DEF Picker!IsDirectory

LEMMA TabOfResource ==
  ASSUME NEW p, GoodTab(p), p.tab = 0, p.channel = Picker!NoChannel, NEW resource, NEW d,
         d = Picker!DecodeResourceUrl(p, resource)
  PROVE  GoodTab(d)
<1> DEFINE channel == IF resource.channel \in Range(p.channels) THEN resource.channel
                      ELSE Picker!NoChannel
           index == IF channel = Picker!NoChannel THEN -1
                    ELSE (CHOOSE k \in DOMAIN p.channels : p.channels[k] = channel) - 1
<1>1. CASE resource.channel = Picker!NoChannel
  <2>1. /\ DOMAIN d = DOMAIN p /\ d.channels = p.channels /\ d.channel = p.channel
    BY <1>1 DEF Picker!DecodeResourceUrl, GoodTab, PickerFields
  <2>2. ~ Picker!IsDirectory(d.channel) BY <2>1 DEF Picker!IsDirectory
  <2> QED BY <2>1, <2>2 DEF GoodTab
<1>2. CASE resource.channel # Picker!NoChannel
  <2>1. /\ DOMAIN d = DOMAIN p /\ d.channels = p.channels
        /\ d.channel = channel /\ d.tab = index + 2
    BY <1>2 DEF Picker!DecodeResourceUrl, Picker!NumStaticTabs, GoodTab, PickerFields,
      Picker!Range, Range
  <2>2. CASE channel = Picker!NoChannel
    <3>1. ~ Picker!IsDirectory(d.channel) BY <2>1, <2>2 DEF Picker!IsDirectory
    <3> QED BY <2>1, <3>1 DEF GoodTab
  <2>3. CASE channel # Picker!NoChannel
    <3>1. channel \in Range(p.channels) BY <2>3
    <3> DEFINE k == CHOOSE k \in DOMAIN p.channels : p.channels[k] = channel
    <3>2. \E j \in DOMAIN p.channels : p.channels[j] = channel BY <3>1 DEF Range
    <3> HIDE DEF channel
    <3>3. k \in DOMAIN p.channels BY <3>2
    <3>4. index = k - 1 BY <2>3
    <3> HIDE DEF k, index
    <3>5. k \in Nat \ {0} BY <3>3 DEF GoodTab, IsSeq
    <3>6. d.tab # 1 BY <2>1, <3>4, <3>5
    <3> QED BY <2>1, <3>6 DEF GoodTab
  <2> QED BY <2>2, <2>3
<1> QED BY <1>1, <1>2

\* The dialog when it is opened.
LEMMA OpenPageIsGood ==
  ASSUME NEW channels, IsSeq(channels), NEW available, NEW resource, NEW p,
         p = Picker!OpenPage(channels, available, resource)
  PROVE  GoodTab(p)
<1>1. PICK places : places = {k \in DOMAIN channels : ~ IsLocalChannel(channels[k])} OBVIOUS
<1>2. PICK listed : listed = Kept(channels, places) OBVIOUS
<1>3. IsSeq(listed)
  <2>1. places \in SUBSET DOMAIN channels BY <1>1
  <2> QED BY <1>2, <2>1, KeptFacts
<1>4. PICK c : c = [Picker!Closed EXCEPT !.isOpen = TRUE, !.channels = listed,
                                         !.available = available]
  OBVIOUS
<1>5. listed = Picker!Kept(channels, {k \in DOMAIN channels : ~ IsLocalChannel(channels[k])})
  BY <1>1, <1>2 DEF Picker!Kept, Kept, Picker!Ascending, Ascending,
         Picker!Cardinality, Cardinality, Picker!IsFiniteSet, IsFiniteSet
<1>6. p = IF resource = {} THEN c
          ELSE Picker!DecodeResourceUrl(c, CHOOSE r \in resource : TRUE)
  BY <1>4, <1>5 DEF Picker!OpenPage
<1>7. /\ DOMAIN c = PickerFields /\ c.channels = listed
      /\ c.tab = 0 /\ c.channel = Picker!NoChannel
  BY <1>4 DEF Picker!Closed, PickerFields
<1>8. GoodTab(c) BY <1>3, <1>7 DEF GoodTab
<1> QED BY <1>6, <1>7, <1>8, TabOfResource

LEMMA StateOfPicker ==
  ASSUME PickerIInv
  PROVE  /\ IsOf(State) /\ State.page = page /\ State.browser = browser
         /\ State.requests = requests /\ State = Of(page, browser, requests)
         /\ Picker!State = State /\ PickerState(State)
         /\ DOMAIN page = PickerFields /\ IsSeq(page.channels)
         /\ GoodTab(page) /\ GoodBrowser(browser)
         /\ Calls(requests) /\ GoodParts(requests) /\ GoodList(page, requests)
BY DEF PickerIInv, PickerState, State, IsOf, Of, Picker!State, GoodTab

\* A page that is changed, and then its list is loaded.
LEMMA WithPage ==
  ASSUME NEW s, PickerState(s), NEW p, GoodTab(p), NEW t, t = [s EXCEPT !.page = p]
  PROVE  PickerState(t)
<1>1. IsOf(t) /\ t.page = p /\ t.browser = s.browser /\ t.requests = s.requests
  BY DEF PickerState, IsOf
<1> QED BY <1>1 DEF PickerState

LEMMA PickerOpens ==
  ASSUME PickerIInv, Picker!Close \/ Picker!Reopen PROVE PickerIInv'
<1>1. CASE Picker!Close
  <2>1. PICK b : b = [browser EXCEPT !.resource = {Picker!EncodeResourceUrl(page)}] OBVIOUS
  <2>2. PICK t : t = Of(Picker!Closed, browser', Picker!Others(requests)) OBVIOUS
  <2>3. browser' = browser \/ browser' = b BY <1>1, <2>1 DEF Picker!Close
  <2>4. GoodBrowser(browser') BY <2>1, <2>3, StateOfPicker DEF GoodBrowser
  <2>5. Calls(t.requests) /\ ListCalls(t.requests) = {}
    BY <2>2, StateOfPicker, OthersFacts DEF Of
  <2>6. /\ DOMAIN t.page = PickerFields /\ t.page.channels = <<>> /\ t.page.tab = 0
        /\ ~ t.page.isOpen
    BY <2>2 DEF Of, Picker!Closed, PickerFields
  <2>7. GoodTab(t.page)
    <3>1. <<>> \in Seq({}) OBVIOUS
    <3> QED BY <2>6, <3>1 DEF GoodTab, IsSeq
  <2>8. PickerState(t)
    BY <2>2, <2>4, <2>5, <2>7 DEF PickerState, GoodParts, Of, IsOf
  <2>9. GoodList(t.page, t.requests) BY <2>6 DEF GoodList, Settles
  <2>10. Picker!Becomes(t) BY <1>1, <2>2 DEF Picker!Close, Picker!Becomes, Of
  <2> QED BY <2>8, <2>9, <2>10, PickerBecomes
<1>2. CASE Picker!Reopen
  <2>1. PICK p : p = Picker!OpenPage(browser.channels, browser.available, browser.resource)
    OBVIOUS
  <2>2. GoodTab(p) BY <2>1, StateOfPicker, OpenPageIsGood DEF GoodBrowser
  <2>3. PICK s : s = [State EXCEPT !.page = p] OBVIOUS
  <2>4. PickerState(s) BY <2>2, <2>3, StateOfPicker, WithPage
  <2>5. Picker!Becomes(Picker!LoadBuildList(s, 0))
    BY <1>2, <2>1, <2>3, StateOfPicker DEF Picker!Reopen, Picker!NoToken
  <2> QED BY <2>4, <2>5, PickerLoads
<1> QED BY <1>1, <1>2

LEMMA PickerTabs ==
  ASSUME PickerIInv, NEW tab, Picker!OnSelectedTabChange(tab) PROVE PickerIInv'
<1>1. PICK u : u = Picker!Unsubscribe(State) OBVIOUS
<1>2. PickerState(u) /\ u.page = [page EXCEPT !.isLoading = FALSE]
  BY <1>1, StateOfPicker, Unsubscribes
<1>3. PICK channel : channel = Picker!ChannelOfTab(page.channels, tab) OBVIOUS
<1>4. PICK saved, url, filename :
        LET s == [u EXCEPT
              !.page.tabs = saved, !.page.tab = tab, !.page.url = url,
              !.page.filename = filename, !.page.token = 0,
              !.page.selection = Picker!NoItem, !.page.channel = channel]
        IN Picker!Becomes(Picker!LoadBuildList(s, 0))
  <2> DEFINE shown == [url |-> page.url, filename |-> page.filename]
             saved == [t \in DOMAIN page.tabs \cup {page.tab} |->
                         IF t = page.tab THEN shown ELSE page.tabs[t]]
             bar == IF tab \in DOMAIN saved THEN saved[tab]
                    ELSE [url |-> <<>>, filename |-> <<>>]
  <2>1. Picker!Becomes(Picker!LoadBuildList([u EXCEPT
              !.page.tabs = saved, !.page.tab = tab, !.page.url = bar.url,
              !.page.filename = bar.filename, !.page.token = 0,
              !.page.selection = Picker!NoItem, !.page.channel = channel], 0))
    BY <1>1, <1>3, StateOfPicker DEF Picker!OnSelectedTabChange, Picker!NoToken
  <2> HIDE DEF saved, bar
  <2> QED BY <2>1
<1>5. PICK s : s = [u EXCEPT
              !.page.tabs = saved, !.page.tab = tab, !.page.url = url,
              !.page.filename = filename, !.page.token = 0,
              !.page.selection = Picker!NoItem, !.page.channel = channel]
  OBVIOUS
<1>6. Picker!Becomes(Picker!LoadBuildList(s, 0)) BY <1>4, <1>5
<1>7. /\ IsOf(s) /\ s.browser = u.browser /\ s.requests = u.requests
      /\ DOMAIN s.page = PickerFields /\ s.page.channels = page.channels
      /\ s.page.tab = tab /\ s.page.channel = channel
  BY <1>2, <1>5, StateOfPicker DEF PickerState, IsOf, GoodTab, PickerFields
<1>8. GoodTab(s.page)
  <2>1. tab = 1 => ~ Picker!IsDirectory(channel)
    BY <1>3, StateOfPicker, NoChannelOfLocalFiles
  <2> QED BY <1>7, <2>1, StateOfPicker DEF GoodTab
<1>9. PickerState(s) BY <1>2, <1>7, <1>8 DEF PickerState
<1> QED BY <1>6, <1>9, PickerLoads

\* What is typed: in the search bar of a channel it is not the list's for a while.
LEMMA PickerTypes ==
  ASSUME PickerIInv,
         \/ \E path : Picker!OnSearchBarValueChange(path) \/ Picker!TypeUrl(path)
         \/ \E url : Picker!UrlChange(url)
         \/ \E name : Picker!TypeFilename(name)
         \/ \E k \in DOMAIN page.items : Picker!SelectFile(k)
  PROVE  PickerIInv'
<1>1. CASE \E path : Picker!OnSearchBarValueChange(path)
  <2>1. PICK path : Picker!OnSearchBarValueChange(path) BY <1>1
  <2>2. PICK p : p = [page EXCEPT !.url = path, !.isTyping = TRUE,
                                  !.selection = Picker!NoItem]
    OBVIOUS
  <2>3. Picker!Shows(p) BY <2>1, <2>2 DEF Picker!OnSearchBarValueChange
  <2>4. /\ DOMAIN p = PickerFields /\ p.channels = page.channels /\ p.tab = page.tab
        /\ p.channel = page.channel /\ p.isTyping = TRUE
    BY <2>2, StateOfPicker DEF PickerFields
  <2>5. GoodTab(p) BY <2>4, StateOfPicker DEF GoodTab
  <2>6. GoodList(p, requests) BY <2>4, NotSettled DEF Settles
  <2> QED BY <2>3, <2>5, <2>6, PickerShows
<1>2. CASE \E url : Picker!TypeUrl(url) \/ Picker!UrlChange(url)
  <2>1. PICK url : Picker!TypeUrl(url) \/ Picker!UrlChange(url) BY <1>2
  <2>2. PICK p : p = [page EXCEPT !.url = url] OBVIOUS
  <2>3. Picker!Shows(p) BY <2>1, <2>2 DEF Picker!TypeUrl, Picker!UrlChange
  <2>4. /\ DOMAIN p = PickerFields /\ p.channels = page.channels /\ p.tab = page.tab
        /\ p.channel = page.channel
    BY <2>2, StateOfPicker DEF PickerFields
  <2>5. GoodTab(p) BY <2>4, StateOfPicker DEF GoodTab
  <2>6. ~ Picker!IsDirectory(page.channel)
    BY <2>1, StateOfPicker DEF GoodTab, Picker!TypeUrl, Picker!UrlChange, Picker!LocalFiles
  <2>7. GoodList(p, requests) BY <2>4, <2>6, NotSettled DEF Settles, Picker!Loadable
  <2> QED BY <2>3, <2>5, <2>7, PickerShows
<1>3. CASE \/ \E name : Picker!TypeFilename(name)
           \/ \E k \in DOMAIN page.items : Picker!SelectFile(k)
  <2>1. PICK p, selection, filename :
          /\ p = [page EXCEPT !.selection = selection, !.filename = filename]
          /\ Picker!Shows(p)
    <3>1. CASE \E name : Picker!TypeFilename(name)
      <4>1. PICK name : Picker!TypeFilename(name) BY <3>1
      <4>2. PICK p : p = [page EXCEPT !.filename = name] OBVIOUS
      <4>3. PICK o : o = [page EXCEPT !.selection = page.selection, !.filename = name]
        OBVIOUS
      <4>4. p = o BY <4>2, <4>3, StateOfPicker DEF PickerFields
      <4>5. Picker!Shows(p) BY <4>1, <4>2 DEF Picker!TypeFilename
      <4> QED BY <4>3, <4>4, <4>5
    <3>2. CASE \E k \in DOMAIN page.items : Picker!SelectFile(k)
      BY <3>2 DEF Picker!SelectFile
    <3> QED BY <1>3, <3>1, <3>2
  <2>2. /\ DOMAIN p = PickerFields /\ p.channels = page.channels /\ p.tab = page.tab
        /\ p.channel = page.channel /\ SameList(page, p)
    BY <2>1, StateOfPicker DEF PickerFields, SameList
  <2>3. GoodTab(p) BY <2>2, StateOfPicker DEF GoodTab
  <2>4. GoodList(p, requests) BY <2>2, StateOfPicker, ListStays
  <2> QED BY <2>1, <2>3, <2>4, PickerShows
<1> QED BY <1>1, <1>2, <1>3

\* The list is loaded after a pause, for another path and for more of it.
LEMMA PickerWaits ==
  ASSUME PickerIInv, Picker!SearchUpdated PROVE PickerIInv'
<1>1. PICK s : s = [State EXCEPT !.page.isTyping = FALSE] OBVIOUS
<1>2. PICK p : p = [page EXCEPT !.isTyping = FALSE] OBVIOUS
<1>3. s = [State EXCEPT !.page = p] BY <1>1, <1>2, StateOfPicker
<1>4. GoodTab(p) BY <1>2, StateOfPicker DEF GoodTab, PickerFields
<1>5. PickerState(s) BY <1>3, <1>4, StateOfPicker, WithPage
<1>6. Picker!Becomes(Picker!LoadBuildList(s, 0))
  BY <1>1, StateOfPicker DEF Picker!SearchUpdated, Picker!NoToken
<1> QED BY <1>5, <1>6, PickerLoads

LEMMA PickerMoves ==
  ASSUME PickerIInv, NEW path, Picker!Becomes(Picker!PathChange(State, path))
  PROVE  PickerIInv'
<1>1. PICK s : s = [State EXCEPT !.page.url = path, !.page.filename = <<>>] OBVIOUS
<1>2. PICK p : p = [page EXCEPT !.url = path, !.filename = <<>>] OBVIOUS
<1>3. s = [State EXCEPT !.page = p] BY <1>1, <1>2, StateOfPicker
<1>4. GoodTab(p) BY <1>2, StateOfPicker DEF GoodTab, PickerFields
<1>5. PickerState(s) BY <1>3, <1>4, StateOfPicker, WithPage
<1>6. PICK t : t = Picker!LoadBuildList(s, 0) OBVIOUS
<1>7. PickerState(t) /\ GoodList(t.page, t.requests) BY <1>5, <1>6, LoadsList
<1>8. PICK u : u = [t EXCEPT !.page.selection = Picker!NoItem] OBVIOUS
<1>9. u = Picker!PathChange(State, path)
  BY <1>1, <1>6, <1>8 DEF Picker!PathChange, Picker!NoToken
<1>10. PICK o : o = [t.page EXCEPT !.selection = Picker!NoItem] OBVIOUS
<1>11. u = [t EXCEPT !.page = o] BY <1>8, <1>10
<1>12. GoodTab(o) /\ SameList(t.page, o)
  BY <1>7, <1>10 DEF PickerState, GoodTab, PickerFields, SameList
<1>13. PickerState(u) BY <1>7, <1>11, <1>12, WithPage
<1>14. u.page = o /\ u.requests = t.requests BY <1>7, <1>11 DEF PickerState, IsOf
<1>15. GoodList(u.page, u.requests) BY <1>7, <1>12, <1>14, ListStays
<1> QED BY <1>9, <1>13, <1>15, PickerBecomes

LEMMA PickerScrolls ==
  ASSUME PickerIInv, Picker!OnScrollLoad PROVE PickerIInv'
<1>1. CASE page.isLoading
  <2>1. Picker!Becomes(State) BY <1>1, StateOfPicker DEF Picker!OnScrollLoad
  <2> QED BY <2>1, StateOfPicker, PickerBecomes
<1>2. CASE ~ page.isLoading
  <2>1. PICK t : t = Picker!LoadBuildList(State, page.token) OBVIOUS
  <2>2. Picker!Becomes(t) BY <1>2, <2>1, StateOfPicker DEF Picker!OnScrollLoad
  <2>3. page.items # <<>> /\ page.token # 0
    BY DEF Picker!OnScrollLoad, Picker!AtTable, Picker!HasMoreContent, Picker!NoToken
  <2>4. PickerState(t) /\ GoodList(t.page, t.requests)
    BY <2>1, <2>3, StateOfPicker, LoadsMore
  <2> QED BY <2>2, <2>4, PickerBecomes
<1> QED BY <1>1, <1>2

-----------------------------------------------------------------------------
(* The calls of the dialog.                                                *)

LEMMA PickerHears ==
  ASSUME PickerIInv, NEW i \in DOMAIN requests, NEW s, s = Picker!Heard(i)
  PROVE  /\ PickerState(s) /\ s.page = page /\ s.browser = browser
         /\ s.requests = Picker!RemoveAt(requests, i)
         /\ GoodList(page, s.requests)
         /\ Settles(page) /\ requests[i].kind = "list" => ListCalls(s.requests) = {}
<1>1. PICK r : r = Picker!RemoveAt(requests, i) OBVIOUS
<1>2. s = Of(page, browser, r)
  BY <1>1, StateOfPicker DEF Picker!Heard, Of
<1>3. /\ PickerState(Of(page, browser, r)) /\ GoodList(page, r)
      /\ Settles(page) /\ requests[i].kind = "list" => ListCalls(r) = {}
  BY <1>1, StateOfPicker, HearsCall
<1>4. s.page = page /\ s.browser = browser /\ s.requests = r BY <1>2 DEF Of
<1> QED BY <1>1, <1>2, <1>3, <1>4

\* A part of the list comes where it goes on; nothing is left after a failure.
LEMMA PickerList ==
  ASSUME PickerIInv, NEW i \in DOMAIN requests, Picker!ListArrives(i) PROVE PickerIInv'
<1>1. PICK h : h = Picker!Heard(i) OBVIOUS
<1>2. /\ PickerState(h) /\ h.page = page
      /\ Settles(page) /\ requests[i].kind = "list" => ListCalls(h.requests) = {}
  BY <1>1, PickerHears
<1>3. PICK items, token, p :
        /\ p = [page EXCEPT !.isLoading = FALSE, !.items = items, !.token = token]
        /\ Picker!Becomes([h EXCEPT !.page = p])
        /\ requests[i].kind = "list"
        /\ \/ items = <<>>
           \/ /\ requests[i].status = "ok" /\ items = page.items \o requests[i].answer.items
              /\ token = requests[i].answer.token
  <2>1. PICK s : s = [h EXCEPT !.page.isLoading = FALSE] OBVIOUS
  <2>2. CASE Picker!Hears(i, "list", "ok")
             /\ Picker!Becomes([s EXCEPT !.page.items = @ \o requests[i].answer.items,
                                         !.page.token = requests[i].answer.token])
    <3>1. PICK p : p = [page EXCEPT !.isLoading = FALSE,
                          !.items = page.items \o requests[i].answer.items,
                          !.token = requests[i].answer.token]
      OBVIOUS
    <3>2. [s EXCEPT !.page.items = @ \o requests[i].answer.items,
                    !.page.token = requests[i].answer.token] = [h EXCEPT !.page = p]
      BY <1>2, <2>1, <3>1, StateOfPicker DEF PickerState, IsOf, PickerFields
    <3> QED BY <2>2, <3>1, <3>2 DEF Picker!Hears
  <2>3. CASE Picker!Hears(i, "list", "error")
             /\ Picker!Becomes([s EXCEPT !.page.items = <<>>])
    <3>1. PICK p : p = [page EXCEPT !.isLoading = FALSE, !.items = <<>>,
                          !.token = page.token]
      OBVIOUS
    <3>2. [s EXCEPT !.page.items = <<>>] = [h EXCEPT !.page = p]
      BY <1>2, <2>1, <3>1, StateOfPicker DEF PickerState, IsOf, PickerFields
    <3> QED BY <2>3, <3>1, <3>2 DEF Picker!Hears
  <2> QED BY <1>1, <2>1, <2>2, <2>3 DEF Picker!ListArrives
<1>4. /\ DOMAIN p = PickerFields /\ p.channels = page.channels /\ p.tab = page.tab
      /\ p.channel = page.channel /\ p.isOpen = page.isOpen /\ p.url = page.url
      /\ p.available = page.available /\ p.isTyping = page.isTyping
      /\ p.items = items /\ p.token = token
  BY <1>3, StateOfPicker DEF PickerFields
<1>5. GoodTab(p) BY <1>4, StateOfPicker DEF GoodTab
<1>6. PICK t : t = [h EXCEPT !.page = p] OBVIOUS
<1>7. PickerState(t) BY <1>2, <1>5, <1>6, WithPage
<1>8. t.page = p /\ t.requests = h.requests BY <1>2, <1>6 DEF PickerState, IsOf
<1>9. GoodList(p, h.requests)
  <2> SUFFICES ASSUME Settles(p) PROVE GoodList(p, h.requests) BY NotSettled
  <2>1. Settles(page) BY <1>4 DEF Settles, Picker!Loadable, Picker!IsDirectory
  <2>2. ListCalls(h.requests) = {} BY <1>2, <1>3, <2>1
  <2>3. i \in ListCalls(requests) BY <1>3 DEF ListCalls
  <2>4. Continues(page, requests[i].arg) BY <2>1, <2>3, StateOfPicker DEF GoodList
  <2>5. p.items = <<>> \/ Fits(p)
    <3>1. CASE items = <<>> BY <1>4, <3>1
    <3>2. CASE /\ requests[i].status = "ok"
               /\ items = page.items \o requests[i].answer.items
               /\ token = requests[i].answer.token
      <4>1. PICK arg, r : arg = requests[i].arg /\ r = requests[i].answer OBVIOUS
      <4>2. PartOfArg(arg) \in DOMAIN PagesOf(arg.channel, arg.path)
            /\ r = Picker!ServeList(arg)
        BY <2>3, <3>2, <4>1, StateOfPicker DEF GoodParts
      <4>3. Continues(page, arg) BY <2>4, <4>1
      <4>4. /\ p.channel = page.channel /\ p.url = page.url
            /\ p.items = page.items \o r.items /\ p.token = r.token
        BY <1>4, <3>2, <4>1
      <4> QED BY <4>2, <4>3, <4>4, ListGoesOn
    <3> QED BY <1>3, <3>1, <3>2
  <2> QED BY <2>2, <2>5 DEF GoodList
<1> QED BY <1>3, <1>6, <1>7, <1>8, <1>9, PickerBecomes

\* Another call may be made for another that is heard of.
LEMMA PickerSends ==
  ASSUME NEW s, PickerState(s), GoodList(s.page, s.requests), NEW kind, kind # "list",
         NEW arg, Picker!Becomes(Picker!Send(s, kind, arg))
  PROVE  PickerIInv'
<1>1. PICK t : t = Picker!Send(s, kind, arg) OBVIOUS
<1>2. /\ PickerState(t) /\ t.page = s.page
      /\ ListCalls(t.requests) = ListCalls(s.requests)
      /\ \A i \in ListCalls(s.requests) : t.requests[i] = s.requests[i]
  BY <1>1, SendsOther
<1>3. GoodList(t.page, t.requests) BY <1>2 DEF GoodList
<1> QED BY <1>1, <1>2, <1>3, PickerBecomes

LEMMA PickerAuthorizes ==
  ASSUME PickerIInv,
         Picker!Authorize \/ \E i \in DOMAIN requests : Picker!AuthorizationDone(i)
  PROVE  PickerIInv'
<1>1. CASE Picker!Authorize
  <2>1. PICK kind, arg : /\ kind = "authorize" /\ arg = [channel |-> page.channel]
    OBVIOUS
  <2>2. Picker!Becomes(Picker!Send(State, kind, arg))
    BY <1>1, <2>1, StateOfPicker DEF Picker!Authorize
  <2>3. kind # "list" BY <2>1
  <2> QED BY <2>2, <2>3, StateOfPicker, PickerSends
<1>2. ASSUME NEW i \in DOMAIN requests, Picker!AuthorizationDone(i) PROVE PickerIInv'
  <2>1. PICK h : h = Picker!Heard(i) OBVIOUS
  <2>2. PickerState(h) /\ GoodList(h.page, h.requests) BY <2>1, PickerHears
  <2>3. CASE Picker!Becomes(h) BY <2>2, <2>3, PickerBecomes
  <2>4. CASE Picker!Becomes(Picker!Send(h, "channels", [all |-> TRUE]))
    <3>1. PICK kind, arg : kind = "channels" /\ arg = [all |-> TRUE] OBVIOUS
    <3>2. Picker!Becomes(Picker!Send(h, kind, arg)) BY <2>4, <3>1
    <3>3. kind # "list" BY <3>1
    <3> QED BY <2>2, <3>2, <3>3, PickerSends
  <2> QED BY <1>2, <2>1, <2>3, <2>4 DEF Picker!AuthorizationDone
<1> QED BY <1>1, <1>2

LEMMA PickerChannels ==
  ASSUME PickerIInv, NEW i \in DOMAIN requests, Picker!ChannelsArrive(i) PROVE PickerIInv'
<1>1. PICK h : h = Picker!Heard(i) OBVIOUS
<1>2. /\ PickerState(h) /\ h.page = page /\ h.browser = browser
      /\ GoodList(page, h.requests)
  BY <1>1, PickerHears
<1>3. CASE Picker!Becomes(h) BY <1>2, <1>3, PickerBecomes
<1>4. CASE Picker!Hears(i, "channels", "ok")
  <2>1. PICK available : available = requests[i].answer OBVIOUS
  <2>2. PICK s : s = [h EXCEPT !.browser.channels = PickerPage.Channels,
                               !.browser.available = available]
    OBVIOUS
  <2>3. IsSeq(PickerPage.Channels) BY PickerPageAssumption, ListIsSeq
  <2>4. /\ IsOf(s) /\ s.page = page /\ s.requests = h.requests
        /\ DOMAIN s.browser = {"channels", "available", "resource"}
        /\ s.browser.channels = PickerPage.Channels
    BY <1>2, <2>2 DEF PickerState, IsOf, GoodBrowser
  <2>5. PickerState(s) BY <1>2, <2>3, <2>4 DEF PickerState, GoodBrowser
  <2>6. CASE ~ page.isOpen
    <3>1. Picker!Becomes(s)
      BY <1>1, <1>4, <2>1, <2>2, <2>6
      DEF Picker!ChannelsArrive, Picker!Hears
    <3>2. GoodList(s.page, s.requests) BY <2>4, <2>6, NotSettled DEF Settles
    <3> QED BY <2>5, <3>1, <3>2, PickerBecomes
  <2>7. CASE page.isOpen
    <3>1. PICK channel : channel = Picker!ChannelOfTab(PickerPage.Channels, page.tab) OBVIOUS
    <3>2. PICK t : t = [s EXCEPT !.page.channels = PickerPage.Channels,
                                 !.page.available = available,
                                 !.page.channel = channel]
      OBVIOUS
    <3>3. Picker!Becomes(Picker!LoadBuildList(t, 0))
      BY <1>1, <1>4, <2>1, <2>2, <2>7, <3>1, <3>2
      DEF Picker!ChannelsArrive, Picker!Hears, Picker!NoToken
    <3>4. /\ IsOf(t) /\ t.browser = s.browser /\ t.requests = s.requests
          /\ DOMAIN t.page = PickerFields /\ t.page.channels = PickerPage.Channels
          /\ t.page.tab = page.tab /\ t.page.channel = channel
      BY <2>4, <3>2, StateOfPicker DEF IsOf, PickerFields
    <3>5. GoodTab(t.page)
      <4>1. page.tab = 1 => ~ Picker!IsDirectory(channel)
        BY <2>3, <3>1, NoChannelOfLocalFiles
      <4> QED BY <2>3, <3>4, <4>1 DEF GoodTab
    <3>6. PickerState(t) BY <2>5, <3>4, <3>5 DEF PickerState
    <3> QED BY <3>3, <3>6, PickerLoads
  <2> QED BY <2>6, <2>7
<1> QED BY <1>1, <1>3, <1>4 DEF Picker!ChannelsArrive

\* A call that is served or fails.
LEMMA PickerAnswers ==
  ASSUME PickerIInv, NEW i \in DOMAIN requests, NEW r, requests' = [requests EXCEPT ![i] = r],
         DOMAIN r = CallFields, r.kind = requests[i].kind, r.arg = requests[i].arg,
         page' = page, browser' = browser,
         r.kind = "list" /\ r.status = "ok" =>
           /\ PartOfArg(r.arg) \in DOMAIN PagesOf(r.arg.channel, r.arg.path)
           /\ r.answer = Picker!ServeList(r.arg)
  PROVE  PickerIInv'
<1>1. PICK q : q = [requests EXCEPT ![i] = r] OBVIOUS
<1>2. Calls(q)
  <2>1. IsSeq(q) BY <1>1, StateOfPicker, ChangeCall DEF Calls
  <2> QED BY <1>1, <2>1, StateOfPicker DEF Calls
<1>3. /\ ListCalls(q) = ListCalls(requests)
      /\ \A k \in ListCalls(q) : q[k].arg = requests[k].arg
  BY <1>1 DEF ListCalls
<1>4. GoodParts(q)
  <2> SUFFICES ASSUME NEW k \in ListCalls(q), q[k].status = "ok"
      PROVE  /\ PartOfArg(q[k].arg) \in DOMAIN PagesOf(q[k].arg.channel, q[k].arg.path)
             /\ q[k].answer = Picker!ServeList(q[k].arg)
    BY DEF GoodParts
  <2>1. CASE k = i
    <3>1. q[k] = r /\ r.kind = "list" /\ r.status = "ok" BY <1>1, <2>1 DEF ListCalls
    <3> QED BY <3>1
  <2>2. CASE k # i
    <3>1. k \in ListCalls(requests) /\ q[k] = requests[k] BY <1>1, <1>3, <2>2
    <3> QED BY <3>1, StateOfPicker DEF GoodParts
  <2> QED BY <2>1, <2>2
<1>5. GoodList(page, q) BY <1>3, StateOfPicker DEF GoodList
<1>6. PICK t : t = Of(page, browser, q) OBVIOUS
<1>7. PickerState(t) BY <1>2, <1>4, <1>6, StateOfPicker DEF PickerState, Of, IsOf
<1>8. GoodList(t.page, t.requests) BY <1>5, <1>6 DEF Of
<1>9. Picker!Becomes(t) BY <1>1, <1>6 DEF Picker!Becomes, Of
<1> QED BY <1>7, <1>8, <1>9, PickerBecomes

LEMMA PickerService ==
  ASSUME PickerIInv, NEW i \in DOMAIN requests,
         Picker!Serve(i) \/ Picker!NotFound(i) \/ Picker!Fail(i)
  PROVE  PickerIInv'
<1>1. PICK c : c = requests[i] OBVIOUS
<1>2. DOMAIN c = CallFields BY <1>1, StateOfPicker DEF Calls
<1>3. page' = page /\ browser' = browser
  BY DEF Picker!Serve, Picker!NotFound, Picker!Fail
<1>4. CASE \E answer : /\ Picker!Answer(i, answer)
                       /\ c.kind = "list" => Picker!Exists(c.arg)
                                              /\ answer = Picker!ServeList(c.arg)
  <2>1. PICK answer : /\ Picker!Answer(i, answer)
                      /\ c.kind = "list" => Picker!Exists(c.arg)
                                             /\ answer = Picker!ServeList(c.arg)
    BY <1>4
  <2>2. PICK r : r = [c EXCEPT !.status = "ok", !.answer = answer] OBVIOUS
  <2>3. requests' = [requests EXCEPT ![i] = r]
    BY <1>1, <2>1, <2>2 DEF Picker!Answer
  <2>4. /\ DOMAIN r = CallFields /\ r.kind = c.kind /\ r.arg = c.arg /\ r.answer = answer
    BY <1>2, <2>2 DEF CallFields
  <2>5. c.kind = "list" => PartOfArg(c.arg) \in DOMAIN PagesOf(c.arg.channel, c.arg.path)
    <3> SUFFICES ASSUME c.kind = "list"
        PROVE PartOfArg(c.arg) \in DOMAIN PagesOf(c.arg.channel, c.arg.path)
      OBVIOUS
    <3>1. PICK pages : pages = PagesOf(c.arg.channel, c.arg.path) OBVIOUS
    <3>2. /\ c.arg.token = 0 => pages # <<>>
          /\ c.arg.token # 0 => c.arg.token \in DOMAIN pages
      BY <2>1, <3>1 DEF Picker!Exists, Picker!NoToken
    <3>3. PICK S : pages \in Seq(S) BY <3>1, PagesAreLists DEF IsSeq
    <3>4. pages # <<>> => 1 \in DOMAIN pages BY <3>3
    <3> QED BY <3>1, <3>2, <3>4 DEF PartOfArg
  <2> QED BY <1>1, <1>3, <2>1, <2>3, <2>4, <2>5, PickerAnswers
<1>5. CASE \E status : status # "ok" /\ requests' = [requests EXCEPT ![i].status = status]
  <2>1. PICK status : status # "ok" /\ requests' = [requests EXCEPT ![i].status = status]
    BY <1>5
  <2>2. PICK r : r = [c EXCEPT !.status = status] OBVIOUS
  <2>3. requests' = [requests EXCEPT ![i] = r] BY <1>1, <2>1, <2>2
  <2>4. /\ DOMAIN r = CallFields /\ r.kind = c.kind /\ r.arg = c.arg /\ r.status # "ok"
    BY <1>2, <2>1, <2>2 DEF CallFields
  <2> QED BY <1>1, <1>3, <2>3, <2>4, PickerAnswers
<1>6. CASE Picker!Serve(i)
  <2>1. PICK k : k = c.kind OBVIOUS
  <2>2. \/ k = "list" /\ Picker!Exists(c.arg) /\ Picker!Answer(i, Picker!ServeList(c.arg))
        \/ k = "channels" /\ Picker!Answer(i, api.authorized)
        \/ k = "authorize" /\ Picker!Answer(i, {})
    BY <1>1, <1>6, <2>1 DEF Picker!Serve
  <2>3. CASE k = "list" /\ Picker!Exists(c.arg) /\ Picker!Answer(i, Picker!ServeList(c.arg))
    BY <1>4, <2>3
  <2>4. CASE k = "channels" /\ Picker!Answer(i, api.authorized) BY <1>4, <2>1, <2>4
  <2>5. CASE k = "authorize" /\ Picker!Answer(i, {}) BY <1>4, <2>1, <2>5
  <2> QED BY <2>2, <2>3, <2>4, <2>5
<1>7. CASE Picker!NotFound(i) \/ Picker!Fail(i)
  <2>1. PICK status : status = "error" OBVIOUS
  <2>2. status # "ok" /\ requests' = [requests EXCEPT ![i].status = status]
    BY <1>7, <2>1 DEF Picker!NotFound, Picker!Fail
  <2> QED BY <1>5, <2>2
<1> QED BY <1>6, <1>7

-----------------------------------------------------------------------------
(* The list is always that of the search bar.                              *)

LEMMA PickerInit == ASSUME Picker!Init PROVE PickerIInv
<1>1. PICK resource :
        LET s == Picker!LoadBuildList(
              [page |-> Picker!OpenPage(PickerPage.Channels, PickerPage.Authorized, resource),
               requests |-> <<>>,
               browser |-> [channels |-> PickerPage.Channels,
                            available |-> PickerPage.Authorized,
                            resource |-> resource]], 0)
        IN page = s.page /\ browser = s.browser /\ requests = s.requests
  BY DEF Picker!Init, Picker!NoToken
<1>2. PICK p : p = Picker!OpenPage(PickerPage.Channels, PickerPage.Authorized, resource)
  OBVIOUS
<1>3. PICK b : b = [channels |-> PickerPage.Channels, available |-> PickerPage.Authorized,
                    resource |-> resource]
  OBVIOUS
<1>4. PICK s : s = [page |-> p, requests |-> <<>>, browser |-> b] OBVIOUS
<1>5. IsSeq(PickerPage.Channels) BY PickerPageAssumption, ListIsSeq
<1>6. GoodTab(p) BY <1>2, <1>5, OpenPageIsGood
<1>7. GoodBrowser(b) BY <1>3, <1>5 DEF GoodBrowser
<1>8. Calls(s.requests) /\ GoodParts(s.requests)
  <2>1. s.requests = <<>> BY <1>4
  <2>2. DOMAIN <<>> = {} OBVIOUS
  <2> QED BY <2>1, <2>2, NoCalls DEF GoodParts, ListCalls
<1>9. PickerState(s) BY <1>4, <1>6, <1>7, <1>8 DEF PickerState, IsOf
<1>10. PICK t : t = Picker!LoadBuildList(s, 0) OBVIOUS
<1>11. PickerState(t) /\ GoodList(t.page, t.requests) BY <1>9, <1>10, LoadsList
<1>12. page = t.page /\ browser = t.browser /\ requests = t.requests
  BY <1>1, <1>2, <1>3, <1>4, <1>10
<1>13. PickerState(State) BY <1>11, <1>12 DEF PickerState, State, IsOf
<1> QED BY <1>11, <1>12, <1>13 DEF PickerIInv

LEMMA PickerNext == ASSUME PickerIInv, [Picker!Next]_vars PROVE PickerIInv'
<1>1. CASE UNCHANGED vars
  BY <1>1 DEF vars, PickerIInv, State
<1>2. CASE Picker!Close \/ Picker!Reopen BY <1>2, PickerOpens
<1>3. CASE \E tab : Picker!OnSelectedTabChange(tab) BY <1>3, PickerTabs
<1>4. CASE \/ \E path : Picker!OnSearchBarValueChange(path) \/ Picker!TypeUrl(path)
           \/ \E url : Picker!UrlChange(url)
           \/ \E name : Picker!TypeFilename(name)
           \/ \E k \in DOMAIN page.items : Picker!SelectFile(k)
  BY <1>4, PickerTypes
<1>5. CASE Picker!SearchUpdated BY <1>5, PickerWaits
<1>6. CASE \/ \E k \in DOMAIN page.items : Picker!OpenFolder(k)
           \/ \E n \in 0 .. Len(page.url) : Picker!OnPathClick(n)
  <2>1. \E path : Picker!Becomes(Picker!PathChange(State, path))
    BY <1>6, StateOfPicker DEF Picker!OpenFolder, Picker!OnPathClick
  <2> QED BY <2>1, PickerMoves
<1>7. CASE Picker!OnScrollLoad BY <1>7, PickerScrolls
<1>8. CASE Picker!Authorize \/ \E i \in DOMAIN requests : Picker!AuthorizationDone(i)
  BY <1>8, PickerAuthorizes
<1>9. CASE \E i \in DOMAIN requests : Picker!ListArrives(i) BY <1>9, PickerList
<1>10. CASE \E i \in DOMAIN requests : Picker!ChannelsArrive(i) BY <1>10, PickerChannels
<1>11. CASE \E i \in DOMAIN requests :
              Picker!Serve(i) \/ Picker!NotFound(i) \/ Picker!Fail(i)
  BY <1>11, PickerService
<1> QED
  BY <1>1, <1>2, <1>3, <1>4, <1>5, <1>6, <1>7, <1>8, <1>9, <1>10, <1>11
  DEF Picker!Next

LEMMA PickerShowsTheList == ASSUME PickerIInv PROVE Picker!ListIsOfTheSearchBar
<1> SUFFICES ASSUME Picker!IsSettled, page.items # <<>>
    PROVE  LET pages == PagesOf(page.channel, page.url)
           IN \E n \in DOMAIN pages :
                /\ page.items = Picker!Joined(SubSeq(pages, 1, n))
                /\ page.token = IF n = Len(pages) THEN Picker!NoToken ELSE n + 1
  BY DEF Picker!ListIsOfTheSearchBar
<1>1. Settles(page) BY DEF Picker!IsSettled, Settles
<1>2. Fits(page) BY <1>1 DEF PickerIInv, GoodList
<1> QED BY <1>2 DEF Fits, IsUpTo, Picker!NoToken, Joined, Picker!Joined

=============================================================================
