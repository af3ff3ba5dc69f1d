---------------------------- MODULE TestRunConsole ----------------------------
(***************************************************************************)
(* The console of a test run's page (test_runs/test_run_console.ts): it    *)
(* polls the log of an attempt, a part at a time, while the attempt is     *)
(* active.  A log is a file of bytes, every second of them the end of a    *)
(* line; it is read while it grows and moves when its attempt is final.    *)
(***************************************************************************)
EXTENDS UiPage

CONSTANTS
  LastAttempt,  \* the attempts are 1 .. LastAttempt, in the order they start
  LogTypes,
  MaxBytes,     \* bound on the length of a log
  ReadLength,   \* the bytes a call reads
  MaxLines      \* MAX_CONSOLE_LENGTH

\* What the constants have to be: there are attempts, and a call reads something.
TestRunConsoleAssumption ==
  LastAttempt \in Nat \ {0} /\ ReadLength \in Nat \ {0} /\ MaxLines \in Nat \ {0}

NoOffset == -1
NoAttempt == 0

Init ==
  /\ page = [disabled |-> TRUE, invocations |-> <<>>, attempt |-> NoAttempt,
             type |-> CHOOSE t \in LogTypes : TRUE, offset |-> NoOffset,
             output |-> <<>>, polling |-> "off"]
  /\ browser = <<>> /\ requests = <<>>
  /\ api = [final |-> <<FALSE>>, size |-> [a \in 1..LastAttempt |-> 0]]
  /\ spent = 0

\* The state of the selected attempt as the page knows it.
IsActive(p) == p.attempt # NoAttempt /\ ~ p.invocations[p.attempt]

-----------------------------------------------------------------------------
(* Polling.                                                                *)

ClearConsole(s) == [s EXCEPT !.page.output = <<>>, !.page.offset = NoOffset]

\* What is under way is not heard of.
MutStopPolling(s) == [s EXCEPT !.page.polling = "off"]

StopPolling(s) == [s EXCEPT !.page.polling = "off", !.requests = <<>>]

Fetch(s) ==
  LET p == s.page
  IN Send([s EXCEPT !.page.polling = "call"], "output",
          [attempt |-> p.attempt, type |-> p.type, offset |-> p.offset,
           final |-> ~ IsActive(p)])

\* The first fetch is at once, whatever the state of the attempt.
ResetPolling(s) ==
  LET stopped == StopPolling(s)
  IN IF s.page.attempt = NoAttempt THEN [stopped EXCEPT !.page.polling = "timer"]
     ELSE Fetch(stopped)

\* The inputs have changed: the attempt selected before, or the last one.
Update(s, force) ==
  LET p == s.page
  IN IF p.disabled THEN StopPolling(ClearConsole(s))
     ELSE IF p.attempt = NoAttempt
     THEN ResetPolling(ClearConsole([s EXCEPT !.page.attempt = Len(p.invocations)]))
     ELSE IF force THEN ResetPolling(s) ELSE s

\* The timer: an attempt that is final is not fetched again.
Poll ==
  /\ page.polling = "timer" /\ IsActive(page) /\ Calling
  /\ Becomes(Fetch(State)) /\ UNCHANGED api

\* The lines of the bytes from .. to - 1.
LinesOf(from, to) ==
  LET Begin(k) == IF k = 1 THEN from ELSE 2 * ((from \div 2) + k - 1)
      End(b) == IF 2 * ((b \div 2) + 1) < to THEN 2 * ((b \div 2) + 1) ELSE to
      n == IF from >= to THEN 0 ELSE ((to - 1) \div 2) - (from \div 2) + 1
  IN [k \in 1..n |-> [from |-> Begin(k), to |-> End(Begin(k))]]

LastLines(lines) ==
  SubSeq(lines, IF Len(lines) > MaxLines THEN Len(lines) - MaxLines + 1 ELSE 1, Len(lines))

\* The first line of a part is dropped: it begins before the part, or is the end of
\* the line before.  A call that fails clears the console.
OutputArrives(i) ==
  \/ /\ Hears(i, "output", "ok")
     /\ LET part == requests[i].answer
            Shown(l) == [attempt |-> requests[i].arg.attempt, type |-> requests[i].arg.type,
                         from |-> l.from, to |-> l.to]
            all == LinesOf(part.offset, part.offset + part.length)
            lines == [k \in 1 .. Len(all) - 1 |-> Shown(all[k + 1])]
        IN Becomes([Heard(i) EXCEPT
             !.page.output = LastLines(IF Len(lines) >= MaxLines THEN lines ELSE @ \o lines),
             !.page.offset = part.offset + part.length - 1, !.page.polling = "timer"])
  \/ /\ Hears(i, "output", "error")
     /\ Becomes([ClearConsole(Heard(i)) EXCEPT !.page.polling = "timer"])

-----------------------------------------------------------------------------
(* The page around it, and the user.                                       *)

\* The page has loaded the run again.
InvocationsChange ==
  /\ Calling /\ page.invocations # api.final
  /\ Becomes(Update([State EXCEPT !.page.invocations = api.final], FALSE))
  /\ UNCHANGED api

SwitchTab ==
  /\ Calling /\ Becomes(Update([State EXCEPT !.page.disabled = ~ @], TRUE))
  /\ UNCHANGED api

Select(s) == Becomes(ResetPolling(ClearConsole(s)))

SelectAttempt(a) ==
  /\ ~ page.disabled /\ a # page.attempt /\ Calling
  /\ Select([State EXCEPT !.page.attempt = a]) /\ UNCHANGED api

SelectType(t) ==
  /\ ~ page.disabled /\ t # page.type /\ Calling
  /\ Select([State EXCEPT !.page.type = t]) /\ UNCHANGED api

-----------------------------------------------------------------------------
(* The service and the log.                                                *)

\* From the offset, or the end of the file.  Where the page thinks the file is
\* depends on the state it knows, where it is on the state there is.
Serve(i) ==
  /\ IsSent(i)
  /\ LET arg == requests[i].arg
         size == api.size[arg.attempt]
         from == IF arg.offset # NoOffset THEN arg.offset
                 ELSE IF size > ReadLength THEN size - ReadLength ELSE 0
         to == IF arg.offset = NoOffset \/ from + ReadLength > size THEN size
               ELSE from + ReadLength
     IN IF arg.final = api.final[arg.attempt] /\ from < to
        THEN Answer(i, [offset |-> from, length |-> to - from])
        ELSE requests' = [requests EXCEPT ![i].status = "error"]
  /\ UNCHANGED <<page, browser, api, spent>>

LogGrows(a) ==
  /\ ~ api.final[a] /\ api.size[a] < MaxBytes
  /\ \E n \in api.size[a] + 1 .. MaxBytes : api' = [api EXCEPT !.size[a] = n]
  /\ Spend /\ UNCHANGED <<page, browser, requests>>

\* An attempt ends and another may start.
AttemptEnds ==
  /\ Spend
  /\ \E a \in DOMAIN api.final : ~ api.final[a] /\ api' = [api EXCEPT !.final =
       IF a < LastAttempt THEN Append([@ EXCEPT ![a] = TRUE], FALSE) ELSE [@ EXCEPT ![a] = TRUE]]
  /\ UNCHANGED <<page, browser, requests>>

Next ==
  \/ Poll
  \/ \E i \in DOMAIN requests : OutputArrives(i)
  \/ InvocationsChange
  \/ SwitchTab
  \/ \E a \in DOMAIN page.invocations : SelectAttempt(a)
  \/ \E t \in LogTypes : SelectType(t)
  \/ \E i \in DOMAIN requests : Serve(i)
  \/ \E i \in DOMAIN requests : Fail(i)
  \/ \E a \in DOMAIN api.final : LogGrows(a)
  \/ AttemptEnds

-----------------------------------------------------------------------------
(* What must hold.                                                         *)

\* However the log grows, polls fail, and attempts, types and tabs are switched with
\* a call under way: what the console shows is of the selected log, and no byte of it
\* is shown twice or before an earlier one.
OutputIsOfTheLog ==
  /\ \A k \in DOMAIN page.output :
       page.output[k].attempt = page.attempt /\ page.output[k].type = page.type
  /\ \A k \in 2 .. Len(page.output) : page.output[k - 1].to <= page.output[k].from
=============================================================================
