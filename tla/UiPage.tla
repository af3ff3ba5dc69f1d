------------------------------- MODULE UiPage -------------------------------
(***************************************************************************)
(* What every page of the web interface has: the state of its component,   *)
(* what outlives the component in the browser, the calls to a service that *)
(* are under way and what the service holds.  A handler of a component     *)
(* runs to its end before another starts; a service handles a call some    *)
(* time after it is made, and the component hears of it later still, calls *)
(* in any order.  A component that is destroyed hears nothing any more.    *)
(***************************************************************************)
EXTENDS Lists

CONSTANTS
  MaxRequests,  \* bound on the calls under way when the user makes another
  MaxSteps      \* bound on what the user, timers, other users and faults do

VARIABLES page, browser, requests, api, spent

vars == <<page, browser, requests, api, spent>>

State == [page |-> page, browser |-> browser, requests |-> requests]

Becomes(s) == page' = s.page /\ browser' = s.browser /\ requests' = s.requests

Spend == spent < MaxSteps /\ spent' = spent + 1
Calling == Spend /\ Len(requests) < MaxRequests

\* A step of the user that changes only the component.
Shows(p) == page' = p /\ UNCHANGED <<browser, requests, api>>

Request(kind, arg) == [kind |-> kind, arg |-> arg, status |-> "sent", answer |-> {}]
Send(s, kind, arg) == [s EXCEPT !.requests = Append(@, Request(kind, arg))]

IsSent(i) == requests[i].status = "sent"

\* The service has handled the call, and answers.
Answer(i, answer) ==
  requests' = [requests EXCEPT ![i].status = "ok", ![i].answer = answer]

\* The call fails, or its answer is an error, which changes nothing.
Fail(i) ==
  /\ IsSent(i) /\ Spend
  /\ requests' = [requests EXCEPT ![i].status = "error"]
  /\ UNCHANGED <<page, browser, api>>

\* The component hears of a call of this kind.
Hears(i, kind, status) ==
  /\ requests[i].kind = kind /\ requests[i].status = status
  /\ UNCHANGED <<api, spent>>

Heard(i) == [State EXCEPT !.requests = RemoveAt(@, i)]
=============================================================================
