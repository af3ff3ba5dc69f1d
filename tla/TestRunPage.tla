----------------------------- MODULE TestRunPage -----------------------------
(***************************************************************************)
(* The page of a test run (test_runs/test_run_detail.ts) with the tree of  *)
(* its commands (test_runs/test_run_progress.ts): the states they are in,  *)
(* the commands of a state, page by page, the attempts of a command.       *)
(***************************************************************************)
EXTENDS UiPage

CONSTANTS
  Commands,     \* numbered in the order the TFC API lists them
  CommandPage   \* how many commands a call lists

\* What the constants have to be.
TestRunPageAssumption ==
  Commands \subseteq Nat \ {0} /\ IsFiniteSet(Commands) /\ CommandPage \in Nat \ {0}

NoRun == [state |-> "none", hasRequest |-> FALSE]
CommandStates == {"RUNNING", "COMPLETED"}
IsFinal(state) == state \in {"COMPLETED", "CANCELED"}

\* A node of the tree for each state that had commands, its commands by id.
Node == [expanded |-> FALSE, commands |-> <<>>, token |-> 0, isLoading |-> FALSE]
CommandNode == [expanded |-> FALSE, attempts |-> FALSE]

LoadTestRun(s) == Send([s EXCEPT !.page.isLoading = TRUE], "run", [id |-> "run"])

Init ==
  LET s == LoadTestRun([requests |-> <<>>, browser |-> <<>>, page |->
             [run |-> NoRun, hasRequest |-> FALSE, autoUpdate |-> TRUE,
              isLoading |-> FALSE, hasActions |-> FALSE, asks |-> "nothing",
              stats |-> <<>>, nodes |-> <<>>, isOpen |-> TRUE]])
  IN /\ page = s.page /\ browser = s.browser /\ requests = s.requests
     /\ api = [run |-> [state |-> "QUEUED", hasRequest |-> FALSE],
               commands |-> [c \in Commands |-> "RUNNING"], deleted |-> FALSE]
     /\ spent = 0

\* loadCommandStateStats: whenever the inputs of the tree change, for the request
\* there is by then.
LoadCommandStateStats(s) ==
  IF s.page.hasRequest THEN Send(s, "stats", [id |-> "request"]) ELSE s

MutRunArrives(i) ==
  \/ /\ Hears(i, "run", "ok")
     /\ LET run == requests[i].answer
            shown == [Heard(i) EXCEPT !.page.run = run, !.page.autoUpdate = ~ run.hasRequest]
            acts == IF IsFinal(run.state) THEN Send(shown, "actions", [id |-> "run"])
                    ELSE shown
            s == LoadCommandStateStats(acts)
        IN Becomes(IF run.hasRequest THEN Send(s, "request", [id |-> "request"])
                   ELSE [s EXCEPT !.page.isLoading = FALSE])
  \/ /\ Hears(i, "run", "error")
     /\ Becomes([Heard(i) EXCEPT !.page.isLoading = FALSE])

\* A run that is final is not updated any more, and has actions; the request of a run
\* that has one is loaded as well.
RunArrives(i) ==
  \/ /\ Hears(i, "run", "ok")
     /\ LET run == requests[i].answer
            shown == [Heard(i) EXCEPT !.page.run = run]
            acts == IF IsFinal(run.state)
                    THEN Send([shown EXCEPT !.page.autoUpdate = FALSE],
                              "actions", [id |-> "run"])
                    ELSE shown
            s == LoadCommandStateStats(acts)
        IN Becomes(IF run.hasRequest THEN Send(s, "request", [id |-> "request"])
                   ELSE [s EXCEPT !.page.isLoading = FALSE])
  \/ /\ Hears(i, "run", "error")
     /\ Becomes([Heard(i) EXCEPT !.page.isLoading = FALSE])

RequestArrives(i) ==
  \/ /\ Hears(i, "request", "ok")
     /\ Becomes(LoadCommandStateStats(
          [Heard(i) EXCEPT !.page.hasRequest = TRUE, !.page.isLoading = FALSE]))
  \/ /\ Hears(i, "request", "error")
     /\ Becomes([Heard(i) EXCEPT !.page.isLoading = FALSE])

ActionsArrive(i) ==
  \/ Hears(i, "actions", "ok") /\ Becomes([Heard(i) EXCEPT !.page.hasActions = TRUE])
  \/ Hears(i, "actions", "error") /\ Becomes(Heard(i))

\* The states that have commands get a new node, collapsed; the others keep theirs.
StatsArrive(i) ==
  \/ /\ Hears(i, "stats", "ok")
     /\ LET stats == requests[i].answer
            Present == {st \in DOMAIN stats : stats[st] # 0}
            old == page.nodes
        IN Becomes([Heard(i) EXCEPT !.page.stats = stats, !.page.nodes =
             [st \in Present \cup DOMAIN old |-> IF st \in Present THEN Node ELSE old[st]]])
  \/ Hears(i, "stats", "error") /\ Becomes(Heard(i))

AutoUpdate ==
  /\ page.isOpen /\ page.autoUpdate /\ Calling /\ Becomes(LoadTestRun(State))
  /\ UNCHANGED api

-----------------------------------------------------------------------------
(* The tree.  A node is shown if the last count of its state is not zero.  *)

IsShown(st) == st \in DOMAIN page.nodes /\ page.stats[st] # 0
AtTree == page.isOpen /\ ~ page.isLoading /\ page.asks = "nothing" /\ Calling

LoadCommands(s, st, token) == Send(s, "commands", [state |-> st, token |-> token])

ExpandStatNode(st) ==
  /\ AtTree /\ IsShown(st)
  /\ LET s == [State EXCEPT !.page.nodes[st].expanded = ~ @]
     IN Becomes(IF page.nodes[st].expanded THEN s ELSE LoadCommands(s, st, 0))
  /\ UNCHANGED api

LoadMoreCommands(st) ==
  /\ AtTree /\ IsShown(st) /\ page.nodes[st].expanded
  /\ page.nodes[st].token # 0 /\ ~ page.nodes[st].isLoading
  /\ Becomes(LoadCommands([State EXCEPT !.page.nodes[st].isLoading = TRUE],
                          st, page.nodes[st].token))
  /\ UNCHANGED api

\* The first page replaces what is listed, another is added to the node there is by
\* then.
CommandsArrive(i) ==
  LET st == requests[i].arg.state
      isMore == requests[i].arg.token # 0
      s == [Heard(i) EXCEPT !.page.nodes[st].isLoading = @ /\ ~ isMore]
  IN \/ /\ Hears(i, "commands", "ok")
        /\ LET answer == requests[i].answer
               new == [c \in answer.commands |-> CommandNode]
           IN Becomes([s EXCEPT !.page.nodes[st].token = answer.token,
                !.page.nodes[st].commands =
                  IF isMore THEN [c \in answer.commands \cup DOMAIN @ |->
                                    IF c \in answer.commands THEN CommandNode ELSE @[c]]
                  ELSE new])
     \/ Hears(i, "commands", "error") /\ Becomes(s)

ExpandCommandNode(st, c) ==
  /\ AtTree /\ IsShown(st) /\ page.nodes[st].expanded
  /\ LET s == [State EXCEPT !.page.nodes[st].commands[c].expanded = ~ @]
     IN Becomes(IF page.nodes[st].commands[c].expanded THEN s
                ELSE Send(s, "attempts", [state |-> st, command |-> c]))
  /\ UNCHANGED api

\* For a command that is not listed any more the assignment throws.
AttemptsArrive(i) ==
  \/ /\ Hears(i, "attempts", "ok")
     /\ LET st == requests[i].arg.state
            c == requests[i].arg.command
        IN Becomes(IF c \in DOMAIN page.nodes[st].commands
                   THEN [Heard(i) EXCEPT !.page.nodes[st].commands[c].attempts = TRUE]
                   ELSE Heard(i))
  \/ Hears(i, "attempts", "error") /\ Becomes(Heard(i))

-----------------------------------------------------------------------------
(* The buttons of the page, each with a dialog that asks.                  *)

AtButtons ==
  page.isOpen /\ page.run # NoRun /\ ~ page.isLoading /\ page.asks = "nothing"

Ask ==
  /\ AtButtons /\ Spend
  /\ \/ ~ IsFinal(page.run.state) /\ Shows([page EXCEPT !.asks = "cancel"])
     \/ IsFinal(page.run.state) /\ Shows([page EXCEPT !.asks = "delete"])
     \/ IsFinal(page.run.state) /\ page.hasActions
        /\ Shows([page EXCEPT !.asks = "execute"])

AnswerDialog(isConfirmed) ==
  /\ page.asks # "nothing" /\ Calling
  /\ LET s == [State EXCEPT !.page.asks = "nothing"]
     IN Becomes(IF isConfirmed THEN Send(s, page.asks, [id |-> "run"]) ELSE s)
  /\ UNCHANGED api

\* A cancel or an execution is followed by a load, a deletion leaves the page.
Done(i) ==
  \/ /\ \E kind \in {"cancel", "execute"} : Hears(i, kind, "ok")
     /\ Becomes(LoadTestRun(Heard(i)))
  \/ /\ Hears(i, "delete", "ok")
     /\ page' = [page EXCEPT !.isOpen = FALSE, !.asks = "nothing"]
     /\ requests' = <<>> /\ UNCHANGED browser
  \/ \E kind \in {"cancel", "execute", "delete"} :
       Hears(i, kind, "error") /\ Becomes(Heard(i))

-----------------------------------------------------------------------------
(* The services.                                                           *)

In(st) == {c \in Commands : api.commands[c] = st}

ListCommands(st, token) ==
  LET after == Ascending({c \in In(st) : c > token})
      n == IF CommandPage < Len(after) THEN CommandPage ELSE Len(after)
  IN [commands |-> {after[k] : k \in 1..n},
      token |-> IF n < Len(after) THEN after[n] ELSE 0]

\* A run is canceled while it is not final.
Served(i) ==
  LET call == requests[i]
  IN CASE call.kind = "run" -> Answer(i, api.run) /\ UNCHANGED api
       [] call.kind = "stats" ->
            Answer(i, [st \in CommandStates |-> Cardinality(In(st))]) /\ UNCHANGED api
       [] call.kind = "commands" ->
            Answer(i, ListCommands(call.arg.state, call.arg.token)) /\ UNCHANGED api
       [] call.kind = "cancel" ->
            Answer(i, {}) /\ api' = [api EXCEPT !.run.state =
                                       IF IsFinal(@) THEN @ ELSE "CANCELED"]
       [] call.kind = "delete" -> Answer(i, {}) /\ api' = [api EXCEPT !.deleted = TRUE]
       [] OTHER -> Answer(i, {}) /\ UNCHANGED api

\* A run that was deleted is not found.
Serve(i) ==
  /\ IsSent(i) /\ (api.deleted => requests[i].kind \notin {"run", "cancel", "execute"})
  /\ Served(i) /\ UNCHANGED <<page, browser, spent>>

\* The run goes on: it gets its request, a command completes, and with the last one
\* the run.
RunGoesOn ==
  /\ Spend /\ ~ IsFinal(api.run.state)
  /\ \/ ~ api.run.hasRequest
        /\ api' = [api EXCEPT !.run = [state |-> "RUNNING", hasRequest |-> TRUE]]
     \/ /\ api.run.hasRequest
        /\ \E c \in In("RUNNING") :
             api' = [api EXCEPT !.commands[c] = "COMPLETED",
                                !.run.state = IF In("RUNNING") = {c} THEN "COMPLETED" ELSE @]
  /\ UNCHANGED <<page, browser, requests>>

Next ==
  \/ \E i \in DOMAIN requests : RunArrives(i)
  \/ \E i \in DOMAIN requests : RequestArrives(i)
  \/ \E i \in DOMAIN requests : ActionsArrive(i)
  \/ \E i \in DOMAIN requests : StatsArrive(i)
  \/ AutoUpdate
  \/ \E st \in DOMAIN page.nodes : ExpandStatNode(st)
  \/ \E st \in DOMAIN page.nodes : LoadMoreCommands(st)
  \/ \E i \in DOMAIN requests : requests[i].kind = "commands" /\ CommandsArrive(i)
  \/ \E st \in DOMAIN page.nodes : \E c \in DOMAIN page.nodes[st].commands :
       ExpandCommandNode(st, c)
  \/ \E i \in DOMAIN requests : AttemptsArrive(i)
  \/ Ask
  \/ \E b \in BOOLEAN : AnswerDialog(b)
  \/ \E i \in DOMAIN requests : Done(i)
  \/ \E i \in DOMAIN requests : Serve(i)
  \/ \E i \in DOMAIN requests : Fail(i)
  \/ RunGoesOn

-----------------------------------------------------------------------------
(* What must hold.                                                         *)

\* The page updates itself as long as its run can change: it has stopped only if the
\* run is final for the service too.
UpdatesUntilFinal == page.autoUpdate \/ IsFinal(api.run.state)
=============================================================================
