-------------------------- MODULE LabPages_proofs --------------------------
(***************************************************************************)
(* The inductive invariants of the pages of a lab, for any values of their *)
(* constants, any calls that are under way and any number of steps.        *)
(***************************************************************************)
EXTENDS LabPages, UiPage_proofs, TLAPS

-----------------------------------------------------------------------------
(* The details of a host or device.                                        *)

DetailsFields == {"id", "data", "panels", "isLoading", "confirming"}
IsDetails(p) == DOMAIN p = DetailsFields
OwnCalls == {"data", "remove", "recovery"}

\* What the page is masked for: a host until its data are there or it is removed, and
\* a device until its summary is there.
Awaited(id) == IF id \in DetailsPage.Hosts THEN {"data", "remove"} ELSE {"summary"}

GoodDetails(p, q) ==
  /\ Calls(q)
  /\ IsDetails(p)
  /\ p.isLoading \in BOOLEAN
  /\ DOMAIN p.panels \cap OwnCalls = {}
  /\ p.isLoading => Waits(q, Awaited(p.id))

LEMMA DetailsLoadPanels ==
  ASSUME NEW p, NEW b, NEW q, NEW panels, NEW t, t = Details!LoadPanels(Of(p, b, q), panels)
  PROVE  t = Of(p, b, q \o [k \in DOMAIN panels |-> Details!Request(panels[k], p.id)])
  BY DEF Of, Details!LoadPanels
LEMMA DetailsAppendDefaultOption ==
  ASSUME NEW p, NEW b, NEW q, NEW t, t = Details!AppendDefaultOption(Of(p, b, q))
  PROVE  t = Of(p, t.browser, q)
  BY DEF Of, Details!AppendDefaultOption
LEMMA DetailsSend ==
  ASSUME NEW p, NEW b, NEW q, NEW t, NEW kind, NEW arg, t = Details!Send(Of(p, b, q), kind, arg)
  PROVE  t = Of(p, b, Append(q, Details!Request(kind, arg)))
  BY DEF Of, Details!Send

LEMMA DetailsFresh ==
  ASSUME NEW kind, NEW arg
  PROVE  DOMAIN Details!Request(kind, arg) = CallFields /\ Details!Request(kind, arg).kind = kind
BY DEF Details!Request, CallFields

LEMMA DetailsPanels ==
  ASSUME NEW q, Calls(q), NEW id, NEW pid
  PROVE  LET panels == Details!PanelsOf(pid)
             r == q \o [k \in DOMAIN panels |-> Details!Request(panels[k], id)]
         IN Keeps(q, r) /\ Waits(r, {"summary"})
<1> DEFINE panels == Details!PanelsOf(pid)
           new == [k \in DOMAIN panels |-> Details!Request(panels[k], id)]
<1>1. IsSeq(panels) /\ \E k \in DOMAIN panels : panels[k] = "summary"
  <2>1. Details!HostDetailsAssumption BY LabPagesAssumption
  <2>2. CASE pid \in DetailsPage.Hosts
    BY <2>1, <2>2 DEF Details!HostDetailsAssumption, Details!PanelsOf, Details!Range, IsSeq
  <2>3. CASE pid \notin DetailsPage.Hosts
    <3>1. panels = <<"summary">> BY <2>3 DEF Details!PanelsOf
    <3>2. panels \in Seq({"summary"}) /\ panels[1] = "summary" /\ 1 \in DOMAIN panels BY <3>1
    <3> QED BY <3>2 DEF IsSeq
  <2> QED BY <2>2, <2>3
<1> HIDE DEF panels
<1>2. Calls(new) 
  <2>1. DOMAIN panels = 1 .. Len(panels) /\ Len(panels) \in Nat BY <1>1 DEF IsSeq
  <2>2. new \in Seq({new[k] : k \in DOMAIN panels}) BY <2>1
  <2>3. \A k \in DOMAIN panels : DOMAIN new[k] = CallFields BY DetailsFresh
  <2> QED BY <2>2, <2>3 DEF IsSeq, Calls
<1>3. \E k \in DOMAIN new : new[k].kind = "summary" BY <1>1, DetailsFresh
<1> HIDE DEF new
<1>4. Keeps(q, q \o new) /\ Keeps(new, q \o new) BY <1>2, Concatenated
<1>5. Waits(q \o new, {"summary"}) BY <1>3, <1>4 DEF Waits, Keeps
<1> QED BY <1>4, <1>5 DEF panels, new

\* A load masks the page and waits for its data.
DetailsLoaded(p, b, q, t) ==
  \E p1, q1 : /\ t = Of(p1, b, q1) /\ IsDetails(p1)
             /\ p1.panels = p.panels /\ p1.isLoading = TRUE
             /\ Keeps(q, q1) /\ Waits(q1, {"data"})

LEMMA DetailsLoads ==
  ASSUME NEW p, NEW b, NEW q, Calls(q), IsDetails(p)
  PROVE  DetailsLoaded(p, b, q, Details!Load(Of(p, b, q)))
<1>1. PICK t : t = Details!Load(Of(p, b, q)) OBVIOUS
<1>2. /\ t = Of(t.page, b, t.requests) /\ IsDetails(t.page)
      /\ t.page.isLoading = TRUE /\ t.page.panels = p.panels
      /\ t.requests = Append(q, Details!Request("data", p.id))
  BY <1>1 DEF Of, Details!Send, Details!Load, DetailsFields, IsDetails
<1>3. Keeps(q, t.requests) /\ Waits(t.requests, {"data"})
  <2>1. PICK r : r = Details!Request("data", p.id) OBVIOUS
  <2>2. DOMAIN r = CallFields /\ r.kind = "data" BY <2>1, DetailsFresh
  <2>3. Keeps(q, Append(q, r)) /\ Waits(Append(q, r), {"data"}) BY <2>2, Appended
  <2> QED BY <1>2, <2>1, <2>3
<1>4. DetailsLoaded(p, b, q, t) BY <1>2, <1>3 DEF DetailsLoaded
<1> QED BY <1>1, <1>4

LEMMA DetailsHeard ==
  ASSUME NEW i, NEW t, t = Details!Heard(i)
  PROVE  t = Of(page, browser, RemoveAt(requests, i))
BY DEF Of, Details!Heard, Details!State, Details!RemoveAt, RemoveAt

LEMMA DetailsState == Details!State = Of(page, browser, requests)
BY DEF Details!State, Of

\* A load, or a refresh, leaves the page masked for a call that is under way.
LEMMA DetailsData ==
  ASSUME GoodDetails(page, requests), NEW i \in DOMAIN requests, Details!DataArrives(i)
  PROVE  GoodDetails(page', requests')
<1>1. PICK q : q = RemoveAt(requests, i) OBVIOUS
<1>2. /\ Calls(q)
      /\ \A kinds : Waits(requests, kinds) /\ requests[i].kind \notin kinds => Waits(q, kinds)
  BY <1>1, HeardKeeps DEF GoodDetails
<1>3. PICK h : h = Details!Heard(i) OBVIOUS
<1>4. h = Of(page, browser, q) BY <1>1, <1>3, DetailsHeard
<1>5. PICK t :
        /\ Details!Becomes(t)
        /\ \/ t = [h EXCEPT !.page.data = requests[i].answer,
                            !.page.isLoading = @ /\ ~ Details!IsHost]
           \/ t = [h EXCEPT !.page.isLoading = @ /\ ~ Details!IsHost]
  BY <1>3 DEF Details!DataArrives
<1>6. /\ t.requests = q /\ IsDetails(t.page) /\ t.page.id = page.id
      /\ t.page.panels = page.panels
      /\ t.page.isLoading = (page.isLoading /\ page.id \notin DetailsPage.Hosts)
  <2>1. IsDetails(page) /\ page.isLoading \in BOOLEAN BY DEF GoodDetails
  <2>2. CASE t = [h EXCEPT !.page.data = requests[i].answer,
                           !.page.isLoading = @ /\ ~ Details!IsHost]
    BY <1>4, <2>1, <2>2 DEF Of, Details!IsHost, DetailsFields, IsDetails
  <2>3. CASE t = [h EXCEPT !.page.isLoading = @ /\ ~ Details!IsHost]
    BY <1>4, <2>1, <2>3 DEF Of, Details!IsHost, DetailsFields, IsDetails
  <2> QED BY <1>5, <2>2, <2>3
<1>7. requests[i].kind = "data" BY DEF Details!DataArrives, Details!Hears
<1> QED BY <1>2, <1>5, <1>6, <1>7 DEF GoodDetails, Awaited, Details!Becomes

\* A part of the page that hears of its call, or the buttons of a removal, which stays
\* no longer than the call.
LEMMA DetailsPanel ==
  ASSUME GoodDetails(page, requests), NEW i \in DOMAIN requests,
         NEW k \in DOMAIN page.panels, Details!PanelArrives(i, k)
  PROVE  GoodDetails(page', requests')
<1>1. PICK q : q = RemoveAt(requests, i) OBVIOUS
<1>2. /\ Calls(q)
      /\ \A kinds : Waits(requests, kinds) /\ requests[i].kind \notin kinds => Waits(q, kinds)
  BY <1>1, HeardKeeps DEF GoodDetails
<1>3. PICK h : h = Details!Heard(i) OBVIOUS
<1>4. h = Of(page, browser, q) BY <1>1, <1>3, DetailsHeard
<1>5. PICK t :
        /\ Details!Becomes(t)
        /\ \/ t = [h EXCEPT !.page.panels[k] = requests[i].answer,
                            !.page.isLoading = @ /\ Details!IsHost]
           \/ t = [h EXCEPT !.page.isLoading = @ /\ Details!IsHost]
  BY <1>3 DEF Details!PanelArrives
<1>6. /\ t.requests = q /\ IsDetails(t.page) /\ t.page.id = page.id
      /\ DOMAIN t.page.panels = DOMAIN page.panels
      /\ t.page.isLoading = (page.isLoading /\ page.id \in DetailsPage.Hosts)
  <2>1. IsDetails(page) /\ page.isLoading \in BOOLEAN BY DEF GoodDetails
  <2>2. CASE t = [h EXCEPT !.page.panels[k] = requests[i].answer,
                           !.page.isLoading = @ /\ Details!IsHost]
    BY <1>4, <2>1, <2>2 DEF Of, Details!IsHost, DetailsFields, IsDetails
  <2>3. CASE t = [h EXCEPT !.page.isLoading = @ /\ Details!IsHost]
    BY <1>4, <2>1, <2>3 DEF Of, Details!IsHost, DetailsFields, IsDetails
  <2> QED BY <1>5, <2>2, <2>3
<1>7. requests[i].kind \notin {"data", "remove"}
  BY DEF Details!PanelArrives, Details!Hears, GoodDetails, OwnCalls
<1> QED BY <1>2, <1>5, <1>6, <1>7 DEF GoodDetails, Awaited, Details!Becomes

LEMMA DetailsRemoved ==
  ASSUME GoodDetails(page, requests), NEW i \in DOMAIN requests, Details!Removed(i)
  PROVE  GoodDetails(page', requests')
<1>1. PICK q : q = RemoveAt(requests, i) OBVIOUS
<1>2. /\ Calls(q)
      /\ \A kinds : Waits(requests, kinds) /\ requests[i].kind \notin kinds => Waits(q, kinds)
  BY <1>1, HeardKeeps DEF GoodDetails
<1>3. PICK h : h = Details!Heard(i) OBVIOUS
<1>4. h = Of(page, browser, q) BY <1>1, <1>3, DetailsHeard
<1>5. PICK s : s = [h EXCEPT !.page.isLoading = @ /\ ~ Details!IsHost] OBVIOUS
<1>6. PICK t : /\ Details!Becomes(t)
               /\ t = s \/ t = [s EXCEPT !.page.data.hidden = TRUE]
  BY <1>3, <1>5 DEF Details!Removed
<1>7. IsDetails(page) /\ page.isLoading \in BOOLEAN BY DEF GoodDetails
<1>8. /\ s = Of(s.page, browser, q) /\ IsDetails(s.page)
      /\ s.page.id = page.id /\ s.page.panels = page.panels
      /\ s.page.isLoading = (page.isLoading /\ page.id \notin DetailsPage.Hosts)
  BY <1>4, <1>5, <1>7 DEF Of, Details!IsHost, DetailsFields, IsDetails
<1>9. /\ t.requests = q /\ IsDetails(t.page) /\ t.page.id = s.page.id
      /\ t.page.panels = s.page.panels /\ t.page.isLoading = s.page.isLoading
  <2>1. PICK p : p = s.page OBVIOUS
  <2>2. s = Of(p, browser, q) /\ IsDetails(p) BY <1>8, <2>1
  <2>3. CASE t = [s EXCEPT !.page.data.hidden = TRUE]
    BY <2>2, <2>3 DEF Of, DetailsFields, IsDetails
  <2>4. CASE t = s BY <2>2, <2>4 DEF Of
  <2> QED BY <1>6, <2>3, <2>4
<1>10. requests[i].kind = "remove" BY DEF Details!Removed, Details!Hears
<1> QED BY <1>2, <1>6, <1>8, <1>9, <1>10 DEF GoodDetails, Awaited, Details!Becomes

\* Whoever loads the page, alone or with its parts, waits for both.
LEMMA DetailsMasked ==
  ASSUME NEW p, NEW q, Calls(q), IsDetails(p), p.isLoading \in BOOLEAN,
         DOMAIN p.panels \cap OwnCalls = {}, Waits(q, {"data"}), Waits(q, {"summary"})
  PROVE  GoodDetails(p, q)
BY DEF GoodDetails, Awaited, Waits

LEMMA DetailsSelect ==
  ASSUME GoodDetails(page, requests), NEW id, Details!SelectSubject(id)
  PROVE  GoodDetails(page', requests')
<1>1. PICK s : s = [Details!State EXCEPT !.page.id = id] OBVIOUS
<1>2. PICK t : t = Details!Load(s) OBVIOUS
<1>3. PICK u : u = Details!LoadPanels(t, Details!PanelsOf(id)) OBVIOUS
<1>4. PICK v : v = Details!Load(u) OBVIOUS
<1>5. PICK w : w = Details!AppendDefaultOption(v) /\ Details!Becomes(w)
  BY <1>1, <1>2, <1>3, <1>4 DEF Details!SelectSubject
<1>6. IsDetails(page) /\ Calls(requests) BY DEF GoodDetails
<1>7. PICK p : /\ s = Of(p, browser, requests) /\ IsDetails(p)
               /\ p.panels = page.panels
  BY <1>1, <1>6, DetailsState DEF Of, DetailsFields, IsDetails
<1>8. PICK p1, q1 : /\ t = Of(p1, browser, q1) /\ IsDetails(p1)
                    /\ p1.panels = page.panels /\ Calls(q1)
  <2>1. DetailsLoaded(p, browser, requests, Details!Load(Of(p, browser, requests)))
    BY <1>6, <1>7, DetailsLoads
  <2>2. DetailsLoaded(p, browser, requests, t) BY <1>2, <1>7, <2>1
  <2> QED BY <1>7, <2>2 DEF DetailsLoaded, Keeps
<1>9. PICK q2 : /\ u = Of(p1, browser, q2) /\ Calls(q2) /\ Waits(q2, {"summary"})
  <2>1. PICK panels : panels = Details!PanelsOf(id) OBVIOUS
  <2>2. u = Of(p1, browser, q1 \o [k \in DOMAIN panels |-> Details!Request(panels[k], p1.id)])
    BY <1>3, <1>8, <2>1, DetailsLoadPanels
  <2> QED BY <1>8, <2>1, <2>2, DetailsPanels DEF Keeps
<1>10. PICK p3, q3 : /\ v = Of(p3, browser, q3) /\ IsDetails(p3)
                     /\ p3.isLoading = TRUE /\ p3.panels = page.panels
                     /\ Keeps(q2, q3) /\ Waits(q3, {"data"})
  <2>1. DetailsLoaded(p1, browser, q2, Details!Load(Of(p1, browser, q2)))
    BY <1>8, <1>9, DetailsLoads
  <2>2. DetailsLoaded(p1, browser, q2, v) BY <1>4, <1>9, <2>1
  <2> QED BY <1>8, <2>2 DEF DetailsLoaded
<1>11. w = Of(p3, w.browser, q3) BY <1>5, <1>10, DetailsAppendDefaultOption
<1>12. Waits(q3, {"summary"}) /\ Calls(q3) BY <1>9, <1>10, WaitsOn DEF Keeps
<1>13. GoodDetails(p3, q3) BY <1>10, <1>12, DetailsMasked DEF GoodDetails
<1> QED BY <1>5, <1>11, <1>13 DEF Details!Becomes, Of

LEMMA DetailsCommand ==
  ASSUME GoodDetails(page, requests), NEW kind, NEW arg,
         Details!Becomes(Details!Send(Details!State, kind, arg))
  PROVE  GoodDetails(page', requests')
<1>1. /\ page' = page /\ requests' = Append(requests, Details!Request(kind, arg))
  BY DetailsState, DetailsSend DEF Details!Becomes, Of
<1>2. Keeps(requests, requests') BY <1>1, Appended, DetailsFresh DEF GoodDetails
<1> QED BY <1>1, <1>2, WaitsOn DEF GoodDetails, Keeps

LEMMA DetailsConfirm ==
  ASSUME GoodDetails(page, requests), NEW yes \in BOOLEAN, Details!ConfirmRemoval(yes)
  PROVE  GoodDetails(page', requests')
<1>1. PICK s : s = [Details!State EXCEPT
                      !.page.confirming = FALSE,
                      !.page.isLoading = IF Details!IsHost THEN yes ELSE @]
  OBVIOUS
<1>2. Details!Becomes(IF yes THEN Details!Send(s, "remove", page.id) ELSE s)
  BY <1>1 DEF Details!ConfirmRemoval
<1>3. IsDetails(page) /\ page.isLoading \in BOOLEAN /\ Calls(requests)
  BY DEF GoodDetails
<1>4. PICK p : /\ s = Of(p, browser, requests) /\ IsDetails(p)
               /\ p.panels = page.panels /\ p.id = page.id
               /\ p.isLoading = IF page.id \in DetailsPage.Hosts THEN yes ELSE page.isLoading
  <2>1. PICK n : n = Details!State OBVIOUS
  <2>2. n = Of(page, browser, requests) BY <2>1, DetailsState
  <2>3. s = [n EXCEPT !.page.confirming = FALSE,
                      !.page.isLoading = IF Details!IsHost THEN yes ELSE @]
    BY <1>1, <2>1
  <2>4. /\ IsDetails(s.page)
        /\ s.page.panels = page.panels /\ s.page.id = page.id
        /\ s.page.isLoading = IF page.id \in DetailsPage.Hosts THEN yes ELSE page.isLoading
    BY <1>3, <2>2, <2>3 DEF Of, Details!IsHost, DetailsFields, IsDetails
  <2>5. s = Of(s.page, browser, requests) BY <1>3, <2>2, <2>3 DEF Of, DetailsFields, IsDetails
  <2> QED BY <2>4, <2>5
<1>5. CASE yes
  <2>1. /\ page' = p /\ requests' = Append(requests, Details!Request("remove", page.id))
    BY <1>2, <1>4, <1>5, DetailsSend DEF Details!Becomes, Of
  <2>2. Keeps(requests, requests') /\ Waits(requests', {"remove"})
    BY <1>3, <2>1, Appended, DetailsFresh
  <2> QED BY <1>3, <1>4, <2>1, <2>2, WaitsOn DEF GoodDetails, Keeps, Awaited, Waits
<1>6. CASE ~ yes
  <2>1. page' = p /\ requests' = requests BY <1>2, <1>4, <1>6 DEF Details!Becomes, Of
  <2> QED BY <1>3, <1>4, <1>6, <2>1 DEF GoodDetails, Awaited
<1> QED BY <1>5, <1>6

LEMMA DetailsRecovery ==
  ASSUME GoodDetails(page, requests), NEW i \in DOMAIN requests, Details!RecoverySet(i)
  PROVE  GoodDetails(page', requests')
<1>1. PICK q : q = RemoveAt(requests, i) OBVIOUS
<1>2. /\ Calls(q)
      /\ \A kinds : Waits(requests, kinds) /\ requests[i].kind \notin kinds => Waits(q, kinds)
  BY <1>1, HeardKeeps DEF GoodDetails
<1>3. PICK h : h = Details!Heard(i) OBVIOUS
<1>4. h = Of(page, browser, q) BY <1>1, <1>3, DetailsHeard
<1>5. IsDetails(page) /\ page.isLoading \in BOOLEAN BY DEF GoodDetails
<1>6. requests[i].kind = "recovery" BY DEF Details!RecoverySet, Details!Hears
<1>7. CASE Details!Becomes(h)
  BY <1>2, <1>4, <1>6, <1>7 DEF Details!Becomes, Of, GoodDetails, Awaited
<1>8. ASSUME NEW s, Details!Becomes(Details!Refresh(s)),
             \/ s = h
             \/ s = [h EXCEPT !.page.data.recovery = requests[i].arg.state,
                              !.page.data.assignee = DetailsPage.Me]
      PROVE  GoodDetails(page', requests')
  <2>1. PICK p : s = Of(p, browser, q) /\ IsDetails(p) /\ p.panels = page.panels
    <3>1. CASE s = h BY <1>4, <1>5, <3>1
    <3>2. CASE s = [h EXCEPT !.page.data.recovery = requests[i].arg.state,
                             !.page.data.assignee = DetailsPage.Me]
      <4>1. s = Of(s.page, browser, q) BY <1>4, <1>5, <3>2 DEF Of, DetailsFields, IsDetails
      <4>2. IsDetails(s.page) /\ s.page.panels = page.panels
        BY <1>4, <1>5, <3>2 DEF Of, DetailsFields, IsDetails
      <4> QED BY <4>1, <4>2
    <3> QED BY <1>8, <3>1, <3>2
  <2>2. PICK t : t = Details!Load(s) OBVIOUS
  <2>3. PICK p1, q1 : /\ t = Of(p1, browser, q1) /\ IsDetails(p1)
                      /\ p1.panels = page.panels /\ p1.isLoading = TRUE
                      /\ Calls(q1) /\ Waits(q1, {"data"})
    <3>1. DetailsLoaded(p, browser, q, Details!Load(Of(p, browser, q)))
      BY <1>2, <2>1, DetailsLoads
    <3>2. DetailsLoaded(p, browser, q, t) BY <2>1, <2>2, <3>1
    <3> QED BY <2>1, <3>2 DEF DetailsLoaded, Keeps
  <2>4. PICK arg : Details!Becomes(Details!Send(t, "summary", arg))
    BY <1>8, <2>2 DEF Details!Refresh
  <2>5. /\ page' = p1 /\ requests' = Append(q1, Details!Request("summary", arg))
    BY <2>3, <2>4, DetailsSend DEF Details!Becomes, Of
  <2>6. Keeps(q1, requests') /\ Waits(requests', {"summary"})
    BY <2>3, <2>5, Appended, DetailsFresh
  <2>7. Waits(requests', {"data"}) /\ Calls(requests') BY <2>3, <2>6, WaitsOn DEF Keeps
  <2> QED BY <2>3, <2>5, <2>6, <2>7, DetailsMasked DEF GoodDetails
<1> QED BY <1>3, <1>7, <1>8 DEF Details!RecoverySet

LEMMA DetailsCalls ==
  ASSUME GoodDetails(page, requests), page' = page, SameKinds(requests, requests')
  PROVE  GoodDetails(page', requests')
BY WaitsStill DEF GoodDetails, SameKinds

LEMMA DetailsService ==
  ASSUME GoodDetails(page, requests), NEW i \in DOMAIN requests,
         Details!Serve(i) \/ Details!Fail(i)
  PROVE  GoodDetails(page', requests')
<1>1. page' = page BY DEF Details!Serve, Details!Fail
<1>2. Calls(requests) BY DEF GoodDetails
<1>3. CASE Details!Fail(i)
  BY <1>1, <1>2, <1>3, Answered, DetailsCalls DEF Details!Fail
<1>4. CASE Details!Serve(i)
  <2>1. PICK answer : Details!Answer(i, answer) BY <1>4 DEF Details!Serve
  <2> QED BY <1>1, <1>2, <2>1, Answered, DetailsCalls DEF Details!Answer
<1> QED BY <1>3, <1>4

LEMMA DetailsInit == ASSUME Details!Init PROVE GoodDetails(page, requests)
<1>1. PICK id, names :
        /\ id \in DetailsPage.Subjects
        /\ LET s == Details!OpenDetails([page |-> Details!FreshDetails(id), requests |-> <<>>,
                                         browser |-> [names |-> names]], id)
           IN page = s.page /\ requests = s.requests
  BY DEF Details!Init
<1>a. PICK fresh : fresh = Details!FreshDetails(id) OBVIOUS
<1>b. PICK names0 : names0 = [names |-> names] OBVIOUS
<1>2. /\ IsDetails(fresh)
      /\ DOMAIN fresh.panels \cap OwnCalls = {}
  <2>1. Details!HostDetailsAssumption BY LabPagesAssumption
  <2>2. IsDetails(fresh) BY <1>a DEF Details!FreshDetails, DetailsFields, IsDetails
  <2>3. DOMAIN fresh.panels = Details!Range(Details!PanelsOf(id))
    BY <1>a DEF Details!FreshDetails
  <2>4. CASE id \in DetailsPage.Hosts
    BY <2>1, <2>2, <2>3, <2>4 DEF Details!HostDetailsAssumption, Details!PanelsOf, OwnCalls
  <2>5. CASE id \notin DetailsPage.Hosts
    <3>1. Details!PanelsOf(id) = <<"summary">> BY <2>5 DEF Details!PanelsOf
    <3>2. Details!Range(Details!PanelsOf(id)) = {"summary"} BY <3>1 DEF Details!Range
    <3>3. "summary" \notin OwnCalls BY DEF OwnCalls
    <3> QED BY <2>2, <2>3, <3>2, <3>3
  <2> QED BY <2>2, <2>4, <2>5
<1>3. PICK s : s = [[page |-> fresh, requests |-> <<>>, browser |-> names0]
                     EXCEPT !.page = fresh, !.requests = <<>>]
  OBVIOUS
<1>4. PICK t : t = Details!Load(s) OBVIOUS
<1>5. PICK u : u = Details!LoadPanels(t, Details!PanelsOf(id)) OBVIOUS
<1>6. PICK v : v = Details!AppendDefaultOption(u) OBVIOUS
<1>7. page = v.page /\ requests = v.requests
  BY <1>a, <1>b, <1>1, <1>3, <1>4, <1>5, <1>6 DEF Details!OpenDetails
<1>8. s = Of(fresh, names0, <<>>) BY <1>3 DEF Of
<1>9. Calls(<<>>)
  <2>1. <<>> \in Seq({}) OBVIOUS
  <2>2. IsSeq(<<>>) BY <2>1 DEF IsSeq
  <2> QED BY <2>2 DEF Calls
<1>10. PICK p1, q1 : /\ t = Of(p1, names0, q1) /\ IsDetails(p1)
                     /\ p1.panels = fresh.panels /\ p1.isLoading = TRUE
                     /\ Calls(q1) /\ Waits(q1, {"data"})
  <2>1. DetailsLoaded(fresh, names0, <<>>, Details!Load(Of(fresh, names0, <<>>)))
    BY <1>2, <1>9, DetailsLoads
  <2>2. DetailsLoaded(fresh, names0, <<>>, t) BY <1>4, <1>8, <2>1
  <2> QED BY <2>2 DEF DetailsLoaded, Keeps
<1>11. PICK q2 : u = Of(p1, names0, q2) /\ Keeps(q1, q2) /\ Waits(q2, {"summary"})
  <2>1. PICK panels : panels = Details!PanelsOf(id) OBVIOUS
  <2>2. u = Of(p1, names0, q1 \o [k \in DOMAIN panels |-> Details!Request(panels[k], p1.id)])
    BY <1>5, <1>10, <2>1, DetailsLoadPanels
  <2> QED BY <1>10, <2>1, <2>2, DetailsPanels
<1>12. v = Of(p1, v.browser, q2) BY <1>6, <1>11, DetailsAppendDefaultOption
<1>13. Waits(q2, {"data"}) /\ Calls(q2) BY <1>10, <1>11, WaitsOn DEF Keeps
<1>14. GoodDetails(p1, q2) BY <1>2, <1>10, <1>11, <1>13, DetailsMasked
<1> QED BY <1>7, <1>12, <1>14 DEF Of

LEMMA DetailsNext ==
  ASSUME GoodDetails(page, requests), [Details!Next]_vars PROVE GoodDetails(page', requests')
<1>1. CASE UNCHANGED vars BY <1>1 DEF vars
<1>2. CASE \E i \in DOMAIN requests : Details!DataArrives(i) BY <1>2, DetailsData
<1>3. CASE \E i \in DOMAIN requests : \E p \in DOMAIN page.panels : Details!PanelArrives(i, p)
  BY <1>3, DetailsPanel
<1>4. CASE \E id \in DetailsPage.Subjects : Details!SelectSubject(id) BY <1>4, DetailsSelect
<1>5. CASE Details!AskToRemove
  <2>1. page' = [page EXCEPT !.confirming = TRUE] /\ requests' = requests
    BY <1>5 DEF Details!AskToRemove, Details!Shows
  <2>2. IsDetails(page) BY DEF GoodDetails
  <2>3. /\ IsDetails(page') /\ page'.isLoading = page.isLoading
        /\ page'.panels = page.panels /\ page'.id = page.id
    BY <2>1, <2>2 DEF DetailsFields, IsDetails
  <2> QED BY <2>1, <2>3 DEF GoodDetails
<1>6. CASE \E b \in BOOLEAN : Details!ConfirmRemoval(b) BY <1>6, DetailsConfirm
<1>7. CASE \E i \in DOMAIN requests : Details!Removed(i) BY <1>7, DetailsRemoved
<1>8. CASE Details!ToggleHostFixedState \/ Details!MarkAsVerified
  BY <1>8, DetailsCommand DEF Details!ToggleHostFixedState, Details!MarkAsVerified
<1>9. CASE \E i \in DOMAIN requests : Details!RecoverySet(i) BY <1>9, DetailsRecovery
<1>10. CASE \E i \in DOMAIN requests : Details!Serve(i) \/ Details!Fail(i)
  BY <1>10, DetailsService
<1>11. CASE \E id \in DetailsPage.Subjects : Details!StateChanges(id)
  BY <1>11 DEF Details!StateChanges
<1> QED
  BY <1>1, <1>2, <1>3, <1>4, <1>5, <1>6, <1>7, <1>8, <1>9, <1>10, <1>11 DEF Details!Next

-----------------------------------------------------------------------------
(* The predefined messages.                                                *)

MessagesFields == {"filter", "labs", "rows", "isLoading", "editor", "removing"}
IsMessages(p) ==
  DOMAIN p = MessagesFields /\ DOMAIN p.filter = {"lab", "category", "type"}

\* The filter is what is remembered, or a load is under way that stores it when it ends.
GoodMessages(p, b, q) ==
  /\ Calls(q) /\ IsMessages(p) /\ DOMAIN b = {"criteria"}
  /\ Waits(q, {"labs", "load"}) \/ b.criteria = p.filter

LEMMA MessagesSend ==
  ASSUME NEW p, NEW b, NEW q, NEW t, NEW kind, NEW arg,
         t = Messages!Send(Of(p, b, q), kind, arg)
  PROVE  t = Of(p, b, Append(q, Messages!Request(kind, arg)))
BY DEF Of, Messages!Send

LEMMA MessagesFresh ==
  ASSUME NEW kind, NEW arg
  PROVE  DOMAIN Messages!Request(kind, arg) = CallFields /\ Messages!Request(kind, arg).kind = kind
BY DEF Messages!Request, CallFields

LEMMA MessagesStored ==
  ASSUME NEW p, NEW b, NEW q, NEW t, t = Messages!UpdateLocalStorage(Of(p, b, q)),
         DOMAIN b = {"criteria"}
  PROVE  t.page = p /\ t.requests = q /\ DOMAIN t.browser = {"criteria"}
         /\ t.browser.criteria = p.filter
BY DEF Of, Messages!UpdateLocalStorage

LEMMA MessagesHeard ==
  ASSUME NEW i, NEW t, t = Messages!Heard(i)
  PROVE  t = Of(page, browser, RemoveAt(requests, i))
BY DEF Of, Messages!Heard, Messages!State, Messages!RemoveAt, RemoveAt

LEMMA MessagesState == Messages!State = Of(page, browser, requests)
BY DEF Messages!State, Of

\* A step that leaves the filter alone, and the loads.
LEMMA MessagesStill ==
  ASSUME GoodMessages(page, browser, requests),
         IsMessages(page'), page'.filter = page.filter, browser' = browser,
         Calls(requests'),
         Waits(requests, {"labs", "load"}) => Waits(requests', {"labs", "load"})
  PROVE  GoodMessages(page', browser', requests')
BY DEF GoodMessages

\* An answer that is heard, of another call than a load.
LEMMA MessagesHears ==
  ASSUME GoodMessages(page, browser, requests), NEW i \in DOMAIN requests,
         requests[i].kind \notin {"labs", "load"}, NEW t, Messages!Becomes(t),
         DOMAIN t.page = MessagesFields, t.page.filter = page.filter,
         t.browser = browser, t.requests = RemoveAt(requests, i)
  PROVE  GoodMessages(page', browser', requests')
<1>1. Calls(requests) /\ IsMessages(page) BY DEF GoodMessages
<1>2. /\ page' = t.page /\ browser' = browser /\ requests' = RemoveAt(requests, i)
  BY DEF Messages!Becomes
<1>3. PICK q : q = RemoveAt(requests, i) OBVIOUS
<1>4. Calls(q) /\ \A kinds : Waits(requests, kinds) /\ requests[i].kind \notin kinds => Waits(q, kinds)
  BY <1>1, <1>3, HeardKeeps
<1>5. IsMessages(page') /\ page'.filter = page.filter BY <1>1, <1>2 DEF IsMessages
<1> QED BY <1>2, <1>3, <1>4, <1>5, MessagesStill

\* A call of the user leaves the loads that are under way.
LEMMA MessagesCommand ==
  ASSUME GoodMessages(page, browser, requests), NEW p, DOMAIN p = MessagesFields,
         p.filter = page.filter, NEW kind, NEW arg,
         Messages!Becomes(Messages!Send(Of(p, browser, requests), kind, arg))
  PROVE  GoodMessages(page', browser', requests')
<1>1. /\ page' = p /\ browser' = browser
      /\ requests' = Append(requests, Messages!Request(kind, arg))
  BY MessagesSend DEF Messages!Becomes, Of
<1>2. Keeps(requests, requests') BY <1>1, Appended, MessagesFresh DEF GoodMessages
<1>3. IsMessages(page') BY <1>1 DEF IsMessages, GoodMessages
<1>4. /\ Calls(requests')
      /\ Waits(requests, {"labs", "load"}) => Waits(requests', {"labs", "load"})
  BY <1>2, WaitsOn DEF Keeps
<1> QED BY <1>1, <1>3, <1>4, MessagesStill

\* The labs choose the lab, and the load goes on with the messages.
LEMMA MessagesLabs ==
  ASSUME GoodMessages(page, browser, requests), NEW i \in DOMAIN requests,
         Messages!LabsArrive(i)
  PROVE  GoodMessages(page', browser', requests')
<1>1. PICK q : q = RemoveAt(requests, i) OBVIOUS
<1>2. Calls(q) BY <1>1, HeardKeeps DEF GoodMessages
<1>3. PICK h : h = Messages!Heard(i) OBVIOUS
<1>4. h = Of(page, browser, q) BY <1>1, <1>3, MessagesHeard
<1>5. IsMessages(page) /\ DOMAIN browser = {"criteria"} BY DEF GoodMessages
<1>6. ASSUME NEW lab, NEW s,
             s = [h EXCEPT !.page.labs = MessagesPage.Labs, !.page.filter.lab = lab],
             Messages!Becomes(Messages!Send(s, "load", s.page.filter))
      PROVE  GoodMessages(page', browser', requests')
  <2>1. s = Of(s.page, browser, q) BY <1>4, <1>5, <1>6 DEF Of
  <2>2. IsMessages(s.page) BY <1>4, <1>5, <1>6 DEF Of, IsMessages, MessagesFields
  <2>3. PICK p : p = s.page OBVIOUS
  <2>4. PICK r : r = Messages!Request("load", s.page.filter) OBVIOUS
  <2>5. DOMAIN r = CallFields /\ r.kind = "load" BY <2>4, MessagesFresh
  <2>6. s = Of(p, browser, q) BY <2>1, <2>3
  <2>7. Messages!Send(s, "load", s.page.filter) = Of(p, browser, Append(q, r))
    BY <2>4, <2>6, MessagesSend
  <2>8. page' = p /\ browser' = browser /\ requests' = Append(q, r)
    BY <1>6, <2>7 DEF Messages!Becomes, Of
  <2>9. Calls(requests') /\ Waits(requests', {"load"}) BY <1>2, <2>5, <2>8, Appended DEF Keeps
  <2> QED BY <1>5, <2>2, <2>3, <2>8, <2>9 DEF GoodMessages, Waits
<1>7. ASSUME Messages!Becomes(Messages!UpdateLocalStorage([h EXCEPT !.page.isLoading = FALSE]))
      PROVE  GoodMessages(page', browser', requests')
  <2>1. PICK s : s = [h EXCEPT !.page.isLoading = FALSE] OBVIOUS
  <2>2. s = Of(s.page, browser, q) BY <1>4, <1>5, <2>1 DEF Of
  <2>3. IsMessages(s.page) BY <1>4, <1>5, <2>1 DEF Of, IsMessages, MessagesFields
  <2>4. PICK p : p = s.page OBVIOUS
  <2>5. PICK t : t = Messages!UpdateLocalStorage(Of(p, browser, q)) OBVIOUS
  <2>6. page' = t.page /\ browser' = t.browser /\ requests' = t.requests
    BY <1>7, <2>1, <2>2, <2>4, <2>5 DEF Messages!Becomes
  <2> QED BY <1>2, <1>5, <2>3, <2>4, <2>5, <2>6, MessagesStored DEF GoodMessages
<1> QED BY <1>3, <1>6, <1>7 DEF Messages!LabsArrive

\* The end of a load stores the filter; an answer to a reload leaves it.
LEMMA MessagesRows ==
  ASSUME GoodMessages(page, browser, requests), NEW i \in DOMAIN requests,
         Messages!MessagesArrive(i)
  PROVE  GoodMessages(page', browser', requests')
<1>1. PICK q : q = RemoveAt(requests, i) OBVIOUS
<1>2. Calls(q) BY <1>1, HeardKeeps DEF GoodMessages
<1>3. PICK h : h = Messages!Heard(i) OBVIOUS
<1>4. h = Of(page, browser, q) BY <1>1, <1>3, MessagesHeard
<1>5. IsMessages(page) /\ DOMAIN browser = {"criteria"} BY DEF GoodMessages
<1>6. PICK s : s = [h EXCEPT !.page.isLoading = FALSE] OBVIOUS
<1>7. PICK kind, t :
        /\ kind \in {"load", "reload"} /\ requests[i].kind = kind
        /\ Messages!Becomes(IF kind = "load" THEN Messages!UpdateLocalStorage(t) ELSE t)
        /\ t = s \/ t = [s EXCEPT !.page.rows = Messages!Listed(requests[i].answer)]
  BY <1>3, <1>6 DEF Messages!MessagesArrive, Messages!Hears
<1>8. s = Of(s.page, browser, q) /\ IsMessages(s.page) /\ s.page.filter = page.filter
  BY <1>4, <1>5, <1>6 DEF Of, IsMessages, MessagesFields
<1>9. t = Of(t.page, browser, q) /\ IsMessages(t.page) /\ t.page.filter = page.filter
  <2>1. PICK p : p = s.page OBVIOUS
  <2>2. s = Of(p, browser, q) /\ IsMessages(p) /\ p.filter = page.filter BY <1>8, <2>1
  <2>3. CASE t = s BY <1>8, <2>3
  <2>4. CASE t = [s EXCEPT !.page.rows = Messages!Listed(requests[i].answer)]
    BY <2>2, <2>4 DEF Of, IsMessages, MessagesFields
  <2> QED BY <1>7, <2>3, <2>4
<1>10. PICK p : p = t.page OBVIOUS
<1>11. t = Of(p, browser, q) /\ IsMessages(p) /\ p.filter = page.filter BY <1>9, <1>10
<1>12. CASE kind = "load"
  <2>1. PICK u : u = Messages!UpdateLocalStorage(Of(p, browser, q)) OBVIOUS
  <2>2. page' = u.page /\ browser' = u.browser /\ requests' = u.requests
    BY <1>7, <1>11, <1>12, <2>1 DEF Messages!Becomes
  <2> QED BY <1>2, <1>5, <1>11, <2>1, <2>2, MessagesStored DEF GoodMessages
<1>13. CASE kind = "reload"
  <2>1. Messages!Becomes(t) BY <1>7, <1>13
  <2>2. DOMAIN t.page = MessagesFields /\ t.browser = browser /\ t.requests = RemoveAt(requests, i)
    BY <1>1, <1>11 DEF Of, IsMessages
  <2>3. requests[i].kind \notin {"labs", "load"} BY <1>7, <1>13
  <2> QED BY <1>9, <2>1, <2>2, <2>3, MessagesHears
<1> QED BY <1>7, <1>12, <1>13

\* Whatever the user selects is stored, whether or not it loads anything.
LEMMA MessagesSelect ==
  ASSUME GoodMessages(page, browser, requests), NEW l, NEW c, NEW y,
         Messages!SelectFilter(Messages!Criteria(l, c, y))
  PROVE  GoodMessages(page', browser', requests')
<1>1. PICK filter : filter = Messages!Criteria(l, c, y) OBVIOUS
<1>2. PICK n : n = Messages!State OBVIOUS
<1>3. n = Of(page, browser, requests) BY <1>2, MessagesState
<1>4. PICK s : s = [n EXCEPT !.page.filter = filter] OBVIOUS
<1>5. Messages!Becomes(Messages!ReloadPredefinedMessages(s))
  BY <1>1, <1>2, <1>4 DEF Messages!SelectFilter
<1>6. DOMAIN filter = {"lab", "category", "type"} BY <1>1 DEF Messages!Criteria
<1>7. IsMessages(page) /\ DOMAIN browser = {"criteria"} /\ Calls(requests) BY DEF GoodMessages
<1>8. s = Of(s.page, browser, requests) /\ IsMessages(s.page)
  BY <1>3, <1>4, <1>6, <1>7 DEF Of, IsMessages, MessagesFields
<1>9. PICK p : p = s.page OBVIOUS
<1>10. s = Of(p, browser, requests) /\ IsMessages(p) BY <1>8, <1>9
<1>11. PICK t : /\ Messages!Becomes(Messages!UpdateLocalStorage(t))
                /\ \/ t = s
                   \/ t = Messages!Send([s EXCEPT !.page.isLoading = TRUE], "reload",
                                        s.page.filter)
  BY <1>5 DEF Messages!ReloadPredefinedMessages
<1>12. PICK p1, q1 : t = Of(p1, browser, q1) /\ IsMessages(p1) /\ Calls(q1)
  <2>1. CASE t = s BY <1>7, <1>10, <2>1
  <2>2. CASE t = Messages!Send([s EXCEPT !.page.isLoading = TRUE], "reload", s.page.filter)
    <3>1. PICK u : u = [s EXCEPT !.page.isLoading = TRUE] OBVIOUS
    <3>2. u = Of(u.page, browser, requests) /\ IsMessages(u.page)
      BY <1>10, <3>1 DEF Of, IsMessages, MessagesFields
    <3>3. PICK v : v = u.page OBVIOUS
    <3>4. PICK arg : arg = s.page.filter OBVIOUS
    <3>5. t = Messages!Send(Of(v, browser, requests), "reload", arg)
      BY <2>2, <3>1, <3>2, <3>3, <3>4
    <3>6. PICK r : r = Messages!Request("reload", arg) /\ t = Of(v, browser, Append(requests, r))
      BY <3>5, MessagesSend
    <3>7. DOMAIN r = CallFields BY <3>6, MessagesFresh
    <3>8. Calls(Append(requests, r)) BY <1>7, <3>7, Appended DEF Keeps
    <3> QED BY <3>2, <3>3, <3>6, <3>8
  <2> QED BY <1>11, <2>1, <2>2
<1>13. PICK w : w = Messages!UpdateLocalStorage(Of(p1, browser, q1)) OBVIOUS
<1>14. page' = w.page /\ browser' = w.browser /\ requests' = w.requests
  BY <1>11, <1>12, <1>13 DEF Messages!Becomes
<1> QED BY <1>7, <1>12, <1>13, <1>14, MessagesStored DEF GoodMessages

LEMMA MessagesSaved ==
  ASSUME GoodMessages(page, browser, requests), NEW i \in DOMAIN requests,
         Messages!Saved(i) \/ Messages!Deleted(i)
  PROVE  GoodMessages(page', browser', requests')
<1>1. PICK q : q = RemoveAt(requests, i) OBVIOUS
<1>3. PICK h : h = Messages!Heard(i) OBVIOUS
<1>4. h = Of(page, browser, q) BY <1>1, <1>3, MessagesHeard
<1>5. IsMessages(page) BY DEF GoodMessages
<1>6. requests[i].kind \notin {"labs", "load"}
  BY DEF Messages!Saved, Messages!Deleted, Messages!Hears
<1>7. ASSUME NEW t, Messages!Becomes(t),
             \/ t = h
             \/ \E rows : t = [h EXCEPT !.page.rows = rows]
             \/ \E rows, editor : t = [h EXCEPT !.page.rows = rows, !.page.editor = editor]
             \/ t = [h EXCEPT !.page.editor.loading = FALSE]
      PROVE  GoodMessages(page', browser', requests')
  <2>1. /\ DOMAIN t.page = MessagesFields /\ t.page.filter = page.filter
        /\ t.browser = browser /\ t.requests = q
    <3>1. CASE t = h BY <1>4, <1>5, <3>1 DEF Of, IsMessages
    <3>2. CASE \E rows : t = [h EXCEPT !.page.rows = rows]
      BY <1>4, <1>5, <3>2 DEF Of, IsMessages, MessagesFields
    <3>3. ASSUME NEW rows, NEW editor,
                 t = [h EXCEPT !.page.rows = rows, !.page.editor = editor]
          PROVE  /\ DOMAIN t.page = MessagesFields /\ t.page.filter = page.filter
                 /\ t.browser = browser /\ t.requests = q
      BY <1>4, <1>5, <3>3 DEF Of, IsMessages, MessagesFields
    <3>4. CASE t = [h EXCEPT !.page.editor.loading = FALSE]
      BY <1>4, <1>5, <3>4 DEF Of, IsMessages, MessagesFields
    <3> QED BY <1>7, <3>1, <3>2, <3>3, <3>4
  <2> QED BY <1>1, <1>6, <1>7, <2>1, MessagesHears
<1>8. CASE Messages!Saved(i)
  <2> DEFINE m == requests[i].answer
             Put(rows) == IF page.editor.id = Messages!NewMessage THEN <<m>> \o rows
                          ELSE [k \in DOMAIN rows |-> IF rows[k].id = m.id THEN m ELSE rows[k]]
  <2>1. PICK t : /\ Messages!Becomes(t)
                 /\ \/ t = [h EXCEPT !.page.rows = Put(@), !.page.editor = Messages!NoEditor]
                    \/ t = [h EXCEPT !.page.editor.loading = FALSE]
    BY <1>3, <1>8 DEF Messages!Saved
  <2>2. [h EXCEPT !.page.rows = Put(@), !.page.editor = Messages!NoEditor]
          = [h EXCEPT !.page.rows = Put(h.page.rows), !.page.editor = Messages!NoEditor]
    OBVIOUS
  <2> HIDE DEF Put
  <2> QED BY <1>7, <2>1, <2>2
<1>9. CASE Messages!Deleted(i)
  <2>1. PICK t : /\ Messages!Becomes(t)
                 /\ t = h \/ \E rows : t = [h EXCEPT !.page.rows = rows]
    BY <1>3, <1>9 DEF Messages!Deleted
  <2> QED BY <1>7, <2>1
<1> QED BY <1>8, <1>9

LEMMA MessagesEditor ==
  ASSUME GoodMessages(page, browser, requests),
         \/ Messages!OpenEditor
         \/ \E x, f : Messages!EditMessage(x, f)
         \/ \E id : Messages!AskToDelete(id)
  PROVE  GoodMessages(page', browser', requests')
<1>1. browser' = browser /\ requests' = requests
  BY DEF Messages!OpenEditor, Messages!EditMessage, Messages!AskToDelete, Messages!Shows
<1>2. IsMessages(page) /\ Calls(requests) BY DEF GoodMessages
<1>3. DOMAIN page' = DOMAIN page /\ page'.filter = page.filter
  BY <1>2 DEF Messages!OpenEditor, Messages!EditMessage, Messages!AskToDelete, Messages!Shows,
    IsMessages, MessagesFields
<1> QED BY <1>1, <1>2, <1>3, MessagesStill DEF IsMessages

LEMMA MessagesSave ==
  ASSUME GoodMessages(page, browser, requests), Messages!Save
  PROVE  GoodMessages(page', browser', requests')
<1>1. PICK n : n = Messages!State OBVIOUS
<1>2. n = Of(page, browser, requests) BY <1>1, MessagesState
<1>3. PICK s : s = [n EXCEPT !.page.editor.loading = TRUE] OBVIOUS
<1>4. PICK arg : Messages!Becomes(Messages!Send(s, "save", arg))
  BY <1>1, <1>3 DEF Messages!Save
<1>5. IsMessages(page) BY DEF GoodMessages
<1>6. /\ s = Of(s.page, browser, requests)
      /\ DOMAIN s.page = MessagesFields /\ s.page.filter = page.filter
  BY <1>2, <1>3, <1>5 DEF Of, IsMessages, MessagesFields
<1>7. PICK p : p = s.page OBVIOUS
<1>8. Messages!Becomes(Messages!Send(Of(p, browser, requests), "save", arg))
  BY <1>4, <1>6, <1>7
<1> QED BY <1>6, <1>7, <1>8, MessagesCommand

LEMMA MessagesConfirm ==
  ASSUME GoodMessages(page, browser, requests), NEW yes \in BOOLEAN,
         Messages!ConfirmDelete(yes)
  PROVE  GoodMessages(page', browser', requests')
<1>1. PICK n : n = Messages!State OBVIOUS
<1>2. n = Of(page, browser, requests) BY <1>1, MessagesState
<1>3. PICK s : s = [n EXCEPT !.page.removing = 0] OBVIOUS
<1>4. Messages!Becomes(IF yes THEN Messages!Send(s, "delete", page.removing) ELSE s)
  BY <1>1, <1>3 DEF Messages!ConfirmDelete
<1>5. IsMessages(page) /\ Calls(requests) BY DEF GoodMessages
<1>6. /\ s = Of(s.page, browser, requests)
      /\ DOMAIN s.page = MessagesFields /\ s.page.filter = page.filter
  BY <1>2, <1>3, <1>5 DEF Of, IsMessages, MessagesFields
<1>7. PICK p : p = s.page OBVIOUS
<1>8. CASE yes
  <2>1. Messages!Becomes(Messages!Send(Of(p, browser, requests), "delete", page.removing))
    BY <1>4, <1>6, <1>7, <1>8
  <2> QED BY <1>6, <1>7, <2>1, MessagesCommand
<1>9. CASE ~ yes
  <2>1. page' = s.page /\ browser' = browser /\ requests' = requests
    BY <1>4, <1>6, <1>7, <1>9 DEF Messages!Becomes, Of
  <2> QED BY <1>5, <1>6, <2>1, MessagesStill DEF IsMessages
<1> QED BY <1>8, <1>9

\* A save that is not heard of any more is no load.
LEMMA MessagesClose ==
  ASSUME GoodMessages(page, browser, requests), Messages!CloseEditor
  PROVE  GoodMessages(page', browser', requests')
<1>1. IsMessages(page) /\ Calls(requests) BY DEF GoodMessages
<1>2. browser' = browser /\ page' = [page EXCEPT !.editor = Messages!NoEditor]
  BY DEF Messages!CloseEditor
<1>3. IsMessages(page') /\ page'.filter = page.filter
  BY <1>1, <1>2 DEF IsMessages, MessagesFields
<1> DEFINE F(k) == IF requests[k].kind = "save" THEN [requests[k] EXCEPT !.kind = "unheard"]
                   ELSE requests[k]
<1>4. requests' = [k \in DOMAIN requests |-> F(k)] BY DEF Messages!CloseEditor
<1>5. \A k \in DOMAIN requests : /\ DOMAIN F(k) = CallFields
                                 /\ requests[k].kind # "save" => F(k).kind = requests[k].kind
  BY <1>1 DEF Calls, CallFields
<1> HIDE DEF F
<1>6. DOMAIN requests = 1 .. Len(requests) /\ Len(requests) \in Nat BY <1>1 DEF Calls, IsSeq
<1>7. requests' \in Seq({F(k) : k \in DOMAIN requests}) BY <1>4, <1>6
<1>8. DOMAIN requests' = DOMAIN requests /\ \A k \in DOMAIN requests : requests'[k] = F(k)
  BY <1>4
<1>9. Calls(requests') BY <1>5, <1>7, <1>8 DEF Calls, IsSeq
<1>10. Waits(requests, {"labs", "load"}) => Waits(requests', {"labs", "load"})
  BY <1>5, <1>8 DEF Waits
<1> QED BY <1>2, <1>3, <1>9, <1>10, MessagesStill

\* A list that is opened waits for the labs.
LEMMA MessagesOpen ==
  ASSUME NEW p, NEW b, DOMAIN b = {"criteria"}, NEW s, s = Messages!OpenList(Of(p, b, <<>>))
  PROVE  GoodMessages(s.page, s.browser, s.requests)
<1>1. PICK filter : filter = Messages!Criteria("",
          Messages!DefaultValue(b.criteria.category, MessagesPage.Categories,
                                MessagesPage.DefaultCategory),
          Messages!DefaultValue(b.criteria.type, MessagesPage.Types, MessagesPage.DefaultType))
  OBVIOUS
<1>2. PICK fresh : fresh = Messages!FreshList(filter) OBVIOUS
<1>3. s = Messages!Send([Of(p, b, <<>>) EXCEPT !.page = fresh], "labs", {})
  BY <1>1, <1>2 DEF Messages!OpenList, Of
<1>4. [Of(p, b, <<>>) EXCEPT !.page = fresh] = Of(fresh, b, <<>>) BY DEF Of
<1>5. PICK arg, q : arg = {} /\ q = <<>> OBVIOUS
<1>6. s = Messages!Send(Of(fresh, b, q), "labs", arg) BY <1>3, <1>4, <1>5
<1>7. PICK r : r = Messages!Request("labs", arg) /\ s = Of(fresh, b, Append(q, r))
  BY <1>6, MessagesSend
<1>8. DOMAIN r = CallFields /\ r.kind = "labs" BY <1>7, MessagesFresh
<1>9. Calls(Append(q, r)) /\ Waits(Append(q, r), {"labs"})
  BY <1>5, <1>8, NoCalls, Appended DEF Keeps
<1>10. IsMessages(fresh)
  BY <1>1, <1>2 DEF Messages!FreshList, Messages!Criteria, IsMessages, MessagesFields
<1>11. s.page = fresh /\ s.browser = b /\ s.requests = Append(q, r) BY <1>7 DEF Of
<1> QED BY <1>9, <1>10, <1>11 DEF GoodMessages, Waits

LEMMA MessagesInit == ASSUME Messages!Init PROVE GoodMessages(page, browser, requests)
<1>1. PICK criteria, s :
        /\ s = Messages!OpenList([page |-> Messages!FreshList(Messages!NoCriteria),
                                  requests |-> <<>>, browser |-> [criteria |-> criteria]])
        /\ page = s.page /\ browser = s.browser /\ requests = s.requests
  BY DEF Messages!Init
<1>2. PICK p : p = Messages!FreshList(Messages!NoCriteria) OBVIOUS
<1>3. PICK b : b = [criteria |-> criteria] OBVIOUS
<1>4. [page |-> p, requests |-> <<>>, browser |-> b] = Of(p, b, <<>>) BY DEF Of
<1>5. s = Messages!OpenList(Of(p, b, <<>>)) BY <1>1, <1>2, <1>3, <1>4
<1>6. page = s.page /\ browser = s.browser /\ requests = s.requests
  BY <1>1, <1>2, <1>3, <1>4, <1>5
<1> QED BY <1>3, <1>5, <1>6, MessagesOpen

LEMMA MessagesReopen ==
  ASSUME GoodMessages(page, browser, requests), Messages!Reopen
  PROVE  GoodMessages(page', browser', requests')
<1>1. DOMAIN browser = {"criteria"} BY DEF GoodMessages
<1>2. PICK left : /\ Messages!Becomes(Messages!OpenList([left EXCEPT !.requests = <<>>]))
                  /\ \/ left = Messages!UpdateLocalStorage(Messages!State)
                     \/ left = Messages!State
  BY DEF Messages!Reopen
<1>3. PICK p, b, q : left = Of(p, b, q) /\ DOMAIN b = {"criteria"}
  <2>1. CASE left = Messages!State BY <1>1, <2>1, MessagesState
  <2>2. CASE left = Messages!UpdateLocalStorage(Messages!State)
    <3>1. left = Messages!UpdateLocalStorage(Of(page, browser, requests))
      BY <2>2, MessagesState
    <3>2. left = Of(page, left.browser, requests) /\ DOMAIN left.browser = {"criteria"}
      BY <1>1, <3>1 DEF Messages!UpdateLocalStorage, Of
    <3> QED BY <3>2
  <2> QED BY <1>2, <2>1, <2>2
<1>4. [left EXCEPT !.requests = <<>>] = Of(p, b, <<>>) BY <1>3 DEF Of
<1>5. PICK s : s = Messages!OpenList(Of(p, b, <<>>)) OBVIOUS
<1>6. page' = s.page /\ browser' = s.browser /\ requests' = s.requests
  BY <1>2, <1>4, <1>5 DEF Messages!Becomes
<1> QED BY <1>3, <1>5, <1>6, MessagesOpen

LEMMA MessagesService ==
  ASSUME GoodMessages(page, browser, requests), NEW i \in DOMAIN requests,
         Messages!Serve(i) \/ Messages!Fail(i)
  PROVE  GoodMessages(page', browser', requests')
<1>1. page' = page /\ browser' = browser BY DEF Messages!Serve, Messages!Fail
<1>2. Calls(requests) /\ IsMessages(page) BY DEF GoodMessages
<1>3. ASSUME SameKinds(requests, requests') PROVE GoodMessages(page', browser', requests')
  BY <1>1, <1>2, <1>3, WaitsStill, MessagesStill DEF SameKinds
<1>4. CASE Messages!Fail(i)
  BY <1>2, <1>3, <1>4, Answered DEF Messages!Fail
<1>5. ASSUME NEW answer, Messages!Answer(i, answer)
      PROVE  GoodMessages(page', browser', requests')
  BY <1>2, <1>3, <1>5, Answered DEF Messages!Answer
<1>6. CASE requests[i].kind = "unheard" /\ requests' = Messages!RemoveAt(requests, i)
  <2>1. requests' = RemoveAt(requests, i) BY <1>6 DEF Messages!RemoveAt, RemoveAt
  <2>2. PICK q : q = RemoveAt(requests, i) OBVIOUS
  <2>3. Calls(q) /\ \A kinds : Waits(requests, kinds) /\ requests[i].kind \notin kinds => Waits(q, kinds)
    BY <1>2, <2>2, HeardKeeps
  <2> QED BY <1>1, <1>2, <1>6, <2>1, <2>2, <2>3, MessagesStill
<1>7. CASE Messages!Serve(i)
  <2>1. \/ \E answer : Messages!Answer(i, answer)
        \/ requests[i].kind = "unheard" /\ requests' = Messages!RemoveAt(requests, i)
    BY <1>7 DEF Messages!Serve
  <2> QED BY <1>5, <1>6, <2>1
<1> QED BY <1>4, <1>7

LEMMA MessagesNext ==
  ASSUME GoodMessages(page, browser, requests), [Messages!Next]_vars
  PROVE  GoodMessages(page', browser', requests')
<1>1. CASE UNCHANGED vars BY <1>1 DEF vars
<1>2. CASE \E i \in DOMAIN requests : Messages!LabsArrive(i) BY <1>2, MessagesLabs
<1>3. CASE \E i \in DOMAIN requests : Messages!MessagesArrive(i) BY <1>3, MessagesRows
<1>4. CASE \E l, c, y : Messages!SelectFilter(Messages!Criteria(l, c, y))
  BY <1>4, MessagesSelect
<1>5. CASE \/ Messages!OpenEditor
           \/ \E x, f : Messages!EditMessage(x, f)
           \/ \E id : Messages!AskToDelete(id)
  BY <1>5, MessagesEditor
<1>6. CASE Messages!Save BY <1>6, MessagesSave
<1>7. CASE Messages!CloseEditor BY <1>7, MessagesClose
<1>8. CASE \E i \in DOMAIN requests : Messages!Saved(i) \/ Messages!Deleted(i)
  BY <1>8, MessagesSaved
<1>9. CASE \E b \in BOOLEAN : Messages!ConfirmDelete(b) BY <1>9, MessagesConfirm
<1>10. CASE Messages!Reopen BY <1>10, MessagesReopen
<1>11. CASE \E i \in DOMAIN requests : Messages!Serve(i) \/ Messages!Fail(i)
  BY <1>11, MessagesService
<1> QED
  BY <1>1, <1>2, <1>3, <1>4, <1>5, <1>6, <1>7, <1>8, <1>9, <1>10, <1>11 DEF Messages!Next

-----------------------------------------------------------------------------
(* The recovery page.                                                      *)

RecoveryFields ==
  {"params", "focusedHostName", "hostInfos", "hostsLoading", "selection", "devices", "dialog"}
DeviceListFields == {"hostName", "table", "isLoading", "stale", "notes"}

\* The list of devices, if there is one, is that of the host.
ListsDevicesOf(devices, host) ==
  /\ devices.hostName = host
  /\ \/ devices = HostsToRecover!NoList
     \/ /\ DOMAIN devices = DeviceListFields
        /\ devices.isLoading \in BOOLEAN /\ devices.stale \in BOOLEAN
        /\ "rows" \in DOMAIN devices.table /\ IsSeq(devices.table.rows)
        /\ ~ devices.isLoading /\ ~ devices.stale
             => Range(devices.table.rows) \subseteq HostsToRecover!DevicesOf(host)

\* The load of devices that is under way is one of the list and, unless that is stale,
\* for its host.
FitsList(devices, c) ==
  c.kind = "devices" =>
    /\ DOMAIN devices = DeviceListFields /\ devices.isLoading
    /\ ~ devices.stale => c.arg = devices.hostName
    /\ c.status = "ok" => c.answer \subseteq HostsToRecover!DevicesOf(c.arg)

LoadsOnce(q) ==
  \A i, j \in DOMAIN q : q[i].kind = "devices" /\ q[j].kind = "devices" => i = j

NoLoad(q) == \A i \in DOMAIN q : q[i].kind # "devices"

GoodRecovery(p, q) ==
  /\ DOMAIN p = RecoveryFields
  /\ p.selection = {} \/ p.focusedHostName = HostsToRecover!NoHost
  /\ ListsDevicesOf(p.devices, p.focusedHostName)
  /\ Calls(q) /\ LoadsOnce(q) /\ \A i \in DOMAIN q : FitsList(p.devices, q[i])

\* A handler, or a part of one, that leaves the page good.
Recovers(s) == IsOf(s) /\ GoodRecovery(s.page, s.requests)

LEMMA RecoveryConstants ==
  /\ IsFiniteSet(RecoveryPage.Devices) /\ RecoveryPage.Devices \subseteq Nat
  /\ \A S : HostsToRecover!Ascending(S) = Ascending(S)
  /\ \A s : HostsToRecover!Range(s) = Range(s)
  /\ \A s, places : HostsToRecover!Kept(s, places) = Kept(s, places)
  /\ \A q, i : HostsToRecover!RemoveAt(q, i) = RemoveAt(q, i)
<1>1. HostsToRecover!RecoveryAssumption BY LabPagesAssumption
<1>2. HostsToRecover!IsFiniteSet(RecoveryPage.Devices) <=> IsFiniteSet(RecoveryPage.Devices)
  BY DEF HostsToRecover!IsFiniteSet, IsFiniteSet
<1>3. \A S : HostsToRecover!Ascending(S) = Ascending(S)
  BY DEF HostsToRecover!Ascending, Ascending, HostsToRecover!Cardinality, Cardinality,
         HostsToRecover!IsFiniteSet, IsFiniteSet
<1> QED
  BY <1>1, <1>2, <1>3
  DEF HostsToRecover!RecoveryAssumption, HostsToRecover!Range, Range, HostsToRecover!Kept,
      Kept, HostsToRecover!RemoveAt, RemoveAt

\* Devices of a host, in the order of their numbers.
LEMMA ListedDevices ==
  ASSUME NEW host, NEW S, S \subseteq HostsToRecover!DevicesOf(host),
         NEW rows, rows = HostsToRecover!Ascending(S)
  PROVE  IsSeq(rows) /\ Range(rows) = S
<1>1. HostsToRecover!DevicesOf(host) \subseteq RecoveryPage.Devices
  BY DEF HostsToRecover!DevicesOf
<1>2. S \in SUBSET Nat /\ IsFiniteSet(S) BY <1>1, RecoveryConstants, FS_Subset
<1> QED BY <1>2, RecoveryConstants, AscendingRange

LEMMA RecoveryBecomes ==
  ASSUME NEW t, HostsToRecover!Becomes(t), Recovers(t) PROVE GoodRecovery(page', requests')
BY DEF Recovers, HostsToRecover!Becomes

\* What does not touch the list of devices.
SameDeviceList(s, t) ==
  /\ IsOf(t) /\ t.requests = s.requests /\ DOMAIN t.page = RecoveryFields
  /\ t.page.devices = s.page.devices /\ t.page.focusedHostName = s.page.focusedHostName
  /\ t.page.selection \in {s.page.selection, {}}

LEMMA RecoverySame ==
  ASSUME NEW s, Recovers(s), NEW t, SameDeviceList(s, t) PROVE Recovers(t)
BY DEF SameDeviceList, Recovers, GoodRecovery

\* A call that is no load of devices.
LEMMA RecoverySend ==
  ASSUME NEW s, Recovers(s), NEW kind, kind # "devices", NEW arg,
         NEW t, t = HostsToRecover!Send(s, kind, arg)
  PROVE  Recovers(t)
<1>1. PICK r : r = HostsToRecover!Request(kind, arg) OBVIOUS
<1>2. DOMAIN r = CallFields /\ r.kind = kind
  BY <1>1 DEF HostsToRecover!Request, CallFields
<1>3. PICK new : new = Append(s.requests, r) OBVIOUS
<1>4. IsOf(t) /\ t.page = s.page /\ t.requests = new
  BY <1>1, <1>3 DEF HostsToRecover!Send, Recovers, IsOf
<1>5. /\ IsSeq(new) /\ DOMAIN new = DOMAIN s.requests \cup {Len(s.requests) + 1}
      /\ \A i \in DOMAIN s.requests : new[i] = s.requests[i]
      /\ new[Len(s.requests) + 1] = r
  BY <1>3, AppendCall DEF Recovers, GoodRecovery, Calls
<1>6. Calls(new) BY <1>2, <1>5 DEF Recovers, GoodRecovery, Calls
<1>7. LoadsOnce(new) BY <1>2, <1>5 DEF Recovers, GoodRecovery, LoadsOnce
<1>8. \A i \in DOMAIN new : FitsList(s.page.devices, new[i])
  BY <1>2, <1>5 DEF Recovers, GoodRecovery, FitsList
<1> QED BY <1>4, <1>6, <1>7, <1>8 DEF Recovers, GoodRecovery

LEMMA RecoveryState ==
  ASSUME GoodRecovery(page, requests), NEW s, s = HostsToRecover!State
  PROVE  Recovers(s) /\ s.page = page
BY DEF HostsToRecover!State, Recovers, IsOf

\* With the load of devices none is left.
LEMMA RecoveryHeard ==
  ASSUME GoodRecovery(page, requests), NEW i \in DOMAIN requests,
         NEW s, s = HostsToRecover!Heard(i)
  PROVE  /\ Recovers(s) /\ s.page = page
         /\ requests[i].kind = "devices" => NoLoad(s.requests)
<1>1. PICK left : left = RemoveAt(requests, i) OBVIOUS
<1>2. IsOf(s) /\ s.page = page /\ s.requests = left
  BY <1>1, RecoveryConstants DEF HostsToRecover!Heard, HostsToRecover!State, IsOf
<1>3. /\ IsSeq(left) /\ DOMAIN requests = 1 .. Len(requests) /\ Len(requests) \in Nat
      /\ DOMAIN left = 1 .. Len(requests) - 1
      /\ \A k \in 1 .. Len(requests) - 1 :
           left[k] = IF k < i THEN requests[k] ELSE requests[k + 1]
  BY <1>1, RemovedPlaces DEF GoodRecovery, Calls
<1>4. PICK f : f = [k \in DOMAIN left |-> IF k < i THEN k ELSE k + 1] OBVIOUS
<1>5. ASSUME NEW k \in DOMAIN left
      PROVE  f[k] \in DOMAIN requests /\ f[k] # i /\ left[k] = requests[f[k]]
  BY <1>3, <1>4, <1>5
<1>6. \A j, k \in DOMAIN left : f[j] = f[k] => j = k BY <1>3, <1>4
<1>7. Calls(left) BY <1>3, <1>5 DEF GoodRecovery, Calls
<1>8. LoadsOnce(left)
  <2> SUFFICES ASSUME NEW j \in DOMAIN left, NEW k \in DOMAIN left,
                      left[j].kind = "devices", left[k].kind = "devices"
               PROVE  j = k
    BY DEF LoadsOnce
  <2>1. f[j] = f[k] BY <1>5 DEF GoodRecovery, LoadsOnce
  <2> QED BY <1>6, <2>1
<1>9. \A k \in DOMAIN left : FitsList(page.devices, left[k]) BY <1>5 DEF GoodRecovery
<1>10. ASSUME requests[i].kind = "devices" PROVE NoLoad(left)
  BY <1>5, <1>10 DEF GoodRecovery, LoadsOnce, NoLoad
<1> QED BY <1>2, <1>7, <1>8, <1>9, <1>10 DEF Recovers, GoodRecovery

LEMMA RecoveryLoadHosts ==
  ASSUME NEW s, Recovers(s), NEW t, t = HostsToRecover!LoadHosts(s)
  PROVE  Recovers(t)
<1>1. PICK u : u = [s EXCEPT !.page.hostsLoading = TRUE] OBVIOUS
<1>2. SameDeviceList(s, u)
  BY <1>1 DEF SameDeviceList, Recovers, IsOf, GoodRecovery, RecoveryFields
<1>3. Recovers(u) BY <1>2, RecoverySame
<1>4. t = s \/ \E arg : t = HostsToRecover!Send(u, "hosts", arg)
  BY <1>1 DEF HostsToRecover!LoadHosts
<1> QED BY <1>3, <1>4, RecoverySend

\* A list whose devices are not those of its host loads them, if no load is under way.
LEMMA RecoveryLoadDevices ==
  ASSUME NEW s, IsOf(s), DOMAIN s.page = RecoveryFields,
         s.page.selection = {} \/ s.page.focusedHostName = HostsToRecover!NoHost,
         NEW devices, s.page.devices = devices, DOMAIN devices = DeviceListFields,
         devices.hostName = s.page.focusedHostName,
         devices.isLoading \in BOOLEAN, devices.stale \in BOOLEAN,
         "rows" \in DOMAIN devices.table, IsSeq(devices.table.rows),
         Calls(s.requests), devices.isLoading \/ NoLoad(s.requests),
         devices.isLoading => Recovers(s),
         NEW t, t = HostsToRecover!LoadDevices(s)
  PROVE  Recovers(t)
<1>1. CASE devices.isLoading
  <2>1. t = s BY <1>1 DEF HostsToRecover!LoadDevices
  <2> QED BY <1>1, <2>1
<1>2. CASE ~ devices.isLoading
  <2>1. PICK list : list = [devices EXCEPT !.isLoading = TRUE, !.stale = FALSE] OBVIOUS
  <2>2. PICK u : u = [s EXCEPT !.page.devices = list] OBVIOUS
  <2>3. PICK r : r = HostsToRecover!Request("devices", devices.hostName) OBVIOUS
  <2>4. PICK new : new = Append(s.requests, r) OBVIOUS
  <2>5. [s EXCEPT !.page.devices.isLoading = TRUE, !.page.devices.stale = FALSE] = u
    BY <2>1, <2>2 DEF IsOf, RecoveryFields, DeviceListFields
  <2>6. t = [u EXCEPT !.requests = new]
    <3>1. u.requests = s.requests BY <2>2 DEF IsOf
    <3>2. t = HostsToRecover!Send(u, "devices", devices.hostName)
      BY <1>2, <2>5 DEF HostsToRecover!LoadDevices
    <3> QED BY <2>3, <2>4, <3>1, <3>2 DEF HostsToRecover!Send
  <2>7. /\ IsOf(t) /\ t.requests = new /\ DOMAIN t.page = RecoveryFields
        /\ t.page.devices = list /\ t.page.selection = s.page.selection
        /\ t.page.focusedHostName = s.page.focusedHostName
    BY <2>2, <2>6 DEF IsOf, RecoveryFields
  <2>8. /\ DOMAIN r = CallFields /\ r.kind = "devices" /\ r.arg = devices.hostName
        /\ r.status = "sent"
    BY <2>3 DEF HostsToRecover!Request, CallFields
  <2>9. /\ IsSeq(new) /\ DOMAIN new = DOMAIN s.requests \cup {Len(s.requests) + 1}
        /\ \A i \in DOMAIN s.requests : new[i] = s.requests[i]
        /\ new[Len(s.requests) + 1] = r
    BY <2>4, AppendCall DEF Calls
  <2>10. /\ DOMAIN list = DeviceListFields /\ list.hostName = devices.hostName
         /\ list.isLoading = TRUE /\ list.stale = FALSE /\ list.table = devices.table
    BY <2>1 DEF DeviceListFields
  <2>11. NoLoad(s.requests) BY <1>2
  <2>12. Calls(new) BY <2>8, <2>9 DEF Calls
  <2>13. LoadsOnce(new) BY <2>9, <2>11 DEF LoadsOnce, NoLoad
  <2>14. \A i \in DOMAIN new : FitsList(list, new[i])
    BY <2>8, <2>9, <2>10, <2>11 DEF FitsList, NoLoad
  <2>15. ListsDevicesOf(list, s.page.focusedHostName) BY <2>10 DEF ListsDevicesOf
  <2> QED BY <2>7, <2>12, <2>13, <2>14, <2>15 DEF Recovers, GoodRecovery
<1> QED BY <1>1, <1>2

\* The requests that are left when no host is focused any more.
LEMMA RecoveryLeft ==
  ASSUME NEW q, Calls(q), NEW places, places = {i \in DOMAIN q :
           q[i].kind \notin {"devices", "latestNotes"}},
         NEW kept, kept = HostsToRecover!Kept(q, places),
         NEW r, r = [k \in DOMAIN kept |->
                       IF kept[k].kind = "removeDevice"
                       THEN [kept[k] EXCEPT !.kind = "unheard"] ELSE kept[k]]
  PROVE  Calls(r) /\ NoLoad(r)
<1>1. places \in SUBSET DOMAIN q OBVIOUS
<1>2. kept = Kept(q, places) BY RecoveryConstants
<1>3. /\ IsSeq(kept)
      /\ \A k \in DOMAIN kept : \E i \in places : kept[k] = q[i]
  <2>1. IsSeq(q) BY DEF Calls
  <2>2. ASSUME NEW some \in SUBSET DOMAIN q
        PROVE  /\ IsSeq(Kept(q, some))
               /\ \A k \in DOMAIN Kept(q, some) : \E i \in some : Kept(q, some)[k] = q[i]
    BY <2>1, KeptFacts
  <2>3. /\ IsSeq(Kept(q, places))
        /\ \A k \in DOMAIN Kept(q, places) : \E i \in places : Kept(q, places)[k] = q[i]
    BY <1>1, <2>2
  <2> QED BY <1>2, <2>3
<1>4. \A k \in DOMAIN kept : DOMAIN kept[k] = CallFields /\ kept[k].kind # "devices"
  BY <1>3 DEF Calls
<1>5. DOMAIN r = DOMAIN kept OBVIOUS
<1>6. ASSUME NEW k \in DOMAIN kept
      PROVE  DOMAIN r[k] = CallFields /\ r[k].kind # "devices"
  <2>1. PICK c : c = kept[k] OBVIOUS
  <2>2. DOMAIN c = CallFields /\ c.kind # "devices" BY <1>4, <2>1
  <2>3. r[k] = c \/ r[k] = [c EXCEPT !.kind = "unheard"] BY <2>1
  <2> QED BY <2>2, <2>3 DEF CallFields
<1>7. IsSeq(r)
  <2>1. PICK S : kept \in Seq(S) BY <1>3 DEF IsSeq
  <2>2. DOMAIN kept = 1 .. Len(kept) /\ Len(kept) \in Nat BY <2>1
  <2>3. PICK T : T = {r[k] : k \in DOMAIN r} OBVIOUS
  <2>4. r \in [1 .. Len(kept) -> T] BY <1>5, <2>2, <2>3
  <2>5. ASSUME NEW n \in Nat, NEW g \in [1 .. n -> T] PROVE g \in Seq(T)
    OBVIOUS
  <2>6. r \in Seq(T) BY <2>2, <2>4, <2>5
  <2> QED BY <2>6 DEF IsSeq
<1> QED BY <1>5, <1>6, <1>7 DEF Calls, NoLoad

\* No host is focused: the list goes with what it waits for.
LEMMA RecoveryUnfocus ==
  ASSUME NEW u, IsOf(u), DOMAIN u.page = RecoveryFields, Calls(u.requests),
         u.page.focusedHostName = HostsToRecover!NoHost,
         NEW t, t = HostsToRecover!FocusDevices(u, HostsToRecover!NoHost)
  PROVE  Recovers(t)
<1>1. PICK q : q = u.requests OBVIOUS
<1>2. PICK places : places = {i \in DOMAIN q : q[i].kind \notin {"devices", "latestNotes"}}
  OBVIOUS
<1>3. PICK kept : kept = HostsToRecover!Kept(q, places) OBVIOUS
<1>4. PICK r : r = [k \in DOMAIN kept |->
                      IF kept[k].kind = "removeDevice"
                      THEN [kept[k] EXCEPT !.kind = "unheard"] ELSE kept[k]]
  OBVIOUS
<1>5. PICK none : none = HostsToRecover!NoList OBVIOUS
<1>6. t = [u EXCEPT !.page.devices = none, !.requests = r]
  BY <1>1, <1>2, <1>3, <1>4, <1>5 DEF HostsToRecover!FocusDevices
<1>7. Calls(r) /\ NoLoad(r) BY <1>1, <1>2, <1>3, <1>4, RecoveryLeft
<1>8. DOMAIN none = {"hostName"} /\ none.hostName = HostsToRecover!NoHost
  BY <1>5 DEF HostsToRecover!NoList
<1>9. /\ IsOf(t) /\ DOMAIN t.page = RecoveryFields /\ t.page.devices = none
      /\ t.page.focusedHostName = HostsToRecover!NoHost /\ t.requests = r
  BY <1>6 DEF IsOf, RecoveryFields
<1>10. LoadsOnce(r) /\ \A i \in DOMAIN r : FitsList(none, r[i])
  BY <1>7 DEF LoadsOnce, NoLoad, FitsList
<1>11. ListsDevicesOf(none, HostsToRecover!NoHost) BY <1>5, <1>8 DEF ListsDevicesOf
<1> QED BY <1>7, <1>9, <1>10, <1>11 DEF Recovers, GoodRecovery

\* A host is focused: its list is created, or the one there is changes its host.
LEMMA RecoveryFocus ==
  ASSUME NEW s, Recovers(s), NEW host, host = HostsToRecover!NoHost \/ s.page.selection = {},
         NEW t, t = HostsToRecover!SetFocus(s, host)
  PROVE  Recovers(t)
<1>1. PICK u : u = [s EXCEPT !.page.focusedHostName = host] OBVIOUS
<1>2. PICK old : old = s.page.devices OBVIOUS
<1>3. /\ IsOf(u) /\ DOMAIN u.page = RecoveryFields /\ u.page.focusedHostName = host
      /\ u.page.devices = old /\ u.page.selection = s.page.selection
      /\ u.requests = s.requests /\ Calls(s.requests)
  BY <1>1, <1>2 DEF Recovers, IsOf, GoodRecovery, RecoveryFields
<1>4. CASE host = s.page.focusedHostName
  <2>1. t = u BY <1>1, <1>4 DEF HostsToRecover!SetFocus
  <2>2. SameDeviceList(s, u) BY <1>2, <1>3, <1>4 DEF SameDeviceList
  <2> QED BY <2>1, <2>2, RecoverySame
<1>5. CASE host # s.page.focusedHostName /\ host = HostsToRecover!NoHost
  <2>1. t = HostsToRecover!FocusDevices(u, HostsToRecover!NoHost)
    BY <1>1, <1>5 DEF HostsToRecover!SetFocus
  <2> QED BY <1>3, <1>5, <2>1, RecoveryUnfocus
<1>6. CASE host # s.page.focusedHostName /\ host # HostsToRecover!NoHost
  <2>1. t = HostsToRecover!FocusDevices(u, host)
    BY <1>1, <1>6 DEF HostsToRecover!SetFocus
  <2>2. PICK none : none = HostsToRecover!NoList OBVIOUS
  <2>3. DOMAIN none = {"hostName"} BY <2>2 DEF HostsToRecover!NoList
  <2>4. /\ old.hostName = s.page.focusedHostName
        /\ \/ old = none
           \/ /\ DOMAIN old = DeviceListFields
              /\ old.isLoading \in BOOLEAN /\ old.stale \in BOOLEAN
              /\ "rows" \in DOMAIN old.table /\ IsSeq(old.table.rows)
        /\ \A i \in DOMAIN s.requests : FitsList(old, s.requests[i])
        /\ LoadsOnce(s.requests)
    BY <1>2, <2>2 DEF Recovers, GoodRecovery, ListsDevicesOf
  <2>5. CASE old = none
    <3>1. PICK table : table = HostsToRecover!EmptyTable OBVIOUS
    <3>2. PICK notes : notes = [d \in RecoveryPage.Devices |-> HostsToRecover!NoNote]
      OBVIOUS
    <3>3. PICK devices :
            devices = [hostName |-> host, table |-> table, isLoading |-> FALSE,
                       stale |-> FALSE, notes |-> notes]
      OBVIOUS
    <3>4. PICK v : v = [u EXCEPT !.page.devices = devices] OBVIOUS
    <3>5. t = HostsToRecover!LoadDevices(v)
      BY <1>3, <1>6, <2>1, <2>2, <2>5, <3>1, <3>2, <3>3, <3>4
      DEF HostsToRecover!FocusDevices
    <3>6. "rows" \in DOMAIN table /\ IsSeq(table.rows)
      <4>1. "rows" \in DOMAIN table /\ table.rows = <<>>
        BY <3>1 DEF HostsToRecover!EmptyTable
      <4> QED BY <4>1, NoCalls DEF Calls
    <3>7. /\ IsOf(v) /\ DOMAIN v.page = RecoveryFields /\ v.requests = s.requests
          /\ v.page.devices = devices /\ v.page.focusedHostName = host
          /\ v.page.selection = s.page.selection
      BY <1>3, <3>4 DEF IsOf, RecoveryFields
    <3>8. NoLoad(s.requests)
      <4>1. DOMAIN old # DeviceListFields BY <2>3, <2>5 DEF DeviceListFields
      <4> QED BY <2>4, <4>1 DEF FitsList, NoLoad
    <3>9. /\ DOMAIN devices = DeviceListFields /\ devices.hostName = host
          /\ devices.table = table /\ devices.isLoading = FALSE /\ devices.stale = FALSE
      BY <3>3 DEF DeviceListFields
    <3> QED BY <1>3, <1>6, <3>5, <3>6, <3>7, <3>8, <3>9, RecoveryLoadDevices
  <2>6. CASE old # none
    <3>1. PICK table : table = HostsToRecover!ResetPrevClickedRowIndex(
                                 HostsToRecover!ClearSelection(old.table))
      OBVIOUS
    <3>2. PICK devices :
            devices = [old EXCEPT !.hostName = host, !.stale = old.isLoading, !.table = table]
      OBVIOUS
    <3>3. PICK v : v = [u EXCEPT !.page.devices = devices] OBVIOUS
    <3>4. [u EXCEPT !.page.devices.hostName = host, !.page.devices.stale = old.isLoading,
                    !.page.devices.table = table] = v
      <4>1. PICK renamed : renamed = [old EXCEPT !.hostName = host] OBVIOUS
      <4>2. PICK marked : marked = [renamed EXCEPT !.stale = old.isLoading] OBVIOUS
      <4>3. devices = [marked EXCEPT !.table = table] BY <3>2, <4>1, <4>2
      <4>4. PICK w : w = [u EXCEPT !.page.devices = renamed] OBVIOUS
      <4>5. w = [u EXCEPT !.page.devices.hostName = host]
        BY <1>3, <4>1, <4>4 DEF IsOf, RecoveryFields
      <4>6. PICK x : x = [u EXCEPT !.page.devices = marked] OBVIOUS
      <4>7. x = [w EXCEPT !.page.devices.stale = old.isLoading]
        BY <1>3, <4>2, <4>4, <4>6 DEF IsOf, RecoveryFields
      <4>8. v = [x EXCEPT !.page.devices.table = table]
        BY <1>3, <3>3, <4>3, <4>6 DEF IsOf, RecoveryFields
      <4> QED BY ONLY <4>5, <4>7, <4>8
    <3>5. t = HostsToRecover!LoadDevices(
                [u EXCEPT !.page.devices.hostName = host,
                          !.page.devices.stale = old.isLoading,
                          !.page.devices.table = table])
      BY <1>3, <1>6, <2>1, <2>2, <2>6, <3>1 DEF HostsToRecover!FocusDevices
    <3>6. "rows" \in DOMAIN table /\ table.rows = old.table.rows
      BY <2>4, <2>6, <3>1
      DEF HostsToRecover!ResetPrevClickedRowIndex, HostsToRecover!ClearSelection,
          HostsToRecover!Selects
    <3>7. /\ DOMAIN devices = DeviceListFields /\ devices.hostName = host
          /\ devices.table = table /\ devices.isLoading = old.isLoading
          /\ devices.stale = old.isLoading
      BY <2>4, <2>6, <3>2 DEF DeviceListFields
    <3>8. /\ IsOf(v) /\ DOMAIN v.page = RecoveryFields /\ v.requests = s.requests
          /\ v.page.devices = devices /\ v.page.focusedHostName = host
          /\ v.page.selection = s.page.selection
      BY <1>3, <3>3 DEF IsOf, RecoveryFields
    <3>9. old.isLoading \/ NoLoad(s.requests) BY <2>4 DEF FitsList, NoLoad
    <3>10. ASSUME old.isLoading PROVE Recovers(v)
      <4>1. old.isLoading = TRUE BY <2>4, <2>6, <3>10
      <4>2. ListsDevicesOf(devices, host)
        BY <2>4, <2>6, <3>6, <3>7, <4>1 DEF ListsDevicesOf
      <4>3. \A i \in DOMAIN s.requests : FitsList(devices, s.requests[i])
        BY <2>4, <3>7, <4>1 DEF FitsList
      <4> QED BY <1>3, <1>6, <2>4, <3>8, <4>2, <4>3 DEF Recovers, GoodRecovery
    <3> QED
      BY <1>3, <1>6, <2>4, <2>6, <3>4, <3>5, <3>6, <3>7, <3>8, <3>9, <3>10,
         RecoveryLoadDevices
  <2> QED BY <2>5, <2>6
<1> QED BY <1>4, <1>5, <1>6

\* What is selected takes the place of what is focused.
LEMMA RecoverySelected ==
  ASSUME GoodRecovery(page, requests), NEW selection, HostsToRecover!Selected(selection)
  PROVE  GoodRecovery(page', requests')
<1>1. PICK n : n = HostsToRecover!State OBVIOUS
<1>2. Recovers(n) BY <1>1, RecoveryState
<1>3. PICK s : s = [n EXCEPT !.page.selection = selection] OBVIOUS
<1>4. /\ IsOf(s) /\ DOMAIN s.page = RecoveryFields /\ s.requests = n.requests
      /\ s.page.devices = n.page.devices /\ s.page.selection = selection
      /\ s.page.focusedHostName = n.page.focusedHostName
  BY <1>2, <1>3 DEF Recovers, IsOf, GoodRecovery, RecoveryFields
<1>5. PICK t : t = HostsToRecover!SetFocus(s, HostsToRecover!NoHost) OBVIOUS
<1>6. HostsToRecover!Becomes(IF selection = {} THEN s ELSE t)
  BY <1>1, <1>3, <1>5 DEF HostsToRecover!Selected
<1>7. CASE selection = {} \/ n.page.focusedHostName = HostsToRecover!NoHost
  <2>1. Recovers(s) BY <1>2, <1>4, <1>7 DEF Recovers, GoodRecovery
  <2>2. Recovers(t) BY <1>5, <2>1, RecoveryFocus
  <2> QED BY <1>6, <2>1, <2>2, RecoveryBecomes
<1>8. CASE selection # {} /\ n.page.focusedHostName # HostsToRecover!NoHost
  <2>1. PICK u : u = [s EXCEPT !.page.focusedHostName = HostsToRecover!NoHost] OBVIOUS
  <2>2. t = HostsToRecover!FocusDevices(u, HostsToRecover!NoHost)
    BY <1>4, <1>5, <1>8, <2>1 DEF HostsToRecover!SetFocus
  <2>3. /\ IsOf(u) /\ DOMAIN u.page = RecoveryFields /\ u.requests = n.requests
        /\ u.page.focusedHostName = HostsToRecover!NoHost
    BY <1>4, <2>1 DEF IsOf, RecoveryFields
  <2>4. Calls(n.requests) BY <1>2 DEF Recovers, GoodRecovery
  <2>5. Recovers(t) BY <2>2, <2>3, <2>4, RecoveryUnfocus
  <2> QED BY <1>6, <1>8, <2>5, RecoveryBecomes
<1> QED BY <1>7, <1>8

LEMMA RecoveryFocusHost ==
  ASSUME GoodRecovery(page, requests), NEW host, HostsToRecover!FocusHost(host)
  PROVE  GoodRecovery(page', requests')
<1>1. PICK n : n = HostsToRecover!State OBVIOUS
<1>2. PICK s : s = [n EXCEPT !.page.selection = {}] OBVIOUS
<1>3. Recovers(n) BY <1>1, RecoveryState
<1>4. SameDeviceList(n, s) /\ s.page.selection = {}
  BY <1>2, <1>3 DEF SameDeviceList, Recovers, IsOf, GoodRecovery, RecoveryFields
<1>5. Recovers(s) BY <1>3, <1>4, RecoverySame
<1>6. PICK t : t = HostsToRecover!SetFocus(s, host) OBVIOUS
<1>7. HostsToRecover!Becomes(t) BY <1>1, <1>2, <1>6 DEF HostsToRecover!FocusHost
<1> QED BY <1>4, <1>5, <1>6, <1>7, RecoveryFocus, RecoveryBecomes

LEMMA RecoveryLoads ==
  ASSUME GoodRecovery(page, requests),
         \/ HostsToRecover!UnfocusHost
         \/ HostsToRecover!ReloadHosts
         \/ HostsToRecover!ReloadDevices
  PROVE  GoodRecovery(page', requests')
<1>1. PICK n : n = HostsToRecover!State OBVIOUS
<1>2. Recovers(n) /\ n.page = page BY <1>1, RecoveryState
<1>3. CASE HostsToRecover!UnfocusHost
  <2>1. PICK t : t = HostsToRecover!SetFocus(n, HostsToRecover!NoHost) OBVIOUS
  <2>2. HostsToRecover!Becomes(t) BY <1>1, <1>3, <2>1 DEF HostsToRecover!UnfocusHost
  <2> QED BY <1>2, <2>1, <2>2, RecoveryFocus, RecoveryBecomes
<1>4. CASE HostsToRecover!ReloadHosts
  <2>1. PICK t : t = HostsToRecover!LoadHosts(n) OBVIOUS
  <2>2. HostsToRecover!Becomes(t) BY <1>1, <1>4, <2>1 DEF HostsToRecover!ReloadHosts
  <2> QED BY <1>2, <2>1, <2>2, RecoveryLoadHosts, RecoveryBecomes
<1>5. CASE HostsToRecover!ReloadDevices
  <2>1. PICK t : t = HostsToRecover!LoadDevices(n) OBVIOUS
  <2>2. HostsToRecover!Becomes(t) /\ page.devices # HostsToRecover!NoList
    BY <1>1, <1>5, <2>1 DEF HostsToRecover!ReloadDevices
  <2>3. PICK devices : devices = n.page.devices OBVIOUS
  <2>4. /\ DOMAIN devices = DeviceListFields /\ devices.hostName = n.page.focusedHostName
        /\ devices.isLoading \in BOOLEAN /\ devices.stale \in BOOLEAN
        /\ "rows" \in DOMAIN devices.table /\ IsSeq(devices.table.rows)
        /\ DOMAIN n.page = RecoveryFields /\ Calls(n.requests) /\ IsOf(n)
        /\ n.page.selection = {} \/ n.page.focusedHostName = HostsToRecover!NoHost
        /\ devices.isLoading \/ NoLoad(n.requests)
    BY <1>2, <2>2, <2>3 DEF Recovers, GoodRecovery, ListsDevicesOf, FitsList, NoLoad
  <2>5. Recovers(t) BY <1>2, <2>1, <2>3, <2>4, RecoveryLoadDevices
  <2> QED BY <2>2, <2>5, RecoveryBecomes
<1> QED BY <1>3, <1>4, <1>5

\* The answers about hosts.
LEMMA RecoveryHosts ==
  ASSUME GoodRecovery(page, requests), NEW i \in DOMAIN requests,
         HostsToRecover!HostsArrive(i) \/ HostsToRecover!HostsRecovered(i)
           \/ HostsToRecover!HostNoteArrives(i)
  PROVE  GoodRecovery(page', requests')
<1>1. PICK h : h = HostsToRecover!Heard(i) OBVIOUS
<1>2. Recovers(h) BY <1>1, RecoveryHeard
<1>3. PICK t :
        /\ HostsToRecover!Becomes(t)
        /\ \/ t = h
           \/ \E rows : t = [h EXCEPT !.page.hostInfos = rows, !.page.hostsLoading = FALSE]
           \/ t = [h EXCEPT !.page.hostsLoading = FALSE]
           \/ t = [h EXCEPT
                !.page.hostInfos = {r \in @ : r.host \notin requests[i].arg},
                !.page.selection = {}]
           \/ \E dialog : t = [h EXCEPT !.page.dialog = dialog]
  BY <1>1 DEF HostsToRecover!HostsArrive, HostsToRecover!HostsRecovered,
    HostsToRecover!HostNoteArrives
<1>4. ASSUME NEW rows, NEW dialog,
             \/ t = [h EXCEPT !.page.hostInfos = rows, !.page.hostsLoading = FALSE]
             \/ t = [h EXCEPT !.page.hostsLoading = FALSE]
             \/ t = [h EXCEPT
                  !.page.hostInfos = {r \in @ : r.host \notin requests[i].arg},
                  !.page.selection = {}]
             \/ t = [h EXCEPT !.page.dialog = dialog]
      PROVE  SameDeviceList(h, t)
  <2>1. CASE t = [h EXCEPT !.page.hostInfos = rows, !.page.hostsLoading = FALSE]
    BY <1>2, <2>1 DEF SameDeviceList, Recovers, IsOf, GoodRecovery, RecoveryFields
  <2>2. CASE t = [h EXCEPT !.page.hostsLoading = FALSE]
    BY <1>2, <2>2 DEF SameDeviceList, Recovers, IsOf, GoodRecovery, RecoveryFields
  <2>3. CASE t = [h EXCEPT
                  !.page.hostInfos = {r \in @ : r.host \notin requests[i].arg},
                  !.page.selection = {}]
    <3>1. PICK left : left = {r \in h.page.hostInfos : r.host \notin requests[i].arg} OBVIOUS
    <3>2. t = [h EXCEPT !.page.hostInfos = left, !.page.selection = {}] BY <2>3, <3>1
    <3> QED BY <1>2, <3>2 DEF SameDeviceList, Recovers, IsOf, GoodRecovery, RecoveryFields
  <2>4. CASE t = [h EXCEPT !.page.dialog = dialog]
    BY <1>2, <2>4 DEF SameDeviceList, Recovers, IsOf, GoodRecovery, RecoveryFields
  <2> QED BY <1>4, <2>1, <2>2, <2>3, <2>4
<1>5. Recovers(t) BY <1>2, <1>3, <1>4, RecoverySame
<1> QED BY <1>3, <1>5, RecoveryBecomes

\* The devices that arrive are those of the host the list is of, unless it is stale.
LEMMA RecoveryDevicesArrive ==
  ASSUME GoodRecovery(page, requests), NEW i \in DOMAIN requests,
         HostsToRecover!DevicesArrive(i)
  PROVE  GoodRecovery(page', requests')
<1>1. PICK h : h = HostsToRecover!Heard(i) OBVIOUS
<1>2. PICK c : c = requests[i] OBVIOUS
<1>3. PICK old : old = page.devices OBVIOUS
<1>4. c.kind = "devices" BY <1>2 DEF HostsToRecover!DevicesArrive, HostsToRecover!Hears
<1>5. /\ Recovers(h) /\ h.page = page /\ NoLoad(h.requests)
      /\ DOMAIN h.page = RecoveryFields /\ IsOf(h)
  BY <1>1, <1>2, <1>4, RecoveryHeard DEF Recovers, GoodRecovery
<1>6. /\ DOMAIN old = DeviceListFields /\ old.hostName = page.focusedHostName
      /\ old.stale \in BOOLEAN /\ "rows" \in DOMAIN old.table /\ IsSeq(old.table.rows)
      /\ ~ old.stale => c.arg = old.hostName
      /\ c.status = "ok" => c.answer \subseteq HostsToRecover!DevicesOf(c.arg)
  <2>1. FitsList(old, c) /\ ListsDevicesOf(old, page.focusedHostName)
    BY <1>2, <1>3 DEF GoodRecovery
  <2>2. DOMAIN old = DeviceListFields BY <1>4, <2>1 DEF FitsList
  <2>3. old # HostsToRecover!NoList BY <2>2 DEF HostsToRecover!NoList, DeviceListFields
  <2> QED BY <1>4, <2>1, <2>3 DEF FitsList, ListsDevicesOf
\* Whatever the list becomes is good if it fits the host: nothing more is on its way.
<1>7. ASSUME NEW s, IsOf(s), NEW devices, s.page = [page EXCEPT !.devices = devices],
             s.requests = h.requests, ListsDevicesOf(devices, page.focusedHostName)
      PROVE  Recovers(s)
  <2>1. /\ DOMAIN s.page = RecoveryFields /\ s.page.devices = devices
        /\ s.page.focusedHostName = page.focusedHostName
        /\ s.page.selection = page.selection
    BY <1>5, <1>7 DEF RecoveryFields
  <2>2. \A k \in DOMAIN h.requests : FitsList(devices, h.requests[k])
    BY <1>5 DEF NoLoad, FitsList
  <2> QED BY <1>5, <1>7, <2>1, <2>2 DEF Recovers, GoodRecovery
<1>8. CASE c.status = "error"
  <2>1. PICK s : s = [h EXCEPT !.page.devices.isLoading = FALSE, !.page.devices.stale = TRUE]
    OBVIOUS
  <2>2. HostsToRecover!Becomes(s)
    BY <1>1, <1>2, <1>8, <2>1 DEF HostsToRecover!DevicesArrive, HostsToRecover!Hears
  <2>3. PICK devices : devices = [old EXCEPT !.isLoading = FALSE, !.stale = TRUE] OBVIOUS
  <2>4. IsOf(s) /\ s.page = [page EXCEPT !.devices = devices] /\ s.requests = h.requests
    BY <1>3, <1>5, <2>1, <2>3 DEF IsOf, RecoveryFields
  <2>5. /\ DOMAIN devices = DeviceListFields /\ devices.hostName = old.hostName
        /\ devices.isLoading = FALSE /\ devices.stale = TRUE /\ devices.table = old.table
    BY <1>6, <2>3 DEF DeviceListFields
  <2>6. ListsDevicesOf(devices, page.focusedHostName) BY <1>6, <2>5 DEF ListsDevicesOf
  <2> QED BY <1>7, <2>2, <2>4, <2>6, RecoveryBecomes
<1>9. CASE c.status # "error"
  <2>1. PICK rows : rows = HostsToRecover!Ascending(c.answer) OBVIOUS
  <2>2. PICK notes : notes = [d \in RecoveryPage.Devices |-> HostsToRecover!NoNote] OBVIOUS
  <2>3. PICK s : s = [h EXCEPT !.page.devices.isLoading = FALSE,
                               !.page.devices.table.rows = rows,
                               !.page.devices.notes = notes]
    OBVIOUS
  <2>4. /\ c.status = "ok"
        /\ HostsToRecover!Becomes(IF rows = <<>> THEN s
                                  ELSE HostsToRecover!Send(s, "latestNotes", c.answer))
    BY <1>1, <1>2, <1>9, <2>1, <2>2, <2>3
    DEF HostsToRecover!DevicesArrive, HostsToRecover!Hears
  <2>5. PICK table : table = [old.table EXCEPT !.rows = rows] OBVIOUS
  <2>6. PICK devices :
          devices = [old EXCEPT !.isLoading = FALSE, !.table = table, !.notes = notes]
    OBVIOUS
  <2>7. IsOf(s) /\ s.page = [page EXCEPT !.devices = devices] /\ s.requests = h.requests
    BY <1>3, <1>5, <1>6, <2>3, <2>5, <2>6 DEF IsOf, RecoveryFields, DeviceListFields
  <2>8. /\ DOMAIN devices = DeviceListFields /\ devices.hostName = old.hostName
        /\ devices.isLoading = FALSE /\ devices.stale = old.stale /\ devices.table = table
        /\ "rows" \in DOMAIN table /\ table.rows = rows
    BY <1>6, <2>5, <2>6 DEF DeviceListFields
  <2>9. IsSeq(rows) /\ Range(rows) = c.answer BY <1>6, <2>1, <2>4, ListedDevices
  <2>10. ~ old.stale => Range(rows) \subseteq HostsToRecover!DevicesOf(old.hostName)
    BY <1>6, <2>4, <2>9
  <2>11. ListsDevicesOf(devices, page.focusedHostName)
    BY <1>6, <2>8, <2>9, <2>10 DEF ListsDevicesOf
  <2>12. Recovers(s) BY <1>7, <2>7, <2>11
  <2>13. PICK t : t = HostsToRecover!Send(s, "latestNotes", c.answer) OBVIOUS
  <2>14. Recovers(t) BY <2>12, <2>13, RecoverySend
  <2> QED BY <2>4, <2>12, <2>13, <2>14, RecoveryBecomes
<1> QED BY <1>8, <1>9

\* Another table, with no other devices, or other notes.
LEMMA RecoveryTable ==
  ASSUME NEW s, Recovers(s), NEW old, old = s.page.devices, NEW devices, NEW x,
         \/ devices = [old EXCEPT !.notes = x]
         \/ /\ devices = [old EXCEPT !.table = x]
            /\ old # HostsToRecover!NoList =>
                 /\ "rows" \in DOMAIN x /\ IsSeq(x.rows)
                 /\ Range(x.rows) \subseteq Range(old.table.rows),
         NEW t, IsOf(t), t.requests = s.requests,
         t.page = [s.page EXCEPT !.devices = devices]
  PROVE  Recovers(t)
<1>1. /\ DOMAIN t.page = RecoveryFields /\ t.page.devices = devices
      /\ t.page.selection = s.page.selection
      /\ t.page.focusedHostName = s.page.focusedHostName
  BY DEF Recovers, GoodRecovery, RecoveryFields
<1>2. CASE old = HostsToRecover!NoList
  <2>1. ASSUME NEW host, NEW f \in {"notes", "table"}
        PROVE  [[hostName |-> host] EXCEPT ![f] = x] = [hostName |-> host]
    BY <2>1
  <2>2. devices = old BY <1>2, <2>1 DEF HostsToRecover!NoList
  <2> QED BY <1>1, <2>2 DEF Recovers, GoodRecovery
<1>3. CASE old # HostsToRecover!NoList
  <2>1. /\ DOMAIN old = DeviceListFields /\ "rows" \in DOMAIN old.table
        /\ IsSeq(old.table.rows) /\ ListsDevicesOf(old, s.page.focusedHostName)
    BY <1>3 DEF Recovers, GoodRecovery, ListsDevicesOf
  <2>2. /\ DOMAIN devices = DeviceListFields /\ devices.hostName = old.hostName
        /\ devices.isLoading = old.isLoading /\ devices.stale = old.stale
        /\ devices.table = old.table \/ devices.table = x
        /\ "rows" \in DOMAIN devices.table /\ IsSeq(devices.table.rows)
        /\ Range(devices.table.rows) \subseteq Range(old.table.rows)
    BY <1>3, <2>1 DEF DeviceListFields
  <2>3. ListsDevicesOf(devices, s.page.focusedHostName)
    BY <1>3, <2>1, <2>2 DEF ListsDevicesOf
  <2>4. \A i \in DOMAIN s.requests : FitsList(devices, s.requests[i])
    BY <2>1, <2>2 DEF Recovers, GoodRecovery, FitsList
  <2> QED BY <1>1, <2>3, <2>4 DEF Recovers, GoodRecovery
<1> QED BY <1>2, <1>3

\* Answers about devices that are listed.
LEMMA RecoveryDevices ==
  ASSUME GoodRecovery(page, requests), NEW i \in DOMAIN requests,
         HostsToRecover!LatestNotesArrive(i) \/ HostsToRecover!DeviceRemoved(i)
  PROVE  GoodRecovery(page', requests')
<1>1. PICK h : h = HostsToRecover!Heard(i) OBVIOUS
<1>2. Recovers(h) /\ h.page = page BY <1>1, RecoveryHeard
<1>3. PICK old : old = h.page.devices OBVIOUS
<1>4. CASE HostsToRecover!Becomes(h) BY <1>2, <1>4, RecoveryBecomes
<1>5. ASSUME NEW x, NEW t, NEW devices, HostsToRecover!Becomes(t),
             \/ /\ t = [h EXCEPT !.page.devices.notes = x]
                /\ devices = [old EXCEPT !.notes = x]
             \/ /\ t = [h EXCEPT !.page.devices.table = x]
                /\ devices = [old EXCEPT !.table = x]
                /\ old # HostsToRecover!NoList =>
                     /\ "rows" \in DOMAIN x /\ IsSeq(x.rows)
                     /\ Range(x.rows) \subseteq Range(old.table.rows)
      PROVE  GoodRecovery(page', requests')
  <2>1. IsOf(t) /\ t.requests = h.requests /\ t.page = [h.page EXCEPT !.devices = devices]
    BY <1>2, <1>3, <1>5 DEF Recovers, IsOf
  <2>2. Recovers(t) BY <1>2, <1>3, <1>5, <2>1, RecoveryTable
  <2> QED BY <1>5, <2>2, RecoveryBecomes
<1>6. CASE HostsToRecover!LatestNotesArrive(i)
  <2>1. HostsToRecover!Becomes(h)
        \/ \E x : HostsToRecover!Becomes([h EXCEPT !.page.devices.notes = x])
    BY <1>1, <1>6 DEF HostsToRecover!LatestNotesArrive
  <2> QED BY <1>4, <1>5, <2>1
<1>7. CASE HostsToRecover!DeviceRemoved(i)
  <2>1. PICK d : d = requests[i].arg.device OBVIOUS
  <2>2. PICK rows : rows = old.table.rows OBVIOUS
  <2>3. PICK left : left = {k \in DOMAIN rows : rows[k] # d} OBVIOUS
  <2>4. PICK kept : kept = HostsToRecover!Kept(rows, left) OBVIOUS
  <2>5. PICK cut : cut = [old.table EXCEPT !.rows = kept] OBVIOUS
  <2>6. PICK x : x = HostsToRecover!ResetSelection(cut) OBVIOUS
  <2>7. HostsToRecover!Becomes(h)
        \/ HostsToRecover!Becomes([h EXCEPT !.page.devices.table = x])
    BY <1>1, <1>2, <1>3, <1>7, <2>1, <2>2, <2>3, <2>4, <2>5, <2>6
    DEF HostsToRecover!DeviceRemoved
  <2>8. ASSUME old # HostsToRecover!NoList
        PROVE  /\ "rows" \in DOMAIN x /\ IsSeq(x.rows)
               /\ Range(x.rows) \subseteq Range(old.table.rows)
    <3>1. "rows" \in DOMAIN old.table /\ IsSeq(rows)
      BY <1>2, <1>3, <2>2, <2>8 DEF Recovers, GoodRecovery, ListsDevicesOf
    <3>2. left \in SUBSET DOMAIN rows BY <2>3
    <3>3. kept = Kept(rows, left) BY <2>4, RecoveryConstants
    <3>4. /\ IsSeq(kept)
          /\ \A k \in DOMAIN kept : \E j \in left : kept[k] = rows[j]
      BY <3>1, <3>2, <3>3, KeptFacts
    <3>5. Range(kept) \subseteq Range(rows) BY <3>2, <3>4 DEF Range
    <3>6. "rows" \in DOMAIN cut /\ cut.rows = kept BY <2>5, <3>1
    <3>7. DOMAIN x = DOMAIN cut /\ x.rows = cut.rows
      BY <2>6, <3>6
      DEF HostsToRecover!ResetSelection, HostsToRecover!ResetPrevClickedRowIndex,
          HostsToRecover!Selects
    <3> QED BY <2>2, <3>4, <3>5, <3>6, <3>7
  <2> QED BY <1>4, <1>5, <2>7, <2>8
<1> QED BY <1>6, <1>7

LEMMA RecoveryCommands ==
  ASSUME GoodRecovery(page, requests),
         \/ HostsToRecover!MarkAsRecovered
         \/ HostsToRecover!OpenHostNotes
         \/ \E d : HostsToRecover!RemoveDevice(d)
         \/ \E b : HostsToRecover!CloseDialog(b)
  PROVE  GoodRecovery(page', requests')
<1>1. PICK n : n = HostsToRecover!State OBVIOUS
<1>2. Recovers(n) BY <1>1, RecoveryState
<1>3. ASSUME NEW kind, kind # "devices", NEW arg,
             HostsToRecover!Becomes(HostsToRecover!Send(n, kind, arg))
      PROVE  GoodRecovery(page', requests')
  <2>1. PICK t : t = HostsToRecover!Send(n, kind, arg) OBVIOUS
  <2> QED BY <1>2, <1>3, <2>1, RecoverySend, RecoveryBecomes
<1>4. ASSUME NEW s, NEW dialog, s = [n EXCEPT !.page.dialog = dialog]
      PROVE  Recovers(s)
  <2>1. SameDeviceList(n, s)
    BY <1>2, <1>4 DEF SameDeviceList, Recovers, IsOf, GoodRecovery, RecoveryFields
  <2> QED BY <1>2, <2>1, RecoverySame
<1>5. CASE HostsToRecover!MarkAsRecovered
  <2>1. \E arg : HostsToRecover!Becomes(HostsToRecover!Send(n, "recovered", arg))
    BY <1>1, <1>5 DEF HostsToRecover!MarkAsRecovered
  <2> QED BY <1>3, <2>1
<1>6. CASE HostsToRecover!OpenHostNotes
  <2>1. \/ \E arg : HostsToRecover!Becomes(HostsToRecover!Send(n, "hostNote", arg))
        \/ \E dialog : HostsToRecover!Becomes([n EXCEPT !.page.dialog = dialog])
    BY <1>1, <1>6 DEF HostsToRecover!OpenHostNotes
  <2> QED BY <1>3, <1>4, <2>1, RecoveryBecomes
<1>7. CASE \E d : HostsToRecover!RemoveDevice(d)
  <2>1. \E arg : HostsToRecover!Becomes(HostsToRecover!Send(n, "removeDevice", arg))
    BY <1>1, <1>7 DEF HostsToRecover!RemoveDevice
  <2> QED BY <1>3, <2>1
<1>8. ASSUME NEW b, HostsToRecover!CloseDialog(b) PROVE GoodRecovery(page', requests')
  <2>1. PICK s : s = [n EXCEPT !.page.dialog = HostsToRecover!NoDialog] OBVIOUS
  <2>2. PICK t : HostsToRecover!Becomes(t)
                 /\ (t = s \/ \E arg : t = HostsToRecover!Send(s, "latestNotes", arg))
    BY <1>1, <1>8, <2>1 DEF HostsToRecover!CloseDialog
  <2> QED BY <1>4, <2>1, <2>2, RecoverySend, RecoveryBecomes
<1> QED BY <1>5, <1>6, <1>7, <1>8

\* A click selects and unselects rows, and leaves them as they are.
LEMMA RecoveryClick ==
  ASSUME NEW table, "rows" \in DOMAIN table,
         NEW t, \/ \E k, shift : t = HostsToRecover!ClickRow(table, k, shift)
                \/ t = HostsToRecover!ToggleAllSelection(table)
  PROVE  "rows" \in DOMAIN t /\ t.rows = table.rows
<1>1. ASSUME NEW ids, NEW u, u = HostsToRecover!Selects(table, ids)
      PROVE  /\ "rows" \in DOMAIN u /\ u.rows = table.rows
             /\ \A k : LET v == [u EXCEPT !.prevClicked = k]
                      IN "rows" \in DOMAIN v /\ v.rows = table.rows
  BY <1>1 DEF HostsToRecover!Selects
<1>2. ASSUME NEW k, NEW shift, t = HostsToRecover!ClickRow(table, k, shift)
      PROVE  "rows" \in DOMAIN t /\ t.rows = table.rows
  <2>1. PICK u : /\ t = [u EXCEPT !.prevClicked = k]
                 /\ \/ u = HostsToRecover!RangeSelect(table, k)
                    \/ u = HostsToRecover!SingleSelect(table, table.rows[k])
    BY <1>2 DEF HostsToRecover!ClickRow
  <2>2. \E ids : u = HostsToRecover!Selects(table, ids)
    BY <2>1 DEF HostsToRecover!RangeSelect, HostsToRecover!SingleSelect
  <2> QED BY <1>1, <2>1, <2>2
<1>3. CASE t = HostsToRecover!ToggleAllSelection(table)
  <2>1. \E ids : t = HostsToRecover!Selects(table, ids)
    BY <1>3 DEF HostsToRecover!ToggleAllSelection, HostsToRecover!ClearSelection,
      HostsToRecover!SelectSelection
  <2> QED BY <1>1, <2>1
<1> QED BY <1>2, <1>3

\* What the user does in the list of devices.
LEMMA RecoveryShows ==
  ASSUME GoodRecovery(page, requests),
         \/ HostsToRecover!OpenDeviceNotes
         \/ \E k, b : HostsToRecover!SelectDevice(k, b)
         \/ HostsToRecover!SelectAllDevices
  PROVE  GoodRecovery(page', requests')
<1>1. PICK n : n = Of(page, browser, requests) OBVIOUS
<1>2. Recovers(n) /\ n.page = page /\ n.requests = requests
  BY <1>1 DEF Recovers, Of, IsOf
<1>3. requests' = requests
  BY DEF HostsToRecover!OpenDeviceNotes, HostsToRecover!SelectDevice,
    HostsToRecover!SelectAllDevices, HostsToRecover!Shows
<1>4. PICK t : t = Of(page', browser, requests) OBVIOUS
<1>5. IsOf(t) /\ t.page = page' /\ t.requests = requests BY <1>4 DEF IsOf, Of
<1>6. CASE HostsToRecover!OpenDeviceNotes
  <2>1. PICK dialog : page' = [page EXCEPT !.dialog = dialog]
    BY <1>6 DEF HostsToRecover!OpenDeviceNotes, HostsToRecover!Shows
  <2>2. SameDeviceList(n, t)
    BY <1>2, <1>5, <2>1 DEF SameDeviceList, Recovers, GoodRecovery, RecoveryFields
  <2>3. Recovers(t) BY <1>2, <2>2, RecoverySame
  <2> QED BY <1>3, <1>5, <2>3 DEF Recovers
<1>7. CASE (\E k, b : HostsToRecover!SelectDevice(k, b)) \/ HostsToRecover!SelectAllDevices
  <2>1. PICK old : old = page.devices OBVIOUS
  <2>2. PICK table : table = old.table OBVIOUS
  <2>3. PICK x :
          /\ page' = [page EXCEPT !.devices.table = x]
          /\ \/ \E k, b : x = HostsToRecover!ClickRow(table, k, b)
             \/ x = HostsToRecover!ToggleAllSelection(table)
    BY <1>7, <2>1, <2>2
    DEF HostsToRecover!SelectDevice, HostsToRecover!SelectAllDevices, HostsToRecover!Shows
  <2>4. PICK devices : devices = [old EXCEPT !.table = x] OBVIOUS
  <2>5. page' = [page EXCEPT !.devices = devices] BY <2>1, <2>3, <2>4
  <2>6. ASSUME old # HostsToRecover!NoList
        PROVE  /\ "rows" \in DOMAIN x /\ IsSeq(x.rows)
               /\ Range(x.rows) \subseteq Range(old.table.rows)
    <3>1. "rows" \in DOMAIN table /\ IsSeq(table.rows)
      BY <2>1, <2>2, <2>6 DEF GoodRecovery, ListsDevicesOf
    <3>2. "rows" \in DOMAIN x /\ x.rows = table.rows BY <2>3, <3>1, RecoveryClick
    <3> QED BY <2>2, <3>1, <3>2
  <2>7. Recovers(t) BY <1>2, <1>5, <2>1, <2>4, <2>5, <2>6, RecoveryTable
  <2> QED BY <1>3, <1>5, <2>7 DEF Recovers
<1> QED BY <1>6, <1>7

\* The service lists the devices of the host it was asked for.
LEMMA RecoveryServes ==
  ASSUME GoodRecovery(page, requests), NEW i \in DOMAIN requests,
         HostsToRecover!Serve(i) \/ HostsToRecover!Fail(i)
  PROVE  GoodRecovery(page', requests')
<1>1. page' = page BY DEF HostsToRecover!Serve, HostsToRecover!Fail
<1>2. PICK c : c = requests[i] OBVIOUS
<1>3. /\ DOMAIN c = CallFields /\ FitsList(page.devices, c) /\ IsSeq(requests)
      /\ \A k \in DOMAIN requests :
           DOMAIN requests[k] = CallFields /\ FitsList(page.devices, requests[k])
  BY <1>2 DEF GoodRecovery, Calls
<1>4. ASSUME NEW r, DOMAIN r = CallFields, r.kind = c.kind, FitsList(page.devices, r),
             requests' = [requests EXCEPT ![i] = r]
      PROVE  GoodRecovery(page', requests')
  <2>1. PICK q : q = requests' OBVIOUS
  <2>2. /\ IsSeq(q) /\ DOMAIN q = DOMAIN requests
        /\ \A k \in DOMAIN requests : q[k] = IF k = i THEN r ELSE requests[k]
    BY <1>3, <1>4, <2>1, ChangeCall
  <2>3. \A k \in DOMAIN q : q[k].kind = requests[k].kind BY <1>2, <1>4, <2>2
  <2>4. LoadsOnce(q) BY <2>2, <2>3 DEF GoodRecovery, LoadsOnce
  <2>5. Calls(q) BY <1>3, <1>4, <2>2 DEF Calls
  <2>6. \A k \in DOMAIN q : FitsList(page.devices, q[k]) BY <1>3, <1>4, <2>2
  <2> QED BY <1>1, <2>1, <2>4, <2>5, <2>6 DEF GoodRecovery
<1>5. CASE HostsToRecover!Fail(i)
  <2>1. PICK r : r = [c EXCEPT !.status = "error"] OBVIOUS
  <2>2. requests' = [requests EXCEPT ![i] = r]
    BY <1>2, <1>5, <2>1 DEF HostsToRecover!Fail
  <2>3. /\ DOMAIN r = CallFields /\ r.kind = c.kind /\ r.arg = c.arg /\ r.status = "error"
    BY <1>3, <2>1 DEF CallFields
  <2>4. FitsList(page.devices, r) BY <1>3, <2>3 DEF FitsList
  <2> QED BY <1>4, <2>2, <2>3, <2>4
<1>6. CASE HostsToRecover!Serve(i) /\ c.kind = "unheard"
  <2>1. PICK h : h = HostsToRecover!Heard(i) OBVIOUS
  <2>2. Recovers(h) /\ h.page = page BY <2>1, RecoveryHeard
  <2>3. requests' = HostsToRecover!RemoveAt(requests, i)
    BY <1>2, <1>6 DEF HostsToRecover!Serve
  <2>4. requests' = h.requests
    BY <2>1, <2>3 DEF HostsToRecover!Heard, HostsToRecover!State
  <2> QED BY <1>1, <2>2, <2>4 DEF Recovers
<1>7. CASE HostsToRecover!Serve(i) /\ c.kind # "unheard"
  <2>1. PICK answer :
          /\ HostsToRecover!Answer(i, answer)
          /\ c.kind = "devices" => answer \subseteq HostsToRecover!DevicesOf(c.arg)
    BY <1>2, <1>7 DEF HostsToRecover!Serve
  <2>2. PICK r : r = [c EXCEPT !.status = "ok", !.answer = answer] OBVIOUS
  <2>3. requests' = [requests EXCEPT ![i] = r]
    BY <1>2, <2>1, <2>2 DEF HostsToRecover!Answer
  <2>4. DOMAIN r = CallFields /\ r.kind = c.kind /\ r.arg = c.arg /\ r.answer = answer
    BY <1>3, <2>2 DEF CallFields
  <2>5. FitsList(page.devices, r) BY <1>3, <2>1, <2>4 DEF FitsList
  <2> QED BY <1>4, <2>3, <2>4, <2>5
<1> QED BY <1>5, <1>6, <1>7

LEMMA RecoveryInit == ASSUME HostsToRecover!Init PROVE GoodRecovery(page, requests)
<1>1. PICK params, s, t :
        /\ s = [page |-> HostsToRecover!FreshPage(params), browser |-> {}, requests |-> <<>>]
        /\ t = HostsToRecover!LoadHosts(s) /\ page = t.page /\ requests = t.requests
  BY DEF HostsToRecover!Init
<1>2. PICK p : p = HostsToRecover!FreshPage(params) OBVIOUS
<1>3. /\ DOMAIN p = RecoveryFields /\ p.selection = {}
      /\ p.focusedHostName = HostsToRecover!NoHost /\ p.devices = HostsToRecover!NoList
  BY <1>2 DEF HostsToRecover!FreshPage, RecoveryFields
<1>4. ListsDevicesOf(p.devices, p.focusedHostName)
  BY <1>3 DEF ListsDevicesOf, HostsToRecover!NoList
<1>5. PICK q : q = <<>> OBVIOUS
<1>6. Calls(q) /\ DOMAIN q = {} BY <1>5, NoCalls
<1>7. IsOf(s) /\ s.page = p /\ s.requests = q BY <1>1, <1>2, <1>5 DEF IsOf
<1>8. Recovers(s) BY <1>3, <1>4, <1>6, <1>7 DEF Recovers, GoodRecovery, LoadsOnce
<1> QED BY <1>1, <1>8, RecoveryLoadHosts DEF Recovers

LEMMA RecoveryNext ==
  ASSUME GoodRecovery(page, requests), [HostsToRecover!Next]_vars
  PROVE  GoodRecovery(page', requests')
<1>1. CASE UNCHANGED vars BY <1>1 DEF vars
<1>2. CASE \E i \in DOMAIN requests :
             HostsToRecover!HostsArrive(i) \/ HostsToRecover!HostsRecovered(i)
               \/ HostsToRecover!HostNoteArrives(i)
  BY <1>2, RecoveryHosts
<1>3. CASE \E i \in DOMAIN requests :
             HostsToRecover!DevicesArrive(i) \/ HostsToRecover!LatestNotesArrive(i)
               \/ HostsToRecover!DeviceRemoved(i)
  BY <1>3, RecoveryDevicesArrive, RecoveryDevices
<1>4. CASE \E h \in RecoveryPage.Hosts : HostsToRecover!FocusHost(h)
  BY <1>4, RecoveryFocusHost
<1>5. CASE (\E h \in RecoveryPage.Hosts : HostsToRecover!OnSelectionChange(h))
           \/ HostsToRecover!ToggleSelection
  BY <1>5, RecoverySelected
  DEF HostsToRecover!OnSelectionChange, HostsToRecover!ToggleSelection
<1>6. CASE \/ HostsToRecover!UnfocusHost
           \/ HostsToRecover!ReloadHosts
           \/ HostsToRecover!ReloadDevices
  BY <1>6, RecoveryLoads
<1>7. CASE \/ HostsToRecover!MarkAsRecovered
           \/ HostsToRecover!OpenHostNotes
           \/ \E d : HostsToRecover!RemoveDevice(d)
           \/ \E b : HostsToRecover!CloseDialog(b)
  BY <1>7, RecoveryCommands
<1>8. CASE \/ HostsToRecover!OpenDeviceNotes
           \/ \E k, b : HostsToRecover!SelectDevice(k, b)
           \/ HostsToRecover!SelectAllDevices
  BY <1>8, RecoveryShows
<1>9. CASE \E i \in DOMAIN requests : HostsToRecover!Serve(i) \/ HostsToRecover!Fail(i)
  BY <1>9, RecoveryServes
<1> QED
  BY <1>1, <1>2, <1>3, <1>4, <1>5, <1>6, <1>7, <1>8, <1>9 DEF HostsToRecover!Next

\* What is listed beside the focused host.
LEMMA RecoveryShown ==
  ASSUME GoodRecovery(page, requests) PROVE HostsToRecover!OneTargetOfRecovery
<1>1. PICK devices : devices = page.devices OBVIOUS
<1>2. ListsDevicesOf(devices, page.focusedHostName) BY <1>1 DEF GoodRecovery
<1>3. HostsToRecover!Rows = Range(devices.table.rows)
  BY <1>1, RecoveryConstants DEF HostsToRecover!Rows
<1>4. ASSUME devices # HostsToRecover!NoList, ~ devices.isLoading, ~ devices.stale
      PROVE  HostsToRecover!Rows \subseteq HostsToRecover!DevicesOf(page.focusedHostName)
  BY <1>2, <1>3, <1>4 DEF ListsDevicesOf
<1> QED BY <1>1, <1>4 DEF GoodRecovery, HostsToRecover!OneTargetOfRecovery

-----------------------------------------------------------------------------
(* The devices of a host.                                                  *)

DevicesFields ==
  {"id", "infos", "note", "fixed", "loads", "hostMap", "isLoading", "table", "isShared",
   "direction", "asks"}
TableFields == {"rows", "selection", "view", "prevClicked"}

\* The table lists each device once, in its direction, and has selected some of them.
IsListed(table, direction) ==
  /\ DOMAIN table = TableFields
  /\ Distinct(table.rows, DevicesPage.Devices)
  /\ table.selection \subseteq Range(table.rows) /\ table.view = table.selection
  /\ table.rows = DevicesOfHost!InDirection(table.rows, direction)

HasLists(p) ==
  /\ DOMAIN p = DevicesFields
  /\ Distinct(p.infos, DevicesPage.Devices)

GoodDevices(p) == HasLists(p) /\ IsListed(p.table, p.direction)

\* A list that arrives has each device once.
GoodAnswers(q) ==
  /\ Calls(q)
  /\ \A i \in DOMAIN q : q[i].kind = "devices" /\ q[i].status = "ok"
       => Distinct(q[i].answer.devices, DevicesPage.Devices)

GoodService(a) ==
  DOMAIN a = {"present", "fixed", "note"} /\ a.present \subseteq DevicesPage.Devices

LEMMA DevicesConstants ==
  DevicesPage.Devices \subseteq Nat /\ IsFiniteSet(DevicesPage.Devices)
<1>1. DevicesOfHost!HostDevicesAssumption BY LabPagesAssumption
<1>2. DevicesOfHost!IsFiniteSet(DevicesPage.Devices) <=> IsFiniteSet(DevicesPage.Devices)
  BY DEF DevicesOfHost!IsFiniteSet, IsFiniteSet
<1> QED BY <1>1, <1>2 DEF DevicesOfHost!HostDevicesAssumption

LEMMA DevicesLists ==
  /\ \A S : DevicesOfHost!Ascending(S) = Ascending(S)
  /\ \A s : DevicesOfHost!Range(s) = Range(s)
  /\ \A s : DevicesOfHost!Reversed(s) = Reversed(s)
  /\ \A s, places : DevicesOfHost!Kept(s, places) = Kept(s, places)
  /\ \A q, i : DevicesOfHost!RemoveAt(q, i) = RemoveAt(q, i)
<1>1. \A S : DevicesOfHost!Ascending(S) = Ascending(S)
  BY DEF DevicesOfHost!Ascending, Ascending, DevicesOfHost!Cardinality, Cardinality,
         DevicesOfHost!IsFiniteSet, IsFiniteSet
<1> QED
  BY <1>1 DEF DevicesOfHost!Range, Range, DevicesOfHost!Reversed, Reversed,
     DevicesOfHost!Kept, Kept, DevicesOfHost!RemoveAt, RemoveAt

\* A list that is put in a direction has the same devices, and is in it.
LEMMA DirectionFacts ==
  ASSUME NEW rows, Distinct(rows, DevicesPage.Devices), NEW direction,
         NEW r, r = DevicesOfHost!InDirection(rows, direction)
  PROVE  /\ Distinct(r, DevicesPage.Devices) /\ Range(r) = Range(rows)
         /\ r = DevicesOfHost!InDirection(r, direction)
<1> DEFINE S == Range(rows)
           a == Ascending(S)
<1>1. S \in SUBSET DevicesPage.Devices
  <2>1. rows \in Seq(DevicesPage.Devices) BY DEF Distinct
  <2> QED BY <2>1 DEF Range
<1>2. IsFiniteSet(S) BY <1>1, DevicesConstants, FS_Subset
<1>3. Distinct(a, DevicesPage.Devices) /\ Range(a) = S
  BY <1>1, <1>2, DevicesConstants, AscendingDistinct
<1>4. Distinct(Reversed(a), DevicesPage.Devices) /\ Range(Reversed(a)) = S
  BY <1>3, ReversedDistinct
<1>5. \A s : DevicesOfHost!InDirection(s, direction) =
        CASE direction = "up" -> Ascending(Range(s))
          [] direction = "down" -> Reversed(Ascending(Range(s)))
          [] OTHER -> s
  BY DevicesLists DEF DevicesOfHost!InDirection
<1>6. CASE direction = "up"
  <2>1. \A s : DevicesOfHost!InDirection(s, direction) = Ascending(Range(s))
    BY <1>5, <1>6
  <2>2. r = a BY <2>1
  <2> HIDE DEF a
  <2>3. r = Ascending(Range(r)) BY <1>3, <2>2 DEF a
  <2> QED BY <1>3, <2>1, <2>2, <2>3
<1>7. CASE direction = "down"
  <2>1. \A s : DevicesOfHost!InDirection(s, direction) = Reversed(Ascending(Range(s)))
    BY <1>5, <1>7
  <2>2. r = Reversed(a) BY <2>1
  <2>3. r = Reversed(Ascending(Range(r))) BY <1>4, <2>2
  <2> QED BY <1>4, <2>1, <2>2, <2>3
<1>8. CASE direction # "up" /\ direction # "down"
  <2>1. \A s : DevicesOfHost!InDirection(s, direction) = s BY <1>5, <1>8
  <2> QED BY <2>1
<1> QED BY <1>6, <1>7, <1>8

\* Sorting changes the order of what is listed, at most.
LEMMA SortFacts ==
  ASSUME NEW p, HasLists(p), DOMAIN p.table = TableFields,
         Distinct(p.table.rows, DevicesPage.Devices), NEW t, t = DevicesOfHost!SortData(p)
  PROVE  /\ HasLists(t) /\ t.direction = p.direction /\ DOMAIN t.table = TableFields
         /\ Distinct(t.table.rows, DevicesPage.Devices)
         /\ Range(t.table.rows) = Range(p.table.rows)
         /\ t.table.rows = DevicesOfHost!InDirection(t.table.rows, t.direction)
         /\ t.table.selection = p.table.selection /\ t.table.view = p.table.view
<1>1. PICK r : r = DevicesOfHost!InDirection(p.table.rows, p.direction) OBVIOUS
<1>2. /\ Distinct(r, DevicesPage.Devices) /\ Range(r) = Range(p.table.rows)
      /\ r = DevicesOfHost!InDirection(r, p.direction)
  BY <1>1, DirectionFacts
<1>3. CASE p.direction = "none"
  <2>1. t = p BY <1>3 DEF DevicesOfHost!SortData
  <2>2. r = p.table.rows
    BY <1>1, <1>3 DEF DevicesOfHost!InDirection
  <2> QED BY <1>2, <2>1, <2>2
<1>4. CASE p.direction # "none"
  <2>1. PICK sorted :
          sorted = [DevicesOfHost!ResetPrevClickedRowIndex(p.table) EXCEPT !.rows = r]
    OBVIOUS
  <2>2. PICK infos : infos = IF p.isShared THEN r ELSE p.infos OBVIOUS
  <2>3. t = [p EXCEPT !.table = sorted, !.infos = infos]
    BY <1>1, <1>4, <2>1, <2>2 DEF DevicesOfHost!SortData
  <2>4. /\ DOMAIN sorted = TableFields /\ sorted.rows = r
        /\ sorted.selection = p.table.selection /\ sorted.view = p.table.view
    BY <2>1 DEF TableFields, DevicesOfHost!ResetPrevClickedRowIndex
  <2>5. DOMAIN p = DevicesFields BY DEF HasLists
  <2>6. /\ DOMAIN t = DevicesFields /\ t.table = sorted /\ t.infos = infos
        /\ t.direction = p.direction
    BY <2>3, <2>5 DEF DevicesFields
  <2>7. Distinct(infos, DevicesPage.Devices) BY <1>2, <2>2 DEF HasLists
  <2>8. HasLists(t) BY <2>6, <2>7 DEF HasLists
  <2> QED BY <1>2, <2>4, <2>6, <2>8
<1> QED BY <1>3, <1>4

\* The list of the page is shown, and nothing of it is selected.
LEMMA DataSourceFacts ==
  ASSUME NEW p, HasLists(p), DOMAIN p.table = TableFields,
         NEW t, t = DevicesOfHost!DataSource(p)
  PROVE  GoodDevices(t)
<1>1. PICK u : u = [p EXCEPT !.table.rows = p.infos, !.isShared = TRUE] OBVIOUS
<1>2. PICK v : v = DevicesOfHost!SortData(u) OBVIOUS
<1>3. /\ HasLists(u) /\ DOMAIN u.table = TableFields
      /\ Distinct(u.table.rows, DevicesPage.Devices)
  BY <1>1 DEF HasLists, DevicesFields, TableFields
<1>4. /\ HasLists(v) /\ DOMAIN v.table = TableFields
      /\ Distinct(v.table.rows, DevicesPage.Devices)
      /\ v.table.rows = DevicesOfHost!InDirection(v.table.rows, v.direction)
  BY <1>2, <1>3, SortFacts
<1>5. PICK table : table = DevicesOfHost!ResetPrevClickedRowIndex(
                             DevicesOfHost!ClearSelection(v.table))
  OBVIOUS
<1>6. t = [v EXCEPT !.table = table]
  BY <1>1, <1>2, <1>5 DEF DevicesOfHost!DataSource
<1>7. /\ DOMAIN table = TableFields /\ table.rows = v.table.rows
      /\ table.selection = {} /\ table.view = {}
  BY <1>4, <1>5 DEF TableFields, DevicesOfHost!ResetPrevClickedRowIndex,
     DevicesOfHost!ClearSelection, DevicesOfHost!Selects
<1>8. HasLists(t) /\ t.table = table /\ t.direction = v.direction
  BY <1>4, <1>6 DEF HasLists, DevicesFields
<1> QED BY <1>4, <1>7, <1>8 DEF GoodDevices, IsListed

\* Some of the rows of a table are selected.
SelectsRows(table) ==
  /\ DOMAIN table = TableFields
  /\ table.selection \subseteq Range(table.rows) /\ table.view = table.selection

\* What is no row any more is not selected after a reset.
LEMMA ResetFacts ==
  ASSUME NEW table, DOMAIN table = TableFields, table.view = table.selection,
         NEW t, t = DevicesOfHost!ResetSelection(table)
  PROVE  SelectsRows(t) /\ t.rows = table.rows
<1>1. PICK gone : gone = table.view \ Range(table.rows) OBVIOUS
<1>2. t = DevicesOfHost!ResetPrevClickedRowIndex(
            IF gone = {} THEN table
            ELSE DevicesOfHost!Selects(table, table.selection \ gone))
  BY <1>1, DevicesLists DEF DevicesOfHost!ResetSelection, DevicesOfHost!RowIds
<1>3. CASE gone = {}
  <2>1. t = [table EXCEPT !.prevClicked = 0]
    BY <1>2, <1>3 DEF DevicesOfHost!ResetPrevClickedRowIndex
  <2> QED BY <1>1, <1>3, <2>1 DEF TableFields, SelectsRows
<1>4. CASE gone # {}
  <2>1. PICK some : some = table.selection \ gone OBVIOUS
  <2>2. t = [[table EXCEPT !.selection = some, !.view = some] EXCEPT !.prevClicked = 0]
    BY <1>2, <1>4, <2>1
    DEF DevicesOfHost!ResetPrevClickedRowIndex, DevicesOfHost!Selects
  <2>3. some \subseteq Range(table.rows) BY <1>1, <2>1
  <2> QED BY <2>2, <2>3 DEF TableFields, SelectsRows
<1> QED BY <1>3, <1>4

\* A device that is removed is not selected any more.
LEMMA RemovedFacts ==
  ASSUME NEW p, GoodDevices(p), NEW d, NEW t, t = DevicesOfHost!Removed(p, d)
  PROVE  GoodDevices(t)
<1>1. /\ HasLists(p) /\ DOMAIN p.table = TableFields
      /\ Distinct(p.table.rows, DevicesPage.Devices) /\ p.table.view = p.table.selection
  BY DEF GoodDevices, IsListed
<1>2. PICK rows : rows = DevicesOfHost!WithoutDevice(p.table.rows, d) OBVIOUS
<1>3. Distinct(rows, DevicesPage.Devices)
  <2> DEFINE places == {k \in DOMAIN p.table.rows : p.table.rows[k] # d}
  <2>1. rows = Kept(p.table.rows, places)
    BY <1>2, DevicesLists DEF DevicesOfHost!WithoutDevice
  <2>2. places \in SUBSET DOMAIN p.table.rows OBVIOUS
  <2> HIDE DEF places
  <2> QED BY <1>1, <2>1, <2>2, KeptDistinct
<1>4. PICK table : table = [p.table EXCEPT !.rows = rows] OBVIOUS
<1>5. PICK u : u = [p EXCEPT !.isShared = FALSE, !.table = table] OBVIOUS
<1>6. PICK left : left = DevicesOfHost!SortData(u) OBVIOUS
<1>7. PICK new : new = DevicesOfHost!ResetSelection(left.table) OBVIOUS
<1>8. t = [left EXCEPT !.table = new]
  BY <1>2, <1>4, <1>5, <1>6, <1>7 DEF DevicesOfHost!Removed
<1>9. /\ DOMAIN table = TableFields /\ table.rows = rows
      /\ table.selection = p.table.selection /\ table.view = p.table.selection
  BY <1>1, <1>4 DEF TableFields
<1>10. HasLists(u) /\ u.table = table BY <1>1, <1>5 DEF HasLists, DevicesFields
<1>11. /\ HasLists(left) /\ DOMAIN left.table = TableFields
       /\ Distinct(left.table.rows, DevicesPage.Devices)
       /\ left.table.rows = DevicesOfHost!InDirection(left.table.rows, left.direction)
       /\ left.table.selection = p.table.selection /\ left.table.view = p.table.selection
  BY <1>3, <1>6, <1>9, <1>10, SortFacts
<1>12. /\ DOMAIN new = TableFields /\ new.rows = left.table.rows
       /\ new.selection \subseteq Range(left.table.rows) /\ new.view = new.selection
  BY <1>7, <1>11, ResetFacts DEF SelectsRows
<1>13. HasLists(t) /\ t.table = new /\ t.direction = left.direction
  BY <1>8, <1>11 DEF HasLists, DevicesFields
<1> QED BY <1>11, <1>12, <1>13 DEF GoodDevices, IsListed

\* A click selects and unselects rows of the table.
LEMMA ClickFacts ==
  ASSUME NEW table, SelectsRows(table),
         NEW t, \/ \E k \in DOMAIN table.rows, shift \in BOOLEAN :
                     t = DevicesOfHost!ClickRow(table, k, shift)
                \/ t = DevicesOfHost!ToggleAllSelection(table)
  PROVE  SelectsRows(t) /\ t.rows = table.rows
<1>1. ASSUME NEW ids, ids \subseteq Range(table.rows), NEW u,
             u = DevicesOfHost!Selects(table, ids)
      PROVE  /\ SelectsRows(u) /\ u.rows = table.rows
             /\ \A k : /\ SelectsRows([u EXCEPT !.prevClicked = k])
                      /\ [u EXCEPT !.prevClicked = k].rows = table.rows
  BY <1>1 DEF SelectsRows, TableFields, DevicesOfHost!Selects
<1>2. /\ table.selection \subseteq Range(table.rows)
      /\ \A k \in DOMAIN table.rows : table.rows[k] \in Range(table.rows)
  BY DEF SelectsRows, Range
<1>3. ASSUME NEW k \in DOMAIN table.rows, NEW shift \in BOOLEAN,
             t = DevicesOfHost!ClickRow(table, k, shift)
      PROVE  SelectsRows(t) /\ t.rows = table.rows
  <2>1. PICK clicked :
          /\ t = [clicked EXCEPT !.prevClicked = k]
          /\ \/ clicked = DevicesOfHost!RangeSelect(table, k)
             \/ clicked = DevicesOfHost!SingleSelect(table, table.rows[k])
    BY <1>3 DEF DevicesOfHost!ClickRow
  <2>2. CASE clicked = DevicesOfHost!SingleSelect(table, table.rows[k])
    <3>1. PICK ids : /\ ids \subseteq Range(table.rows)
                     /\ clicked = DevicesOfHost!Selects(table, ids)
      BY <1>2, <2>2 DEF DevicesOfHost!SingleSelect
    <3> QED BY <1>1, <2>1, <3>1
  <2>3. CASE clicked = DevicesOfHost!RangeSelect(table, k)
    <3>1. PICK from, to :
            LET range == {table.rows[i] : i \in (from .. to) \cap DOMAIN table.rows}
            IN clicked = DevicesOfHost!Selects(table,
                 IF table.rows[k] \in table.selection THEN table.selection \ range
                 ELSE table.selection \cup range)
      BY <2>3 DEF DevicesOfHost!RangeSelect
    <3>2. PICK range : /\ range = {table.rows[i] : i \in (from .. to) \cap DOMAIN table.rows}
                       /\ clicked = DevicesOfHost!Selects(table,
                            IF table.rows[k] \in table.selection THEN table.selection \ range
                            ELSE table.selection \cup range)
      BY <3>1
    <3>3. range \subseteq Range(table.rows) BY <1>2, <3>2
    <3>4. PICK ids : /\ ids \subseteq Range(table.rows)
                     /\ clicked = DevicesOfHost!Selects(table, ids)
      BY <1>2, <3>2, <3>3
    <3> QED BY <1>1, <2>1, <3>4
  <2> QED BY <2>1, <2>2, <2>3
<1>4. CASE t = DevicesOfHost!ToggleAllSelection(table)
  <2>1. PICK ids : ids \subseteq Range(table.rows) /\ t = DevicesOfHost!Selects(table, ids)
    BY <1>2, <1>4, DevicesLists
    DEF DevicesOfHost!ToggleAllSelection, DevicesOfHost!ClearSelection,
        DevicesOfHost!SelectSelection, DevicesOfHost!RowIds
  <2> QED BY <1>1, <2>1
<1> QED BY <1>3, <1>4

-----------------------------------------------------------------------------
(* The handlers of the list of devices.                                    *)

IsDevicesState(s) == IsOf(s) /\ GoodDevices(s.page) /\ GoodAnswers(s.requests)

LEMMA DevicesHeard ==
  ASSUME GoodDevices(page), GoodAnswers(requests), NEW i \in DOMAIN requests,
         NEW s, s = DevicesOfHost!Heard(i)
  PROVE  IsDevicesState(s) /\ s.page = page
<1>1. IsOf(s) /\ s.page = page /\ s.requests = RemoveAt(requests, i)
  BY DevicesLists DEF IsOf, DevicesOfHost!Heard, DevicesOfHost!State
<1>2. GoodAnswers(RemoveAt(requests, i))
  <2>1. /\ Calls(RemoveAt(requests, i))
        /\ \A k \in DOMAIN RemoveAt(requests, i) :
             \E j \in DOMAIN requests : RemoveAt(requests, i)[k] = requests[j]
    BY HeardKeeps DEF GoodAnswers
  <2> QED BY <2>1 DEF GoodAnswers
<1> QED BY <1>1, <1>2 DEF IsDevicesState

\* A call that is made is not answered yet.
LEMMA DevicesSend ==
  ASSUME NEW s, IsDevicesState(s), NEW kind, NEW arg,
         NEW t, t = DevicesOfHost!Send(s, kind, arg)
  PROVE  IsDevicesState(t)
<1>1. PICK q : q = s.requests OBVIOUS
<1>2. PICK r : r = DevicesOfHost!Request(kind, arg) OBVIOUS
<1>3. DOMAIN r = CallFields /\ r.status = "sent"
  BY <1>2 DEF DevicesOfHost!Request, CallFields
<1>4. IsOf(t) /\ t.page = s.page /\ t.requests = Append(q, r)
  BY <1>1, <1>2 DEF DevicesOfHost!Send, IsDevicesState, IsOf
<1>5. /\ Calls(Append(q, r))
      /\ DOMAIN Append(q, r) = DOMAIN q \cup {Len(q) + 1}
      /\ \A i \in DOMAIN q : Append(q, r)[i] = q[i]
      /\ Append(q, r)[Len(q) + 1] = r
  <2>1. Calls(q) BY <1>1 DEF IsDevicesState, GoodAnswers
  <2> QED BY <1>3, <2>1, AppendCall, Appended DEF Calls, Keeps
<1>6. GoodAnswers(Append(q, r))
  BY <1>1, <1>3, <1>5 DEF IsDevicesState, GoodAnswers
<1> QED BY <1>4, <1>6 DEF IsDevicesState

\* What is shown besides the table and the list.
LEMMA DevicesShow ==
  ASSUME NEW s, IsDevicesState(s), NEW t, NEW x,
         \E f \in {"isLoading", "id", "asks", "fixed", "hostMap", "note"} :
           t = [s EXCEPT !.page[f] = x]
  PROVE  IsDevicesState(t)
<1>1. PICK p : p = s.page OBVIOUS
<1>2. PICK f \in {"isLoading", "id", "asks", "fixed", "hostMap", "note"} :
        t = [s EXCEPT !.page[f] = x]
  OBVIOUS
<1>3. IsOf(t) /\ t.requests = s.requests /\ t.page = [p EXCEPT ![f] = x]
  BY <1>1, <1>2 DEF IsDevicesState, IsOf
<1>4. DOMAIN p = DevicesFields
  BY <1>1 DEF IsDevicesState, GoodDevices, HasLists
<1>5. /\ DOMAIN t.page = DevicesFields /\ t.page.infos = p.infos /\ t.page.table = p.table
      /\ t.page.direction = p.direction
  BY <1>2, <1>3, <1>4 DEF DevicesFields
<1> QED BY <1>1, <1>3, <1>5 DEF IsDevicesState, GoodDevices, HasLists

LEMMA DevicesPut ==
  ASSUME NEW s, IsDevicesState(s), NEW p, GoodDevices(p), NEW t, t = [s EXCEPT !.page = p]
  PROVE  IsDevicesState(t)
BY DEF IsDevicesState, IsOf

LEMMA DevicesLoad ==
  ASSUME NEW s, IsDevicesState(s), NEW t, t = DevicesOfHost!Load(s)
  PROVE  IsDevicesState(t)
<1>1. PICK u : u = [s EXCEPT !.page.isLoading = TRUE] OBVIOUS
<1>2. IsDevicesState(u)
  <2>1. u = [s EXCEPT !.page["isLoading"] = TRUE] BY <1>1
  <2> QED BY <2>1, DevicesShow
<1>3. \E arg : t = DevicesOfHost!Send(u, "devices", arg)
  BY <1>1 DEF DevicesOfHost!Load
<1> QED BY <1>2, <1>3, DevicesSend

LEMMA DevicesBecomes ==
  ASSUME NEW s, IsDevicesState(s), DevicesOfHost!Becomes(s)
  PROVE  GoodDevices(page') /\ GoodAnswers(requests')
BY DEF IsDevicesState, DevicesOfHost!Becomes

LEMMA DevicesNow ==
  ASSUME GoodDevices(page), GoodAnswers(requests), NEW s, s = DevicesOfHost!State
  PROVE  IsDevicesState(s) /\ s.page = page
BY DEF IsDevicesState, IsOf, DevicesOfHost!State

-----------------------------------------------------------------------------
(* The steps of the list of devices.                                       *)

LEMMA DevicesArriveStep ==
  ASSUME GoodDevices(page), GoodAnswers(requests), NEW i \in DOMAIN requests,
         DevicesOfHost!DevicesArrive(i)
  PROVE  GoodDevices(page') /\ GoodAnswers(requests')
<1>1. PICK h : h = DevicesOfHost!Heard(i) OBVIOUS
<1>2. IsDevicesState(h) /\ h.page = page BY <1>1, DevicesHeard
<1>3. ASSUME NEW s, IsDevicesState(s), NEW t, t = [s EXCEPT !.page.isLoading = FALSE]
      PROVE  IsDevicesState(t)
  <2>1. t = [s EXCEPT !.page["isLoading"] = FALSE] BY <1>3
  <2> QED BY <1>3, <2>1, DevicesShow
<1>4. CASE DevicesOfHost!Hears(i, "devices", "ok")
  <2>1. PICK answer, p, source, s :
          /\ answer = requests[i].answer
          /\ p = [page EXCEPT !.infos = answer.devices, !.fixed = answer.fixed,
                              !.note = [d \in DevicesPage.Devices |-> 0], !.loads = @ + 1]
          /\ source = DevicesOfHost!DataSource(p) /\ s = [h EXCEPT !.page = source]
          /\ \/ DevicesOfHost!Becomes([s EXCEPT !.page.isLoading = FALSE])
             \/ \E arg : DevicesOfHost!Becomes(DevicesOfHost!Send(s, "notes", arg))
    BY <1>1, <1>4 DEF DevicesOfHost!DevicesArrive, DevicesOfHost!Hears
  <2>2. Distinct(answer.devices, DevicesPage.Devices)
    BY <1>4, <2>1 DEF GoodAnswers, DevicesOfHost!Hears
  <2>3. HasLists(p) /\ DOMAIN p.table = TableFields
    <3>1. PICK note, loads : p = [page EXCEPT !.infos = answer.devices,
                                   !.fixed = answer.fixed, !.note = note, !.loads = loads]
      BY <2>1
    <3>2. DOMAIN page = DevicesFields /\ DOMAIN page.table = TableFields
      BY DEF GoodDevices, HasLists, IsListed
    <3> QED BY <2>2, <3>1, <3>2 DEF HasLists, DevicesFields
  <2>4. IsDevicesState(s) BY <1>2, <2>1, <2>3, DataSourceFacts, DevicesPut
  <2> QED BY <1>3, <2>1, <2>4, DevicesSend, DevicesBecomes
<1>5. CASE DevicesOfHost!Becomes([h EXCEPT !.page.isLoading = FALSE])
  BY <1>2, <1>3, <1>5, DevicesBecomes
<1> QED BY <1>1, <1>4, <1>5 DEF DevicesOfHost!DevicesArrive, DevicesOfHost!Hears

LEMMA NotesArriveStep ==
  ASSUME GoodDevices(page), GoodAnswers(requests), NEW i \in DOMAIN requests,
         DevicesOfHost!NotesArrive(i)
  PROVE  GoodDevices(page') /\ GoodAnswers(requests')
<1>1. PICK h : h = DevicesOfHost!Heard(i) OBVIOUS
<1>2. IsDevicesState(h) /\ h.page = page BY <1>1, DevicesHeard
<1>3. PICK loading, map, notes, s :
        /\ s = [h EXCEPT !.page.isLoading = loading]
        /\ \/ DevicesOfHost!Becomes([s EXCEPT !.page =
                DevicesOfHost!SetDeviceNotes([@ EXCEPT !.hostMap = map], notes)])
           \/ DevicesOfHost!Becomes(s)
  BY <1>1, <1>2 DEF DevicesOfHost!NotesArrive, IsDevicesState, IsOf
<1>4. IsDevicesState(s)
  <2>1. s = [h EXCEPT !.page["isLoading"] = loading] BY <1>3
  <2> QED BY <1>2, <2>1, DevicesShow
<1>5. CASE DevicesOfHost!Becomes([s EXCEPT !.page =
             DevicesOfHost!SetDeviceNotes([@ EXCEPT !.hostMap = map], notes)])
  <2>1. PICK p : p = [s.page EXCEPT !.hostMap = map] OBVIOUS
  <2>2. PICK t : t = DevicesOfHost!SetDeviceNotes(p, notes) OBVIOUS
  <2>3. PICK r : r = [s EXCEPT !.page = t] OBVIOUS
  <2>4. DevicesOfHost!Becomes(r) BY <1>4, <1>5, <2>1, <2>2, <2>3 DEF IsDevicesState, IsOf
  <2>5. GoodDevices(p)
    <3>1. DOMAIN s.page = DevicesFields BY <1>4 DEF IsDevicesState, GoodDevices, HasLists
    <3>2. /\ DOMAIN p = DevicesFields /\ p.infos = s.page.infos /\ p.table = s.page.table
          /\ p.direction = s.page.direction
      BY <2>1, <3>1 DEF DevicesFields
    <3> QED BY <1>4, <3>2 DEF IsDevicesState, GoodDevices, HasLists
  <2>6. GoodDevices(t)
    <3>1. CASE t = p BY <2>5, <3>1
    <3>2. CASE \E noted : t = DevicesOfHost!DataSource([p EXCEPT !.note = noted])
      <4>1. PICK noted, u : u = [p EXCEPT !.note = noted] /\ t = DevicesOfHost!DataSource(u)
        BY <3>2
      <4>2. HasLists(u) /\ DOMAIN u.table = TableFields
        BY <2>5, <4>1 DEF GoodDevices, HasLists, IsListed, DevicesFields
      <4> QED BY <4>1, <4>2, DataSourceFacts
    <3> QED BY <2>2, <3>1, <3>2 DEF DevicesOfHost!SetDeviceNotes
  <2> QED BY <1>4, <2>3, <2>4, <2>6, DevicesPut, DevicesBecomes
<1>6. CASE DevicesOfHost!Becomes(s) BY <1>4, <1>6, DevicesBecomes
<1> QED BY <1>3, <1>5, <1>6

LEMMA DeviceRemovedStep ==
  ASSUME GoodDevices(page), GoodAnswers(requests), NEW i \in DOMAIN requests,
         DevicesOfHost!DeviceRemoved(i)
  PROVE  GoodDevices(page') /\ GoodAnswers(requests')
<1>1. PICK h : h = DevicesOfHost!Heard(i) OBVIOUS
<1>2. IsDevicesState(h) /\ h.page = page BY <1>1, DevicesHeard
<1>3. PICK p : p = DevicesOfHost!Removed(page, requests[i].arg.device) OBVIOUS
<1>4. GoodDevices(p) BY <1>3, RemovedFacts
<1>5. DevicesOfHost!Becomes([h EXCEPT !.page = p]) \/ DevicesOfHost!Becomes(h)
  BY <1>1, <1>2, <1>3 DEF DevicesOfHost!DeviceRemoved, IsDevicesState, IsOf
<1> QED BY <1>2, <1>4, <1>5, DevicesPut, DevicesBecomes

\* What the user does that makes a call or none, and leaves the table alone.
LEMMA DevicesCallSteps ==
  ASSUME GoodDevices(page), GoodAnswers(requests),
         \/ DevicesOfHost!Refresh
         \/ \E h : DevicesOfHost!SelectHost(h)
         \/ \E b : DevicesOfHost!Confirm(b)
         \/ \E k : DevicesOfHost!ToggleDeviceFixedState(k)
         \/ DevicesOfHost!AddNotes
         \/ \E i \in DOMAIN requests : DevicesOfHost!DeviceMarked(i)
  PROVE  GoodDevices(page') /\ GoodAnswers(requests')
<1>1. PICK s : s = DevicesOfHost!State OBVIOUS
<1>2. IsDevicesState(s) BY <1>1, DevicesNow
<1>3. ASSUME NEW u, NEW x, u = [s EXCEPT !.page.id = x] \/ u = [s EXCEPT !.page.asks = x]
      PROVE  IsDevicesState(u)
  <2>1. u = [s EXCEPT !.page["id"] = x] \/ u = [s EXCEPT !.page["asks"] = x] BY <1>3
  <2> QED BY <1>2, <2>1, DevicesShow
<1>4. CASE DevicesOfHost!Refresh
  BY <1>1, <1>2, <1>4, DevicesLoad, DevicesBecomes DEF DevicesOfHost!Refresh
<1>5. ASSUME NEW h, DevicesOfHost!SelectHost(h)
      PROVE  GoodDevices(page') /\ GoodAnswers(requests')
  <2>1. PICK u : u = [s EXCEPT !.page.id = h] OBVIOUS
  <2>2. DevicesOfHost!Becomes(DevicesOfHost!Load(u))
    BY <1>1, <1>5, <2>1 DEF DevicesOfHost!SelectHost
  <2> QED BY <1>3, <2>1, <2>2, DevicesLoad, DevicesBecomes
<1>6. ASSUME NEW b, DevicesOfHost!Confirm(b)
      PROVE  GoodDevices(page') /\ GoodAnswers(requests')
  <2>1. PICK u, arg : /\ u = [s EXCEPT !.page.asks = DevicesOfHost!NoDevice]
                      /\ \/ DevicesOfHost!Becomes(DevicesOfHost!Send(u, "remove", arg))
                         \/ DevicesOfHost!Becomes(u)
    BY <1>1, <1>6 DEF DevicesOfHost!Confirm
  <2> QED BY <1>3, <2>1, DevicesSend, DevicesBecomes
<1>7. ASSUME NEW kind, NEW arg, DevicesOfHost!Becomes(DevicesOfHost!Send(s, kind, arg))
      PROVE  GoodDevices(page') /\ GoodAnswers(requests')
  BY <1>2, <1>7, DevicesSend, DevicesBecomes
<1>8. ASSUME NEW k, DevicesOfHost!ToggleDeviceFixedState(k)
      PROVE  GoodDevices(page') /\ GoodAnswers(requests')
  BY <1>1, <1>7, <1>8 DEF DevicesOfHost!ToggleDeviceFixedState
<1>9. CASE DevicesOfHost!AddNotes BY <1>1, <1>7, <1>9 DEF DevicesOfHost!AddNotes
<1>10. ASSUME NEW i \in DOMAIN requests, DevicesOfHost!DeviceMarked(i)
       PROVE  GoodDevices(page') /\ GoodAnswers(requests')
  <2>1. PICK h : h = DevicesOfHost!Heard(i) OBVIOUS
  <2>2. IsDevicesState(h) BY <2>1, DevicesHeard
  <2>3. DevicesOfHost!Becomes(h)
          \/ \E fixed : DevicesOfHost!Becomes([h EXCEPT !.page.fixed = fixed])
    BY <1>10, <2>1 DEF DevicesOfHost!DeviceMarked
  <2>4. ASSUME NEW fixed, NEW u, u = [h EXCEPT !.page.fixed = fixed] PROVE IsDevicesState(u)
    <3>1. u = [h EXCEPT !.page["fixed"] = fixed] BY <2>4
    <3> QED BY <2>2, <3>1, DevicesShow
  <2> QED BY <2>2, <2>3, <2>4, DevicesBecomes
<1> QED BY <1>4, <1>5, <1>6, <1>8, <1>9, <1>10

\* What the user does with the table.
LEMMA DevicesTableSteps ==
  ASSUME GoodDevices(page), GoodAnswers(requests),
         \/ \E k \in DOMAIN page.table.rows : \E shift \in BOOLEAN :
              DevicesOfHost!SelectRow(k, shift)
         \/ DevicesOfHost!SelectAllRows
         \/ \E direction : DevicesOfHost!ChangeSort(direction)
         \/ \E k : DevicesOfHost!RemoveDevice(k)
  PROVE  GoodDevices(page') /\ GoodAnswers(requests')
<1>1. requests' = requests
  BY DEF DevicesOfHost!SelectRow, DevicesOfHost!SelectAllRows, DevicesOfHost!ChangeSort,
     DevicesOfHost!RemoveDevice, DevicesOfHost!Shows
<1>2. DOMAIN page = DevicesFields /\ IsListed(page.table, page.direction)
  BY DEF GoodDevices, HasLists
<1>3. ASSUME NEW t, IsListed(t, page.direction), page' = [page EXCEPT !.table = t]
      PROVE  GoodDevices(page')
  BY <1>2, <1>3 DEF GoodDevices, HasLists, DevicesFields
<1>4. ASSUME NEW k \in DOMAIN page.table.rows, NEW shift \in BOOLEAN,
             DevicesOfHost!SelectRow(k, shift)
      PROVE  GoodDevices(page')
  <2>1. PICK t : /\ t = DevicesOfHost!ClickRow(page.table, k, shift)
                 /\ page' = [page EXCEPT !.table = t]
    BY <1>2, <1>4 DEF DevicesOfHost!SelectRow, DevicesOfHost!Shows, DevicesFields
  <2>2. IsListed(t, page.direction) BY <1>2, <2>1, ClickFacts DEF IsListed, SelectsRows
  <2> QED BY <1>3, <2>1, <2>2
<1>5. CASE DevicesOfHost!SelectAllRows
  <2>1. PICK t : /\ t = DevicesOfHost!ToggleAllSelection(page.table)
                 /\ page' = [page EXCEPT !.table = t]
    BY <1>2, <1>5 DEF DevicesOfHost!SelectAllRows, DevicesOfHost!Shows, DevicesFields
  <2>2. IsListed(t, page.direction) BY <1>2, <2>1, ClickFacts DEF IsListed, SelectsRows
  <2> QED BY <1>1, <1>3, <2>1, <2>2
<1>6. ASSUME NEW direction, DevicesOfHost!ChangeSort(direction) PROVE GoodDevices(page')
  <2>1. PICK p : /\ p = [page EXCEPT !.direction = direction]
                 /\ page' = DevicesOfHost!SortData(p)
    BY <1>6 DEF DevicesOfHost!ChangeSort, DevicesOfHost!Shows
  <2>2. HasLists(p) /\ p.table = page.table
    BY <1>2, <2>1 DEF GoodDevices, HasLists, DevicesFields
  <2>3. DOMAIN p.table = TableFields /\ Distinct(p.table.rows, DevicesPage.Devices)
    BY <1>2, <2>2 DEF IsListed
  <2>4. PICK t : t = page' /\ t = DevicesOfHost!SortData(p) BY <2>1
  <2>5. /\ HasLists(t) /\ t.direction = p.direction /\ DOMAIN t.table = TableFields
        /\ Distinct(t.table.rows, DevicesPage.Devices)
        /\ Range(t.table.rows) = Range(p.table.rows)
        /\ t.table.rows = DevicesOfHost!InDirection(t.table.rows, t.direction)
        /\ t.table.selection = p.table.selection /\ t.table.view = p.table.view
    BY <2>2, <2>3, <2>4, SortFacts
  <2>6. GoodDevices(t) BY <1>2, <2>2, <2>5 DEF GoodDevices, IsListed
  <2> QED BY <2>4, <2>6
<1>7. ASSUME NEW k, DevicesOfHost!RemoveDevice(k) PROVE GoodDevices(page')
  <2>1. PICK d : page' = [page EXCEPT !.asks = d]
    BY <1>7 DEF DevicesOfHost!RemoveDevice, DevicesOfHost!Shows
  <2>2. /\ DOMAIN page' = DevicesFields /\ page'.infos = page.infos
        /\ page'.table = page.table /\ page'.direction = page.direction
    BY <1>2, <2>1 DEF DevicesFields
  <2> QED BY <2>2 DEF GoodDevices, HasLists
<1> QED BY <1>1, <1>4, <1>5, <1>6, <1>7

\* The service lists devices it has, in the order of their numbers.
LEMMA DevicesServiceSteps ==
  ASSUME GoodDevices(page), GoodAnswers(requests), GoodService(api),
         NEW i \in DOMAIN requests, DevicesOfHost!Serve(i) \/ DevicesOfHost!Fail(i)
  PROVE  GoodDevices(page') /\ GoodAnswers(requests') /\ GoodService(api')
<1>1. page' = page BY DEF DevicesOfHost!Serve, DevicesOfHost!Fail
<1>2. PICK c : c = requests[i] /\ DOMAIN c = CallFields BY DEF GoodAnswers, Calls
<1>3. ASSUME NEW answer, DevicesOfHost!Answer(i, answer),
             c.kind = "devices" => Distinct(answer.devices, DevicesPage.Devices)
      PROVE  GoodAnswers(requests')
  <2>1. PICK r : r = [c EXCEPT !.status = "ok", !.answer = answer] OBVIOUS
  <2>2. requests' = [requests EXCEPT ![i] = r]
    BY <1>2, <1>3, <2>1 DEF DevicesOfHost!Answer
  <2>3. DOMAIN r = CallFields /\ r.kind = c.kind /\ r.answer = answer
    BY <1>2, <2>1 DEF CallFields
  <2>4. Calls(requests') BY <2>2, <2>3, ChangeCall DEF GoodAnswers, Calls
  <2> QED BY <1>3, <2>2, <2>3, <2>4 DEF GoodAnswers
<1>4. CASE DevicesOfHost!Fail(i)
  <2>1. requests' = [requests EXCEPT ![i].status = "error"] /\ api' = api
    BY <1>4 DEF DevicesOfHost!Fail
  <2>2. PICK r : r = [c EXCEPT !.status = "error"] OBVIOUS
  <2>3. requests' = [requests EXCEPT ![i] = r] BY <1>2, <2>1, <2>2
  <2>4. DOMAIN r = CallFields /\ r.status = "error" BY <1>2, <2>2 DEF CallFields
  <2>5. Calls(requests') BY <2>3, <2>4, ChangeCall DEF GoodAnswers, Calls
  <2> QED BY <1>1, <2>1, <2>3, <2>4, <2>5 DEF GoodAnswers
<1>5. CASE c.kind = "devices" /\ DevicesOfHost!Serve(i)
  <2>1. PICK answer, found :
          /\ DevicesOfHost!Answer(i, answer) /\ api' = api
          /\ found = {d \in api.present : HostOfDevice(d) = c.arg.host}
          /\ answer.devices = DevicesOfHost!Ascending(found)
    BY <1>2, <1>5 DEF DevicesOfHost!Serve
  <2>2. found \in SUBSET DevicesPage.Devices BY <2>1 DEF GoodService
  <2>3. IsFiniteSet(found) BY <2>2, DevicesConstants, FS_Subset
  <2>4. Distinct(answer.devices, DevicesPage.Devices)
    BY <2>1, <2>2, <2>3, DevicesConstants, DevicesLists, AscendingDistinct
  <2> QED BY <1>1, <1>3, <2>1, <2>4
<1>6. CASE c.kind # "devices" /\ DevicesOfHost!Serve(i)
  <2>1. PICK answer : DevicesOfHost!Answer(i, answer)
    BY <1>2, <1>6 DEF DevicesOfHost!Serve
  <2>2. GoodService(api')
    <3>1. \/ api' = api
          \/ \E gone : api' = [api EXCEPT !.present = @ \ gone]
          \/ \E fixed : api' = [api EXCEPT !.fixed = fixed]
      BY <1>6 DEF DevicesOfHost!Serve
    <3> QED BY <3>1 DEF GoodService
  <2> QED BY <1>1, <1>3, <1>6, <2>1, <2>2
<1> QED BY <1>4, <1>5, <1>6

LEMMA DevicesInit ==
  ASSUME DevicesOfHost!Init
  PROVE  GoodDevices(page) /\ GoodAnswers(requests) /\ GoodService(api)
<1>1. PICK p, s, b :
        /\ p = [id |-> DevicesPage.FirstHost, infos |-> <<>>,
                note |-> [d \in DevicesPage.Devices |-> 0],
                fixed |-> {}, loads |-> 0, hostMap |-> <<>>, isLoading |-> FALSE,
                table |-> DevicesOfHost!EmptyTable, isShared |-> FALSE,
                direction |-> "none", asks |-> DevicesOfHost!NoDevice]
        /\ s = DevicesOfHost!Load([requests |-> <<>>, browser |-> b, page |-> p])
        /\ page = s.page /\ requests = s.requests
  BY DEF DevicesOfHost!Init
<1>2. Distinct(<<>>, DevicesPage.Devices) BY DEF Distinct
<1>3. HasLists(p) BY <1>1, <1>2 DEF HasLists, DevicesFields
<1>4. IsListed(p.table, p.direction)
  <2>1. /\ p.direction = "none" /\ p.table.rows = <<>> /\ p.table.selection = {}
        /\ p.table.view = {} /\ DOMAIN p.table = TableFields
    BY <1>1 DEF DevicesOfHost!EmptyTable, TableFields
  <2> QED BY <1>2, <2>1 DEF IsListed, DevicesOfHost!InDirection
<1>5. PICK first : first = [requests |-> <<>>, browser |-> b, page |-> p] OBVIOUS
<1>6. IsDevicesState(first)
  <2>1. GoodAnswers(<<>>) BY NoCalls DEF GoodAnswers
  <2> QED BY <1>3, <1>4, <1>5, <2>1 DEF IsDevicesState, IsOf, GoodDevices
<1>7. IsDevicesState(s) BY <1>1, <1>5, <1>6, DevicesLoad
<1>8. GoodService(api) BY DEF DevicesOfHost!Init, GoodService
<1> QED BY <1>1, <1>7, <1>8 DEF IsDevicesState

LEMMA DevicesNext ==
  ASSUME GoodDevices(page), GoodAnswers(requests), GoodService(api),
         [DevicesOfHost!Next]_vars
  PROVE  GoodDevices(page') /\ GoodAnswers(requests') /\ GoodService(api')
<1>1. CASE UNCHANGED vars BY <1>1 DEF vars
<1>2. CASE \E i \in DOMAIN requests : DevicesOfHost!Serve(i) \/ DevicesOfHost!Fail(i)
  BY <1>2, DevicesServiceSteps
<1>3. CASE \E i \in DOMAIN requests : \/ DevicesOfHost!DevicesArrive(i)
                                      \/ DevicesOfHost!NotesArrive(i)
                                      \/ DevicesOfHost!DeviceRemoved(i)
  <2>1. api' = api
    BY <1>3 DEF DevicesOfHost!DevicesArrive, DevicesOfHost!NotesArrive,
       DevicesOfHost!DeviceRemoved, DevicesOfHost!Hears
  <2> QED BY <1>3, <2>1, DevicesArriveStep, NotesArriveStep, DeviceRemovedStep
<1>4. CASE \/ DevicesOfHost!Refresh
           \/ \E h : DevicesOfHost!SelectHost(h)
           \/ \E b : DevicesOfHost!Confirm(b)
           \/ \E k : DevicesOfHost!ToggleDeviceFixedState(k)
           \/ DevicesOfHost!AddNotes
           \/ \E i \in DOMAIN requests : DevicesOfHost!DeviceMarked(i)
  <2>1. GoodDevices(page') /\ GoodAnswers(requests') BY <1>4, DevicesCallSteps
  <2>2. api' = api \/ \E note : api' = [api EXCEPT !.note = note]
    BY <1>4 DEF DevicesOfHost!Refresh, DevicesOfHost!SelectHost, DevicesOfHost!Confirm,
       DevicesOfHost!ToggleDeviceFixedState, DevicesOfHost!AddNotes,
       DevicesOfHost!DeviceMarked, DevicesOfHost!Hears
  <2> QED BY <2>1, <2>2 DEF GoodService
<1>5. CASE \/ \E k \in DOMAIN page.table.rows : \E shift \in BOOLEAN :
                DevicesOfHost!SelectRow(k, shift)
           \/ DevicesOfHost!SelectAllRows
           \/ \E direction : DevicesOfHost!ChangeSort(direction)
           \/ \E k : DevicesOfHost!RemoveDevice(k)
  <2>1. api' = api
    BY <1>5 DEF DevicesOfHost!SelectRow, DevicesOfHost!SelectAllRows,
       DevicesOfHost!ChangeSort, DevicesOfHost!RemoveDevice, DevicesOfHost!Shows
  <2> QED BY <1>5, <2>1, DevicesTableSteps
<1> QED BY <1>1, <1>2, <1>3, <1>4, <1>5 DEF DevicesOfHost!Next

LEMMA DevicesShown == ASSUME GoodDevices(page) PROVE DevicesOfHost!SelectedDevicesAreShown
<1>1. IsListed(page.table, page.direction) BY DEF GoodDevices
<1> QED
  BY <1>1, DevicesLists DEF IsListed, Distinct, DevicesOfHost!SelectedDevicesAreShown,
     DevicesOfHost!IsInjective

-----------------------------------------------------------------------------
(* The tables of offline hosts.                                            *)

OfflineFields ==
  {"assignments", "urlParams", "selectedLab", "hostGroups", "runTargets", "harnesses",
   "harness", "operator", "hours", "timestamp", "offlineHosts", "assignedHosts",
   "isLoading", "lists", "tables", "behind"}

\* What a list has are hosts.
AreRows(rows) == \A r \in rows : "host" \in DOMAIN r /\ r.host \in OfflineHostsPage.Hosts

\* What the service finds: hosts with all their run targets.
IsRow(r) ==
  \E h \in OfflineHostsPage.Hosts : \E assignee, state :
    r = [host |-> h, assignee |-> assignee, state |-> state,
         targets |-> OfflineHostsPage.Info[h].targets]
AreFound(rows) == \A r \in rows : IsRow(r)

HostsIn(rows) == {r.host : r \in rows}

\* What the lists are made from, and a table for each of them.
HasTables(p) ==
  /\ DOMAIN p = OfflineFields
  /\ AreFound(p.offlineHosts) /\ AreRows(p.assignedHosts)
  /\ DOMAIN p.tables = DOMAIN p.lists
  /\ \A l \in DOMAIN p.lists :
       /\ AreRows(p.lists[l])
       /\ IsSeq(p.tables[l].rows) /\ SelectsRows(p.tables[l])

\* A table that is not behind has the rows of its list.
IsInStep(p, l) == Range(p.tables[l].rows) = HostsIn(p.lists[l])

GoodTables(p) == HasTables(p) /\ \A l \in DOMAIN p.lists \ p.behind : IsInStep(p, l)

\* What the service found are hosts, also while it looks for others.
FindsHosts(c) ==
  c.kind = "hosts" =>
    /\ c.status = "half" => AreFound(c.answer)
    /\ c.status = "ok" => AreFound(c.answer.offline) /\ AreRows(c.answer.assigned)

GoodFinds(q) == Calls(q) /\ \A i \in DOMAIN q : FindsHosts(q[i])

LEMMA OfflineConstants ==
  OfflineHostsPage.Hosts \subseteq Nat /\ IsFiniteSet(OfflineHostsPage.Hosts)
<1>1. ListsOfOfflineHosts!OfflineHostsAssumption BY LabPagesAssumption
<1>2. ListsOfOfflineHosts!IsFiniteSet(OfflineHostsPage.Hosts)
        <=> IsFiniteSet(OfflineHostsPage.Hosts)
  BY DEF ListsOfOfflineHosts!IsFiniteSet, IsFiniteSet
<1> QED BY <1>1, <1>2 DEF ListsOfOfflineHosts!OfflineHostsAssumption

LEMMA OfflineLists ==
  /\ \A S : ListsOfOfflineHosts!Ascending(S) = Ascending(S)
  /\ \A s : ListsOfOfflineHosts!Range(s) = Range(s)
  /\ \A s : ListsOfOfflineHosts!Reversed(s) = Reversed(s)
  /\ \A q, i : ListsOfOfflineHosts!RemoveAt(q, i) = RemoveAt(q, i)
<1>1. \A S : ListsOfOfflineHosts!Ascending(S) = Ascending(S)
  BY DEF ListsOfOfflineHosts!Ascending, Ascending, ListsOfOfflineHosts!Cardinality,
         Cardinality, ListsOfOfflineHosts!IsFiniteSet, IsFiniteSet
<1> QED
  BY <1>1 DEF ListsOfOfflineHosts!Range, Range, ListsOfOfflineHosts!Reversed, Reversed,
     ListsOfOfflineHosts!RemoveAt, RemoveAt

\* The directives of the tables are those of the list of devices.
LEMMA OfflineDirectives ==
  /\ \A t : ListsOfOfflineHosts!ResetSelection(t) = DevicesOfHost!ResetSelection(t)
  /\ \A t : ListsOfOfflineHosts!ToggleAllSelection(t) = DevicesOfHost!ToggleAllSelection(t)
  /\ \A t, k, b : ListsOfOfflineHosts!ClickRow(t, k, b) = DevicesOfHost!ClickRow(t, k, b)
<1>1. /\ \A t, ids : ListsOfOfflineHosts!Selects(t, ids) = DevicesOfHost!Selects(t, ids)
      /\ \A t : ListsOfOfflineHosts!RowIds(t) = DevicesOfHost!RowIds(t)
      /\ \A t : ListsOfOfflineHosts!ResetPrevClickedRowIndex(t) =
                  DevicesOfHost!ResetPrevClickedRowIndex(t)
  BY OfflineLists, DevicesLists
  DEF ListsOfOfflineHosts!Selects, DevicesOfHost!Selects, ListsOfOfflineHosts!RowIds,
      DevicesOfHost!RowIds, ListsOfOfflineHosts!ResetPrevClickedRowIndex,
      DevicesOfHost!ResetPrevClickedRowIndex
<1>2. \A t : ListsOfOfflineHosts!ResetSelection(t) = DevicesOfHost!ResetSelection(t)
  BY <1>1 DEF ListsOfOfflineHosts!ResetSelection, DevicesOfHost!ResetSelection
<1>3. \A t : ListsOfOfflineHosts!IsAllSelected(t) = DevicesOfHost!IsAllSelected(t)
  BY DEF ListsOfOfflineHosts!IsAllSelected, DevicesOfHost!IsAllSelected,
     ListsOfOfflineHosts!Cardinality, DevicesOfHost!Cardinality,
     ListsOfOfflineHosts!IsFiniteSet, DevicesOfHost!IsFiniteSet
<1>4. \A t : ListsOfOfflineHosts!ToggleAllSelection(t) = DevicesOfHost!ToggleAllSelection(t)
  BY <1>1, <1>3
  DEF ListsOfOfflineHosts!ToggleAllSelection, DevicesOfHost!ToggleAllSelection,
      ListsOfOfflineHosts!ClearSelection, DevicesOfHost!ClearSelection,
      ListsOfOfflineHosts!SelectSelection, DevicesOfHost!SelectSelection
<1>5. /\ \A t, k : ListsOfOfflineHosts!SingleSelect(t, k) = DevicesOfHost!SingleSelect(t, k)
      /\ \A t, k : ListsOfOfflineHosts!RangeSelect(t, k) = DevicesOfHost!RangeSelect(t, k)
  BY <1>1
  DEF ListsOfOfflineHosts!SingleSelect, DevicesOfHost!SingleSelect,
      ListsOfOfflineHosts!RangeSelect, DevicesOfHost!RangeSelect
<1>6. \A t, k, b : ListsOfOfflineHosts!ClickRow(t, k, b) = DevicesOfHost!ClickRow(t, k, b)
  BY <1>5 DEF ListsOfOfflineHosts!ClickRow, DevicesOfHost!ClickRow
<1> QED BY <1>2, <1>4, <1>6

LEMMA FoundAreRows ==
  ASSUME NEW rows, AreFound(rows)
  PROVE  AreRows(rows)
BY DEF AreFound, IsRow, AreRows

\* The table of a list of hosts.
LEMMA RowsAreNumbers ==
  ASSUME NEW rows, AreRows(rows)
  PROVE  /\ IsSeq(Ascending(HostsIn(rows)))
         /\ Range(Ascending(HostsIn(rows))) = HostsIn(rows)
<1>1. HostsIn(rows) \subseteq OfflineHostsPage.Hosts BY DEF AreRows, HostsIn
<1>2. IsFiniteSet(HostsIn(rows)) BY <1>1, OfflineConstants, FS_Subset
<1> QED BY <1>1, <1>2, OfflineConstants, AscendingRange

\* The filters keep hosts of what they are given.
LEMMA FilterFacts ==
  ASSUME NEW p, NEW rows, AreRows(rows), NEW b
  PROVE  AreRows(ListsOfOfflineHosts!Filtered(p, rows, b))
<1>1. ASSUME NEW R, AreRows(R), NEW x, NEW t, t = ListsOfOfflineHosts!FilterTestHarness(R, x)
      PROVE  AreRows(t)
  BY <1>1 DEF AreRows, ListsOfOfflineHosts!FilterTestHarness
<1>2. ASSUME NEW R, AreRows(R), NEW x, NEW t, t = ListsOfOfflineHosts!FilterHostGroup(R, x)
      PROVE  AreRows(t)
  BY <1>2 DEF AreRows, ListsOfOfflineHosts!FilterHostGroup
<1>3. ASSUME NEW R, AreRows(R), NEW x, NEW y, NEW t,
             t = ListsOfOfflineHosts!FilterRunTarget(R, x, y)
      PROVE  AreRows(t)
  <2>1. CASE t = R BY <1>3, <2>1
  <2>2. CASE t # R
    <3>1. ASSUME NEW e \in t PROVE \E r \in R : \E v : e = [r EXCEPT !.targets = v]
      BY <1>3, <2>2, <3>1 DEF ListsOfOfflineHosts!FilterRunTarget
    <3>2. ASSUME NEW e \in t PROVE "host" \in DOMAIN e /\ e.host \in OfflineHostsPage.Hosts
      <4>0. PICK r \in R : \E v : e = [r EXCEPT !.targets = v] BY <3>1
      <4>1. PICK v : e = [r EXCEPT !.targets = v] BY <4>0
      <4>2. "host" \in DOMAIN r /\ r.host \in OfflineHostsPage.Hosts BY <1>3 DEF AreRows
      <4> QED BY <4>1, <4>2
    <3> QED BY <3>2 DEF AreRows
  <2> QED BY <2>1, <2>2
<1> QED BY <1>1, <1>2, <1>3
     DEF ListsOfOfflineHosts!Filtered, ListsOfOfflineHosts!FilterHostListDataSource

\* Of the component only what is not shown by a table has changed.
SameTables(p, t) ==
  /\ DOMAIN t = DOMAIN p /\ t.lists = p.lists /\ t.tables = p.tables
  /\ t.behind = p.behind /\ t.offlineHosts = p.offlineHosts
  /\ t.assignedHosts = p.assignedHosts

LEMMA SameAreGood ==
  ASSUME NEW p, GoodTables(p), NEW t, SameTables(p, t)
  PROVE  GoodTables(t)
BY DEF GoodTables, HasTables, IsInStep, SameTables

OtherOfflineFields ==
  OfflineFields \ {"lists", "tables", "behind", "offlineHosts", "assignedHosts"}

LEMMA FieldIsOther ==
  ASSUME NEW p, DOMAIN p = OfflineFields, NEW f \in OtherOfflineFields, NEW x,
         NEW t, t = [p EXCEPT ![f] = x]
  PROVE  SameTables(p, t) /\ DOMAIN t = OfflineFields
BY DEF SameTables, OfflineFields, OtherOfflineFields

LEMMA SameOn ==
  ASSUME NEW p, NEW t, NEW u, SameTables(p, t), SameTables(t, u)
  PROVE  SameTables(p, u)
BY DEF SameTables

\* The filters are chosen anew, kept or reset.
LEMMA SelectionsFacts ==
  ASSUME NEW p, DOMAIN p = OfflineFields
  PROVE  /\ \A url, stored : SameTables(p, ListsOfOfflineHosts!InitSelections(p, url, stored))
         /\ SameTables(p, ListsOfOfflineHosts!KeepSelections(p))
         /\ SameTables(p, ListsOfOfflineHosts!ResetSelections(p))
         /\ \A url, stored :
              SameTables(p, ListsOfOfflineHosts!InitLastCheckInSelection(p, url, stored))
<1>1. ASSUME NEW a, NEW b, NEW c, NEW d, NEW q, DOMAIN q = OfflineFields, NEW t,
             t = [q EXCEPT !.hostGroups = a, !.runTargets = b, !.harnesses = c, !.harness = d]
      PROVE  SameTables(q, t)
  BY <1>1 DEF SameTables, OfflineFields
<1>2. ASSUME NEW url, NEW stored
      PROVE  SameTables(p, ListsOfOfflineHosts!InitSelections(p, url, stored))
  <2>1. PICK a, b, c, d :
          ListsOfOfflineHosts!InitSelections(p, url, stored) =
            [p EXCEPT !.hostGroups = a, !.runTargets = b, !.harnesses = c, !.harness = d]
    BY DEF ListsOfOfflineHosts!InitSelections
  <2> QED BY <1>1, <2>1
<1>3. SameTables(p, ListsOfOfflineHosts!KeepSelections(p))
  <2>1. PICK a, b, c, d :
          ListsOfOfflineHosts!KeepSelections(p) =
            [p EXCEPT !.hostGroups = a, !.runTargets = b, !.harnesses = c, !.harness = d]
    BY DEF ListsOfOfflineHosts!KeepSelections, OfflineFields
  <2> QED BY <1>1, <2>1
<1>4. SameTables(p, ListsOfOfflineHosts!ResetSelections(p))
  <2>1. PICK q : q = ListsOfOfflineHosts!KeepSelections(p) OBVIOUS
  <2>2. PICK a, b : ListsOfOfflineHosts!ResetSelections(p) =
                      [q EXCEPT !.hostGroups = a, !.runTargets = b]
    BY <2>1 DEF ListsOfOfflineHosts!ResetSelections
  <2>3. SameTables(p, q) BY <1>3, <2>1
  <2> QED BY <2>2, <2>3 DEF SameTables, OfflineFields
<1>5. ASSUME NEW url, NEW stored
      PROVE  SameTables(p, ListsOfOfflineHosts!InitLastCheckInSelection(p, url, stored))
  <2>1. PICK a, b, c : ListsOfOfflineHosts!InitLastCheckInSelection(p, url, stored) =
                         [p EXCEPT !.operator = a, !.hours = b, !.timestamp = c]
    BY DEF ListsOfOfflineHosts!InitLastCheckInSelection, OfflineFields
  <2> QED BY <2>1 DEF SameTables, OfflineFields
<1> QED BY <1>2, <1>3, <1>4, <1>5

-----------------------------------------------------------------------------
(* The handlers of the lists of offline hosts.                             *)

IsOfflineState(s) == IsOf(s) /\ GoodTables(s.page) /\ GoodFinds(s.requests)

LEMMA OfflineHeard ==
  ASSUME GoodTables(page), GoodFinds(requests), NEW i \in DOMAIN requests,
         NEW s, s = ListsOfOfflineHosts!Heard(i)
  PROVE  IsOfflineState(s) /\ s.page = page
<1>1. IsOf(s) /\ s.page = page /\ s.requests = RemoveAt(requests, i)
  BY OfflineLists DEF IsOf, ListsOfOfflineHosts!Heard, ListsOfOfflineHosts!State
<1>2. /\ Calls(RemoveAt(requests, i))
      /\ \A k \in DOMAIN RemoveAt(requests, i) :
           \E j \in DOMAIN requests : RemoveAt(requests, i)[k] = requests[j]
  BY HeardKeeps DEF GoodFinds
<1>3. GoodFinds(RemoveAt(requests, i)) BY <1>2 DEF GoodFinds
<1> QED BY <1>1, <1>3 DEF IsOfflineState

\* A call that is made has found nothing yet.
LEMMA OfflineSend ==
  ASSUME NEW s, IsOfflineState(s), NEW kind, NEW arg,
         NEW t, t = ListsOfOfflineHosts!Send(s, kind, arg)
  PROVE  IsOfflineState(t)
<1>1. PICK q : q = s.requests OBVIOUS
<1>2. PICK r : r = ListsOfOfflineHosts!Request(kind, arg) OBVIOUS
<1>3. DOMAIN r = CallFields /\ r.status = "sent"
  BY <1>2 DEF ListsOfOfflineHosts!Request, CallFields
<1>4. IsOf(t) /\ t.page = s.page /\ t.requests = Append(q, r)
  BY <1>1, <1>2 DEF ListsOfOfflineHosts!Send, IsOfflineState, IsOf
<1>5. /\ Calls(Append(q, r))
      /\ DOMAIN Append(q, r) = DOMAIN q \cup {Len(q) + 1}
      /\ \A i \in DOMAIN q : Append(q, r)[i] = q[i]
      /\ Append(q, r)[Len(q) + 1] = r
  <2>1. Calls(q) BY <1>1 DEF IsOfflineState, GoodFinds
  <2> QED BY <1>3, <2>1, AppendCall, Appended DEF Calls, Keeps
<1>6. FindsHosts(r) BY <1>3 DEF FindsHosts
<1>7. GoodFinds(Append(q, r)) BY <1>1, <1>5, <1>6 DEF IsOfflineState, GoodFinds
<1> QED BY <1>4, <1>7 DEF IsOfflineState

LEMMA OfflinePut ==
  ASSUME NEW s, IsOfflineState(s), NEW p, GoodTables(p), NEW t, t = [s EXCEPT !.page = p]
  PROVE  IsOfflineState(t) /\ t.page = p
BY DEF IsOfflineState, IsOf

\* What the browser remembers is not the component's.
LEMMA OfflineStored ==
  ASSUME NEW s, IsOfflineState(s)
  PROVE  /\ \A b : IsOfflineState(ListsOfOfflineHosts!UpdateLocalStorage(s, b))
         /\ IsOfflineState(ListsOfOfflineHosts!ReplaceState(s))
         /\ ListsOfOfflineHosts!ReplaceState(s).page = s.page
<1>1. ASSUME NEW f, NEW x, NEW t, t = [s EXCEPT !.browser[f] = x]
      PROVE  IsOfflineState(t) /\ t.page = s.page
  BY <1>1 DEF IsOfflineState, IsOf
<1>2. ASSUME NEW b PROVE IsOfflineState(ListsOfOfflineHosts!UpdateLocalStorage(s, b))
  <2>1. PICK x : ListsOfOfflineHosts!UpdateLocalStorage(s, b)
                   = [s EXCEPT !.browser.criteria = x]
    BY DEF ListsOfOfflineHosts!UpdateLocalStorage
  <2> QED BY <1>1, <2>1
<1> QED BY <1>1, <1>2 DEF ListsOfOfflineHosts!ReplaceState

\* The lists are filtered anew: each table is behind then.
LEMMA FilterState ==
  ASSUME NEW s, IsOf(s), HasTables(s.page), GoodFinds(s.requests),
         NEW t, t = ListsOfOfflineHosts!FilterHostListsDataSources(s)
  PROVE  IsOfflineState(t) /\ t.page.behind = DOMAIN t.page.lists
<1>1. PICK p : p = s.page OBVIOUS
<1>2. PICK hosts, assigned :
        /\ hosts = ListsOfOfflineHosts!Filtered(p, p.offlineHosts, TRUE)
        /\ assigned = ListsOfOfflineHosts!Filtered(p, p.assignedHosts, FALSE)
  OBVIOUS
<1>3. AreRows(hosts) /\ AreRows(assigned)
  BY <1>1, <1>2, FoundAreRows, FilterFacts DEF HasTables
<1>4. PICK lists :
        /\ lists = [l \in DOMAIN p.lists |->
             CASE l = "hosts" -> hosts
               [] l = "unassigned" ->
                    {r \in hosts : r.assignee = ListsOfOfflineHosts!Nobody}
               [] l = "me" -> {r \in assigned : r.assignee = OfflineHostsPage.Me}
               [] OTHER -> {r \in assigned : r.assignee \notin
                              {OfflineHostsPage.Me, ListsOfOfflineHosts!Nobody}}]
        /\ t = [s EXCEPT !.page.lists = lists, !.page.behind = DOMAIN p.lists]
  BY <1>1, <1>2 DEF ListsOfOfflineHosts!FilterHostListsDataSources, IsOf, HasTables,
     OfflineFields
<1>5. \A l \in DOMAIN p.lists : AreRows(lists[l])
  <2> TAKE l \in DOMAIN p.lists
  <2>1. lists[l] \subseteq hosts \/ lists[l] \subseteq assigned BY <1>4
  <2> QED BY <1>3, <2>1 DEF AreRows
<1>6. /\ IsOf(t) /\ t.requests = s.requests
      /\ t.page = [p EXCEPT !.lists = lists, !.behind = DOMAIN p.lists]
  BY <1>1, <1>4 DEF IsOf
<1>7. DOMAIN p = OfflineFields BY <1>1 DEF HasTables
<1>8. /\ DOMAIN t.page = OfflineFields /\ t.page.lists = lists
      /\ t.page.behind = DOMAIN p.lists /\ t.page.tables = p.tables
      /\ t.page.offlineHosts = p.offlineHosts /\ t.page.assignedHosts = p.assignedHosts
  BY <1>6, <1>7 DEF OfflineFields
<1>9. DOMAIN lists = DOMAIN p.lists BY <1>4
<1>10. HasTables(t.page) BY <1>1, <1>5, <1>8, <1>9 DEF HasTables
<1> QED BY <1>6, <1>8, <1>9, <1>10 DEF IsOfflineState, GoodTables

\* Another choice of filters.
LEMMA ReloadHostsState ==
  ASSUME NEW s, IsOfflineState(s), NEW t, t = ListsOfOfflineHosts!ReloadHosts(s)
  PROVE  IsOfflineState(t)
<1>1. PICK r : r = ListsOfOfflineHosts!ReplaceState(s) OBVIOUS
<1>2. IsOfflineState(r) /\ r.page = s.page BY <1>1, OfflineStored
<1>3. PICK shown : shown = ListsOfOfflineHosts!FilterHostListsDataSources(r) OBVIOUS
<1>4. IsOfflineState(shown) /\ shown.page.behind = DOMAIN shown.page.lists
  BY <1>2, <1>3, FilterState DEF IsOfflineState, GoodTables
<1>5. PICK told :
        /\ told = shown
             \/ told = [shown EXCEPT !.page.tables["hosts"] =
                          ListsOfOfflineHosts!ResetSelection(@)]
        /\ t = ListsOfOfflineHosts!UpdateLocalStorage(told, FALSE)
  BY <1>1, <1>3 DEF ListsOfOfflineHosts!ReloadHosts
<1>6. IsOfflineState(told)
  <2>1. CASE told = shown BY <1>4, <2>1
  <2>2. CASE told = [shown EXCEPT !.page.tables["hosts"] =
                       ListsOfOfflineHosts!ResetSelection(@)]
    <3>1. PICK p : p = shown.page /\ DOMAIN p = OfflineFields
      BY <1>4 DEF IsOfflineState, GoodTables, HasTables
    <3>2. PICK tables :
            tables = [p.tables EXCEPT !["hosts"] =
                        ListsOfOfflineHosts!ResetSelection(@)]
      OBVIOUS
    <3>3. /\ IsOf(told) /\ told.requests = shown.requests
          /\ told.page = [p EXCEPT !.tables = tables]
      BY <1>4, <2>2, <3>1, <3>2 DEF IsOfflineState, IsOf, OfflineFields
    <3>4. DOMAIN tables = DOMAIN p.tables BY <3>2
    <3>5. \A l \in DOMAIN p.tables :
            tables[l] = p.tables[l]
              \/ tables[l] = DevicesOfHost!ResetSelection(p.tables[l])
      BY <3>2, OfflineDirectives
    <3>6. \A l \in DOMAIN p.lists :
            /\ AreRows(p.lists[l]) /\ DOMAIN p.tables = DOMAIN p.lists
            /\ IsSeq(p.tables[l].rows) /\ SelectsRows(p.tables[l])
      BY <1>4, <3>1 DEF IsOfflineState, GoodTables, HasTables
    <3>7. ASSUME NEW l \in DOMAIN p.lists
          PROVE  IsSeq(tables[l].rows) /\ SelectsRows(tables[l])
      <4>1. CASE tables[l] = p.tables[l] BY <3>6, <4>1
      <4>2. CASE tables[l] = DevicesOfHost!ResetSelection(p.tables[l])
        <5>1. PICK table : table = p.tables[l] OBVIOUS
        <5>2. DOMAIN table = TableFields /\ table.view = table.selection
          BY <3>6, <5>1 DEF SelectsRows
        <5>3. SelectsRows(tables[l]) /\ tables[l].rows = table.rows
          BY <4>2, <5>1, <5>2, ResetFacts
        <5> QED BY <3>6, <5>1, <5>3
      <4> QED BY <3>5, <3>6, <4>1, <4>2
    <3>8. /\ DOMAIN told.page = OfflineFields /\ told.page.lists = p.lists
          /\ told.page.behind = p.behind /\ told.page.tables = tables
          /\ told.page.offlineHosts = p.offlineHosts
          /\ told.page.assignedHosts = p.assignedHosts
      BY <3>1, <3>3 DEF OfflineFields
    <3>9. AreFound(p.offlineHosts) /\ AreRows(p.assignedHosts)
            /\ DOMAIN p.tables = DOMAIN p.lists
      BY <1>4, <3>1 DEF IsOfflineState, GoodTables, HasTables
    <3>10. HasTables(told.page) BY <3>4, <3>6, <3>7, <3>8, <3>9 DEF HasTables
    <3>11. GoodTables(told.page) BY <1>4, <3>1, <3>8, <3>10 DEF GoodTables
    <3> QED BY <1>4, <3>3, <3>11 DEF IsOfflineState
  <2> QED BY <1>5, <2>1, <2>2
<1> QED BY <1>5, <1>6, OfflineStored

LEMMA OfflineBecomes ==
  ASSUME NEW s, IsOfflineState(s), ListsOfOfflineHosts!Becomes(s)
  PROVE  GoodTables(page') /\ GoodFinds(requests')
BY DEF IsOfflineState, ListsOfOfflineHosts!Becomes

LEMMA OfflineNow ==
  ASSUME GoodTables(page), GoodFinds(requests), NEW s, s = ListsOfOfflineHosts!State
  PROVE  IsOfflineState(s) /\ s.page = page
BY DEF IsOfflineState, IsOf, ListsOfOfflineHosts!State

\* A field of the component that no table shows.
LEMMA OfflineShow ==
  ASSUME NEW s, IsOfflineState(s), NEW f \in OtherOfflineFields, NEW x,
         NEW t, t = [s EXCEPT !.page[f] = x]
  PROVE  IsOfflineState(t) /\ SameTables(s.page, t.page)
<1>1. PICK p : p = [s.page EXCEPT ![f] = x] OBVIOUS
<1>2. IsOf(t) /\ t.page = p /\ t.requests = s.requests
  BY <1>1 DEF IsOfflineState, IsOf
<1>3. DOMAIN s.page = OfflineFields BY DEF IsOfflineState, GoodTables, HasTables
<1>4. SameTables(s.page, p) BY <1>1, <1>3, FieldIsOther
<1>5. GoodTables(p) BY <1>4, SameAreGood DEF IsOfflineState
<1> QED BY <1>2, <1>4, <1>5 DEF IsOfflineState

LEMMA GetHostsState ==
  ASSUME NEW s, IsOfflineState(s), NEW next, NEW t,
         t = ListsOfOfflineHosts!GetHosts(s, next) \/ t = ListsOfOfflineHosts!Reload(s, next)
  PROVE  IsOfflineState(t)
<1>1. ASSUME NEW u, IsOfflineState(u), t = ListsOfOfflineHosts!GetHosts(u, next)
      PROVE  IsOfflineState(t)
  <2>1. PICK arg : t = ListsOfOfflineHosts!Send(u, "hosts", arg)
    BY <1>1 DEF ListsOfOfflineHosts!GetHosts
  <2> QED BY <1>1, <2>1, OfflineSend
<1>2. PICK u : u = [s EXCEPT !.page["isLoading"] = TRUE] OBVIOUS
<1>3. IsOfflineState(u)
  BY <1>2, OfflineShow DEF OtherOfflineFields, OfflineFields
<1>4. \/ t = s \/ t = ListsOfOfflineHosts!GetHosts(s, next)
      \/ t = ListsOfOfflineHosts!GetHosts(u, next)
  BY <1>2 DEF ListsOfOfflineHosts!Reload
<1> QED BY <1>1, <1>3, <1>4

\* A page that is opened has empty lists and tables.
LEMMA FreshIsGood ==
  ASSUME NEW b, NEW params, NEW p, p = ListsOfOfflineHosts!FreshOfflineHosts(b, params)
  PROVE  GoodTables(p)
<1>1. PICK lists :
        /\ p.lists = [l \in lists |-> {}] /\ p.behind = {}
        /\ p.tables = [l \in lists |-> ListsOfOfflineHosts!EmptyTable]
        /\ p.offlineHosts = {} /\ p.assignedHosts = {} /\ DOMAIN p = OfflineFields
  BY DEF ListsOfOfflineHosts!FreshOfflineHosts, OfflineFields
<1>2. PICK e : e = ListsOfOfflineHosts!EmptyTable OBVIOUS
<1>3. SelectsRows(e) /\ e.rows = <<>>
  BY <1>2 DEF ListsOfOfflineHosts!EmptyTable, SelectsRows, TableFields
<1>4. Range(<<>>) = {} BY DEF Range
<1>5. AreRows({}) /\ AreFound({}) /\ HostsIn({}) = {} BY DEF AreRows, AreFound, HostsIn
<1>6. IsSeq(<<>>) BY NoCalls DEF Calls
<1> QED BY <1>1, <1>2, <1>3, <1>4, <1>5, <1>6 DEF GoodTables, HasTables, IsInStep

LEMMA OpenState ==
  ASSUME NEW s, IsOf(s), NEW b, NEW params, NEW t, t = ListsOfOfflineHosts!Open(s, b, params)
  PROVE  IsOfflineState(t)
<1>1. PICK fresh, p, u :
        /\ fresh = ListsOfOfflineHosts!FreshOfflineHosts(b, params)
        /\ p = ListsOfOfflineHosts!InitLastCheckInSelection(fresh, params, s.browser.criteria)
        /\ u = [s EXCEPT !.page = p, !.requests = <<>>]
        /\ t = ListsOfOfflineHosts!Send(u, "labs", {})
  BY DEF ListsOfOfflineHosts!Open
<1>2. GoodTables(fresh) BY <1>1, FreshIsGood
<1>3. GoodTables(p)
  <2>1. SameTables(fresh, p) BY <1>1, <1>2, SelectionsFacts DEF GoodTables, HasTables
  <2> QED BY <1>2, <2>1, SameAreGood
<1>4. IsOfflineState(u)
  <2>1. GoodFinds(<<>>) BY NoCalls DEF GoodFinds
  <2> QED BY <1>1, <1>3, <2>1 DEF IsOfflineState, IsOf
<1> QED BY <1>1, <1>4, OfflineSend

-----------------------------------------------------------------------------
(* The steps of the lists of offline hosts.                                *)

\* The hosts of the lab have arrived: the filters are set and the lists made anew.
LEMMA TakeHostsState ==
  ASSUME NEW s, IsOfflineState(s), NEW answer, AreFound(answer.offline),
         AreRows(answer.assigned), NEW next, NEW t,
         t = ListsOfOfflineHosts!TakeHosts(s, answer, next)
  PROVE  IsOfflineState(t)
<1>1. PICK p : p = [s.page EXCEPT !.offlineHosts = answer.offline,
                                  !.assignedHosts = answer.assigned, !.isLoading = FALSE]
  OBVIOUS
<1>2. HasTables(p) /\ GoodTables(p)
  <2>1. GoodTables(s.page) /\ DOMAIN s.page = OfflineFields
    BY DEF IsOfflineState, GoodTables, HasTables
  <2>2. /\ DOMAIN p = OfflineFields /\ p.lists = s.page.lists /\ p.tables = s.page.tables
        /\ p.behind = s.page.behind /\ p.offlineHosts = answer.offline
        /\ p.assignedHosts = answer.assigned
    BY <1>1, <2>1 DEF OfflineFields
  <2> QED BY <2>1, <2>2 DEF GoodTables, HasTables, IsInStep
<1>3. ASSUME NEW q, SameTables(p, q), NEW u, u = [s EXCEPT !.page = q]
      PROVE  IsOfflineState(u)
  BY <1>2, <1>3, SameAreGood, OfflinePut
<1>4. ASSUME NEW u, IsOfflineState(u), NEW b,
             t = ListsOfOfflineHosts!UpdateLocalStorage(
                   ListsOfOfflineHosts!FilterHostListsDataSources(
                     ListsOfOfflineHosts!ReplaceState(u)), b)
      PROVE  IsOfflineState(t)
  <2>1. PICK r, f : /\ r = ListsOfOfflineHosts!ReplaceState(u)
                    /\ f = ListsOfOfflineHosts!FilterHostListsDataSources(r)
    OBVIOUS
  <2>2. IsOfflineState(r) BY <1>4, <2>1, OfflineStored
  <2>3. IsOfflineState(f) BY <2>1, <2>2, FilterState DEF IsOfflineState, GoodTables
  <2> QED BY <1>4, <2>1, <2>3, OfflineStored
<1>5. DOMAIN p = OfflineFields BY <1>2 DEF HasTables
<1>6. CASE next = "load"
  <2>1. PICK inited, timed, u :
          /\ inited = ListsOfOfflineHosts!InitSelections(p, p.urlParams, s.browser.criteria)
          /\ timed = inited
               \/ timed = ListsOfOfflineHosts!InitLastCheckInSelection(
                            inited, p.urlParams, s.browser.criteria)
          /\ u = [s EXCEPT !.page = timed]
          /\ t = ListsOfOfflineHosts!UpdateLocalStorage(
                   ListsOfOfflineHosts!FilterHostListsDataSources(
                     ListsOfOfflineHosts!ReplaceState(u)), TRUE)
    BY <1>1, <1>6 DEF ListsOfOfflineHosts!TakeHosts
  <2>2. SameTables(p, inited) BY <1>5, <2>1, SelectionsFacts
  <2>3. SameTables(p, timed)
    <3>1. DOMAIN inited = OfflineFields BY <1>5, <2>2 DEF SameTables
    <3>2. SameTables(inited, timed) \/ timed = inited BY <2>1, <3>1, SelectionsFacts
    <3> QED BY <2>2, <3>2, SameOn
  <2> QED BY <1>3, <1>4, <2>1, <2>3
<1>7. CASE next = "lab"
  <2>1. PICK q, u :
          /\ q = ListsOfOfflineHosts!ResetSelections(p) /\ u = [s EXCEPT !.page = q]
          /\ t = ListsOfOfflineHosts!UpdateLocalStorage(
                   ListsOfOfflineHosts!FilterHostListsDataSources(
                     ListsOfOfflineHosts!ReplaceState(u)), FALSE)
    BY <1>1, <1>7 DEF ListsOfOfflineHosts!TakeHosts
  <2>2. SameTables(p, q) BY <1>5, <2>1, SelectionsFacts
  <2> QED BY <1>3, <1>4, <2>1, <2>2
<1>8. CASE next = "filters"
  <2>1. PICK q, u :
          /\ q = ListsOfOfflineHosts!KeepSelections(p) /\ u = [s EXCEPT !.page = q]
          /\ t = ListsOfOfflineHosts!ReloadHosts(u)
    BY <1>1, <1>8 DEF ListsOfOfflineHosts!TakeHosts
  <2>2. SameTables(p, q) BY <1>5, <2>1, SelectionsFacts
  <2> QED BY <1>3, <2>1, <2>2, ReloadHostsState
<1>9. CASE next # "load" /\ next # "lab" /\ next # "filters"
  <2>1. PICK u : u = [s EXCEPT !.page = p] /\ t = ListsOfOfflineHosts!ReloadHosts(u)
    BY <1>1, <1>9 DEF ListsOfOfflineHosts!TakeHosts
  <2>2. SameTables(p, p) BY DEF SameTables
  <2> QED BY <1>3, <2>1, <2>2, ReloadHostsState
<1> QED BY <1>6, <1>7, <1>8, <1>9

\* What the component hears of.
LEMMA OfflineHearsStep ==
  ASSUME GoodTables(page), GoodFinds(requests), NEW i \in DOMAIN requests,
         \/ ListsOfOfflineHosts!LabsArrive(i)
         \/ ListsOfOfflineHosts!HostsArrive(i)
         \/ ListsOfOfflineHosts!CallFails(i)
  PROVE  GoodTables(page') /\ GoodFinds(requests')
<1>1. PICK h : h = ListsOfOfflineHosts!Heard(i) OBVIOUS
<1>2. IsOfflineState(h) /\ h.page = page BY <1>1, OfflineHeard
<1>3. "selectedLab" \in OtherOfflineFields /\ "isLoading" \in OtherOfflineFields
  BY DEF OtherOfflineFields, OfflineFields
<1>4. CASE ListsOfOfflineHosts!LabsArrive(i)
  <2>1. PICK lab, u : /\ u = [h EXCEPT !.page["selectedLab"] = lab]
                      /\ ListsOfOfflineHosts!Becomes(ListsOfOfflineHosts!GetHosts(u, "load"))
    BY <1>1, <1>4 DEF ListsOfOfflineHosts!LabsArrive
  <2>2. IsOfflineState(u) BY <1>2, <1>3, <2>1, OfflineShow
  <2> QED BY <2>1, <2>2, GetHostsState, OfflineBecomes
<1>5. CASE ListsOfOfflineHosts!HostsArrive(i)
  <2>1. PICK answer, next :
          /\ answer = requests[i].answer
          /\ ListsOfOfflineHosts!Becomes(ListsOfOfflineHosts!TakeHosts(h, answer, next))
          /\ requests[i].kind = "hosts" /\ requests[i].status = "ok"
    BY <1>1, <1>5 DEF ListsOfOfflineHosts!HostsArrive, ListsOfOfflineHosts!Hears
  <2>2. AreFound(answer.offline) /\ AreRows(answer.assigned)
    BY <2>1 DEF GoodFinds, FindsHosts
  <2> QED BY <1>2, <2>1, <2>2, TakeHostsState, OfflineBecomes
<1>6. CASE ListsOfOfflineHosts!CallFails(i)
  <2>1. PICK b, u : u = [h EXCEPT !.page["isLoading"] = b] /\ ListsOfOfflineHosts!Becomes(u)
    BY <1>1, <1>2, <1>6 DEF ListsOfOfflineHosts!CallFails, IsOfflineState, IsOf
  <2>2. IsOfflineState(u) BY <1>2, <1>3, <2>1, OfflineShow
  <2> QED BY <2>1, <2>2, OfflineBecomes
<1> QED BY <1>4, <1>5, <1>6

\* Hosts that were verified leave the list of the user.
LEMMA RemoveSelectedState ==
  ASSUME NEW s, IsOfflineState(s), NEW gone, NEW t,
         t = [s EXCEPT !.page.lists["me"] = {r \in @ : r.host \notin gone},
                       !.page.tables["me"] = ListsOfOfflineHosts!ResetSelection(@),
                       !.page.behind = @ \cup {"me"}]
  PROVE  IsOfflineState(t)
<1>1. PICK p : p = s.page /\ GoodTables(p) /\ DOMAIN p = OfflineFields
  BY DEF IsOfflineState, GoodTables, HasTables
<1>2. PICK lists, tables, behind :
        /\ lists = [p.lists EXCEPT !["me"] = {r \in @ : r.host \notin gone}]
        /\ tables = [p.tables EXCEPT !["me"] = ListsOfOfflineHosts!ResetSelection(@)]
        /\ behind = p.behind \cup {"me"}
  OBVIOUS
<1>3. PICK q : q = [p EXCEPT !.lists = lists, !.tables = tables, !.behind = behind]
  OBVIOUS
<1>4. /\ IsOf(t) /\ t.requests = s.requests
      /\ DOMAIN t.page = OfflineFields /\ t.page.lists = lists /\ t.page.tables = tables
      /\ t.page.behind = behind /\ t.page.offlineHosts = p.offlineHosts
      /\ t.page.assignedHosts = p.assignedHosts
  <2>1. IsOf(t) /\ t.requests = s.requests /\ t.page = q
    BY <1>1, <1>2, <1>3 DEF IsOfflineState, IsOf, OfflineFields
  <2>2. /\ DOMAIN q = OfflineFields /\ q.lists = lists /\ q.tables = tables
        /\ q.behind = behind /\ q.offlineHosts = p.offlineHosts
        /\ q.assignedHosts = p.assignedHosts
    BY <1>1, <1>3 DEF OfflineFields
  <2> QED BY <2>1, <2>2
<1>5. DOMAIN lists = DOMAIN p.lists /\ DOMAIN tables = DOMAIN p.tables BY <1>2
<1>6. /\ AreFound(p.offlineHosts) /\ AreRows(p.assignedHosts)
      /\ DOMAIN p.tables = DOMAIN p.lists
      /\ \A l \in DOMAIN p.lists :
           /\ AreRows(p.lists[l])
           /\ IsSeq(p.tables[l].rows) /\ SelectsRows(p.tables[l])
           /\ l \notin p.behind => IsInStep(p, l)
  BY <1>1 DEF GoodTables, HasTables
<1>7. ASSUME NEW l \in DOMAIN p.lists, l # "me"
      PROVE  /\ lists[l] = p.lists[l] /\ tables[l] = p.tables[l]
  BY <1>2, <1>6, <1>7
<1>8. ASSUME "me" \in DOMAIN p.lists
      PROVE  /\ AreRows(lists["me"])
             /\ IsSeq(tables["me"].rows) /\ SelectsRows(tables["me"])
  <2>1. PICK table : table = p.tables["me"] OBVIOUS
  <2>2. lists["me"] \subseteq p.lists["me"] BY <1>2, <1>8
  <2>3. tables["me"] = DevicesOfHost!ResetSelection(table)
    BY <1>2, <1>6, <1>8, <2>1, OfflineDirectives
  <2>4. DOMAIN table = TableFields /\ table.view = table.selection
    BY <1>6, <1>8, <2>1 DEF SelectsRows
  <2>5. SelectsRows(tables["me"]) /\ tables["me"].rows = table.rows
    BY <2>3, <2>4, ResetFacts
  <2> QED BY <1>6, <1>8, <2>1, <2>2, <2>5 DEF AreRows
<1>9. HasTables(t.page) BY <1>4, <1>5, <1>6, <1>7, <1>8 DEF HasTables
<1>10. ASSUME NEW l \in DOMAIN t.page.lists, l \notin t.page.behind
       PROVE  IsInStep(t.page, l)
  <2>1. l \in DOMAIN p.lists /\ l # "me" /\ l \notin p.behind
    BY <1>2, <1>4, <1>5, <1>10
  <2> QED BY <1>4, <1>6, <1>7, <2>1 DEF IsInStep
<1>11. GoodFinds(s.requests) BY DEF IsOfflineState
<1> QED BY <1>4, <1>9, <1>10, <1>11 DEF IsOfflineState, GoodTables

LEMMA CommandDoneStep ==
  ASSUME GoodTables(page), GoodFinds(requests), NEW i \in DOMAIN requests,
         ListsOfOfflineHosts!CommandDone(i)
  PROVE  GoodTables(page') /\ GoodFinds(requests')
<1>1. PICK h : h = ListsOfOfflineHosts!Heard(i) OBVIOUS
<1>2. IsOfflineState(h) /\ h.page = page BY <1>1, OfflineHeard
<1>3. CASE ListsOfOfflineHosts!Becomes(ListsOfOfflineHosts!Reload(h, "filters"))
  BY <1>2, <1>3, GetHostsState, OfflineBecomes
<1>4. CASE ListsOfOfflineHosts!Becomes(ListsOfOfflineHosts!RemoveSelectedHosts(h))
  <2>1. PICK u : u = ListsOfOfflineHosts!RemoveSelectedHosts(h) OBVIOUS
  <2>2. IsOfflineState(u)
    BY <1>2, <2>1, RemoveSelectedState DEF ListsOfOfflineHosts!RemoveSelectedHosts
  <2> QED BY <1>4, <2>1, <2>2, OfflineBecomes
<1>5. ASSUME NEW params,
             ListsOfOfflineHosts!Becomes(ListsOfOfflineHosts!Open(h, FALSE, params))
      PROVE  GoodTables(page') /\ GoodFinds(requests')
  BY <1>2, <1>5, OpenState, OfflineBecomes DEF IsOfflineState
<1>6. CASE ListsOfOfflineHosts!Becomes(h) BY <1>2, <1>6, OfflineBecomes
<1> QED BY <1>1, <1>3, <1>4, <1>5, <1>6 DEF ListsOfOfflineHosts!CommandDone

\* What the user does besides clicks in a table.
LEMMA OfflineCallSteps ==
  ASSUME GoodTables(page), GoodFinds(requests),
         \/ \E lab : ListsOfOfflineHosts!SelectLab(lab)
         \/ \E operator, hours : ListsOfOfflineHosts!SetLastCheckInTime(operator, hours)
         \/ ListsOfOfflineHosts!Refresh
         \/ ListsOfOfflineHosts!StartRecovering
         \/ \E l, user : ListsOfOfflineHosts!AssignHostsTo(l, user)
         \/ ListsOfOfflineHosts!MarkHostsAsVerified
         \/ \E row, next : ListsOfOfflineHosts!ToggleHostFixedState(row, next)
         \/ \E b : ListsOfOfflineHosts!Reopen(b)
  PROVE  GoodTables(page') /\ GoodFinds(requests')
<1>1. PICK s : s = ListsOfOfflineHosts!State OBVIOUS
<1>2. IsOfflineState(s) /\ s.page = page BY <1>1, OfflineNow
<1>3. ASSUME NEW u, IsOfflineState(u), NEW next,
             ListsOfOfflineHosts!Becomes(ListsOfOfflineHosts!Reload(u, next))
      PROVE  GoodTables(page') /\ GoodFinds(requests')
  BY <1>3, GetHostsState, OfflineBecomes
<1>4. ASSUME NEW hosts, NEW state, NEW assignee, NEW next,
             ListsOfOfflineHosts!Becomes(
               ListsOfOfflineHosts!SetRecoveryStates(hosts, state, assignee, next))
      PROVE  GoodTables(page') /\ GoodFinds(requests')
  <2>1. PICK arg : ListsOfOfflineHosts!Becomes(ListsOfOfflineHosts!Send(s, "recovery", arg))
    BY <1>1, <1>4 DEF ListsOfOfflineHosts!SetRecoveryStates
  <2> QED BY <1>2, <2>1, OfflineSend, OfflineBecomes
<1>5. ASSUME NEW b, NEW params,
             ListsOfOfflineHosts!Becomes(ListsOfOfflineHosts!Open(s, b, params))
      PROVE  GoodTables(page') /\ GoodFinds(requests')
  BY <1>2, <1>5, OpenState, OfflineBecomes DEF IsOfflineState
<1>6. ASSUME NEW lab, ListsOfOfflineHosts!SelectLab(lab)
      PROVE  GoodTables(page') /\ GoodFinds(requests')
  <2>1. PICK u, next : /\ u = [s EXCEPT !.page["selectedLab"] = lab]
                       /\ ListsOfOfflineHosts!Becomes(ListsOfOfflineHosts!Reload(u, next))
    BY <1>1, <1>6 DEF ListsOfOfflineHosts!SelectLab
  <2>2. IsOfflineState(u)
    BY <1>2, <2>1, OfflineShow DEF OtherOfflineFields, OfflineFields
  <2> QED BY <1>3, <2>1, <2>2
<1>7. ASSUME NEW operator, NEW hours,
             ListsOfOfflineHosts!SetLastCheckInTime(operator, hours)
      PROVE  GoodTables(page') /\ GoodFinds(requests')
  <2>1. PICK timed, p, u :
          /\ timed = page \/ timed = [page EXCEPT !.hours = hours, !.timestamp = hours]
          /\ p = [timed EXCEPT !.operator = operator] /\ u = [s EXCEPT !.page = p]
          /\ ListsOfOfflineHosts!Becomes(ListsOfOfflineHosts!Reload(u, "hosts"))
    BY <1>1, <1>7 DEF ListsOfOfflineHosts!SetLastCheckInTime
  <2>2. DOMAIN page = OfflineFields BY DEF GoodTables, HasTables
  <2>3. SameTables(page, p) BY <2>1, <2>2 DEF SameTables, OfflineFields
  <2>4. IsOfflineState(u) BY <1>2, <2>1, <2>3, SameAreGood, OfflinePut
  <2> QED BY <1>3, <2>1, <2>4
<1>8. CASE ListsOfOfflineHosts!Refresh
  BY <1>1, <1>2, <1>3, <1>8 DEF ListsOfOfflineHosts!Refresh
<1>9. CASE ListsOfOfflineHosts!StartRecovering
  BY <1>1, <1>4, <1>5, <1>9 DEF ListsOfOfflineHosts!StartRecovering
<1>10. ASSUME NEW l, NEW user, ListsOfOfflineHosts!AssignHostsTo(l, user)
       PROVE  GoodTables(page') /\ GoodFinds(requests')
  BY <1>4, <1>10 DEF ListsOfOfflineHosts!AssignHostsTo
<1>11. CASE ListsOfOfflineHosts!MarkHostsAsVerified
  BY <1>4, <1>11 DEF ListsOfOfflineHosts!MarkHostsAsVerified
<1>12. ASSUME NEW row, NEW next, ListsOfOfflineHosts!ToggleHostFixedState(row, next)
       PROVE  GoodTables(page') /\ GoodFinds(requests')
  BY <1>4, <1>12 DEF ListsOfOfflineHosts!ToggleHostFixedState
<1>13. ASSUME NEW b, ListsOfOfflineHosts!Reopen(b)
       PROVE  GoodTables(page') /\ GoodFinds(requests')
  BY <1>1, <1>5, <1>13 DEF ListsOfOfflineHosts!Reopen
<1> QED BY <1>6, <1>7, <1>8, <1>9, <1>10, <1>11, <1>12, <1>13

\* The filters that the user chooses.
LEMMA OfflineFilterSteps ==
  ASSUME GoodTables(page), GoodFinds(requests),
         \/ ListsOfOfflineHosts!SelectRunTargets
         \/ \E text : ListsOfOfflineHosts!FilterRunTargets(text)
         \/ \E group : ListsOfOfflineHosts!SetHostGroups(group)
         \/ \E harness : ListsOfOfflineHosts!SelectTestHarness(harness)
  PROVE  GoodTables(page') /\ GoodFinds(requests')
<1>1. PICK s : s = ListsOfOfflineHosts!State OBVIOUS
<1>2. IsOfflineState(s) /\ s.page = page BY <1>1, OfflineNow
<1>3. DOMAIN page = OfflineFields BY DEF GoodTables, HasTables
<1>4. ASSUME NEW f \in {"runTargets", "hostGroups", "harness"}, NEW x, NEW p,
             p = [page EXCEPT ![f] = x]
      PROVE  GoodTables(p)
  <2>1. f \in OtherOfflineFields BY DEF OtherOfflineFields, OfflineFields
  <2> QED BY <1>3, <1>4, <2>1, FieldIsOther, SameAreGood
<1>5. ASSUME NEW p, GoodTables(p), ListsOfOfflineHosts!Chooses(p)
      PROVE  GoodTables(page') /\ GoodFinds(requests')
  <2>1. PICK u : /\ u = [s EXCEPT !.page = p]
                 /\ ListsOfOfflineHosts!Becomes(ListsOfOfflineHosts!ReloadHosts(u))
    BY <1>1, <1>5 DEF ListsOfOfflineHosts!Chooses
  <2>2. IsOfflineState(u) BY <1>2, <1>5, <2>1, OfflinePut
  <2> QED BY <2>1, <2>2, ReloadHostsState, OfflineBecomes
<1>6. ASSUME NEW f \in {"runTargets", "hostGroups", "harness"}, NEW x,
             ListsOfOfflineHosts!Chooses([page EXCEPT ![f] = x])
      PROVE  GoodTables(page') /\ GoodFinds(requests')
  BY <1>4, <1>5, <1>6
<1>7. CASE ListsOfOfflineHosts!SelectRunTargets
  <2>1. PICK x : ListsOfOfflineHosts!Chooses([page EXCEPT !["runTargets"] = x])
    BY <1>3, <1>7 DEF ListsOfOfflineHosts!SelectRunTargets, OfflineFields
  <2> QED BY <1>6, <2>1
<1>8. ASSUME NEW text, ListsOfOfflineHosts!FilterRunTargets(text)
      PROVE  GoodTables(page') /\ GoodFinds(requests')
  <2>1. PICK x : page' = [page EXCEPT !["runTargets"] = x] /\ requests' = requests
    BY <1>3, <1>8
    DEF ListsOfOfflineHosts!FilterRunTargets, ListsOfOfflineHosts!Shows, OfflineFields
  <2> QED BY <1>4, <2>1
<1>9. ASSUME NEW group, ListsOfOfflineHosts!SetHostGroups(group)
      PROVE  GoodTables(page') /\ GoodFinds(requests')
  <2>1. PICK x : ListsOfOfflineHosts!Chooses([page EXCEPT !["hostGroups"] = x])
    BY <1>3, <1>9 DEF ListsOfOfflineHosts!SetHostGroups, OfflineFields
  <2> QED BY <1>6, <2>1
<1>10. ASSUME NEW harness, ListsOfOfflineHosts!SelectTestHarness(harness)
       PROVE  GoodTables(page') /\ GoodFinds(requests')
  <2>1. PICK x : ListsOfOfflineHosts!Chooses([page EXCEPT !["harness"] = x])
    BY <1>3, <1>10 DEF ListsOfOfflineHosts!SelectTestHarness, OfflineFields
  <2> QED BY <1>6, <2>1
<1> QED BY <1>7, <1>8, <1>9, <1>10

\* Clicks in a table that is not behind, and a table that takes over its list.
LEMMA OfflineTableSteps ==
  ASSUME GoodTables(page), GoodFinds(requests), NEW l \in DOMAIN page.lists,
         \/ ListsOfOfflineHosts!TableTakesRows(l)
         \/ \E k : \E shift \in BOOLEAN : ListsOfOfflineHosts!SelectRow(l, k, shift)
         \/ ListsOfOfflineHosts!SelectAllRows(l)
         \/ ListsOfOfflineHosts!SortRows(l)
  PROVE  GoodTables(page') /\ GoodFinds(requests')
<1>1. requests' = requests
  BY DEF ListsOfOfflineHosts!TableTakesRows, ListsOfOfflineHosts!SelectRow,
     ListsOfOfflineHosts!SelectAllRows, ListsOfOfflineHosts!SortRows,
     ListsOfOfflineHosts!Shows
<1>2. PICK table : table = page.tables[l] OBVIOUS
<1>3. /\ HasTables(page) /\ DOMAIN page = OfflineFields
      /\ DOMAIN page.tables = DOMAIN page.lists /\ AreRows(page.lists[l])
      /\ IsSeq(table.rows) /\ SelectsRows(table)
  BY <1>2 DEF GoodTables, HasTables
<1>4. ASSUME NEW t, IsSeq(t.rows), SelectsRows(t),
             Range(t.rows) = HostsIn(page.lists[l]), NEW gone, gone \subseteq {l},
             page' = [page EXCEPT !.behind = @ \ gone, !.tables[l] = t]
      PROVE  GoodTables(page')
  <2>1. /\ DOMAIN page' = OfflineFields /\ page'.lists = page.lists
        /\ page'.tables = [page.tables EXCEPT ![l] = t]
        /\ page'.behind = page.behind \ gone
        /\ page'.offlineHosts = page.offlineHosts
        /\ page'.assignedHosts = page.assignedHosts
    BY <1>3, <1>4 DEF OfflineFields
  <2>2. /\ DOMAIN page'.tables = DOMAIN page.lists /\ page'.tables[l] = t
        /\ \A m \in DOMAIN page.lists \ {l} : page'.tables[m] = page.tables[m]
    BY <1>3, <2>1
  <2>3. HasTables(page')
    <3>1. ASSUME NEW m \in DOMAIN page.lists
          PROVE  /\ AreRows(page.lists[m]) /\ IsSeq(page'.tables[m].rows)
                 /\ SelectsRows(page'.tables[m])
      BY <1>3, <1>4, <2>2 DEF HasTables
    <3> QED BY <1>3, <2>1, <2>2, <3>1 DEF HasTables
  <2>4. ASSUME NEW m \in DOMAIN page'.lists \ page'.behind PROVE IsInStep(page', m)
    <3>1. CASE m = l BY <1>4, <2>1, <2>2, <3>1 DEF IsInStep
    <3>2. CASE m # l
      <4>1. m \in DOMAIN page.lists \ page.behind BY <1>4, <2>1, <3>2
      <4> QED BY <2>1, <2>2, <3>2, <4>1 DEF GoodTables, IsInStep
    <3> QED BY <3>1, <3>2
  <2> QED BY <2>3, <2>4 DEF GoodTables
<1>5. ASSUME NEW t, page' = [page EXCEPT !.tables[l] = t]
      PROVE  page' = [page EXCEPT !.behind = @ \ {}, !.tables[l] = t]
  BY <1>3, <1>5 DEF OfflineFields
<1>6. page.behind = {} => Range(table.rows) = HostsIn(page.lists[l])
  BY <1>2 DEF GoodTables, IsInStep
<1>7. CASE ListsOfOfflineHosts!TableTakesRows(l)
  <2>1. PICK rows, u, t :
          /\ rows = Ascending(HostsIn(page.lists[l]))
          /\ u = [table EXCEPT !.rows = rows]
          /\ t = ListsOfOfflineHosts!ResetSelection(u)
          /\ page' = [page EXCEPT !.behind = @ \ {l}, !.tables[l] = t]
    BY <1>2, <1>3, <1>7, OfflineLists
    DEF ListsOfOfflineHosts!TableTakesRows, ListsOfOfflineHosts!Shows,
        ListsOfOfflineHosts!HostsOf, HostsIn, OfflineFields
  <2>2. IsSeq(rows) /\ Range(rows) = HostsIn(page.lists[l])
    BY <1>3, <2>1, RowsAreNumbers
  <2>3. DOMAIN u = TableFields /\ u.view = u.selection /\ u.rows = rows
    BY <1>3, <2>1 DEF SelectsRows, TableFields
  <2>4. SelectsRows(t) /\ t.rows = rows
    BY <2>1, <2>3, ResetFacts, OfflineDirectives
  <2> QED BY <1>1, <1>4, <2>1, <2>2, <2>4
<1>8. ASSUME NEW k, NEW shift \in BOOLEAN, ListsOfOfflineHosts!SelectRow(l, k, shift)
      PROVE  GoodTables(page')
  <2>1. PICK t : /\ t = ListsOfOfflineHosts!ClickRow(table, k, shift)
                 /\ page' = [page EXCEPT !.tables[l] = t]
                 /\ page.behind = {} /\ k \in DOMAIN table.rows
    BY <1>2, <1>3, <1>8
    DEF ListsOfOfflineHosts!SelectRow, ListsOfOfflineHosts!Shows, OfflineFields
  <2>2. SelectsRows(t) /\ t.rows = table.rows
    BY <1>3, <2>1, ClickFacts, OfflineDirectives
  <2> QED BY <1>3, <1>4, <1>5, <1>6, <2>1, <2>2
<1>9. CASE ListsOfOfflineHosts!SelectAllRows(l)
  <2>1. PICK t : /\ t = ListsOfOfflineHosts!ToggleAllSelection(table)
                 /\ page' = [page EXCEPT !.tables[l] = t] /\ page.behind = {}
    BY <1>2, <1>3, <1>9
    DEF ListsOfOfflineHosts!SelectAllRows, ListsOfOfflineHosts!Shows, OfflineFields
  <2>2. SelectsRows(t) /\ t.rows = table.rows
    BY <1>3, <2>1, ClickFacts, OfflineDirectives
  <2> QED BY <1>1, <1>3, <1>4, <1>5, <1>6, <2>1, <2>2
<1>10. CASE ListsOfOfflineHosts!SortRows(l)
  <2>1. PICK rows, u, t :
          /\ rows = Reversed(table.rows) /\ u = [table EXCEPT !.rows = rows]
          /\ t = ListsOfOfflineHosts!ResetPrevClickedRowIndex(u)
          /\ page' = [page EXCEPT !.tables[l] = t] /\ page.behind = {}
    <3>1. PICK t : /\ t = ListsOfOfflineHosts!TurnedRound(table)
                   /\ page' = [page EXCEPT !.tables[l] = t] /\ page.behind = {}
      BY <1>2, <1>3, <1>10
      DEF ListsOfOfflineHosts!SortRows, ListsOfOfflineHosts!Shows, OfflineFields
    <3>2. PICK rows : rows = Reversed(table.rows) OBVIOUS
    <3>3. t = ListsOfOfflineHosts!ResetPrevClickedRowIndex([table EXCEPT !.rows = rows])
      BY <1>3, <3>1, <3>2, OfflineLists
      DEF ListsOfOfflineHosts!TurnedRound, SelectsRows, TableFields
    <3> QED BY <3>1, <3>2, <3>3
  <2>2. IsSeq(rows) /\ Range(rows) = Range(table.rows)
    BY <1>3, <2>1, ReversedRange
  <2>3. SelectsRows(t) /\ t.rows = rows
    BY <1>3, <2>1, <2>2
    DEF SelectsRows, TableFields, ListsOfOfflineHosts!ResetPrevClickedRowIndex
  <2> QED BY <1>1, <1>4, <1>5, <1>6, <2>1, <2>2, <2>3
<1> QED BY <1>1, <1>7, <1>8, <1>9, <1>10

\* The service finds hosts it knows, in one query or in two.
LEMMA OfflineServiceSteps ==
  ASSUME GoodTables(page), GoodFinds(requests), NEW i \in DOMAIN requests,
         ListsOfOfflineHosts!Serve(i) \/ ListsOfOfflineHosts!Fail(i)
  PROVE  GoodTables(page') /\ GoodFinds(requests')
<1>1. page' = page BY DEF ListsOfOfflineHosts!Serve, ListsOfOfflineHosts!Fail
<1>2. PICK c : c = requests[i] /\ DOMAIN c = CallFields /\ FindsHosts(c)
  BY DEF GoodFinds, Calls
<1>3. ASSUME NEW r, DOMAIN r = CallFields, FindsHosts(r),
             requests' = [requests EXCEPT ![i] = r]
      PROVE  GoodFinds(requests')
  <2>1. Calls(requests') BY <1>3, ChangeCall DEF GoodFinds, Calls
  <2> QED BY <1>3, <2>1 DEF GoodFinds
<1>4. CASE ListsOfOfflineHosts!Fail(i)
  <2>1. PICK r : /\ r = [c EXCEPT !.status = "error"]
                 /\ requests' = [requests EXCEPT ![i] = r]
    BY <1>2, <1>4 DEF ListsOfOfflineHosts!Fail
  <2>2. DOMAIN r = CallFields /\ FindsHosts(r)
    BY <1>2, <2>1 DEF CallFields, FindsHosts
  <2> QED BY <1>1, <1>3, <2>1, <2>2
<1>5. ASSUME NEW answer, ListsOfOfflineHosts!Answer(i, answer),
             c.kind = "hosts" => AreFound(answer.offline) /\ AreRows(answer.assigned)
      PROVE  GoodFinds(requests')
  <2>1. PICK r : r = [c EXCEPT !.status = "ok", !.answer = answer] OBVIOUS
  <2>2. requests' = [requests EXCEPT ![i] = r]
    BY <1>2, <1>5, <2>1 DEF ListsOfOfflineHosts!Answer
  <2>3. DOMAIN r = CallFields /\ r.kind = c.kind /\ r.status = "ok" /\ r.answer = answer
    BY <1>2, <2>1 DEF CallFields
  <2>4. FindsHosts(r) BY <1>5, <2>3 DEF FindsHosts
  <2> QED BY <1>3, <2>2, <2>3, <2>4
<1>6. CASE ListsOfOfflineHosts!Serve(i)
  <2>1. PICK offline, assigned :
          /\ offline = {ListsOfOfflineHosts!Row(h) :
                          h \in ListsOfOfflineHosts!Found(c.arg) \cap api.offline}
          /\ assigned = {ListsOfOfflineHosts!Row(h) :
                           h \in {g \in ListsOfOfflineHosts!Found(c.arg) :
                                    api.state[g] \in {"ASSIGNED", "FIXED"}}}
          /\ \/ c.kind \in {"labs", "recovery"} /\ ListsOfOfflineHosts!Answer(i, {})
             \/ ListsOfOfflineHosts!Answer(i, [offline |-> offline, assigned |-> {}])
             \/ /\ c.kind = "hosts"
                /\ requests' = [requests EXCEPT ![i].status = "half",
                                                ![i].answer = offline]
             \/ /\ c.status = "half"
                /\ ListsOfOfflineHosts!Answer(
                     i, [offline |-> c.answer, assigned |-> assigned])
    BY <1>2, <1>6 DEF ListsOfOfflineHosts!Serve
  <2>2. AreFound(offline) /\ AreRows(assigned) /\ AreRows({})
    <3>1. ListsOfOfflineHosts!Found(c.arg) \subseteq OfflineHostsPage.Hosts
      BY DEF ListsOfOfflineHosts!Found
    <3>2. \A h \in OfflineHostsPage.Hosts : IsRow(ListsOfOfflineHosts!Row(h))
      BY DEF ListsOfOfflineHosts!Row, IsRow
    <3>3. AreFound(offline) /\ AreFound(assigned) BY <2>1, <3>1, <3>2 DEF AreFound
    <3> QED BY <3>3, FoundAreRows DEF AreRows
  <2>3. CASE c.kind \in {"labs", "recovery"} /\ ListsOfOfflineHosts!Answer(i, {})
    BY <1>1, <1>5, <2>3
  <2>4. CASE ListsOfOfflineHosts!Answer(i, [offline |-> offline, assigned |-> {}])
    BY <1>1, <1>5, <2>2, <2>4
  <2>5. CASE /\ c.kind = "hosts"
             /\ requests' = [requests EXCEPT ![i].status = "half", ![i].answer = offline]
    <3>1. PICK r : r = [c EXCEPT !.status = "half", !.answer = offline] OBVIOUS
    <3>2. requests' = [requests EXCEPT ![i] = r] BY <1>2, <2>5, <3>1
    <3>3. DOMAIN r = CallFields /\ r.status = "half" /\ r.answer = offline
      BY <1>2, <3>1 DEF CallFields
    <3>4. FindsHosts(r) BY <2>2, <3>3 DEF FindsHosts
    <3> QED BY <1>1, <1>3, <3>2, <3>3, <3>4
  <2>6. CASE /\ c.status = "half"
             /\ ListsOfOfflineHosts!Answer(i, [offline |-> c.answer, assigned |-> assigned])
    <3>1. c.kind = "hosts" => AreFound(c.answer) BY <1>2, <2>6 DEF FindsHosts
    <3> QED BY <1>1, <1>5, <2>2, <2>6, <3>1
  <2> QED BY <2>1, <2>3, <2>4, <2>5, <2>6
<1> QED BY <1>4, <1>6

LEMMA TablesInit ==
  ASSUME ListsOfOfflineHosts!Init
  PROVE  GoodTables(page) /\ GoodFinds(requests)
<1>1. PICK b, params, fresh, r :
        /\ fresh = ListsOfOfflineHosts!FreshOfflineHosts(b, params)
        /\ page = ListsOfOfflineHosts!InitLastCheckInSelection(fresh, params, params)
        /\ r = ListsOfOfflineHosts!Request("labs", {}) /\ requests = <<r>>
  BY DEF ListsOfOfflineHosts!Init
<1>2. GoodTables(fresh) BY <1>1, FreshIsGood
<1>3. SameTables(fresh, page) BY <1>1, <1>2, SelectionsFacts DEF GoodTables, HasTables
<1>4. DOMAIN r = CallFields /\ FindsHosts(r)
  BY <1>1 DEF ListsOfOfflineHosts!Request, CallFields, FindsHosts
<1>5. IsSeq(<<r>>) /\ DOMAIN <<r>> = {1} /\ <<r>>[1] = r
  <2>1. <<r>> \in Seq({r}) /\ Len(<<r>>) = 1 /\ <<r>>[1] = r OBVIOUS
  <2>2. DOMAIN <<r>> = 1 .. 1 BY <2>1
  <2>3. 1 .. 1 = {1} OBVIOUS
  <2> QED BY <2>1, <2>2, <2>3 DEF IsSeq
<1>6. GoodFinds(requests) BY <1>1, <1>4, <1>5 DEF GoodFinds, Calls
<1> QED BY <1>2, <1>3, <1>6, SameAreGood

LEMMA TablesNext ==
  ASSUME GoodTables(page), GoodFinds(requests), [ListsOfOfflineHosts!Next]_vars
  PROVE  (GoodTables(page) /\ GoodFinds(requests))'
<1>1. CASE UNCHANGED vars BY <1>1 DEF vars
<1>2. CASE \E i \in DOMAIN requests :
             \/ ListsOfOfflineHosts!LabsArrive(i)
             \/ ListsOfOfflineHosts!HostsArrive(i)
             \/ ListsOfOfflineHosts!CallFails(i)
             \/ ListsOfOfflineHosts!CommandDone(i)
             \/ ListsOfOfflineHosts!Serve(i) \/ ListsOfOfflineHosts!Fail(i)
  BY <1>2, OfflineHearsStep, CommandDoneStep, OfflineServiceSteps
<1>3. CASE \/ \E lab : ListsOfOfflineHosts!SelectLab(lab)
           \/ \E operator, hours : ListsOfOfflineHosts!SetLastCheckInTime(operator, hours)
           \/ ListsOfOfflineHosts!Refresh
           \/ ListsOfOfflineHosts!StartRecovering
           \/ \E l, user : ListsOfOfflineHosts!AssignHostsTo(l, user)
           \/ ListsOfOfflineHosts!MarkHostsAsVerified
           \/ \E row, next : ListsOfOfflineHosts!ToggleHostFixedState(row, next)
           \/ \E b : ListsOfOfflineHosts!Reopen(b)
  BY <1>3, OfflineCallSteps
<1>4. CASE \/ ListsOfOfflineHosts!SelectRunTargets
           \/ \E text : ListsOfOfflineHosts!FilterRunTargets(text)
           \/ \E group : ListsOfOfflineHosts!SetHostGroups(group)
           \/ \E harness : ListsOfOfflineHosts!SelectTestHarness(harness)
  BY <1>4, OfflineFilterSteps
<1>5. CASE \E l \in DOMAIN page.lists :
             \/ ListsOfOfflineHosts!TableTakesRows(l)
             \/ \E k : \E shift \in BOOLEAN : ListsOfOfflineHosts!SelectRow(l, k, shift)
             \/ ListsOfOfflineHosts!SelectAllRows(l)
             \/ ListsOfOfflineHosts!SortRows(l)
  BY <1>5, OfflineTableSteps
<1>6. CASE \E h : ListsOfOfflineHosts!HostComesBack(h)
  BY <1>6 DEF ListsOfOfflineHosts!HostComesBack
<1>7. ASSUME NEW operator, ListsOfOfflineHosts!SetLastCheckInTime(operator, 1)
      PROVE  (GoodTables(page) /\ GoodFinds(requests))'
  BY <1>3, <1>7
<1>8. ASSUME NEW v, ListsOfOfflineHosts!FilterRunTargets({v})
      PROVE  (GoodTables(page) /\ GoodFinds(requests))'
  BY <1>4, <1>8
<1>9. ASSUME NEW row, \/ ListsOfOfflineHosts!ToggleHostFixedState(row, "refresh")
                      \/ ListsOfOfflineHosts!ToggleHostFixedState(row, "nothing")
      PROVE  (GoodTables(page) /\ GoodFinds(requests))'
  BY <1>3, <1>9
<1> QED
  BY <1>1, <1>2, <1>3, <1>4, <1>5, <1>6, <1>7, <1>8, <1>9
  DEF ListsOfOfflineHosts!Next, ListsOfOfflineHosts!Lists

LEMMA TablesShow ==
  ASSUME GoodTables(page)
  PROVE  ListsOfOfflineHosts!TablesSelectShownHosts
<1>1. \A l \in DOMAIN page.lists \ page.behind :
        page.tables[l].selection \subseteq HostsIn(page.lists[l])
  BY DEF GoodTables, HasTables, IsInStep, SelectsRows
<1> QED BY <1>1
     DEF ListsOfOfflineHosts!TablesSelectShownHosts, ListsOfOfflineHosts!HostsOf, HostsIn

-----------------------------------------------------------------------------
(* The address of the lists of offline hosts.                              *)

AllGroups == {OfflineHostsPage.Info[h].group : h \in OfflineHostsPage.Hosts}
AllTargets == UNION {OfflineHostsPage.Info[h].targets : h \in OfflineHostsPage.Hosts}
All == ListsOfOfflineHosts!AllOptions

\* What is selected is offered, or is the value for all options.
PickerFits(picker, options) ==
  /\ DOMAIN picker = {"items", "selected", "shown"}
  /\ picker.items \subseteq options /\ picker.shown \subseteq picker.items
  /\ picker.selected \subseteq picker.items \/ picker.selected = {All}

FiltersFit(p) ==
  /\ DOMAIN p = OfflineFields
  /\ PickerFits(p.hostGroups, AllGroups) /\ PickerFits(p.runTargets, AllTargets)
  /\ p.harness \in p.harnesses \cup {All, ""}

\* The address has what is selected, or the one value for as many as there are; the
\* local storage has it as well, or the one value for all that there is.
Remembered(picker, url, stored) ==
  /\ url = ListsOfOfflineHosts!ConvertedSelection(picker, picker.selected)
  /\ stored = picker.selected \/ (stored = {All} /\ picker.selected = picker.items)

AreRemembered(p, b) ==
  /\ Remembered(p.hostGroups, b.url.groups, b.criteria.groups)
  /\ Remembered(p.runTargets, b.url.targets, b.criteria.targets)
  /\ b.url.harness = p.harness

\* Before hosts are shown there is no harness.
GoodAddress(p, b) ==
  /\ FiltersFit(p) /\ DOMAIN b = {"criteria", "url"}
  /\ p.harness # "" => AreRemembered(p, b)

\* Of the component only what no filter is has changed.
SameFilters(p, q) ==
  /\ DOMAIN q = DOMAIN p /\ q.hostGroups = p.hostGroups /\ q.runTargets = p.runTargets
  /\ q.harnesses = p.harnesses /\ q.harness = p.harness

LEMMA SameFiltersFit ==
  ASSUME NEW p, NEW q, SameFilters(p, q), FiltersFit(p)
  PROVE  FiltersFit(q) /\ \A b : GoodAddress(p, b) => GoodAddress(q, b)
BY DEF SameFilters, FiltersFit, GoodAddress, AreRemembered

LEMMA OtherFilterFields ==
  ASSUME NEW p, DOMAIN p = OfflineFields, NEW q, NEW f \in
           OfflineFields \ {"hostGroups", "runTargets", "harnesses", "harness"},
         NEW x, q = [p EXCEPT ![f] = x]
  PROVE  SameFilters(p, q)
BY DEF SameFilters, OfflineFields

LEMMA FiltersAreFinite == IsFiniteSet(AllGroups) /\ IsFiniteSet(AllTargets)
<1>1. ListsOfOfflineHosts!OfflineHostsAssumption BY LabPagesAssumption
<1>2. \A S : ListsOfOfflineHosts!IsFiniteSet(S) <=> IsFiniteSet(S)
  BY DEF ListsOfOfflineHosts!IsFiniteSet, IsFiniteSet
<1>3. IsFiniteSet(AllTargets)
  BY <1>1, <1>2 DEF ListsOfOfflineHosts!OfflineHostsAssumption, AllTargets
<1>4. IsFiniteSet(AllGroups)
  <2>1. PICK f : f = [h \in OfflineHostsPage.Hosts |-> OfflineHostsPage.Info[h].group]
    OBVIOUS
  <2>2. f \in Surjection(OfflineHostsPage.Hosts, AllGroups)
    BY <2>1 DEF Surjection, AllGroups
  <2> QED BY <2>2, OfflineConstants, FS_Surjection
<1> QED BY <1>3, <1>4

\* The one value stands in the address for all items only.
LEMMA ConvertedFacts ==
  ASSUME NEW options, IsFiniteSet(options), NEW picker, PickerFits(picker, options), NEW c,
         c = ListsOfOfflineHosts!ConvertedSelection(picker, picker.selected)
  PROVE  c = picker.selected \/ (c = {All} /\ picker.selected = picker.items)
<1>1. \A S : ListsOfOfflineHosts!Cardinality(S) = Cardinality(S)
  BY DEF ListsOfOfflineHosts!Cardinality, Cardinality, ListsOfOfflineHosts!IsFiniteSet,
     IsFiniteSet
<1>2. \/ c = picker.selected
      \/ c = {All} /\ Cardinality(picker.selected) = Cardinality(picker.items)
  BY <1>1 DEF ListsOfOfflineHosts!ConvertedSelection, All
<1>3. IsFiniteSet(picker.items) BY FS_Subset DEF PickerFits
<1>4. picker.selected \in SUBSET picker.items \/ picker.selected = {All}
  BY DEF PickerFits
<1>5. ASSUME picker.selected \in SUBSET picker.items,
             Cardinality(picker.selected) = Cardinality(picker.items)
      PROVE  picker.selected = picker.items
  BY <1>3, <1>5, FS_Subset
<1> QED BY <1>2, <1>4, <1>5

\* These values filter nothing that is offered.
IsWide(values, items) == values = {} \/ All \in values \/ values = items

\* What is read back is what is selected, or neither filters anything.
LEMMA ReadFacts ==
  ASSUME NEW options, IsFiniteSet(options), NEW picker, PickerFits(picker, options),
         NEW url, NEW stored, Remembered(picker, url, stored), NEW values,
         values = ListsOfOfflineHosts!GetDefaultValues(url, stored, picker.items)
  PROVE  \/ values = picker.selected
         \/ IsWide(values, picker.items) /\ IsWide(picker.selected, picker.items)
<1>1. url = picker.selected \/ (url = {All} /\ picker.selected = picker.items)
  BY ConvertedFacts DEF Remembered
<1>2. CASE url = {All} /\ picker.selected = picker.items
  BY <1>2 DEF ListsOfOfflineHosts!GetDefaultValues, All
<1>3. CASE All \in picker.selected
  BY <1>1, <1>2, <1>3 DEF ListsOfOfflineHosts!GetDefaultValues, All, IsWide
<1>4. CASE All \notin picker.selected /\ url = picker.selected
  <2>1. picker.items \cap url = url BY <1>4 DEF PickerFits
  <2>2. stored = picker.selected \/ (stored = {All} /\ picker.selected = picker.items)
    BY DEF Remembered
  <2>3. CASE url # {}
    BY <1>4, <2>1, <2>3 DEF ListsOfOfflineHosts!GetDefaultValues, All
  <2>4. CASE url = {}
    BY <1>4, <2>1, <2>2, <2>4 DEF ListsOfOfflineHosts!GetDefaultValues, All, IsWide
  <2> QED BY <2>3, <2>4
<1> QED BY <1>1, <1>2, <1>3, <1>4

\* The groups read back choose the same rows.
LEMMA SameGroups ==
  ASSUME NEW rows, NEW items, \A r \in rows : OfflineHostsPage.Info[r.host].group \in items,
         NEW a, NEW b, a = b \/ (IsWide(a, items) /\ IsWide(b, items))
  PROVE  ListsOfOfflineHosts!FilterHostGroup(rows, a)
           = ListsOfOfflineHosts!FilterHostGroup(rows, b)
<1>1. ASSUME NEW v, IsWide(v, items)
      PROVE  ListsOfOfflineHosts!FilterHostGroup(rows, v) = rows
  BY <1>1 DEF IsWide, ListsOfOfflineHosts!FilterHostGroup, All
<1> QED BY <1>1

WithOfflineDevices(rows) == {r \in rows : OfflineHostsPage.Info[r.host].offline # {}}

\* The run targets read back choose the same of the hosts with offline devices.
LEMMA SameRunTargets ==
  ASSUME NEW rows, AreFound(rows), NEW items, \A r \in rows : r.targets \subseteq items,
         NEW a, NEW b, a = b \/ (IsWide(a, items) /\ IsWide(b, items))
  PROVE  WithOfflineDevices(ListsOfOfflineHosts!FilterRunTarget(rows, a, TRUE))
           = WithOfflineDevices(ListsOfOfflineHosts!FilterRunTarget(rows, b, TRUE))
<1>1. ASSUME NEW r \in rows
      PROVE  /\ [r EXCEPT !.targets = @ \cap items] = r
             /\ r.targets \cap items \cap OfflineHostsPage.Info[r.host].offline
                  = OfflineHostsPage.Info[r.host].offline
  <2>0. PICK h \in OfflineHostsPage.Hosts : \E x, y :
          r = [host |-> h, assignee |-> x, state |-> y,
               targets |-> OfflineHostsPage.Info[h].targets]
    BY <1>1 DEF AreFound, IsRow
  <2>1. PICK x, y : r = [host |-> h, assignee |-> x, state |-> y,
                         targets |-> OfflineHostsPage.Info[h].targets]
    BY <2>0
  <2>2. r.targets \cap items = r.targets BY <1>1
  <2>3. OfflineHostsPage.Info[h].offline \subseteq OfflineHostsPage.Info[h].targets
    BY LabPagesAssumption DEF ListsOfOfflineHosts!OfflineHostsAssumption
  <2> QED BY <2>1, <2>2, <2>3
<1>2. ASSUME NEW v, IsWide(v, items)
      PROVE  WithOfflineDevices(ListsOfOfflineHosts!FilterRunTarget(rows, v, TRUE))
               = WithOfflineDevices(rows)
  <2>1. CASE v = {} \/ All \in v
    BY <2>1 DEF ListsOfOfflineHosts!FilterRunTarget, All
  <2>2. CASE v = items /\ v # {} /\ All \notin v
    <3>1. PICK kept :
            kept = {q \in rows :
                      q.targets \cap items \cap OfflineHostsPage.Info[q.host].offline # {}}
      OBVIOUS
    <3>2. kept = WithOfflineDevices(rows) BY <1>1, <3>1 DEF WithOfflineDevices
    <3>3. ListsOfOfflineHosts!FilterRunTarget(rows, v, TRUE)
            = {[r EXCEPT !.targets = @ \cap items] : r \in kept}
      BY <2>2, <3>1 DEF ListsOfOfflineHosts!FilterRunTarget, All
    <3>4. \A r \in kept : r \in rows BY <3>1
    <3>5. {[r EXCEPT !.targets = @ \cap items] : r \in kept} = kept
      <4>1. \A r \in kept : [r EXCEPT !.targets = @ \cap items] = r BY <1>1, <3>4
      <4> QED BY <4>1
    <3> QED BY <3>2, <3>3, <3>5 DEF WithOfflineDevices
  <2> QED BY <1>2, <2>1, <2>2 DEF IsWide
<1> QED BY <1>2

-----------------------------------------------------------------------------
(* The handlers that choose filters.                                       *)

IsAddressed(s) == IsOf(s) /\ GoodAddress(s.page, s.browser)

LEMMA AddressOn ==
  ASSUME NEW s, IsAddressed(s), NEW t, IsOf(t), SameFilters(s.page, t.page),
         t.browser = s.browser
  PROVE  IsAddressed(t)
<1>1. GoodAddress(s.page, s.browser) /\ FiltersFit(s.page) BY DEF IsAddressed, GoodAddress
<1>2. PICK p, q : p = s.page /\ q = t.page OBVIOUS
<1>3. GoodAddress(q, s.browser) BY <1>1, <1>2, SameFiltersFit
<1> QED BY <1>2, <1>3 DEF IsAddressed

\* The local storage is written after the address, from the same filters.
LEMMA StoredIsAddressed ==
  ASSUME NEW s, IsOf(s), FiltersFit(s.page), DOMAIN s.browser = {"criteria", "url"},
         NEW r, r = ListsOfOfflineHosts!ReplaceState(s), NEW u, IsOf(u),
         SameFilters(s.page, u.page), u.browser = r.browser, NEW b,
         NEW t, t = ListsOfOfflineHosts!UpdateLocalStorage(u, b)
  PROVE  IsAddressed(t)
<1>1. PICK p, q : p = s.page /\ q = u.page OBVIOUS
<1>2. PICK url : url = ListsOfOfflineHosts!ComposeFilterParams(p) OBVIOUS
<1>3. /\ url.groups =
           ListsOfOfflineHosts!ConvertedSelection(p.hostGroups, p.hostGroups.selected)
      /\ url.targets =
           ListsOfOfflineHosts!ConvertedSelection(p.runTargets, p.runTargets.selected)
      /\ url.harness = p.harness
  BY <1>2 DEF ListsOfOfflineHosts!ComposeFilterParams
<1>4. DOMAIN u.browser = {"criteria", "url"} /\ u.browser.url = url
  BY <1>1, <1>2 DEF ListsOfOfflineHosts!ReplaceState, IsOf
<1>5. PICK criteria :
        /\ criteria.groups = q.hostGroups.selected
             \/ (criteria.groups = {All} /\ q.hostGroups.selected = q.hostGroups.items)
        /\ criteria.targets = q.runTargets.selected
             \/ (criteria.targets = {All} /\ q.runTargets.selected = q.runTargets.items)
        /\ t = [u EXCEPT !.browser.criteria = criteria]
  <2>1. PICK params : params = ListsOfOfflineHosts!ComposeFilterParams(q) OBVIOUS
  <2>2. DOMAIN params = {"lab", "groups", "targets", "harness", "operator", "hours"}
    BY <2>1 DEF ListsOfOfflineHosts!ComposeFilterParams
  <2>3. PICK groups, targets :
          /\ groups = q.hostGroups.selected
               \/ (groups = {All} /\ q.hostGroups.selected = q.hostGroups.items)
          /\ targets = q.runTargets.selected
               \/ (targets = {All} /\ q.runTargets.selected = q.runTargets.items)
          /\ t = [u EXCEPT !.browser.criteria =
                    [params EXCEPT !.groups = groups, !.targets = targets]]
    BY <1>1, <2>1 DEF ListsOfOfflineHosts!UpdateLocalStorage, All
  <2>4. PICK criteria : criteria = [params EXCEPT !.groups = groups, !.targets = targets]
    OBVIOUS
  <2>5. criteria.groups = groups /\ criteria.targets = targets BY <2>2, <2>4
  <2> QED BY <2>3, <2>4, <2>5
<1>6. /\ IsOf(t) /\ t.page = q /\ DOMAIN t.browser = {"criteria", "url"}
      /\ t.browser.url = url /\ t.browser.criteria = criteria
  BY <1>1, <1>4, <1>5 DEF IsOf
<1>7. FiltersFit(q) BY <1>1, SameFiltersFit
<1>8. AreRemembered(q, t.browser)
  BY <1>1, <1>3, <1>5, <1>6 DEF AreRemembered, Remembered, SameFilters
<1> QED BY <1>6, <1>7, <1>8 DEF IsAddressed, GoodAddress

\* The lists that are made from the filters are no filters.
LEMMA ListsAreNoFilters ==
  ASSUME NEW s, IsOf(s), DOMAIN s.page = OfflineFields, NEW t,
         t = ListsOfOfflineHosts!FilterHostListsDataSources(s)
  PROVE  IsOf(t) /\ SameFilters(s.page, t.page) /\ t.browser = s.browser
<1>1. PICK p : p = s.page OBVIOUS
<1>2. PICK lists, behind : t = [s EXCEPT !.page.lists = lists, !.page.behind = behind]
  BY <1>1 DEF ListsOfOfflineHosts!FilterHostListsDataSources, IsOf, OfflineFields
<1>3. IsOf(t) /\ t.browser = s.browser
        /\ t.page = [p EXCEPT !.lists = lists, !.behind = behind]
  BY <1>1, <1>2 DEF IsOf
<1> QED BY <1>1, <1>3 DEF SameFilters, OfflineFields

LEMMA ReplaceFacts ==
  ASSUME NEW s, IsOf(s), NEW t, t = ListsOfOfflineHosts!ReplaceState(s)
  PROVE  IsOf(t) /\ t.page = s.page
BY DEF ListsOfOfflineHosts!ReplaceState, IsOf

LEMMA SameFiltersOn ==
  ASSUME NEW p, NEW q, NEW r, SameFilters(p, q), SameFilters(q, r)
  PROVE  SameFilters(p, r)
BY DEF SameFilters

\* Whatever filters fit are addressed when the hosts are listed anew.
LEMMA FilteredIsAddressed ==
  ASSUME NEW s, IsOf(s), FiltersFit(s.page), DOMAIN s.browser = {"criteria", "url"},
         NEW b, NEW t,
         \/ t = ListsOfOfflineHosts!ReloadHosts(s)
         \/ t = ListsOfOfflineHosts!UpdateLocalStorage(
                  ListsOfOfflineHosts!FilterHostListsDataSources(
                    ListsOfOfflineHosts!ReplaceState(s)), b)
  PROVE  IsAddressed(t)
<1>1. PICK r, shown : /\ r = ListsOfOfflineHosts!ReplaceState(s)
                      /\ shown = ListsOfOfflineHosts!FilterHostListsDataSources(r)
  OBVIOUS
<1>2. IsOf(r) /\ r.page = s.page BY <1>1, ReplaceFacts
<1>3. DOMAIN s.page = OfflineFields BY DEF FiltersFit
<1>4. IsOf(shown) /\ SameFilters(s.page, shown.page) /\ shown.browser = r.browser
  BY <1>1, <1>2, <1>3, ListsAreNoFilters
<1>5. CASE t = ListsOfOfflineHosts!UpdateLocalStorage(shown, b)
  BY <1>1, <1>4, <1>5, StoredIsAddressed
<1>6. CASE t = ListsOfOfflineHosts!ReloadHosts(s)
  <2>1. PICK told :
          /\ told = shown \/ told = [shown EXCEPT !.page.tables["hosts"] =
                                       ListsOfOfflineHosts!ResetSelection(@)]
          /\ t = ListsOfOfflineHosts!UpdateLocalStorage(told, FALSE)
    BY <1>1, <1>6 DEF ListsOfOfflineHosts!ReloadHosts
  <2>2. CASE told = shown BY <1>1, <1>4, <2>1, <2>2, StoredIsAddressed
  <2>3. CASE told = [shown EXCEPT !.page.tables["hosts"] =
                       ListsOfOfflineHosts!ResetSelection(@)]
    <3>1. PICK p : p = shown.page /\ DOMAIN p = OfflineFields
      BY <1>3, <1>4 DEF SameFilters
    <3>2. PICK tables :
            tables = [p.tables EXCEPT !["hosts"] =
                        ListsOfOfflineHosts!ResetSelection(@)]
      OBVIOUS
    <3>3. /\ IsOf(told) /\ told.browser = shown.browser
          /\ told.page = [p EXCEPT !.tables = tables]
      BY <1>4, <2>3, <3>1, <3>2 DEF IsOf, OfflineFields
    <3>4. SameFilters(p, told.page) BY <3>1, <3>3 DEF SameFilters, OfflineFields
    <3>5. SameFilters(s.page, told.page) BY <1>4, <3>1, <3>4, SameFiltersOn
    <3> QED BY <1>1, <1>4, <2>1, <3>3, <3>5, StoredIsAddressed
  <2> QED BY <2>1, <2>2, <2>3
<1> QED BY <1>1, <1>5, <1>6

\* The filters of a page that is opened, and those that a refresh or a lab leaves.
LEMMA DefaultsFit ==
  ASSUME NEW options, NEW url, NEW stored, NEW v,
         v = ListsOfOfflineHosts!GetDefaultValues(url, stored, options)
  PROVE  v \subseteq options \/ v = {All}
BY DEF ListsOfOfflineHosts!GetDefaultValues, All

LEMMA PickerIsFit ==
  ASSUME NEW options, NEW items, items \subseteq options, NEW selected,
         selected \subseteq items \/ selected = {All}
  PROVE  PickerFits(ListsOfOfflineHosts!Picker(items, selected), options)
BY DEF PickerFits, ListsOfOfflineHosts!Picker

LEMMA OfferedOptions ==
  ASSUME NEW p, AreFound(p.offlineHosts)
  PROVE  /\ ListsOfOfflineHosts!GetHostGroups(p) \subseteq AllGroups
         /\ ListsOfOfflineHosts!GetRunTargets(p) \subseteq AllTargets
<1>1. ListsOfOfflineHosts!OfLab(p) \subseteq OfflineHostsPage.Hosts
  BY DEF ListsOfOfflineHosts!OfLab, AreFound, IsRow
<1> QED BY <1>1 DEF ListsOfOfflineHosts!GetHostGroups, ListsOfOfflineHosts!GetRunTargets,
     AllGroups, AllTargets

\* The filters, when hosts of a lab are there.
LEMMA SelectionsFit ==
  ASSUME NEW p, FiltersFit(p), AreFound(p.offlineHosts)
  PROVE  /\ \A url, stored : FiltersFit(ListsOfOfflineHosts!InitSelections(p, url, stored))
         /\ FiltersFit(ListsOfOfflineHosts!KeepSelections(p))
         /\ FiltersFit(ListsOfOfflineHosts!ResetSelections(p))
<1>1. DOMAIN p = OfflineFields BY DEF FiltersFit
<1>2. PICK groups, targets, harnesses :
        /\ groups = ListsOfOfflineHosts!GetHostGroups(p)
        /\ targets = ListsOfOfflineHosts!GetRunTargets(p)
        /\ harnesses = ListsOfOfflineHosts!GetTestHarnesses(p)
  OBVIOUS
<1>3. groups \subseteq AllGroups /\ targets \subseteq AllTargets
  BY <1>2, OfferedOptions
<1>4. ASSUME NEW a, PickerFits(a, AllGroups), NEW b, PickerFits(b, AllTargets), NEW c,
             NEW d, d \in c \cup {All, ""}, NEW q, DOMAIN q = OfflineFields, NEW t,
             t = [q EXCEPT !.hostGroups = a, !.runTargets = b, !.harnesses = c,
                           !.harness = d]
      PROVE  FiltersFit(t)
  BY <1>4 DEF FiltersFit, OfflineFields
<1>5. ASSUME NEW url, NEW stored
      PROVE  FiltersFit(ListsOfOfflineHosts!InitSelections(p, url, stored))
  <2>1. PICK x, y, d :
          /\ x = ListsOfOfflineHosts!GetDefaultValues(url.groups, stored.groups, groups)
          /\ y = ListsOfOfflineHosts!GetDefaultValues(url.targets, stored.targets, targets)
          /\ d = ListsOfOfflineHosts!GetDefaultValue(url.harness, stored.harness,
                                                     harnesses, All)
    OBVIOUS
  <2>2. PICK a, b : /\ a = ListsOfOfflineHosts!Picker(groups, x)
                    /\ b = ListsOfOfflineHosts!Picker(targets, y)
    OBVIOUS
  <2>3. PickerFits(a, AllGroups) BY <1>3, <2>1, <2>2, DefaultsFit, PickerIsFit
  <2>4. PickerFits(b, AllTargets) BY <1>3, <2>1, <2>2, DefaultsFit, PickerIsFit
  <2>5. d \in harnesses \cup {All, ""}
    BY <2>1 DEF ListsOfOfflineHosts!GetDefaultValue, All
  <2>6. PICK t : t = ListsOfOfflineHosts!InitSelections(p, url, stored) OBVIOUS
  <2>7. t = [p EXCEPT !.hostGroups = a, !.runTargets = b, !.harnesses = harnesses,
                      !.harness = d]
    BY <1>2, <2>1, <2>2, <2>6 DEF ListsOfOfflineHosts!InitSelections,
       ListsOfOfflineHosts!InitGroups, ListsOfOfflineHosts!InitTargets, All
  <2>8. FiltersFit(t) BY <1>1, <1>4, <2>3, <2>4, <2>5, <2>7
  <2> QED BY <2>6, <2>8
<1>6. PICK kept : kept = ListsOfOfflineHosts!KeepSelections(p) OBVIOUS
<1>7. FiltersFit(kept)
  <2>1. PICK a, b, d :
          /\ a = ListsOfOfflineHosts!Picker(groups, p.hostGroups.selected \cap groups)
          /\ b = ListsOfOfflineHosts!Picker(targets, p.runTargets.selected \cap targets)
          /\ d = IF p.harness \in harnesses THEN p.harness ELSE All
    OBVIOUS
  <2>2. PickerFits(a, AllGroups) /\ PickerFits(b, AllTargets)
    BY <1>3, <2>1, PickerIsFit
  <2>3. kept = [p EXCEPT !.hostGroups = a, !.runTargets = b, !.harnesses = harnesses,
                         !.harness = d]
    BY <1>1, <1>2, <1>6, <2>1 DEF ListsOfOfflineHosts!KeepSelections, OfflineFields, All
  <2>4. d \in harnesses \cup {All, ""} BY <2>1
  <2> QED BY <1>1, <1>4, <2>2, <2>3, <2>4
<1>8. FiltersFit(ListsOfOfflineHosts!ResetSelections(p))
  <2>1. PICK a, b : /\ a = ListsOfOfflineHosts!Picker(groups, {All})
                    /\ b = ListsOfOfflineHosts!Picker(targets, {All})
    OBVIOUS
  <2>2. PickerFits(a, AllGroups) /\ PickerFits(b, AllTargets)
    BY <1>3, <2>1, PickerIsFit
  <2>3. ListsOfOfflineHosts!ResetSelections(p)
          = [kept EXCEPT !.hostGroups = a, !.runTargets = b]
    BY <1>2, <1>6, <2>1 DEF ListsOfOfflineHosts!ResetSelections, All
  <2> QED BY <1>7, <2>2, <2>3 DEF FiltersFit, OfflineFields
<1> QED BY <1>5, <1>6, <1>7, <1>8

\* The time filter is none of those that are read back.
LEMMA TimeIsNoFilter ==
  ASSUME NEW p, DOMAIN p = OfflineFields, NEW url, NEW stored, NEW q,
         q = ListsOfOfflineHosts!InitLastCheckInSelection(p, url, stored)
  PROVE  SameFilters(p, q)
<1>1. PICK a, b, c : q = [p EXCEPT !.operator = a, !.hours = b, !.timestamp = c]
  BY DEF ListsOfOfflineHosts!InitLastCheckInSelection, OfflineFields
<1> QED BY <1>1 DEF SameFilters, OfflineFields

LEMMA SendIsAddressed ==
  ASSUME NEW s, IsAddressed(s), NEW kind, NEW arg, NEW t,
         t = ListsOfOfflineHosts!Send(s, kind, arg)
  PROVE  IsAddressed(t)
BY DEF ListsOfOfflineHosts!Send, IsAddressed, IsOf

\* A field that is no filter.
LEMMA OtherIsAddressed ==
  ASSUME NEW s, IsAddressed(s), NEW f \in
           OfflineFields \ {"hostGroups", "runTargets", "harnesses", "harness"},
         NEW x, NEW t, t = [s EXCEPT !.page[f] = x]
  PROVE  IsAddressed(t)
<1>1. PICK p, q : p = s.page /\ q = [p EXCEPT ![f] = x] OBVIOUS
<1>2. IsOf(t) /\ t.page = q /\ t.browser = s.browser
  BY <1>1 DEF IsAddressed, IsOf
<1>3. DOMAIN p = OfflineFields BY <1>1 DEF IsAddressed, GoodAddress, FiltersFit
<1>4. SameFilters(p, q) BY <1>1, <1>3, OtherFilterFields
<1> QED BY <1>1, <1>2, <1>4, AddressOn

LEMMA ReloadIsAddressed ==
  ASSUME NEW s, IsAddressed(s), NEW next, NEW t,
         t = ListsOfOfflineHosts!GetHosts(s, next) \/ t = ListsOfOfflineHosts!Reload(s, next)
  PROVE  IsAddressed(t)
<1>1. ASSUME NEW u, IsAddressed(u), t = ListsOfOfflineHosts!GetHosts(u, next)
      PROVE  IsAddressed(t)
  <2>1. PICK arg : t = ListsOfOfflineHosts!Send(u, "hosts", arg)
    BY <1>1 DEF ListsOfOfflineHosts!GetHosts
  <2> QED BY <1>1, <2>1, SendIsAddressed
<1>2. PICK u : u = [s EXCEPT !.page["isLoading"] = TRUE] OBVIOUS
<1>3. IsAddressed(u) BY <1>2, OtherIsAddressed DEF OfflineFields
<1>4. \/ t = s \/ t = ListsOfOfflineHosts!GetHosts(s, next)
      \/ t = ListsOfOfflineHosts!GetHosts(u, next)
  BY <1>2 DEF ListsOfOfflineHosts!Reload
<1> QED BY <1>1, <1>3, <1>4

\* A page that is opened shows no hosts yet.
LEMMA FreshFits ==
  ASSUME NEW b, NEW params, NEW p, p = ListsOfOfflineHosts!FreshOfflineHosts(b, params)
  PROVE  FiltersFit(p) /\ p.harness = ""
<1>1. PICK empty : empty = ListsOfOfflineHosts!Picker({}, {}) OBVIOUS
<1>2. PickerFits(empty, AllGroups) /\ PickerFits(empty, AllTargets)
  BY <1>1, PickerIsFit
<1>3. /\ DOMAIN p = OfflineFields /\ p.hostGroups = empty /\ p.runTargets = empty
      /\ p.harness = ""
  BY <1>1 DEF ListsOfOfflineHosts!FreshOfflineHosts, OfflineFields
<1> QED BY <1>2, <1>3 DEF FiltersFit

LEMMA FreshIsAddressed ==
  ASSUME NEW s, IsOf(s), DOMAIN s.browser = {"criteria", "url"}, NEW b, NEW params,
         NEW t, t = ListsOfOfflineHosts!Open(s, b, params)
  PROVE  IsAddressed(t)
<1>1. PICK fresh, p, u :
        /\ fresh = ListsOfOfflineHosts!FreshOfflineHosts(b, params)
        /\ p = ListsOfOfflineHosts!InitLastCheckInSelection(fresh, params, s.browser.criteria)
        /\ u = [s EXCEPT !.page = p, !.requests = <<>>]
        /\ t = ListsOfOfflineHosts!Send(u, "labs", {})
  BY DEF ListsOfOfflineHosts!Open
<1>2. FiltersFit(fresh) /\ fresh.harness = "" BY <1>1, FreshFits
<1>3. SameFilters(fresh, p) BY <1>1, <1>2, TimeIsNoFilter DEF FiltersFit
<1>4. FiltersFit(p) /\ p.harness = "" BY <1>2, <1>3, SameFiltersFit DEF SameFilters
<1>5. IsAddressed(u) BY <1>1, <1>4 DEF IsAddressed, IsOf, GoodAddress
<1> QED BY <1>1, <1>5, SendIsAddressed

-----------------------------------------------------------------------------
(* The steps of the lists of offline hosts, and their address.             *)

\* The hosts of the lab have arrived.
LEMMA TakenIsAddressed ==
  ASSUME NEW s, IsAddressed(s), NEW answer, AreFound(answer.offline), NEW next, NEW t,
         t = ListsOfOfflineHosts!TakeHosts(s, answer, next)
  PROVE  IsAddressed(t)
<1>1. PICK p : p = [s.page EXCEPT !.offlineHosts = answer.offline,
                                  !.assignedHosts = answer.assigned, !.isLoading = FALSE]
  OBVIOUS
<1>2. FiltersFit(p) /\ AreFound(p.offlineHosts) /\ DOMAIN p = OfflineFields
  <2>1. FiltersFit(s.page) /\ DOMAIN s.page = OfflineFields
    BY DEF IsAddressed, GoodAddress, FiltersFit
  <2>2. SameFilters(s.page, p) /\ p.offlineHosts = answer.offline
    BY <1>1, <2>1 DEF SameFilters, OfflineFields
  <2> QED BY <2>1, <2>2, SameFiltersFit DEF FiltersFit
<1>3. ASSUME NEW q, FiltersFit(q), NEW u, u = [s EXCEPT !.page = q], NEW b,
             \/ t = ListsOfOfflineHosts!ReloadHosts(u)
             \/ t = ListsOfOfflineHosts!UpdateLocalStorage(
                      ListsOfOfflineHosts!FilterHostListsDataSources(
                        ListsOfOfflineHosts!ReplaceState(u)), b)
      PROVE  IsAddressed(t)
  <2>1. IsOf(u) /\ u.page = q /\ DOMAIN u.browser = {"criteria", "url"}
    BY <1>3 DEF IsAddressed, IsOf, GoodAddress
  <2> QED BY <1>3, <2>1, FilteredIsAddressed
<1>4. CASE next = "load"
  <2>1. PICK inited, timed, u :
          /\ inited = ListsOfOfflineHosts!InitSelections(p, p.urlParams, s.browser.criteria)
          /\ timed = inited
               \/ timed = ListsOfOfflineHosts!InitLastCheckInSelection(
                            inited, p.urlParams, s.browser.criteria)
          /\ u = [s EXCEPT !.page = timed]
          /\ t = ListsOfOfflineHosts!UpdateLocalStorage(
                   ListsOfOfflineHosts!FilterHostListsDataSources(
                     ListsOfOfflineHosts!ReplaceState(u)), TRUE)
    BY <1>1, <1>4 DEF ListsOfOfflineHosts!TakeHosts
  <2>2. FiltersFit(inited) /\ DOMAIN inited = OfflineFields
    BY <1>2, <2>1, SelectionsFit DEF FiltersFit
  <2>3. FiltersFit(timed)
    <3>1. timed = inited \/ SameFilters(inited, timed) BY <2>1, <2>2, TimeIsNoFilter
    <3> QED BY <2>2, <3>1, SameFiltersFit
  <2> QED BY <1>3, <2>1, <2>3
<1>5. CASE next = "lab"
  <2>1. PICK q, u :
          /\ q = ListsOfOfflineHosts!ResetSelections(p) /\ u = [s EXCEPT !.page = q]
          /\ t = ListsOfOfflineHosts!UpdateLocalStorage(
                   ListsOfOfflineHosts!FilterHostListsDataSources(
                     ListsOfOfflineHosts!ReplaceState(u)), FALSE)
    BY <1>1, <1>5 DEF ListsOfOfflineHosts!TakeHosts
  <2> QED BY <1>2, <1>3, <2>1, SelectionsFit
<1>6. CASE next = "filters"
  <2>1. PICK q, u :
          /\ q = ListsOfOfflineHosts!KeepSelections(p) /\ u = [s EXCEPT !.page = q]
          /\ t = ListsOfOfflineHosts!ReloadHosts(u)
    BY <1>1, <1>6 DEF ListsOfOfflineHosts!TakeHosts
  <2> QED BY <1>2, <1>3, <2>1, SelectionsFit
<1>7. CASE next # "load" /\ next # "lab" /\ next # "filters"
  <2>1. PICK u : u = [s EXCEPT !.page = p] /\ t = ListsOfOfflineHosts!ReloadHosts(u)
    BY <1>1, <1>7 DEF ListsOfOfflineHosts!TakeHosts
  <2> QED BY <1>2, <1>3, <2>1
<1> QED BY <1>4, <1>5, <1>6, <1>7

LEMMA AddressBecomes ==
  ASSUME NEW s, IsAddressed(s), ListsOfOfflineHosts!Becomes(s)
  PROVE  GoodAddress(page', browser')
BY DEF IsAddressed, ListsOfOfflineHosts!Becomes

LEMMA AddressHeard ==
  ASSUME GoodAddress(page, browser), NEW i, NEW s, s = ListsOfOfflineHosts!Heard(i)
  PROVE  IsAddressed(s) /\ s.page = page
BY DEF IsAddressed, IsOf, ListsOfOfflineHosts!Heard, ListsOfOfflineHosts!State

LEMMA AddressNow ==
  ASSUME GoodAddress(page, browser), NEW s, s = ListsOfOfflineHosts!State
  PROVE  IsAddressed(s) /\ s.page = page
BY DEF IsAddressed, IsOf, ListsOfOfflineHosts!State

LEMMA AddressHearsStep ==
  ASSUME GoodAddress(page, browser), GoodFinds(requests), NEW i \in DOMAIN requests,
         \/ ListsOfOfflineHosts!LabsArrive(i)
         \/ ListsOfOfflineHosts!HostsArrive(i)
         \/ ListsOfOfflineHosts!CallFails(i)
         \/ ListsOfOfflineHosts!CommandDone(i)
  PROVE  GoodAddress(page', browser')
<1>1. PICK h : h = ListsOfOfflineHosts!Heard(i) OBVIOUS
<1>2. IsAddressed(h) /\ h.page = page BY <1>1, AddressHeard
<1>3. CASE ListsOfOfflineHosts!LabsArrive(i)
  <2>1. PICK lab, u : /\ u = [h EXCEPT !.page["selectedLab"] = lab]
                      /\ ListsOfOfflineHosts!Becomes(ListsOfOfflineHosts!GetHosts(u, "load"))
    BY <1>1, <1>3 DEF ListsOfOfflineHosts!LabsArrive
  <2>2. IsAddressed(u) BY <1>2, <2>1, OtherIsAddressed DEF OfflineFields
  <2> QED BY <2>1, <2>2, ReloadIsAddressed, AddressBecomes
<1>4. CASE ListsOfOfflineHosts!HostsArrive(i)
  <2>1. PICK answer, next :
          /\ answer = requests[i].answer
          /\ ListsOfOfflineHosts!Becomes(ListsOfOfflineHosts!TakeHosts(h, answer, next))
          /\ requests[i].kind = "hosts" /\ requests[i].status = "ok"
    BY <1>1, <1>4 DEF ListsOfOfflineHosts!HostsArrive, ListsOfOfflineHosts!Hears
  <2>2. AreFound(answer.offline) BY <2>1 DEF GoodFinds, FindsHosts
  <2> QED BY <1>2, <2>1, <2>2, TakenIsAddressed, AddressBecomes
<1>5. CASE ListsOfOfflineHosts!CallFails(i)
  <2>1. PICK b, u : u = [h EXCEPT !.page["isLoading"] = b] /\ ListsOfOfflineHosts!Becomes(u)
    BY <1>1, <1>2, <1>5
    DEF ListsOfOfflineHosts!CallFails, IsAddressed, IsOf, GoodAddress, FiltersFit,
        OfflineFields
  <2>2. IsAddressed(u) BY <1>2, <2>1, OtherIsAddressed DEF OfflineFields
  <2> QED BY <2>1, <2>2, AddressBecomes
<1>6. CASE ListsOfOfflineHosts!CommandDone(i)
  <2>1. CASE ListsOfOfflineHosts!Becomes(ListsOfOfflineHosts!Reload(h, "filters"))
    BY <1>2, <2>1, ReloadIsAddressed, AddressBecomes
  <2>2. CASE ListsOfOfflineHosts!Becomes(ListsOfOfflineHosts!RemoveSelectedHosts(h))
    <3>1. PICK u : u = ListsOfOfflineHosts!RemoveSelectedHosts(h) OBVIOUS
    <3>2. PICK p : p = h.page /\ DOMAIN p = OfflineFields
      BY <1>2 DEF IsAddressed, GoodAddress, FiltersFit
    <3>3. PICK lists, tables, behind :
            /\ lists = [p.lists EXCEPT
                 !["me"] = {r \in @ : r.host \notin ListsOfOfflineHosts!Chosen("me")}]
            /\ tables = [p.tables EXCEPT !["me"] = ListsOfOfflineHosts!ResetSelection(@)]
            /\ behind = p.behind \cup {"me"}
      OBVIOUS
    <3>4. /\ IsOf(u) /\ u.browser = h.browser
          /\ u.page = [p EXCEPT !.lists = lists, !.tables = tables, !.behind = behind]
      BY <1>2, <3>1, <3>2, <3>3
      DEF ListsOfOfflineHosts!RemoveSelectedHosts, IsAddressed, IsOf, OfflineFields
    <3>5. SameFilters(p, u.page) BY <3>2, <3>4 DEF SameFilters, OfflineFields
    <3>6. IsAddressed(u) BY <1>2, <3>2, <3>4, <3>5, AddressOn
    <3> QED BY <2>2, <3>1, <3>6, AddressBecomes
  <2>3. ASSUME NEW params,
               ListsOfOfflineHosts!Becomes(ListsOfOfflineHosts!Open(h, FALSE, params))
        PROVE  GoodAddress(page', browser')
    <3>1. PICK u : u = ListsOfOfflineHosts!Open(h, FALSE, params) OBVIOUS
    <3>2. IsAddressed(u) BY <1>2, <3>1, FreshIsAddressed DEF IsAddressed, GoodAddress
    <3> QED BY <2>3, <3>1, <3>2, AddressBecomes
  <2>4. CASE ListsOfOfflineHosts!Becomes(h) BY <1>2, <2>4, AddressBecomes
  <2> QED BY <1>1, <1>6, <2>1, <2>2, <2>3, <2>4 DEF ListsOfOfflineHosts!CommandDone
<1> QED BY <1>3, <1>4, <1>5, <1>6

\* What the user does that asks for something, and leaves the filters.
LEMMA AddressCallSteps ==
  ASSUME GoodAddress(page, browser),
         \/ \E lab : ListsOfOfflineHosts!SelectLab(lab)
         \/ \E operator, hours : ListsOfOfflineHosts!SetLastCheckInTime(operator, hours)
         \/ ListsOfOfflineHosts!Refresh
         \/ ListsOfOfflineHosts!StartRecovering
         \/ \E l, user : ListsOfOfflineHosts!AssignHostsTo(l, user)
         \/ ListsOfOfflineHosts!MarkHostsAsVerified
         \/ \E row, next : ListsOfOfflineHosts!ToggleHostFixedState(row, next)
         \/ \E b : ListsOfOfflineHosts!Reopen(b)
  PROVE  GoodAddress(page', browser')
<1>1. PICK s : s = ListsOfOfflineHosts!State OBVIOUS
<1>2. IsAddressed(s) /\ s.page = page BY <1>1, AddressNow
<1>3. ASSUME NEW u, IsAddressed(u), NEW next,
             ListsOfOfflineHosts!Becomes(ListsOfOfflineHosts!Reload(u, next))
      PROVE  GoodAddress(page', browser')
  <2>1. PICK t : t = ListsOfOfflineHosts!Reload(u, next) OBVIOUS
  <2> QED BY <1>3, <2>1, ReloadIsAddressed, AddressBecomes
<1>4. ASSUME NEW hosts, NEW state, NEW assignee, NEW next,
             ListsOfOfflineHosts!Becomes(
               ListsOfOfflineHosts!SetRecoveryStates(hosts, state, assignee, next))
      PROVE  GoodAddress(page', browser')
  <2>1. PICK arg : ListsOfOfflineHosts!Becomes(ListsOfOfflineHosts!Send(s, "recovery", arg))
    BY <1>1, <1>4 DEF ListsOfOfflineHosts!SetRecoveryStates
  <2> QED BY <1>2, <2>1, SendIsAddressed, AddressBecomes
<1>5. ASSUME NEW b, NEW params,
             ListsOfOfflineHosts!Becomes(ListsOfOfflineHosts!Open(s, b, params))
      PROVE  GoodAddress(page', browser')
  <2>1. PICK u : u = ListsOfOfflineHosts!Open(s, b, params) OBVIOUS
  <2>2. IsAddressed(u) BY <1>2, <2>1, FreshIsAddressed DEF IsAddressed, GoodAddress
  <2> QED BY <1>5, <2>1, <2>2, AddressBecomes
<1>6. ASSUME NEW lab, ListsOfOfflineHosts!SelectLab(lab)
      PROVE  GoodAddress(page', browser')
  <2>1. PICK u, next : /\ u = [s EXCEPT !.page["selectedLab"] = lab]
                       /\ ListsOfOfflineHosts!Becomes(ListsOfOfflineHosts!Reload(u, next))
    BY <1>1, <1>6 DEF ListsOfOfflineHosts!SelectLab
  <2>2. IsAddressed(u) BY <1>2, <2>1, OtherIsAddressed DEF OfflineFields
  <2> QED BY <1>3, <2>1, <2>2
<1>7. ASSUME NEW operator, NEW hours,
             ListsOfOfflineHosts!SetLastCheckInTime(operator, hours)
      PROVE  GoodAddress(page', browser')
  <2>1. PICK timed, p, u :
          /\ timed = page \/ timed = [page EXCEPT !.hours = hours, !.timestamp = hours]
          /\ p = [timed EXCEPT !.operator = operator] /\ u = [s EXCEPT !.page = p]
          /\ ListsOfOfflineHosts!Becomes(ListsOfOfflineHosts!Reload(u, "hosts"))
    BY <1>1, <1>7 DEF ListsOfOfflineHosts!SetLastCheckInTime
  <2>2. DOMAIN page = OfflineFields BY DEF GoodAddress, FiltersFit
  <2>3. SameFilters(page, p) BY <2>1, <2>2 DEF SameFilters, OfflineFields
  <2>4. IsOf(u) /\ u.page = p /\ u.browser = s.browser
    BY <1>2, <2>1 DEF IsAddressed, IsOf
  <2>5. IsAddressed(u) BY <1>2, <2>3, <2>4, AddressOn
  <2> QED BY <1>3, <2>1, <2>5
<1>8. CASE ListsOfOfflineHosts!Refresh
  BY <1>1, <1>2, <1>3, <1>8 DEF ListsOfOfflineHosts!Refresh
<1>9. CASE ListsOfOfflineHosts!StartRecovering
  BY <1>1, <1>4, <1>5, <1>9 DEF ListsOfOfflineHosts!StartRecovering
<1>10. ASSUME NEW l, NEW user, ListsOfOfflineHosts!AssignHostsTo(l, user)
       PROVE  GoodAddress(page', browser')
  BY <1>4, <1>10 DEF ListsOfOfflineHosts!AssignHostsTo
<1>11. CASE ListsOfOfflineHosts!MarkHostsAsVerified
  BY <1>4, <1>11 DEF ListsOfOfflineHosts!MarkHostsAsVerified
<1>12. ASSUME NEW row, NEW next, ListsOfOfflineHosts!ToggleHostFixedState(row, next)
       PROVE  GoodAddress(page', browser')
  BY <1>4, <1>12 DEF ListsOfOfflineHosts!ToggleHostFixedState
<1>13. ASSUME NEW b, ListsOfOfflineHosts!Reopen(b)
       PROVE  GoodAddress(page', browser')
  BY <1>1, <1>5, <1>13 DEF ListsOfOfflineHosts!Reopen
<1> QED BY <1>6, <1>7, <1>8, <1>9, <1>10, <1>11, <1>12, <1>13

\* What is ticked is offered, and what is emitted for it.
LEMMA TickedFits ==
  ASSUME NEW options, NEW picker, PickerFits(picker, options)
  PROVE  /\ \A v \in picker.items :
              PickerFits(ListsOfOfflineHosts!ToggleOption(picker, v), options)
         /\ \A all : PickerFits(ListsOfOfflineHosts!ToggleAllSelected(picker, all), options)
         /\ PickerFits(ListsOfOfflineHosts!ToggleFilteredSelection(picker), options)
<1>1. PICK old : old = ListsOfOfflineHosts!Selection(picker) OBVIOUS
<1>2. old \subseteq picker.items
  BY <1>1 DEF ListsOfOfflineHosts!Selection, PickerFits, All
<1>3. ASSUME NEW x, x \subseteq picker.items, NEW t,
             t = ListsOfOfflineHosts!Emit(picker, x)
      PROVE  PickerFits(t, options)
  BY <1>3 DEF ListsOfOfflineHosts!Emit, ListsOfOfflineHosts!ConvertedSelection, PickerFits,
     All
<1>4. ASSUME NEW v \in picker.items
      PROVE  PickerFits(ListsOfOfflineHosts!ToggleOption(picker, v), options)
  <2>1. PICK x : /\ x = old \ {v} \/ x = old \cup {v}
                 /\ ListsOfOfflineHosts!ToggleOption(picker, v)
                      = ListsOfOfflineHosts!Emit(picker, x)
    BY <1>1 DEF ListsOfOfflineHosts!ToggleOption
  <2>2. x \subseteq picker.items BY <1>2, <1>4, <2>1
  <2> QED BY <1>3, <2>1, <2>2
<1>5. ASSUME NEW all
      PROVE  PickerFits(ListsOfOfflineHosts!ToggleAllSelected(picker, all), options)
  BY DEF ListsOfOfflineHosts!ToggleAllSelected, PickerFits, All
<1>6. PickerFits(ListsOfOfflineHosts!ToggleFilteredSelection(picker), options)
  <2>1. PICK x : /\ x = old \ picker.shown \/ x = picker.shown \cup (old \cap picker.items)
                 /\ ListsOfOfflineHosts!ToggleFilteredSelection(picker)
                      = ListsOfOfflineHosts!Emit(picker, x)
    BY <1>1 DEF ListsOfOfflineHosts!ToggleFilteredSelection
  <2>2. x \subseteq picker.items BY <1>2, <2>1 DEF PickerFits
  <2> QED BY <1>3, <2>1, <2>2
<1> QED BY <1>4, <1>5, <1>6

\* The filters that the user chooses.
LEMMA AddressFilterSteps ==
  ASSUME GoodAddress(page, browser),
         \/ ListsOfOfflineHosts!SelectRunTargets
         \/ \E text : ListsOfOfflineHosts!FilterRunTargets(text)
         \/ \E group : ListsOfOfflineHosts!SetHostGroups(group)
         \/ \E harness : ListsOfOfflineHosts!SelectTestHarness(harness)
  PROVE  GoodAddress(page', browser')
<1>1. PICK s : s = ListsOfOfflineHosts!State OBVIOUS
<1>2. IsAddressed(s) /\ s.page = page BY <1>1, AddressNow
<1>3. /\ FiltersFit(page) /\ DOMAIN page = OfflineFields
      /\ PickerFits(page.hostGroups, AllGroups) /\ PickerFits(page.runTargets, AllTargets)
  BY DEF GoodAddress, FiltersFit
<1>4. ASSUME NEW p, FiltersFit(p), ListsOfOfflineHosts!Chooses(p)
      PROVE  GoodAddress(page', browser')
  <2>1. PICK u, t : /\ u = [s EXCEPT !.page = p] /\ t = ListsOfOfflineHosts!ReloadHosts(u)
                    /\ ListsOfOfflineHosts!Becomes(t)
    BY <1>1, <1>4 DEF ListsOfOfflineHosts!Chooses
  <2>2. IsOf(u) /\ u.page = p /\ DOMAIN u.browser = {"criteria", "url"}
    BY <1>2, <2>1 DEF IsAddressed, IsOf, GoodAddress
  <2>3. IsAddressed(t) BY <1>4, <2>1, <2>2, FilteredIsAddressed
  <2> QED BY <2>1, <2>3, AddressBecomes
<1>5. CASE ListsOfOfflineHosts!SelectRunTargets
  <2>1. PICK x, p : /\ PickerFits(x, AllTargets) /\ p = [page EXCEPT !.runTargets = x]
                    /\ ListsOfOfflineHosts!Chooses(p)
    <3>1. ASSUME NEW v \in page.runTargets.shown, ListsOfOfflineHosts!Chooses(
                   [page EXCEPT !.runTargets = ListsOfOfflineHosts!ToggleOption(@, v)])
          PROVE  \E x : /\ PickerFits(x, AllTargets)
                        /\ ListsOfOfflineHosts!Chooses([page EXCEPT !.runTargets = x])
      <4>1. v \in page.runTargets.items BY <1>3, <3>1 DEF PickerFits
      <4>2. PICK x : x = ListsOfOfflineHosts!ToggleOption(page.runTargets, v) OBVIOUS
      <4>3. PickerFits(x, AllTargets) BY <1>3, <4>1, <4>2, TickedFits
      <4>4. ListsOfOfflineHosts!Chooses([page EXCEPT !.runTargets = x])
        BY <1>3, <3>1, <4>2 DEF OfflineFields
      <4> QED BY <4>3, <4>4
    <3>2. ASSUME NEW all, ListsOfOfflineHosts!Chooses(
                   [page EXCEPT !.runTargets = ListsOfOfflineHosts!ToggleAllSelected(@, all)])
          PROVE  \E x : /\ PickerFits(x, AllTargets)
                        /\ ListsOfOfflineHosts!Chooses([page EXCEPT !.runTargets = x])
      <4>1. PICK x : x = ListsOfOfflineHosts!ToggleAllSelected(page.runTargets, all) OBVIOUS
      <4>2. PickerFits(x, AllTargets) BY <1>3, <4>1, TickedFits
      <4>3. ListsOfOfflineHosts!Chooses([page EXCEPT !.runTargets = x])
        BY <1>3, <3>2, <4>1 DEF OfflineFields
      <4> QED BY <4>2, <4>3
    <3>3. ASSUME ListsOfOfflineHosts!Chooses(
                   [page EXCEPT !.runTargets =
                      ListsOfOfflineHosts!ToggleFilteredSelection(@)])
          PROVE  \E x : /\ PickerFits(x, AllTargets)
                        /\ ListsOfOfflineHosts!Chooses([page EXCEPT !.runTargets = x])
      <4>1. PICK x : x = ListsOfOfflineHosts!ToggleFilteredSelection(page.runTargets) OBVIOUS
      <4>2. PickerFits(x, AllTargets) BY <1>3, <4>1, TickedFits
      <4>3. ListsOfOfflineHosts!Chooses([page EXCEPT !.runTargets = x])
        BY <1>3, <3>3, <4>1 DEF OfflineFields
      <4> QED BY <4>2, <4>3
    <3>4. \E x : /\ PickerFits(x, AllTargets)
                 /\ ListsOfOfflineHosts!Chooses([page EXCEPT !.runTargets = x])
      BY <1>5, <3>1, <3>2, <3>3 DEF ListsOfOfflineHosts!SelectRunTargets
    <3> QED BY <3>4
  <2>2. FiltersFit(p) BY <1>3, <2>1 DEF FiltersFit, OfflineFields
  <2> QED BY <1>4, <2>1, <2>2
<1>6. ASSUME NEW text, ListsOfOfflineHosts!FilterRunTargets(text)
      PROVE  GoodAddress(page', browser')
  <2>1. PICK x, old : /\ old = page.runTargets /\ x = ListsOfOfflineHosts!DoFilter(old, text)
                      /\ page' = [page EXCEPT !.runTargets = x] /\ browser' = browser
    BY <1>3, <1>6
    DEF ListsOfOfflineHosts!FilterRunTargets, ListsOfOfflineHosts!Shows, OfflineFields
  <2>2. /\ DOMAIN x = DOMAIN old /\ x.items = old.items /\ x.selected = old.selected
        /\ x.shown \subseteq old.items
    BY <1>3, <2>1 DEF ListsOfOfflineHosts!DoFilter, PickerFits
  <2>3. PickerFits(x, AllTargets) BY <1>3, <2>1, <2>2 DEF PickerFits
  <2>4. /\ DOMAIN page' = OfflineFields /\ page'.hostGroups = page.hostGroups
        /\ page'.runTargets = x /\ page'.harnesses = page.harnesses
        /\ page'.harness = page.harness
    BY <1>3, <2>1 DEF OfflineFields
  <2>5. FiltersFit(page') BY <1>3, <2>3, <2>4 DEF FiltersFit
  <2>6. \A url, stored : Remembered(old, url, stored) => Remembered(x, url, stored)
    BY <2>2 DEF Remembered, ListsOfOfflineHosts!ConvertedSelection
  <2> QED BY <2>1, <2>4, <2>5, <2>6 DEF GoodAddress, AreRemembered
<1>7. ASSUME NEW group, ListsOfOfflineHosts!SetHostGroups(group)
      PROVE  GoodAddress(page', browser')
  <2>1. PICK x, p : /\ x = ListsOfOfflineHosts!ToggleOption(page.hostGroups, group)
                    /\ p = [page EXCEPT !.hostGroups = x] /\ group \in page.hostGroups.items
                    /\ ListsOfOfflineHosts!Chooses(p)
    BY <1>3, <1>7 DEF ListsOfOfflineHosts!SetHostGroups, OfflineFields
  <2>2. PickerFits(x, AllGroups) BY <1>3, <2>1, TickedFits
  <2>3. FiltersFit(p) BY <1>3, <2>1, <2>2 DEF FiltersFit, OfflineFields
  <2> QED BY <1>4, <2>1, <2>3
<1>8. ASSUME NEW harness, ListsOfOfflineHosts!SelectTestHarness(harness)
      PROVE  GoodAddress(page', browser')
  <2>1. PICK p : /\ p = [page EXCEPT !.harness = harness]
                 /\ harness \in page.harnesses \cup {All}
                 /\ ListsOfOfflineHosts!Chooses(p)
    BY <1>3, <1>8 DEF ListsOfOfflineHosts!SelectTestHarness, OfflineFields, All
  <2>2. FiltersFit(p) BY <1>3, <2>1 DEF FiltersFit, OfflineFields
  <2> QED BY <1>4, <2>1, <2>2
<1> QED BY <1>5, <1>6, <1>7, <1>8

\* The tables, and the service, leave the filters and what is remembered of them.
LEMMA AddressOtherSteps ==
  ASSUME GoodAddress(page, browser),
         \/ \E l : \/ ListsOfOfflineHosts!TableTakesRows(l)
                   \/ \E k, shift : ListsOfOfflineHosts!SelectRow(l, k, shift)
                   \/ ListsOfOfflineHosts!SelectAllRows(l)
                   \/ ListsOfOfflineHosts!SortRows(l)
         \/ \E i : ListsOfOfflineHosts!Serve(i) \/ ListsOfOfflineHosts!Fail(i)
         \/ \E h : ListsOfOfflineHosts!HostComesBack(h)
  PROVE  GoodAddress(page', browser')
<1>1. DOMAIN page = OfflineFields BY DEF GoodAddress, FiltersFit
<1>2. ASSUME NEW l, \/ ListsOfOfflineHosts!TableTakesRows(l)
                    \/ \E k, shift : ListsOfOfflineHosts!SelectRow(l, k, shift)
                    \/ ListsOfOfflineHosts!SelectAllRows(l)
                    \/ ListsOfOfflineHosts!SortRows(l)
      PROVE  GoodAddress(page', browser')
  <2>1. PICK behind, tables : /\ page' = [page EXCEPT !.behind = behind, !.tables = tables]
                              /\ browser' = browser
    <3>1. PICK tables :
            /\ \/ page' = [page EXCEPT !.tables = tables]
               \/ page' = [page EXCEPT !.behind = @ \ {l}, !.tables = tables]
            /\ browser' = browser
      BY <1>1, <1>2
      DEF ListsOfOfflineHosts!TableTakesRows, ListsOfOfflineHosts!SelectRow,
          ListsOfOfflineHosts!SelectAllRows, ListsOfOfflineHosts!SortRows,
          ListsOfOfflineHosts!Shows, OfflineFields
    <3>2. CASE page' = [page EXCEPT !.tables = tables]
      <4>1. page' = [page EXCEPT !.behind = page.behind, !.tables = tables]
        BY <1>1, <3>2 DEF OfflineFields
      <4> QED BY <3>1, <4>1
    <3>3. CASE page' = [page EXCEPT !.behind = @ \ {l}, !.tables = tables]
      <4>1. PICK behind : behind = page.behind \ {l} OBVIOUS
      <4>2. page' = [page EXCEPT !.behind = behind, !.tables = tables]
        BY <1>1, <3>3, <4>1 DEF OfflineFields
      <4> QED BY <3>1, <4>2
    <3> QED BY <3>1, <3>2, <3>3
  <2>2. SameFilters(page, page') BY <1>1, <2>1 DEF SameFilters, OfflineFields
  <2>3. FiltersFit(page) BY DEF GoodAddress
  <2> QED BY <2>1, <2>2, <2>3, SameFiltersFit
<1>3. ASSUME page' = page, browser' = browser PROVE GoodAddress(page', browser')
  BY <1>3
<1> QED BY <1>2, <1>3 DEF ListsOfOfflineHosts!Serve, ListsOfOfflineHosts!Fail,
     ListsOfOfflineHosts!HostComesBack

LEMMA AddressInit ==
  ASSUME ListsOfOfflineHosts!Init
  PROVE  GoodAddress(page, browser)
<1>1. PICK b, params, fresh :
        /\ fresh = ListsOfOfflineHosts!FreshOfflineHosts(b, params)
        /\ page = ListsOfOfflineHosts!InitLastCheckInSelection(fresh, params, params)
        /\ DOMAIN browser = {"criteria", "url"}
  BY DEF ListsOfOfflineHosts!Init
<1>2. FiltersFit(fresh) /\ fresh.harness = "" BY <1>1, FreshFits
<1>3. SameFilters(fresh, page) BY <1>1, <1>2, TimeIsNoFilter DEF FiltersFit
<1>4. FiltersFit(page) /\ page.harness = "" BY <1>2, <1>3, SameFiltersFit DEF SameFilters
<1> QED BY <1>1, <1>4 DEF GoodAddress

LEMMA AddressNext ==
  ASSUME GoodAddress(page, browser), GoodFinds(requests), [ListsOfOfflineHosts!Next]_vars
  PROVE  GoodAddress(page, browser)'
<1>1. CASE UNCHANGED vars BY <1>1 DEF vars
<1>2. CASE \E i \in DOMAIN requests :
             \/ ListsOfOfflineHosts!LabsArrive(i)
             \/ ListsOfOfflineHosts!HostsArrive(i)
             \/ ListsOfOfflineHosts!CallFails(i)
             \/ ListsOfOfflineHosts!CommandDone(i)
  BY <1>2, AddressHearsStep
<1>3. CASE \/ \E lab : ListsOfOfflineHosts!SelectLab(lab)
           \/ \E operator, hours : ListsOfOfflineHosts!SetLastCheckInTime(operator, hours)
           \/ ListsOfOfflineHosts!Refresh
           \/ ListsOfOfflineHosts!StartRecovering
           \/ \E l, user : ListsOfOfflineHosts!AssignHostsTo(l, user)
           \/ ListsOfOfflineHosts!MarkHostsAsVerified
           \/ \E row, next : ListsOfOfflineHosts!ToggleHostFixedState(row, next)
           \/ \E b : ListsOfOfflineHosts!Reopen(b)
  BY <1>3, AddressCallSteps
<1>4. CASE \/ ListsOfOfflineHosts!SelectRunTargets
           \/ \E text : ListsOfOfflineHosts!FilterRunTargets(text)
           \/ \E group : ListsOfOfflineHosts!SetHostGroups(group)
           \/ \E harness : ListsOfOfflineHosts!SelectTestHarness(harness)
  BY <1>4, AddressFilterSteps
<1>5. CASE \/ \E l : \/ ListsOfOfflineHosts!TableTakesRows(l)
                     \/ \E k, shift : ListsOfOfflineHosts!SelectRow(l, k, shift)
                     \/ ListsOfOfflineHosts!SelectAllRows(l)
                     \/ ListsOfOfflineHosts!SortRows(l)
           \/ \E i : ListsOfOfflineHosts!Serve(i) \/ ListsOfOfflineHosts!Fail(i)
           \/ \E h : ListsOfOfflineHosts!HostComesBack(h)
  BY <1>5, AddressOtherSteps
<1>6. ASSUME NEW operator, ListsOfOfflineHosts!SetLastCheckInTime(operator, 1)
      PROVE  GoodAddress(page, browser)'
  BY <1>3, <1>6
<1>7. ASSUME NEW v, ListsOfOfflineHosts!FilterRunTargets({v})
      PROVE  GoodAddress(page, browser)'
  BY <1>4, <1>7
<1>8. ASSUME NEW row, \/ ListsOfOfflineHosts!ToggleHostFixedState(row, "refresh")
                      \/ ListsOfOfflineHosts!ToggleHostFixedState(row, "nothing")
      PROVE  GoodAddress(page, browser)'
  BY <1>3, <1>8
<1> QED BY <1>1, <1>2, <1>3, <1>4, <1>5, <1>6, <1>7, <1>8 DEF ListsOfOfflineHosts!Next

-----------------------------------------------------------------------------
(* What a page opened from the address shows.                              *)

Passes(values, v) == values = {} \/ All \in values \/ v \in values

\* What passes what is selected passes what is read back, if it is offered then.
LEMMA ReadPasses ==
  ASSUME NEW options, IsFiniteSet(options), NEW picker, PickerFits(picker, options),
         NEW url, NEW stored, Remembered(picker, url, stored), NEW offered,
         NEW v \in offered, Passes(picker.selected, v), NEW values,
         values = ListsOfOfflineHosts!GetDefaultValues(url, stored, offered)
  PROVE  Passes(values, v)
<1>1. url = picker.selected \/ (url = {All} /\ picker.selected = picker.items)
  BY ConvertedFacts DEF Remembered
<1>2. CASE All \in url
  BY <1>2 DEF ListsOfOfflineHosts!GetDefaultValues, Passes, All
<1>3. CASE All \notin url /\ v \in url
  BY <1>3 DEF ListsOfOfflineHosts!GetDefaultValues, Passes, All
<1>4. CASE url = {} /\ picker.selected = {}
  BY <1>4 DEF ListsOfOfflineHosts!GetDefaultValues, Passes, Remembered, All
<1> QED BY <1>1, <1>2, <1>3, <1>4 DEF Passes

\* A host with an offline device that passes all filters.
IsShown(p, r) ==
  /\ r \in p.offlineHosts
  /\ p.harness \in {"", All} \/ OfflineHostsPage.Info[r.host].harness = p.harness
  /\ Passes(p.hostGroups.selected, OfflineHostsPage.Info[r.host].group)
  /\ \E v \in OfflineHostsPage.Info[r.host].offline : Passes(p.runTargets.selected, v)

LEMMA FoundFacts ==
  ASSUME NEW r, IsRow(r)
  PROVE  /\ r.host \in OfflineHostsPage.Hosts
         /\ r.targets = OfflineHostsPage.Info[r.host].targets
         /\ OfflineHostsPage.Info[r.host].offline \subseteq r.targets
         /\ \A T : [r EXCEPT !.targets = @ \cap T].host = r.host
<1>1. PICK h \in OfflineHostsPage.Hosts : \E x, y :
        r = [host |-> h, assignee |-> x, state |-> y,
             targets |-> OfflineHostsPage.Info[h].targets]
  BY DEF IsRow
<1>2. PICK x, y : r = [host |-> h, assignee |-> x, state |-> y,
                       targets |-> OfflineHostsPage.Info[h].targets]
  BY <1>1
<1>3. OfflineHostsPage.Info[h].offline \subseteq OfflineHostsPage.Info[h].targets
  BY LabPagesAssumption DEF ListsOfOfflineHosts!OfflineHostsAssumption
<1>4. r.host = h /\ r.targets = OfflineHostsPage.Info[h].targets BY <1>2
<1>5. \A T : [r EXCEPT !.targets = @ \cap T].host = r.host BY <1>2
<1> QED BY <1>1, <1>3, <1>4, <1>5

LEMMA ShownHosts ==
  ASSUME NEW p, AreFound(p.offlineHosts), NEW h
  PROVE  h \in ListsOfOfflineHosts!HostsOf(ListsOfOfflineHosts!ShownWithOfflineDevices(p))
           <=> \E r : IsShown(p, r) /\ r.host = h
<1>1. PICK S, T, kept, filtered :
        /\ S = p.hostGroups.selected /\ T = p.runTargets.selected
        /\ kept = ListsOfOfflineHosts!FilterHostGroup(
                    ListsOfOfflineHosts!FilterTestHarness(p.offlineHosts, p.harness), S)
        /\ filtered = ListsOfOfflineHosts!FilterRunTarget(kept, T, TRUE)
  OBVIOUS
<1>2. ListsOfOfflineHosts!ShownWithOfflineDevices(p)
        = {r \in filtered : OfflineHostsPage.Info[r.host].offline # {}}
  BY <1>1
  DEF ListsOfOfflineHosts!ShownWithOfflineDevices, ListsOfOfflineHosts!Filtered,
      ListsOfOfflineHosts!FilterHostListDataSource
<1>3. ASSUME NEW r
      PROVE  r \in kept <=>
               /\ r \in p.offlineHosts
               /\ p.harness \in {"", All} \/ OfflineHostsPage.Info[r.host].harness = p.harness
               /\ Passes(S, OfflineHostsPage.Info[r.host].group)
  BY <1>1
  DEF ListsOfOfflineHosts!FilterHostGroup, ListsOfOfflineHosts!FilterTestHarness, Passes,
      All
<1>4. ASSUME NEW r \in kept
      PROVE  /\ IsShown(p, r) <=>
                  \E v \in OfflineHostsPage.Info[r.host].offline : Passes(T, v)
             /\ OfflineHostsPage.Info[r.host].offline \subseteq r.targets
             /\ [r EXCEPT !.targets = @ \cap T].host = r.host
  <2>1. IsRow(r) BY <1>3, <1>4 DEF AreFound
  <2>2. OfflineHostsPage.Info[r.host].offline \subseteq r.targets BY <2>1, FoundFacts
  <2>3. [r EXCEPT !.targets = @ \cap T].host = r.host BY <2>1, FoundFacts
  <2>4. IsShown(p, r) <=> \E v \in OfflineHostsPage.Info[r.host].offline : Passes(T, v)
    BY <1>1, <1>3, <1>4 DEF IsShown
  <2> QED BY <2>2, <2>3, <2>4
<1>5. \A r : IsShown(p, r) => r \in kept BY <1>1, <1>3 DEF IsShown
<1>6. h \in ListsOfOfflineHosts!HostsOf(ListsOfOfflineHosts!ShownWithOfflineDevices(p))
        <=> \E q \in filtered : OfflineHostsPage.Info[q.host].offline # {} /\ q.host = h
  BY <1>2 DEF ListsOfOfflineHosts!HostsOf
<1>7. CASE T = {} \/ All \in T
  <2>1. filtered = kept BY <1>1, <1>7 DEF ListsOfOfflineHosts!FilterRunTarget, All
  <2>2. \A v : Passes(T, v) BY <1>7 DEF Passes
  <2> QED BY <1>4, <1>5, <1>6, <2>1, <2>2
<1>8. CASE ~ (T = {} \/ All \in T)
  <2>1. PICK some :
          some = {q \in kept :
                    q.targets \cap T \cap OfflineHostsPage.Info[q.host].offline # {}}
    OBVIOUS
  <2>2. filtered = {[r EXCEPT !.targets = @ \cap T] : r \in some}
    BY <1>1, <1>8, <2>1 DEF ListsOfOfflineHosts!FilterRunTarget, All
  <2>3. \A v : Passes(T, v) <=> v \in T BY <1>8 DEF Passes
  <2>4. ASSUME NEW r \in kept
        PROVE  r \in some <=> \E v \in OfflineHostsPage.Info[r.host].offline : v \in T
    <3>1. OfflineHostsPage.Info[r.host].offline \subseteq r.targets BY <1>4
    <3> QED BY <2>1, <3>1
  <2>5. \A r : IsShown(p, r) <=> r \in some BY <1>4, <1>5, <2>1, <2>3, <2>4
  <2>6. \A r \in some : /\ OfflineHostsPage.Info[r.host].offline # {}
                        /\ [r EXCEPT !.targets = @ \cap T].host = r.host
    BY <1>4, <2>1
  <2>7. ASSUME NEW r, IsShown(p, r), r.host = h
        PROVE  \E q \in filtered : OfflineHostsPage.Info[q.host].offline # {} /\ q.host = h
    <3>1. r \in some BY <2>5, <2>7
    <3>2. PICK q : q = [r EXCEPT !.targets = @ \cap T] OBVIOUS
    <3>3. q \in filtered BY <2>2, <3>1, <3>2
    <3>4. q.host = h BY <2>6, <2>7, <3>1, <3>2
    <3>5. OfflineHostsPage.Info[h].offline # {} BY <2>6, <2>7, <3>1
    <3> QED BY <3>3, <3>4, <3>5
  <2>8. ASSUME NEW q \in filtered, q.host = h PROVE \E r : IsShown(p, r) /\ r.host = h
    <3>1. PICK r \in some : q = [r EXCEPT !.targets = @ \cap T] BY <2>2, <2>8
    <3>2. r.host = h BY <2>6, <2>8, <3>1
    <3> QED BY <2>5, <3>1, <3>2
  <2> QED BY <1>6, <2>7, <2>8
<1> QED BY <1>7, <1>8

\* The filters of a page opened from the address, and what they can be.
LEMMA ReopenedFacts ==
  ASSUME FiltersFit(page), NEW q, q = ListsOfOfflineHosts!Reopened
  PROVE  /\ q.offlineHosts = {r \in page.offlineHosts :
                                OfflineHostsPage.Info[r.host].lab = browser.url.lab}
         /\ q.hostGroups.items =
              {OfflineHostsPage.Info[r.host].group : r \in q.offlineHosts}
         /\ q.hostGroups.selected = ListsOfOfflineHosts!GetDefaultValues(
              browser.url.groups, browser.criteria.groups, q.hostGroups.items)
         /\ q.runTargets.items =
              UNION {OfflineHostsPage.Info[r.host].targets : r \in q.offlineHosts}
         /\ q.runTargets.selected = ListsOfOfflineHosts!GetDefaultValues(
              browser.url.targets, browser.criteria.targets, q.runTargets.items)
         /\ q.harnesses = {OfflineHostsPage.Info[r.host].harness : r \in q.offlineHosts}
         /\ q.harness = ListsOfOfflineHosts!GetDefaultValue(
              browser.url.harness, browser.criteria.harness, q.harnesses, All)
<1>1. DOMAIN page = OfflineFields BY DEF FiltersFit
<1>2. PICK rows, opened :
        /\ rows = {r \in page.offlineHosts :
                     OfflineHostsPage.Info[r.host].lab = browser.url.lab}
        /\ opened = [page EXCEPT !.selectedLab = browser.url.lab, !.offlineHosts = rows]
        /\ q = ListsOfOfflineHosts!InitSelections(opened, browser.url, browser.criteria)
  BY <1>1 DEF ListsOfOfflineHosts!Reopened, OfflineFields
<1>3. /\ DOMAIN opened = OfflineFields /\ opened.offlineHosts = rows
      /\ opened.selectedLab = browser.url.lab
  BY <1>1, <1>2 DEF OfflineFields
<1>4. ListsOfOfflineHosts!OfLab(opened) = {r.host : r \in rows}
  <2>1. {r \in rows : OfflineHostsPage.Info[r.host].lab = browser.url.lab} = rows
    BY <1>2
  <2> QED BY <1>3, <2>1 DEF ListsOfOfflineHosts!OfLab
<1>5. PICK groups, targets, harnesses :
        /\ groups = {OfflineHostsPage.Info[r.host].group : r \in rows}
        /\ targets = UNION {OfflineHostsPage.Info[r.host].targets : r \in rows}
        /\ harnesses = {OfflineHostsPage.Info[r.host].harness : r \in rows}
  OBVIOUS
<1>6. /\ ListsOfOfflineHosts!GetHostGroups(opened) = groups
      /\ ListsOfOfflineHosts!GetRunTargets(opened) = targets
      /\ ListsOfOfflineHosts!GetTestHarnesses(opened) = harnesses
  <2>1. {OfflineHostsPage.Info[h].group : h \in {r.host : r \in rows}} = groups
    BY <1>5
  <2>2. {OfflineHostsPage.Info[h].targets : h \in {r.host : r \in rows}}
          = {OfflineHostsPage.Info[r.host].targets : r \in rows}
    OBVIOUS
  <2>3. {OfflineHostsPage.Info[h].harness : h \in {r.host : r \in rows}} = harnesses
    BY <1>5
  <2> QED BY <1>4, <1>5, <2>1, <2>2, <2>3
       DEF ListsOfOfflineHosts!GetHostGroups, ListsOfOfflineHosts!GetRunTargets,
           ListsOfOfflineHosts!GetTestHarnesses
<1>7. PICK x, y, d, a, b :
        /\ x = ListsOfOfflineHosts!GetDefaultValues(
                 browser.url.groups, browser.criteria.groups, groups)
        /\ y = ListsOfOfflineHosts!GetDefaultValues(
                 browser.url.targets, browser.criteria.targets, targets)
        /\ d = ListsOfOfflineHosts!GetDefaultValue(
                 browser.url.harness, browser.criteria.harness, harnesses, All)
        /\ a = ListsOfOfflineHosts!Picker(groups, x)
        /\ b = ListsOfOfflineHosts!Picker(targets, y)
  OBVIOUS
<1>8. q = [opened EXCEPT !.hostGroups = a, !.runTargets = b, !.harnesses = harnesses,
                         !.harness = d]
  BY <1>2, <1>6, <1>7
  DEF ListsOfOfflineHosts!InitSelections, ListsOfOfflineHosts!InitGroups,
      ListsOfOfflineHosts!InitTargets, All
<1>9. /\ q.offlineHosts = rows /\ q.hostGroups = a /\ q.runTargets = b
      /\ q.harnesses = harnesses /\ q.harness = d
  BY <1>3, <1>8 DEF OfflineFields
<1>10. /\ a.items = groups /\ a.selected = x /\ b.items = targets /\ b.selected = y
  BY <1>7 DEF ListsOfOfflineHosts!Picker
<1> QED BY <1>2, <1>5, <1>7, <1>9, <1>10

\* All hosts of its lab that the page shows.
LEMMA AddressChoosesAll ==
  ASSUME GoodTables(page), GoodAddress(page, browser), page.harness # "",
         NEW q, q = ListsOfOfflineHosts!Reopened, NEW h,
         h \in ListsOfOfflineHosts!HostsOf(ListsOfOfflineHosts!ShownWithOfflineDevices(page)),
         OfflineHostsPage.Info[h].lab = browser.url.lab
  PROVE  h \in ListsOfOfflineHosts!HostsOf(ListsOfOfflineHosts!ShownWithOfflineDevices(q))
<1>1. /\ FiltersFit(page) /\ AreRemembered(page, browser) /\ DOMAIN page = OfflineFields
      /\ AreFound(page.offlineHosts)
  BY DEF GoodAddress, FiltersFit, GoodTables, HasTables
<1>2. PICK r : IsShown(page, r) /\ r.host = h BY <1>1, ShownHosts
<1>3. PICK v \in OfflineHostsPage.Info[h].offline : Passes(page.runTargets.selected, v)
  BY <1>2 DEF IsShown
<1>4. r \in q.offlineHosts BY <1>1, <1>2, ReopenedFacts DEF IsShown
<1>5. IsRow(r) /\ v \in OfflineHostsPage.Info[h].targets
  <2>1. IsRow(r) BY <1>1, <1>2 DEF IsShown, AreFound
  <2> QED BY <1>2, <1>3, <2>1, FoundFacts
<1>6. Passes(q.hostGroups.selected, OfflineHostsPage.Info[h].group)
  <2>1. OfflineHostsPage.Info[h].group \in q.hostGroups.items
    BY <1>1, <1>2, <1>4, ReopenedFacts
  <2>2. q.hostGroups.selected = ListsOfOfflineHosts!GetDefaultValues(
          browser.url.groups, browser.criteria.groups, q.hostGroups.items)
    BY <1>1, ReopenedFacts
  <2>3. Passes(page.hostGroups.selected, OfflineHostsPage.Info[h].group)
    BY <1>2 DEF IsShown
  <2> QED BY <1>1, <2>1, <2>2, <2>3, FiltersAreFinite, ReadPasses
       DEF FiltersFit, AreRemembered
<1>7. Passes(q.runTargets.selected, v)
  <2>1. v \in q.runTargets.items BY <1>1, <1>2, <1>4, <1>5, ReopenedFacts
  <2>2. q.runTargets.selected = ListsOfOfflineHosts!GetDefaultValues(
          browser.url.targets, browser.criteria.targets, q.runTargets.items)
    BY <1>1, ReopenedFacts
  <2> QED BY <1>1, <1>3, <2>1, <2>2, FiltersAreFinite, ReadPasses
       DEF FiltersFit, AreRemembered
<1>8. q.harness = page.harness
  <2>1. page.harness = All \/ OfflineHostsPage.Info[h].harness = page.harness
    BY <1>2 DEF IsShown
  <2>2. OfflineHostsPage.Info[h].harness \in q.harnesses BY <1>1, <1>2, <1>4, ReopenedFacts
  <2>3. q.harness = ListsOfOfflineHosts!GetDefaultValue(
          page.harness, browser.criteria.harness, q.harnesses, All)
    BY <1>1, ReopenedFacts DEF AreRemembered
  <2> QED BY <2>1, <2>2, <2>3 DEF ListsOfOfflineHosts!GetDefaultValue, All
<1>9. IsShown(q, r) BY <1>2, <1>3, <1>4, <1>6, <1>7, <1>8 DEF IsShown
<1>10. AreFound(q.offlineHosts) BY <1>1, ReopenedFacts DEF AreFound
<1> QED BY <1>2, <1>9, <1>10, ShownHosts

\* The same rows, if the options are those of the hosts.
LEMMA AddressChoosesTheSame ==
  ASSUME GoodTables(page), GoodAddress(page, browser), page.harness # "",
         NEW read, read = ListsOfOfflineHosts!Reopened,
         ListsOfOfflineHosts!FiltersAreThoseOf(read)
  PROVE  ListsOfOfflineHosts!ShownWithOfflineDevices(read)
           = ListsOfOfflineHosts!ShownWithOfflineDevices(page)
<1>1. /\ FiltersFit(page) /\ AreRemembered(page, browser) /\ DOMAIN page = OfflineFields
      /\ AreFound(page.offlineHosts)
  BY DEF GoodAddress, FiltersFit, GoodTables, HasTables
<1>2. PICK groups, targets :
        /\ groups = ListsOfOfflineHosts!GetDefaultValues(
             browser.url.groups, browser.criteria.groups, page.hostGroups.items)
        /\ targets = ListsOfOfflineHosts!GetDefaultValues(
             browser.url.targets, browser.criteria.targets, page.runTargets.items)
  OBVIOUS
<1>3. /\ read.offlineHosts = page.offlineHosts
      /\ read.hostGroups.items = page.hostGroups.items
      /\ read.runTargets.items = page.runTargets.items /\ read.harnesses = page.harnesses
  BY DEF ListsOfOfflineHosts!FiltersAreThoseOf
<1>4. /\ read.harness = page.harness /\ read.hostGroups.selected = groups
      /\ read.runTargets.selected = targets
  <2>1. read.harness = ListsOfOfflineHosts!GetDefaultValue(
          page.harness, browser.criteria.harness, page.harnesses, All)
    BY <1>1, <1>3, ReopenedFacts DEF AreRemembered
  <2>2. read.harness = page.harness
    BY <1>1, <2>1 DEF ListsOfOfflineHosts!GetDefaultValue, FiltersFit, All
  <2> QED BY <1>1, <1>2, <1>3, <2>2, ReopenedFacts
<1>5. /\ \/ groups = page.hostGroups.selected
         \/ /\ IsWide(groups, page.hostGroups.items)
            /\ IsWide(page.hostGroups.selected, page.hostGroups.items)
      /\ \/ targets = page.runTargets.selected
         \/ /\ IsWide(targets, page.runTargets.items)
            /\ IsWide(page.runTargets.selected, page.runTargets.items)
  BY <1>1, <1>2, FiltersAreFinite, ReadFacts DEF FiltersFit, AreRemembered
<1>6. PICK rows :
        rows = ListsOfOfflineHosts!FilterTestHarness(page.offlineHosts, page.harness)
  OBVIOUS
<1>7. rows \subseteq page.offlineHosts BY <1>6 DEF ListsOfOfflineHosts!FilterTestHarness
<1>8. PICK kept :
        kept = ListsOfOfflineHosts!FilterHostGroup(rows, page.hostGroups.selected)
  OBVIOUS
<1>9. kept = ListsOfOfflineHosts!FilterHostGroup(rows, groups)
  <2>1. \A r \in page.offlineHosts :
          OfflineHostsPage.Info[r.host].group \in page.hostGroups.items
    <3>1. read.hostGroups.items
            = {OfflineHostsPage.Info[r.host].group : r \in read.offlineHosts}
      BY <1>1, ReopenedFacts
    <3> QED BY <1>3, <3>1
  <2>2. \A r \in rows : OfflineHostsPage.Info[r.host].group \in page.hostGroups.items
    BY <1>7, <2>1
  <2> QED BY <1>5, <1>8, <2>2, SameGroups
<1>10. kept \subseteq rows BY <1>8 DEF ListsOfOfflineHosts!FilterHostGroup
<1>11. WithOfflineDevices(ListsOfOfflineHosts!FilterRunTarget(kept, targets, TRUE))
         = WithOfflineDevices(ListsOfOfflineHosts!FilterRunTarget(
             kept, page.runTargets.selected, TRUE))
  <2>1. AreFound(kept) BY <1>1, <1>7, <1>10 DEF AreFound
  <2>2. \A r \in page.offlineHosts :
          OfflineHostsPage.Info[r.host].targets \subseteq page.runTargets.items
    <3>1. read.runTargets.items
            = UNION {OfflineHostsPage.Info[r.host].targets : r \in read.offlineHosts}
      BY <1>1, ReopenedFacts
    <3> QED BY <1>3, <3>1
  <2>3. \A r \in kept : r.targets \subseteq page.runTargets.items
    BY <1>7, <1>10, <2>1, <2>2, FoundFacts DEF AreFound
  <2> QED BY <1>5, <2>1, <2>3, SameRunTargets
<1>12. ListsOfOfflineHosts!ShownWithOfflineDevices(page)
         = WithOfflineDevices(ListsOfOfflineHosts!FilterRunTarget(
             kept, page.runTargets.selected, TRUE))
  BY <1>6, <1>8
  DEF ListsOfOfflineHosts!ShownWithOfflineDevices, WithOfflineDevices,
      ListsOfOfflineHosts!Filtered, ListsOfOfflineHosts!FilterHostListDataSource
<1>13. ListsOfOfflineHosts!ShownWithOfflineDevices(read)
         = WithOfflineDevices(ListsOfOfflineHosts!FilterRunTarget(kept, targets, TRUE))
  BY <1>3, <1>4, <1>6, <1>9
  DEF ListsOfOfflineHosts!ShownWithOfflineDevices, WithOfflineDevices,
      ListsOfOfflineHosts!Filtered, ListsOfOfflineHosts!FilterHostListDataSource
<1> QED BY <1>11, <1>12, <1>13

\* What the property says of a page and the one opened from its address.
LEMMA AddressShows ==
  ASSUME GoodTables(page), GoodAddress(page, browser)
  PROVE  ListsOfOfflineHosts!AddressChoosesTheSameHosts
<1> SUFFICES ASSUME page.harness # "" PROVE ListsOfOfflineHosts!AddressChoosesTheSameHosts
  BY DEF ListsOfOfflineHosts!AddressChoosesTheSameHosts
<1>1. PICK q : q = ListsOfOfflineHosts!Reopened OBVIOUS
<1>2. \A h \in ListsOfOfflineHosts!HostsOf(ListsOfOfflineHosts!ShownWithOfflineDevices(page)) :
        OfflineHostsPage.Info[h].lab = browser.url.lab =>
          h \in ListsOfOfflineHosts!HostsOf(ListsOfOfflineHosts!ShownWithOfflineDevices(q))
  BY <1>1, AddressChoosesAll
<1>3. ListsOfOfflineHosts!FiltersAreThoseOf(q) =>
        ListsOfOfflineHosts!ShownWithOfflineDevices(q)
          = ListsOfOfflineHosts!ShownWithOfflineDevices(page)
  BY <1>1, AddressChoosesTheSame
<1> QED BY <1>1, <1>2, <1>3 DEF ListsOfOfflineHosts!AddressChoosesTheSameHosts

-----------------------------------------------------------------------------
(* The menu of the filter bar of the host list.                            *)

StateFields == {"page", "browser", "requests"}
OptionFields == {"type", "value", "selected", "hidden"}
BarFields == {"options", "selectedColumn", "isAllSelected", "filterChanged"}

AreOptions(S) == \A o \in S : DOMAIN o = OptionFields /\ o.hidden \in BOOLEAN
IsBar(b) == DOMAIN b = BarFields /\ AreOptions(b.options)

\* The options that are shown when this is the column that is open.
InMenu(S, column) ==
  \A o \in S : o.hidden \/ o.type = column \/ o.type \in HostListPage.InputColumns

ColumnShown(column) ==
  IF column = ListOfHosts!NoColumn THEN ListOfHosts!Root ELSE column

GoodBar(b) == IsBar(b) /\ InMenu(b.options, ColumnShown(b.selectedColumn))

\* The same options, some of them selected.
LEMMA MenuKeepsSelected ==
  ASSUME NEW b, GoodBar(b), NEW chosen, NEW flag
  PROVE  GoodBar(ListOfHosts!SetSelected(b, chosen, flag))
<1>1. PICK c : c = ListOfHosts!SetSelected(b, chosen, flag) OBVIOUS
<1>2. /\ DOMAIN c = BarFields /\ c.selectedColumn = b.selectedColumn
      /\ c.options = {[o EXCEPT !.selected = IF o \in chosen THEN flag ELSE @] : o \in b.options}
  BY <1>1 DEF ListOfHosts!SetSelected, GoodBar, IsBar, BarFields
<1>3. \A p \in c.options : \E o \in b.options :
        DOMAIN p = DOMAIN o /\ p.type = o.type /\ p.hidden = o.hidden
  BY <1>2 DEF GoodBar, IsBar, AreOptions, OptionFields
<1>4. AreOptions(c.options) BY <1>3 DEF GoodBar, IsBar, AreOptions
<1>5. InMenu(c.options, ColumnShown(b.selectedColumn)) BY <1>3 DEF GoodBar, InMenu
<1> QED BY <1>1, <1>2, <1>4, <1>5 DEF GoodBar, IsBar

\* Of the options, those of one column are shown.
LEMMA MenuShows ==
  ASSUME NEW b, IsBar(b), NEW column, NEW shown, \A o \in shown : o.type = column
  PROVE  /\ IsBar(ListOfHosts!SetVisible(b, shown))
         /\ ListOfHosts!SetVisible(b, shown).selectedColumn = b.selectedColumn
         /\ InMenu(ListOfHosts!SetVisible(b, shown).options, column)
<1>1. PICK c : c = ListOfHosts!SetVisible(b, shown) OBVIOUS
<1>2. /\ DOMAIN c = BarFields /\ c.selectedColumn = b.selectedColumn
      /\ c.options = {[o EXCEPT !.hidden = o \notin shown] : o \in b.options}
  BY <1>1 DEF ListOfHosts!SetVisible, IsBar, BarFields
<1>3. \A p \in c.options : \E o \in b.options :
        DOMAIN p = DOMAIN o /\ p.type = o.type /\ p.hidden = (o \notin shown)
  BY <1>2 DEF IsBar, AreOptions, OptionFields
<1>4. AreOptions(c.options) BY <1>3 DEF IsBar, AreOptions
<1>5. InMenu(c.options, column) BY <1>3 DEF InMenu
<1> QED BY <1>1, <1>2, <1>4, <1>5 DEF IsBar

\* Whether all is selected, or anything has changed, is not shown by the menu.
LEMMA MenuKeepsFlags ==
  ASSUME NEW b, IsBar(b), NEW v
  PROVE  /\ GoodBar(b) => GoodBar([b EXCEPT !.filterChanged = v])
         /\ GoodBar(b) => GoodBar([b EXCEPT !.isAllSelected = v])
         /\ IsBar([b EXCEPT !.selectedColumn = v])
<1>1. PICK c : c = [b EXCEPT !.filterChanged = v] OBVIOUS
<1>2. PICK d : d = [b EXCEPT !.isAllSelected = v] OBVIOUS
<1>3. PICK e : e = [b EXCEPT !.selectedColumn = v] OBVIOUS
<1>4. /\ DOMAIN c = BarFields /\ c.options = b.options /\ c.selectedColumn = b.selectedColumn
      /\ DOMAIN d = BarFields /\ d.options = b.options /\ d.selectedColumn = b.selectedColumn
      /\ DOMAIN e = BarFields /\ e.options = b.options
  BY <1>1, <1>2, <1>3 DEF IsBar, BarFields
<1>5. GoodBar(b) => GoodBar(c) /\ GoodBar(d) BY <1>4 DEF GoodBar, IsBar
<1>6. IsBar(e) BY <1>4 DEF IsBar
<1> QED BY <1>1, <1>2, <1>3, <1>5, <1>6

\* A menu of one column that says which is open.
LEMMA MenuOpens ==
  ASSUME NEW b, IsBar(b), NEW column, InMenu(b.options, ColumnShown(column))
  PROVE  GoodBar([b EXCEPT !.selectedColumn = column, !.isAllSelected = FALSE])
<1>1. PICK c : c = [b EXCEPT !.selectedColumn = column, !.isAllSelected = FALSE] OBVIOUS
<1>2. DOMAIN c = BarFields /\ c.options = b.options /\ c.selectedColumn = column
  BY <1>1 DEF IsBar, BarFields
<1> QED BY <1>1, <1>2 DEF GoodBar, IsBar

LEMMA MenuSearched ==
  ASSUME NEW b, IsBar(b), NEW text, NEW column
  PROVE  /\ IsBar(ListOfHosts!FilterSearchOptions(b, text, column))
         /\ ListOfHosts!FilterSearchOptions(b, text, column).selectedColumn = b.selectedColumn
         /\ InMenu(ListOfHosts!FilterSearchOptions(b, text, column).options,
                   ColumnShown(column))
<1>1. CASE column = ListOfHosts!NoColumn
  BY <1>1, MenuShows
  DEF ListOfHosts!FilterSearchOptions, ColumnShown, ListOfHosts!OfType
<1>2. CASE column # ListOfHosts!NoColumn
  BY <1>2, MenuShows
  DEF ListOfHosts!FilterSearchOptions, ColumnShown, ListOfHosts!OfType
<1> QED BY <1>1, <1>2

\* The values of a column are listed, or the columns.
LEMMA MenuDisplays ==
  ASSUME NEW b, IsBar(b)
  PROVE  /\ \A column : GoodBar(ListOfHosts!DisplayLeafFilterOptions(b, column))
         /\ b.selectedColumn = ListOfHosts!NoColumn
              => GoodBar(ListOfHosts!DisplayRootFilterOptions(b))
         /\ \A text : GoodBar(ListOfHosts!FilterSearchOptions(b, text, b.selectedColumn))
         /\ GoodBar(ListOfHosts!ResetSearchSteps(b))
<1>1. ASSUME NEW column PROVE GoodBar(ListOfHosts!DisplayLeafFilterOptions(b, column))
  <2>1. PICK c : c = ListOfHosts!FilterSearchOptions(b, ListOfHosts!Everything(b), column)
    OBVIOUS
  <2>2. IsBar(c) /\ InMenu(c.options, ColumnShown(column)) BY <2>1, MenuSearched
  <2>3. GoodBar([c EXCEPT !.selectedColumn = column, !.isAllSelected = FALSE])
    BY <2>2, MenuOpens
  <2> QED BY <2>1, <2>3 DEF ListOfHosts!DisplayLeafFilterOptions
<1>2. ASSUME NEW text PROVE GoodBar(ListOfHosts!FilterSearchOptions(b, text, b.selectedColumn))
  BY MenuSearched DEF GoodBar
<1>3. ASSUME b.selectedColumn = ListOfHosts!NoColumn
      PROVE  GoodBar(ListOfHosts!DisplayRootFilterOptions(b))
  BY <1>2, <1>3 DEF ListOfHosts!DisplayRootFilterOptions
<1>4. GoodBar(ListOfHosts!ResetSearchSteps(b))
  <2>1. PICK c : c = ListOfHosts!SetVisible(b, ListOfHosts!OfType(b, ListOfHosts!Root)) OBVIOUS
  <2>2. IsBar(c) /\ InMenu(c.options, ListOfHosts!Root)
    BY <2>1, MenuShows DEF ListOfHosts!OfType
  <2>3. PICK none : none = ListOfHosts!NoColumn OBVIOUS
  <2>4. InMenu(c.options, ColumnShown(none)) BY <2>2, <2>3 DEF ColumnShown
  <2>5. GoodBar([c EXCEPT !.selectedColumn = none, !.isAllSelected = FALSE])
    BY <2>2, <2>4, MenuOpens
  <2> QED BY <2>1, <2>3, <2>5 DEF ListOfHosts!ResetSearchSteps
<1> QED BY <1>1, <1>2, <1>3, <1>4

LEMMA MenuToggles ==
  ASSUME NEW b, GoodBar(b)
  PROVE  /\ GoodBar(ListOfHosts!PatchSelectAll(b))
         /\ GoodBar(ListOfHosts!ToggleAll(b))
         /\ \A type, value : GoodBar(ListOfHosts!ToggleFilterOption(b, type, value))
<1>0. ASSUME NEW c, GoodBar(c) PROVE IsBar(c) BY <1>0 DEF GoodBar
<1>1. ASSUME NEW c, GoodBar(c) PROVE GoodBar(ListOfHosts!PatchSelectAll(c))
  BY <1>0, <1>1, MenuKeepsFlags DEF ListOfHosts!PatchSelectAll
<1>2. GoodBar(ListOfHosts!ToggleAll(b))
  <2>1. PICK chosen, flag : chosen = ListOfHosts!VisibleOptions(b) /\ flag = ~ b.isAllSelected
    OBVIOUS
  <2>2. PICK c : c = ListOfHosts!SetSelected(b, chosen, flag) OBVIOUS
  <2>3. GoodBar(c) BY <2>2, MenuKeepsSelected
  <2>4. PICK d : d = [c EXCEPT !.filterChanged = TRUE] OBVIOUS
  <2>5. GoodBar(d) BY <1>0, <2>3, <2>4, MenuKeepsFlags
  <2> QED BY <1>1, <2>1, <2>2, <2>4, <2>5 DEF ListOfHosts!ToggleAll
<1>3. ASSUME NEW type, NEW value
      PROVE  GoodBar(ListOfHosts!ToggleFilterOption(b, type, value))
  <2>1. PICK chosen : chosen = {o \in b.options : o.type = type /\ o.value = value} OBVIOUS
  <2>2. PICK flag : flag = (\A o \in chosen : ~ o.selected) OBVIOUS
  <2>3. PICK c : c = ListOfHosts!SetSelected(b, chosen, flag) OBVIOUS
  <2>4. GoodBar(c) BY <2>3, MenuKeepsSelected
  <2>5. PICK d : d = [c EXCEPT !.filterChanged = @ \/ chosen # {}] OBVIOUS
  <2>6. GoodBar(d) BY <1>0, <2>4, <2>5, MenuKeepsFlags
  <2> QED BY <1>1, <2>1, <2>2, <2>3, <2>5, <2>6 DEF ListOfHosts!ToggleFilterOption
<1> QED BY <1>1, <1>2, <1>3

\* Other options, as many as there were or fewer.
LEMMA MenuOfOptions ==
  ASSUME NEW b, GoodBar(b), NEW S, AreOptions(S), InMenu(S, ColumnShown(b.selectedColumn))
  PROVE  GoodBar([b EXCEPT !.options = S])
<1>1. PICK c : c = [b EXCEPT !.options = S] OBVIOUS
<1>2. DOMAIN c = BarFields /\ c.options = S /\ c.selectedColumn = b.selectedColumn
  BY <1>1 DEF GoodBar, IsBar, BarFields
<1> QED BY <1>1, <1>2 DEF GoodBar, IsBar

LEMMA MenuWithout ==
  ASSUME NEW b, GoodBar(b), NEW columns
  PROVE  GoodBar([b EXCEPT !.options = ListOfHosts!Without(b, columns)])
<1>1. PICK S : S = ListOfHosts!Without(b, columns) OBVIOUS
<1>2. S \subseteq b.options BY <1>1 DEF ListOfHosts!Without
<1>3. AreOptions(S) /\ InMenu(S, ColumnShown(b.selectedColumn))
  BY <1>2 DEF GoodBar, IsBar, AreOptions, InMenu
<1> QED BY <1>1, <1>3, MenuOfOptions

LEMMA MenuSelects ==
  ASSUME NEW b, GoodBar(b)
  PROVE  /\ \A values : GoodBar(ListOfHosts!SetFilterOptionsSelected(b, values))
         /\ \A column : GoodBar(ListOfHosts!ClearSelectedFilterOptions(b, column))
         /\ GoodBar(ListOfHosts!ResetFilterOptions(b))
         /\ \A values, column : GoodBar(ListOfHosts!ApplySelection(b, values, column))
<1>1. PICK on, off : on = TRUE /\ off = FALSE OBVIOUS
<1>2. ASSUME NEW c, GoodBar(c), NEW values
      PROVE  GoodBar(ListOfHosts!SetFilterOptionsSelected(c, values))
  BY <1>1, <1>2, MenuKeepsSelected DEF ListOfHosts!SetFilterOptionsSelected
<1>3. ASSUME NEW column PROVE GoodBar(ListOfHosts!ClearSelectedFilterOptions(b, column))
  BY <1>1, MenuKeepsSelected DEF ListOfHosts!ClearSelectedFilterOptions
<1>4. GoodBar(ListOfHosts!ResetFilterOptions(b))
  BY <1>3, MenuWithout DEF ListOfHosts!ResetFilterOptions
<1>5. ASSUME NEW values, NEW column
      PROVE  GoodBar(ListOfHosts!ApplySelection(b, values, column))
  <2>1. PICK c : c = ListOfHosts!ClearSelectedFilterOptions(b, column) OBVIOUS
  <2>2. PICK f : f = [x \in {column} |-> values] OBVIOUS
  <2>3. PICK d : d = ListOfHosts!SetFilterOptionsSelected(c, f) OBVIOUS
  <2>4. GoodBar(d) BY <1>2, <1>3, <2>1, <2>3
  <2>5. IsBar(d) BY <2>4 DEF GoodBar
  <2>6. GoodBar([d EXCEPT !.filterChanged = TRUE]) BY <1>1, <2>4, <2>5, MenuKeepsFlags
  <2> QED BY <2>1, <2>2, <2>3, <2>6 DEF ListOfHosts!ApplySelection
<1> QED BY <1>2, <1>3, <1>4, <1>5

\* The values that are typed are shown whatever column is open.
LEMMA MenuTakesTyped ==
  ASSUME NEW b, GoodBar(b), NEW values, DOMAIN values \subseteq HostListPage.InputColumns
  PROVE  GoodBar(ListOfHosts!AddNewFilterOptions(b, values))
<1>1. PICK kept : kept = ListOfHosts!Without(b, DOMAIN values) OBVIOUS
<1>2. kept \subseteq b.options BY <1>1 DEF ListOfHosts!Without
<1>3. ASSUME NEW c \in DOMAIN values, NEW o \in ListOfHosts!TypedOptions(b, values[c], c)
      PROVE  DOMAIN o = OptionFields /\ o.hidden \in BOOLEAN /\ (o \in b.options \/ o.type = c)
  <2>1. PICK v : v = values[c] OBVIOUS
  <2>2. \/ o \in b.options
        \/ o = [ListOfHosts!Option(c, v, FALSE) EXCEPT !.selected = TRUE]
    BY <1>3, <2>1 DEF ListOfHosts!TypedOptions, ListOfHosts!VisibleOptions
  <2>3. CASE o \in b.options BY <2>3 DEF GoodBar, IsBar, AreOptions
  <2>4. CASE o = [ListOfHosts!Option(c, v, FALSE) EXCEPT !.selected = TRUE]
    BY <2>4 DEF ListOfHosts!Option, OptionFields
  <2> QED BY <2>2, <2>3, <2>4
<1>4. PICK typed :
        typed = UNION {ListOfHosts!TypedOptions(b, values[c], c) : c \in DOMAIN values}
  OBVIOUS
<1>5. \A o \in typed : \E c \in DOMAIN values : o \in ListOfHosts!TypedOptions(b, values[c], c)
  BY <1>4
<1>6. AreOptions(kept \cup typed)
  BY <1>2, <1>3, <1>5 DEF AreOptions, GoodBar, IsBar
<1>7. InMenu(kept \cup typed, ColumnShown(b.selectedColumn))
  <2>1. \A o \in typed : o \in b.options \/ o.type \in HostListPage.InputColumns
    BY <1>3, <1>5
  <2> QED BY <1>2, <2>1 DEF InMenu, GoodBar
<1>8. PICK d : d = [b EXCEPT !.options = kept \cup typed] OBVIOUS
<1>9. GoodBar(d) /\ IsBar(d) BY <1>6, <1>7, <1>8, MenuOfOptions DEF GoodBar
<1>10. PICK flag : flag = (b.filterChanged \/ DOMAIN values # {}) OBVIOUS
<1>11. GoodBar([d EXCEPT !.filterChanged = flag]) BY <1>9, MenuKeepsFlags
<1>12. ListOfHosts!AddNewFilterOptions(b, values) = [d EXCEPT !.filterChanged = flag]
  BY <1>1, <1>4, <1>8, <1>10 DEF ListOfHosts!AddNewFilterOptions, GoodBar, IsBar, BarFields
<1> QED BY <1>11, <1>12

-----------------------------------------------------------------------------
(* The handlers of the host list.                                          *)

GoodMenu(p) == "bar" \in DOMAIN p /\ GoodBar(p.bar)
MenuIn(s) == DOMAIN s = StateFields /\ GoodMenu(s.page)

\* The same menu.
MenuKept(s, t) ==
  DOMAIN t = StateFields /\ "bar" \in DOMAIN t.page /\ t.page.bar = s.page.bar

LEMMA MenuStays ==
  ASSUME NEW s, MenuIn(s), NEW t, MenuKept(s, t)
  PROVE  MenuIn(t)
BY DEF MenuIn, MenuKept, GoodMenu

LEMMA MenuOther ==
  ASSUME NEW s, MenuIn(s), NEW b, GoodBar(b)
  PROVE  MenuIn([s EXCEPT !.page.bar = b])
<1>1. PICK t : t = [s EXCEPT !.page.bar = b] OBVIOUS
<1>2. DOMAIN t = StateFields /\ "bar" \in DOMAIN t.page /\ t.page.bar = b
  BY <1>1 DEF MenuIn, GoodMenu, StateFields
<1> QED BY <1>1, <1>2 DEF MenuIn, GoodMenu

LEMMA MenuQuery ==
  ASSUME NEW s, MenuIn(s)
  PROVE  /\ MenuIn(ListOfHosts!SetSessionStorageKey(s))
         /\ MenuIn(ListOfHosts!PatchQueryParams(s))
         /\ MenuIn(ListOfHosts!RenderSelectedOptions(s))
         /\ MenuIn(ListOfHosts!RefreshPaginator(s))
         /\ \A kind, arg : MenuIn(ListOfHosts!Send(s, kind, arg))
<1>1. MenuKept(s, ListOfHosts!SetSessionStorageKey(s))
  BY DEF MenuIn, GoodMenu, MenuKept, StateFields, ListOfHosts!SetSessionStorageKey
<1>2. ASSUME NEW r, MenuIn(r) PROVE MenuKept(r, ListOfHosts!PatchQueryParams(r))
  BY <1>2 DEF MenuIn, GoodMenu, MenuKept, StateFields, ListOfHosts!PatchQueryParams
<1>3. MenuKept(s, ListOfHosts!RenderSelectedOptions(s))
  BY DEF MenuIn, GoodMenu, MenuKept, StateFields, ListOfHosts!RenderSelectedOptions
<1>4. MenuIn(ListOfHosts!RefreshPaginator(s))
  <2>1. PICK q : q = ListOfHosts!SetTokens(s.page.paginator, s.page.prevPageToken,
                                           s.page.nextPageToken) OBVIOUS
  <2>2. PICK r : r = [s EXCEPT !.page.paginator = q] OBVIOUS
  <2>3. MenuKept(s, r) BY <2>2 DEF MenuIn, GoodMenu, MenuKept, StateFields
  <2>4. MenuIn(r) BY <2>3, MenuStays
  <2>5. PICK t : t = ListOfHosts!PatchQueryParams(r) OBVIOUS
  <2>6. MenuIn(t) BY <1>2, <2>4, <2>5, MenuStays
  <2>7. PICK c : c = ListOfHosts!GetSearchCriteria(s) OBVIOUS
  <2>8. MenuKept(t, [t EXCEPT !.browser.criteria = c])
    BY <2>6 DEF MenuIn, GoodMenu, MenuKept, StateFields
  <2>9. MenuIn([t EXCEPT !.browser.criteria = c]) BY <2>6, <2>8, MenuStays
  <2> QED BY <2>1, <2>2, <2>5, <2>7, <2>9 DEF ListOfHosts!RefreshPaginator
<1>5. ASSUME NEW kind, NEW arg PROVE MenuKept(s, ListOfHosts!Send(s, kind, arg))
  BY DEF MenuIn, GoodMenu, MenuKept, StateFields, ListOfHosts!Send
<1> QED BY <1>1, <1>2, <1>3, <1>4, <1>5, MenuStays

LEMMA MenuLoaded ==
  ASSUME NEW s, MenuIn(s), NEW result, NEW fromStorage
  PROVE  MenuIn(ListOfHosts!AfterDataloaded(s, result, fromStorage))
<1>1. PICK b : b = [s.page.bar EXCEPT !.filterChanged = FALSE] OBVIOUS
<1>2. GoodBar(b)
  <2>1. PICK v : v = FALSE OBVIOUS
  <2>2. GoodBar(s.page.bar) /\ IsBar(s.page.bar) BY DEF MenuIn, GoodMenu, GoodBar
  <2> QED BY <1>1, <2>1, <2>2, MenuKeepsFlags
<1>3. PICK r : r = [s EXCEPT !.page.rows = result.rows,
                             !.page.prevPageToken = result.prevToken,
                             !.page.nextPageToken = result.nextToken,
                             !.page.asked = result.asked,
                             !.page.isLoading = FALSE,
                             !.page.bar.filterChanged = FALSE]
  OBVIOUS
<1>4. DOMAIN r = StateFields /\ "bar" \in DOMAIN r.page /\ r.page.bar = b
  BY <1>1, <1>3 DEF MenuIn, GoodMenu, StateFields
<1>5. MenuIn(r) BY <1>2, <1>4 DEF MenuIn, GoodMenu
<1>6. PICK t : t = ListOfHosts!RefreshPaginator(r) OBVIOUS
<1>7. MenuIn(t) BY <1>5, <1>6, MenuQuery
<1>8. PICK c : c = ListOfHosts!Cached(t.browser.session, s.page.key, result) OBVIOUS
<1>9. PICK u : u = [t EXCEPT !.browser.session = c] OBVIOUS
<1>10. MenuKept(t, u) BY <1>7, <1>9 DEF MenuIn, GoodMenu, MenuKept, StateFields
<1>11. MenuIn(u) BY <1>7, <1>10, MenuStays
<1>12. u = [t EXCEPT !.browser.session = ListOfHosts!Cached(@, s.page.key, result)]
  BY <1>8, <1>9
<1>13. ListOfHosts!AfterDataloaded(s, result, fromStorage) = IF fromStorage THEN t ELSE u
  BY <1>3, <1>6, <1>12 DEF ListOfHosts!AfterDataloaded
<1> QED BY <1>7, <1>11, <1>13

LEMMA MenuGets ==
  ASSUME NEW s, MenuIn(s), NEW token, NEW backwards, NEW opening
  PROVE  MenuIn(ListOfHosts!GetHostInfos(s, token, backwards, opening))
BY MenuQuery DEF ListOfHosts!GetHostInfos

LEMMA MenuOfLoad ==
  ASSUME NEW s, MenuIn(s), NEW diff, NEW force
  PROVE  MenuIn(ListOfHosts!Load(s, diff, force))
<1>1. PICK b : b = ListOfHosts!ResetSearchSteps(s.page.bar) OBVIOUS
<1>2. GoodBar(b) BY <1>1, MenuDisplays DEF MenuIn, GoodMenu, GoodBar
<1>3. PICK q : q = IF diff = 0 THEN ListOfHosts!ResetPageIndex(s.page.paginator)
                   ELSE s.page.paginator OBVIOUS
<1>4. PICK r : r = [s EXCEPT !.page.isLoading = TRUE,
                             !.page.bar = ListOfHosts!ResetSearchSteps(@),
                             !.page.paginator = IF diff = 0 THEN ListOfHosts!ResetPageIndex(@)
                                                ELSE @] OBVIOUS
<1>5. DOMAIN r = StateFields /\ "bar" \in DOMAIN r.page /\ r.page.bar = b
  BY <1>1, <1>4 DEF MenuIn, GoodMenu, StateFields
<1>6. MenuIn(r) BY <1>2, <1>5 DEF MenuIn, GoodMenu
<1>7. PICK t : t = ListOfHosts!PatchQueryParams(ListOfHosts!SetSessionStorageKey(r)) OBVIOUS
<1>8. MenuIn(t) BY <1>6, <1>7, MenuQuery
<1>9. PICK token, back, no : /\ token = ListOfHosts!GetPageToken(s, diff, force)
                             /\ back = (diff = -1) /\ no = FALSE OBVIOUS
<1>10. MenuIn(ListOfHosts!GetHostInfos(t, token, back, no)) BY <1>8, MenuGets
<1>11. MenuIn(ListOfHosts!AfterDataloaded(t, ListOfHosts!Stored(t), TRUE))
  <2>1. PICK result, yes : result = ListOfHosts!Stored(t) /\ yes = TRUE OBVIOUS
  <2>2. MenuIn(ListOfHosts!AfterDataloaded(t, result, yes)) BY <1>8, MenuLoaded
  <2> QED BY <2>1, <2>2
<1>12. \/ ListOfHosts!Load(s, diff, force)
            = ListOfHosts!AfterDataloaded(t, ListOfHosts!Stored(t), TRUE)
       \/ ListOfHosts!Load(s, diff, force) = ListOfHosts!GetHostInfos(t, token, back, no)
  BY <1>4, <1>7, <1>9 DEF ListOfHosts!Load
<1> QED BY <1>10, <1>11, <1>12

\* The page opens with the columns, and the values come in as they are had.
LEMMA MenuOfFreshList ==
  ASSUME NEW url
  PROVE  GoodMenu(ListOfHosts!FreshList(url))
<1>1. PICK b : b = ListOfHosts!InitFilterbarRoots OBVIOUS
<1>2. PICK columns : columns = ListOfHosts!FilterColumns OBVIOUS
<1>3. /\ DOMAIN b = BarFields /\ b.selectedColumn = ListOfHosts!NoColumn
      /\ b.options = ListOfHosts!CreateFilterOptions(columns, ListOfHosts!Root, FALSE)
  BY <1>1, <1>2 DEF ListOfHosts!InitFilterbarRoots, BarFields
<1>4. \A o \in b.options :
        DOMAIN o = OptionFields /\ o.type = ListOfHosts!Root /\ o.hidden = FALSE
  BY <1>3 DEF ListOfHosts!CreateFilterOptions, ListOfHosts!Option, OptionFields
<1>5. ColumnShown(b.selectedColumn) = ListOfHosts!Root BY <1>3 DEF ColumnShown
<1>6. GoodBar(b) BY <1>3, <1>4, <1>5 DEF GoodBar, IsBar, AreOptions, InMenu
<1>7. /\ "bar" \in DOMAIN ListOfHosts!FreshList(url)
      /\ ListOfHosts!FreshList(url).bar = b
  BY <1>1 DEF ListOfHosts!FreshList
<1> QED BY <1>6, <1>7 DEF GoodMenu

LEMMA MenuTakesHints ==
  ASSUME NEW s, MenuIn(s), NEW hints
  PROVE  MenuIn(ListOfHosts!AppendHints(s, hints))
<1>1. PICK new : new = UNION {ListOfHosts!CreateFilterOptions(ListOfHosts!Attributes(c), c, TRUE) :
                                c \in hints} OBVIOUS
<1>2. \A o \in new : DOMAIN o = OptionFields /\ o.hidden = TRUE
  BY <1>1 DEF ListOfHosts!CreateFilterOptions, ListOfHosts!Option, OptionFields
<1>3. PICK S : S = s.page.bar.options \cup new OBVIOUS
<1>4. AreOptions(S) /\ InMenu(S, ColumnShown(s.page.bar.selectedColumn))
  BY <1>2, <1>3 DEF MenuIn, GoodMenu, GoodBar, IsBar, AreOptions, InMenu
<1>5. PICK b : b = [s.page.bar EXCEPT !.options = S] OBVIOUS
<1>6. GoodBar(b) BY <1>4, <1>5, MenuOfOptions DEF MenuIn, GoodMenu
<1>7. PICK t : t = ListOfHosts!AppendHints(s, hints) OBVIOUS
<1>8. DOMAIN t = StateFields /\ "bar" \in DOMAIN t.page /\ t.page.bar = b
  BY <1>1, <1>3, <1>5, <1>7 DEF ListOfHosts!AppendHints, MenuIn, GoodMenu, StateFields
<1> QED BY <1>6, <1>7, <1>8 DEF MenuIn, GoodMenu

LEMMA MenuStarts ==
  ASSUME NEW s, MenuIn(s)
  PROVE  MenuIn(ListOfHosts!StartIfComplete(s))
<1>1. PICK c : c = ListOfHosts!SetFilterHintSelectedValues(s, s.page.bar) OBVIOUS
<1>2. GoodBar(c)
  <2>1. PICK values : values = [x \in HostListPage.Columns |-> ListOfHosts!StartValues(s, x)]
    OBVIOUS
  <2>2. GoodBar(ListOfHosts!SetFilterOptionsSelected(s.page.bar, values))
    BY MenuSelects DEF MenuIn, GoodMenu
  <2> QED BY <1>1, <2>1, <2>2 DEF ListOfHosts!SetFilterHintSelectedValues
<1>3. PICK b : b = ListOfHosts!LoadNonFilterHintTypeCriteria(s, c) OBVIOUS
<1>4. GoodBar(b)
  <2>1. PICK typed : typed = {x \in HostListPage.InputColumns :
                                ListOfHosts!StartValues(s, x) # {}} OBVIOUS
  <2>2. PICK values : values = [x \in typed |-> CHOOSE v \in ListOfHosts!StartValues(s, x) : TRUE]
    OBVIOUS
  <2>3. DOMAIN values \subseteq HostListPage.InputColumns BY <2>1, <2>2
  <2>4. GoodBar(ListOfHosts!AddNewFilterOptions(c, values)) BY <1>2, <2>3, MenuTakesTyped
  <2> QED BY <1>3, <2>1, <2>2, <2>4 DEF ListOfHosts!LoadNonFilterHintTypeCriteria
<1>5. PICK size : size = IF s.page.url.size \in HostListPage.PageSizes THEN s.page.url.size
                         ELSE HostListPage.DefaultPageSize OBVIOUS
<1>6. PICK r : r = [s EXCEPT !.page.bar = b,
                             !.page.prevPageToken = ListOfHosts!NoToken,
                             !.page.nextPageToken = s.page.url.token,
                             !.page.paginator.pageSize = size] OBVIOUS
<1>7. DOMAIN r = StateFields /\ "bar" \in DOMAIN r.page /\ r.page.bar = b
  BY <1>6 DEF MenuIn, GoodMenu, StateFields
<1>8. MenuIn(r) BY <1>4, <1>7 DEF MenuIn, GoodMenu
<1>9. PICK t : t = ListOfHosts!RenderSelectedOptions(r) OBVIOUS
<1>10. MenuIn(t) BY <1>8, <1>9, MenuQuery
<1>11. MenuIn(ListOfHosts!AfterDataloaded(t, ListOfHosts!Stored(t), FALSE))
  <2>1. PICK result, no : result = ListOfHosts!Stored(t) /\ no = FALSE OBVIOUS
  <2>2. MenuIn(ListOfHosts!AfterDataloaded(t, result, no)) BY <1>10, MenuLoaded
  <2> QED BY <2>1, <2>2
<1>12. PICK u : u = [t EXCEPT !.page.isLoading = TRUE] OBVIOUS
<1>13. MenuKept(t, u) BY <1>10, <1>12 DEF MenuIn, GoodMenu, MenuKept, StateFields
<1>14. MenuIn(u) BY <1>10, <1>13, MenuStays
<1>15. MenuIn(ListOfHosts!GetHostInfos(u, s.page.url.token, FALSE, TRUE))
  <2>1. PICK token, no, yes : token = s.page.url.token /\ no = FALSE /\ yes = TRUE OBVIOUS
  <2>2. MenuIn(ListOfHosts!GetHostInfos(u, token, no, yes)) BY <1>14, MenuGets
  <2> QED BY <2>1, <2>2
<1>16. MenuIn(ListOfHosts!UpdatePaginatorParamsAndLoad(s))
  <2>1. \/ ListOfHosts!UpdatePaginatorParamsAndLoad(s)
             = ListOfHosts!AfterDataloaded(t, ListOfHosts!Stored(t), FALSE)
        \/ ListOfHosts!UpdatePaginatorParamsAndLoad(s)
             = ListOfHosts!GetHostInfos(u, s.page.url.token, FALSE, TRUE)
    BY <1>1, <1>3, <1>5, <1>6, <1>9, <1>12 DEF ListOfHosts!UpdatePaginatorParamsAndLoad
  <2> QED BY <1>11, <1>15, <2>1
<1> QED BY <1>16 DEF ListOfHosts!StartIfComplete

LEMMA MenuOfOpen ==
  ASSUME NEW s, DOMAIN s = StateFields, NEW url
  PROVE  MenuIn(ListOfHosts!Open(s, url))
<1>1. PICK p : p = ListOfHosts!FreshList(url) OBVIOUS
<1>2. PICK r : r = [s EXCEPT !.page = p, !.requests = <<>>] OBVIOUS
<1>3. DOMAIN r = StateFields /\ r.page = p BY <1>2 DEF StateFields
<1>4. MenuIn(r) BY <1>1, <1>3, MenuOfFreshList DEF MenuIn
<1>5. PICK hints : hints = s.browser.hints OBVIOUS
<1>6. MenuIn(ListOfHosts!StartIfComplete(ListOfHosts!AppendHints(r, hints)))
  BY <1>4, MenuTakesHints, MenuStarts
<1> QED BY <1>1, <1>2, <1>5, <1>6 DEF ListOfHosts!Open

LEMMA MenuCloses ==
  ASSUME NEW s, MenuIn(s)
  PROVE  MenuIn(ListOfHosts!CloseOn(s))
<1>1. PICK b : b = ListOfHosts!ResetSearchSteps(s.page.bar) OBVIOUS
<1>2. GoodBar(b) BY <1>1, MenuDisplays DEF MenuIn, GoodMenu, GoodBar
<1>3. PICK r : r = [s EXCEPT !.page.bar = b] OBVIOUS
<1>4. MenuIn(r) BY <1>2, <1>3, MenuOther
<1>5. PICK t : t = ListOfHosts!RenderSelectedOptions(r) OBVIOUS
<1>6. MenuIn(t) BY <1>4, <1>5, MenuQuery
<1>7. MenuIn(ListOfHosts!Load(t, 0, FALSE))
  <2>1. PICK no : no = FALSE OBVIOUS
  <2>2. MenuIn(ListOfHosts!Load(t, 0, no)) BY <1>6, MenuOfLoad
  <2> QED BY <2>1, <2>2
<1>8. t = ListOfHosts!RenderSelectedOptions(
            [s EXCEPT !.page.bar = ListOfHosts!ResetSearchSteps(@)])
  BY <1>1, <1>3, <1>5
<1> QED BY <1>6, <1>7, <1>8 DEF ListOfHosts!CloseOn

-----------------------------------------------------------------------------
(* The menu after a step.                                                  *)

LEMMA MenuNow ==
  ASSUME GoodMenu(page)
  PROVE  /\ MenuIn(ListOfHosts!State) /\ ListOfHosts!State.page = page
         /\ \A i : MenuIn(ListOfHosts!Heard(i)) /\ ListOfHosts!Heard(i).page = page
<1>1. MenuIn(ListOfHosts!State) /\ ListOfHosts!State.page = page
  BY DEF MenuIn, StateFields, ListOfHosts!State
<1>2. ASSUME NEW i
      PROVE  MenuIn(ListOfHosts!Heard(i)) /\ ListOfHosts!Heard(i).page = page
  BY DEF MenuIn, StateFields, ListOfHosts!Heard, ListOfHosts!State
<1> QED BY <1>1, <1>2

LEMMA MenuBecomes ==
  ASSUME NEW s, MenuIn(s), ListOfHosts!Becomes(s)
  PROVE  GoodMenu(page')
BY DEF MenuIn, ListOfHosts!Becomes

LEMMA MenuInBar ==
  ASSUME GoodMenu(page), NEW b, GoodBar(b), NEW text, ListOfHosts!InBar(b, text)
  PROVE  GoodMenu(page')
BY DEF GoodMenu, ListOfHosts!InBar, ListOfHosts!Shows

LEMMA MenuOpening ==
  ASSUME GoodMenu(page),
         \/ \E hint \in ListOfHosts!Hints : ListOfHosts!HintArrives(hint)
         \/ ListOfHosts!InitFilterBarFails
         \/ \E url \in {ListOfHosts!NoUrl, browser.url} : ListOfHosts!Reopen(url)
  PROVE  GoodMenu(page')
<1>1. ASSUME NEW hint, ListOfHosts!HintArrives(hint) PROVE GoodMenu(page')
  <2>1. PICK hints : hints = {hint} OBVIOUS
  <2>2. PICK s : s = ListOfHosts!StartIfComplete(
                       ListOfHosts!AppendHints(ListOfHosts!State, hints)) OBVIOUS
  <2>3. MenuIn(s) BY <2>2, MenuNow, MenuTakesHints, MenuStarts
  <2> QED BY <1>1, <2>1, <2>2, <2>3, MenuBecomes DEF ListOfHosts!HintArrives
<1>2. CASE ListOfHosts!InitFilterBarFails
  BY <1>2 DEF GoodMenu, ListOfHosts!InitFilterBarFails, ListOfHosts!Shows
<1>3. ASSUME NEW url, ListOfHosts!Reopen(url) PROVE GoodMenu(page')
  <2>1. PICK s : s = ListOfHosts!Open(ListOfHosts!State, url) OBVIOUS
  <2>2. MenuIn(s) BY <2>1, MenuNow, MenuOfOpen DEF MenuIn
  <2> QED BY <1>3, <2>1, <2>2, MenuBecomes DEF ListOfHosts!Reopen
<1> QED BY <1>1, <1>2, <1>3

LEMMA MenuUsed ==
  ASSUME GoodMenu(page),
         \/ \E option \in page.bar.options : ListOfHosts!ClickOption(option)
         \/ ListOfHosts!ToggleSelectAll
         \/ ListOfHosts!BackToRoot
         \/ \E value : ListOfHosts!DispatchTyped(value) \/ ListOfHosts!TypeText(value)
  PROVE  GoodMenu(page')
<1>0. GoodBar(page.bar) /\ IsBar(page.bar) BY DEF GoodMenu, GoodBar
<1>1. ASSUME NEW type, NEW value, ListOfHosts!ToggleSelection(type, value)
      PROVE  GoodMenu(page')
  <2>1. CASE type = ListOfHosts!Root
    <3>1. PICK b : b = ListOfHosts!DisplayLeafFilterOptions(page.bar, value) OBVIOUS
    <3>2. GoodBar(b) BY <1>0, <3>1, MenuDisplays
    <3> QED BY <1>1, <2>1, <3>1, <3>2, MenuInBar DEF ListOfHosts!ToggleSelection
  <2>2. CASE type # ListOfHosts!Root
    <3>1. PICK b : b = ListOfHosts!ToggleFilterOption(page.bar, type, value) OBVIOUS
    <3>2. GoodBar(b) BY <1>0, <3>1, MenuToggles
    <3> QED BY <1>1, <2>2, <3>1, <3>2, MenuInBar DEF ListOfHosts!ToggleSelection
  <2> QED BY <2>1, <2>2
<1>2. ASSUME NEW option, ListOfHosts!ClickOption(option) PROVE GoodMenu(page')
  BY <1>1, <1>2 DEF ListOfHosts!ClickOption
<1>3. CASE ListOfHosts!ToggleSelectAll
  <2>1. PICK b : b = ListOfHosts!ToggleAll(page.bar) OBVIOUS
  <2>2. GoodBar(b) BY <1>0, <2>1, MenuToggles
  <2> QED BY <1>3, <2>1, <2>2, MenuInBar DEF ListOfHosts!ToggleSelectAll
<1>4. CASE ListOfHosts!BackToRoot
  <2>1. PICK none : none = ListOfHosts!NoColumn OBVIOUS
  <2>2. PICK b : b = [page.bar EXCEPT !.selectedColumn = none] OBVIOUS
  <2>3. IsBar(b) BY <1>0, <2>2, MenuKeepsFlags
  <2>4. b.selectedColumn = none BY <1>0, <2>2 DEF IsBar, BarFields
  <2>5. PICK c : c = ListOfHosts!DisplayRootFilterOptions(b) OBVIOUS
  <2>6. GoodBar(c) BY <2>1, <2>3, <2>4, <2>5, MenuDisplays
  <2>7. ListOfHosts!InBar(c, none)
    BY <1>4, <2>1, <2>2, <2>5 DEF ListOfHosts!BackToRoot
  <2> QED BY <2>6, <2>7, MenuInBar
<1>5. ASSUME NEW value, ListOfHosts!DispatchTyped(value) PROVE GoodMenu(page')
  <2>1. CASE ListOfHosts!ToggleSelection(ListOfHosts!Root, value)
    <3>1. PICK root : root = ListOfHosts!Root OBVIOUS
    <3> QED BY <1>1, <2>1, <3>1
  <2>2. CASE /\ page.bar.selectedColumn \in HostListPage.InputColumns
             /\ ListOfHosts!InBar(ListOfHosts!AddNewFilterOption(page.bar, value,
                                    page.bar.selectedColumn), ListOfHosts!NoColumn)
    <3>1. PICK column : column = page.bar.selectedColumn OBVIOUS
    <3>2. PICK f : f = [c \in {column} |-> value] OBVIOUS
    <3>3. DOMAIN f \subseteq HostListPage.InputColumns BY <2>2, <3>1, <3>2
    <3>4. PICK b : b = ListOfHosts!AddNewFilterOptions(page.bar, f) OBVIOUS
    <3>5. GoodBar(b) BY <1>0, <3>3, <3>4, MenuTakesTyped
    <3>6. PICK none : none = ListOfHosts!NoColumn OBVIOUS
    <3>7. ListOfHosts!InBar(b, none)
      BY <2>2, <3>1, <3>2, <3>4, <3>6 DEF ListOfHosts!AddNewFilterOption
    <3> QED BY <3>5, <3>7, MenuInBar
  <2> QED BY <1>5, <2>1, <2>2 DEF ListOfHosts!DispatchTyped
<1>6. ASSUME NEW value, ListOfHosts!TypeText(value) PROVE GoodMenu(page')
  <2>1. PICK b : b = ListOfHosts!FilterSearchOptions(page.bar, {value},
                                                     page.bar.selectedColumn) OBVIOUS
  <2>2. GoodBar(b)
    <3>1. PICK text : text = {value} OBVIOUS
    <3> QED BY <1>0, <2>1, <3>1, MenuDisplays
  <2> QED BY <1>6, <2>1, <2>2, MenuInBar DEF ListOfHosts!TypeText
<1> QED BY <1>2, <1>3, <1>4, <1>5, <1>6

LEMMA MenuClosed ==
  ASSUME GoodMenu(page),
         \/ ListOfHosts!RenderSelectedOptionsAndResetFilterbar
         \/ ListOfHosts!ResetSelection
         \/ \E column, values : ListOfHosts!Submit(column, values)
  PROVE  GoodMenu(page')
<1>0. /\ GoodBar(page.bar) /\ MenuIn(ListOfHosts!State)
      /\ ListOfHosts!State.page.bar = page.bar
  BY MenuNow DEF GoodMenu
<1>1. CASE ListOfHosts!RenderSelectedOptionsAndResetFilterbar
  <2>1. PICK s : s = ListOfHosts!CloseOn(ListOfHosts!State) OBVIOUS
  <2>2. MenuIn(s) BY <1>0, <2>1, MenuCloses
  <2> QED BY <1>1, <2>1, <2>2, MenuBecomes
      DEF ListOfHosts!RenderSelectedOptionsAndResetFilterbar
<1>2. CASE ListOfHosts!ResetSelection
  <2>1. PICK c : c = ListOfHosts!ResetFilterOptions(page.bar) OBVIOUS
  <2>2. GoodBar(c) /\ IsBar(c) BY <1>0, <2>1, MenuSelects DEF GoodBar
  <2>3. PICK yes : yes = TRUE OBVIOUS
  <2>4. PICK b : b = [c EXCEPT !.filterChanged = yes] OBVIOUS
  <2>5. GoodBar(b) BY <2>2, <2>4, MenuKeepsFlags
  <2>6. PICK s : s = [ListOfHosts!State EXCEPT !.page.bar = b] OBVIOUS
  <2>7. MenuIn(s) BY <1>0, <2>5, <2>6, MenuOther
  <2>8. PICK t : t = ListOfHosts!CloseOn(s) OBVIOUS
  <2>9. MenuIn(t) BY <2>7, <2>8, MenuCloses
  <2>10. ListOfHosts!Becomes(t)
    BY <1>0, <1>2, <2>1, <2>3, <2>4, <2>6, <2>8 DEF ListOfHosts!ResetSelection
  <2> QED BY <2>9, <2>10, MenuBecomes
<1>3. ASSUME NEW column, NEW values, ListOfHosts!Submit(column, values)
      PROVE  GoodMenu(page')
  <2>1. PICK b : b = ListOfHosts!ParseInputValue(column, values) OBVIOUS
  <2>2. GoodBar(b)
    <3>1. CASE column \in HostListPage.InputColumns
      <4>1. PICK v : v = CHOOSE x \in values : TRUE OBVIOUS
      <4>2. PICK f : f = [c \in {column} |-> v] OBVIOUS
      <4>3. GoodBar(ListOfHosts!AddNewFilterOptions(page.bar, f))
        <5>1. DOMAIN f \subseteq HostListPage.InputColumns BY <3>1, <4>2
        <5> QED BY <1>0, <5>1, MenuTakesTyped
      <4>4. b = page.bar \/ b = ListOfHosts!AddNewFilterOptions(page.bar, f)
        BY <2>1, <3>1, <4>1, <4>2
        DEF ListOfHosts!ParseInputValue, ListOfHosts!ParseColumn,
            ListOfHosts!AddNewFilterOption
      <4> QED BY <1>0, <4>3, <4>4
    <3>2. CASE column \notin HostListPage.InputColumns
      <4>1. b = page.bar \/ b = ListOfHosts!ApplySelection(page.bar, values, column)
        BY <2>1, <3>2 DEF ListOfHosts!ParseInputValue, ListOfHosts!ParseColumn
      <4> QED BY <1>0, <4>1, MenuSelects
    <3> QED BY <3>1, <3>2
  <2>3. PICK s : s = [ListOfHosts!State EXCEPT !.page.bar = b] OBVIOUS
  <2>4. MenuIn(s) BY <1>0, <2>2, <2>3, MenuOther
  <2>5. PICK no : no = FALSE OBVIOUS
  <2>6. PICK t : t = ListOfHosts!RenderSelectedOptions(ListOfHosts!Load(s, 0, no)) OBVIOUS
  <2>7. MenuIn(t) BY <2>4, <2>6, MenuOfLoad, MenuQuery
  <2> QED BY <1>3, <2>1, <2>3, <2>5, <2>6, <2>7, MenuBecomes DEF ListOfHosts!Submit
<1> QED BY <1>1, <1>2, <1>3

\* A change of the page that the menu is no part of, and then a load.
LEMMA MenuReloads ==
  ASSUME NEW s, MenuIn(s), NEW t, MenuKept(s, t), NEW diff, NEW force,
         ListOfHosts!Becomes(ListOfHosts!Load(t, diff, force))
  PROVE  GoodMenu(page')
<1>1. MenuIn(t) BY MenuStays
<1>2. PICK u : u = ListOfHosts!Load(t, diff, force) OBVIOUS
<1>3. MenuIn(u) BY <1>1, <1>2, MenuOfLoad
<1> QED BY <1>2, <1>3, MenuBecomes

LEMMA MenuTurns ==
  ASSUME GoodMenu(page),
         \/ ListOfHosts!ClickNext \/ ListOfHosts!ClickPrevious
         \/ \E size : ListOfHosts!ResetPageTokenAndReload(size)
         \/ ListOfHosts!Refresh
  PROVE  GoodMenu(page')
<1>0. MenuIn(ListOfHosts!State) /\ ListOfHosts!State.page = page BY MenuNow
<1>1. PICK s : s = ListOfHosts!State OBVIOUS
<1>2. PICK no, yes : no = FALSE /\ yes = TRUE OBVIOUS
<1>3. CASE ListOfHosts!ClickNext
  <2>1. PICK q : q = ListOfHosts!NextPage(s.page.paginator) OBVIOUS
  <2>2. PICK t : t = [s EXCEPT !.page.paginator = q] OBVIOUS
  <2>3. MenuKept(s, t) BY <1>0, <1>1, <2>2 DEF MenuKept, MenuIn, GoodMenu, StateFields
  <2>4. ListOfHosts!Becomes(ListOfHosts!Load(t, 1, no))
    BY <1>1, <1>2, <1>3, <2>1, <2>2 DEF ListOfHosts!ClickNext
  <2> QED BY <1>0, <1>1, <2>3, <2>4, MenuReloads
<1>4. CASE ListOfHosts!ClickPrevious
  <2>1. PICK q : q = ListOfHosts!PreviousPage(s.page.paginator) OBVIOUS
  <2>2. PICK t, d : t = [s EXCEPT !.page.paginator = q] /\ d = -1 OBVIOUS
  <2>3. MenuKept(s, t) BY <1>0, <1>1, <2>2 DEF MenuKept, MenuIn, GoodMenu, StateFields
  <2>4. ListOfHosts!Becomes(ListOfHosts!Load(t, d, no))
    BY <1>1, <1>2, <1>4, <2>1, <2>2 DEF ListOfHosts!ClickPrevious
  <2> QED BY <1>0, <1>1, <2>3, <2>4, MenuReloads
<1>5. ASSUME NEW size, ListOfHosts!ResetPageTokenAndReload(size) PROVE GoodMenu(page')
  <2>1. PICK q : q = ListOfHosts!ChangePageSize(s.page.paginator, size) OBVIOUS
  <2>2. PICK t : t = [s EXCEPT !.page.paginator = q,
                               !.page.prevPageToken = ListOfHosts!NoToken,
                               !.page.nextPageToken = ListOfHosts!NoToken] OBVIOUS
  <2>3. MenuKept(s, t) BY <1>0, <1>1, <2>2 DEF MenuKept, MenuIn, GoodMenu, StateFields
  <2>4. ListOfHosts!Becomes(ListOfHosts!Load(t, 0, no))
    BY <1>1, <1>2, <1>5, <2>1, <2>2 DEF ListOfHosts!ResetPageTokenAndReload
  <2> QED BY <1>0, <1>1, <2>3, <2>4, MenuReloads
<1>6. CASE ListOfHosts!Refresh
  <2>1. MenuKept(s, s) BY <1>0, <1>1 DEF MenuKept, MenuIn, GoodMenu
  <2>2. ListOfHosts!Becomes(ListOfHosts!Load(s, 0, yes))
    BY <1>1, <1>2, <1>6 DEF ListOfHosts!Refresh
  <2> QED BY <1>0, <1>1, <2>1, <2>2, MenuReloads
<1> QED BY <1>3, <1>4, <1>5, <1>6

LEMMA MenuHears ==
  ASSUME GoodMenu(page), NEW i,
         \/ ListOfHosts!HostRemoved(i) \/ ListOfHosts!HostsArrive(i)
         \/ ListOfHosts!CallFails(i)
  PROVE  GoodMenu(page')
<1>0. MenuIn(ListOfHosts!Heard(i)) /\ ListOfHosts!Heard(i).page = page BY MenuNow
<1>1. PICK s : s = ListOfHosts!Heard(i) OBVIOUS
<1>2. PICK no, yes : no = FALSE /\ yes = TRUE OBVIOUS
<1>3. CASE ListOfHosts!HostRemoved(i)
  <2>1. PICK places :
          places = {j \in DOMAIN page.rows : page.rows[j] = requests[i].arg} OBVIOUS
  <2>2. PICK rows : rows = ListOfHosts!WithoutRow(s.page.rows, places) OBVIOUS
  <2>3. PICK t : t = [s EXCEPT !.page.rows = rows] OBVIOUS
  <2>4. MenuKept(s, t) BY <1>0, <1>1, <2>3 DEF MenuKept, MenuIn, GoodMenu, StateFields
  <2>5. ListOfHosts!Becomes(ListOfHosts!Load(t, 0, yes))
    BY <1>1, <1>2, <1>3, <2>1, <2>2, <2>3 DEF ListOfHosts!HostRemoved
  <2> QED BY <1>0, <1>1, <2>4, <2>5, MenuReloads
<1>4. CASE ListOfHosts!HostsArrive(i)
  <2>1. PICK answer : answer = requests[i].answer OBVIOUS
  <2>2. PICK t : t = ListOfHosts!AfterDataloaded(s, answer, no) OBVIOUS
  <2>3. MenuIn(t) BY <1>0, <1>1, <2>2, MenuLoaded
  <2>4. ListOfHosts!Becomes(t)
    BY <1>1, <1>2, <1>4, <2>1, <2>2 DEF ListOfHosts!HostsArrive
  <2> QED BY <2>3, <2>4, MenuBecomes
<1>5. CASE ListOfHosts!CallFails(i)
  <2>1. PICK masked : masked = (s.page.isLoading /\ ~ requests[i].arg.opening) OBVIOUS
  <2>2. PICK t : t = [s EXCEPT !.page.isLoading = masked] OBVIOUS
  <2>3. MenuKept(s, t) BY <1>0, <1>1, <2>2 DEF MenuKept, MenuIn, GoodMenu, StateFields
  <2>4. MenuIn(s) /\ MenuIn(t) BY <1>0, <1>1, <2>3, MenuStays
  <2>5. ListOfHosts!Becomes(s) \/ ListOfHosts!Becomes(t)
    BY <1>1, <1>5, <2>1, <2>2 DEF ListOfHosts!CallFails
  <2> QED BY <2>4, <2>5, MenuBecomes
<1> QED BY <1>3, <1>4, <1>5

LEMMA MenuInit == ListOfHosts!Init => GoodMenu(page)
BY MenuOfFreshList DEF ListOfHosts!Init

LEMMA MenuNext ==
  ASSUME GoodMenu(page), [ListOfHosts!Next]_vars
  PROVE  GoodMenu(page)'
<1>0. GoodMenu(page') <=> GoodMenu(page)' BY DEF GoodMenu, GoodBar, IsBar, AreOptions, InMenu
<1>1. CASE UNCHANGED vars BY <1>1 DEF vars
<1>2. CASE \E h \in 1 .. HostListPage.N : ListOfHosts!RemoveHost(h)
  <2>1. PICK h : ListOfHosts!RemoveHost(h) BY <1>2
  <2>2. PICK kind : kind = "remove" OBVIOUS
  <2>3. PICK s : s = ListOfHosts!Send(ListOfHosts!State, kind, h) OBVIOUS
  <2>4. MenuIn(s) BY <2>3, MenuNow, MenuQuery
  <2>5. ListOfHosts!Becomes(s) BY <2>1, <2>2, <2>3 DEF ListOfHosts!RemoveHost
  <2> QED BY <1>0, <2>4, <2>5, MenuBecomes
<1>3. CASE \E i \in DOMAIN requests : ListOfHosts!Serve(i) \/ ListOfHosts!Fail(i)
  BY <1>3 DEF ListOfHosts!Serve, ListOfHosts!Fail
<1>4. CASE ListOfHosts!Next
  BY <1>0, <1>2, <1>3, <1>4, MenuOpening, MenuUsed, MenuClosed, MenuTurns, MenuHears
  DEF ListOfHosts!Next
<1> QED BY <1>1, <1>4

LEMMA MenuShown ==
  ASSUME GoodMenu(page)
  PROVE  ListOfHosts!MenuShowsOneColumn
BY DEF GoodMenu, GoodBar, IsBar, InMenu, AreOptions, ColumnShown,
       ListOfHosts!MenuShowsOneColumn, ListOfHosts!VisibleOptions

=============================================================================
