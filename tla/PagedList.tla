------------------------------ MODULE PagedList ------------------------------
(***************************************************************************)
(* What the device and host lists share: the paginator                     *)
(* (shared/paginator.ts), the parameters of a query for a page and what    *)
(* the TFC API answers to it (services/tfc_client.ts).  Items are numbered *)
(* in the order the API lists them.  A cursor is the place after an item,  *)
(* NoToken is no cursor: the API never gives the place before all items.   *)
(***************************************************************************)
EXTENDS Lists

NoToken == 0

Paginator(size) ==
  [pageIndex |-> 1, pageSize |-> size, hasPrevious |-> FALSE, hasNext |-> FALSE]

ResetPageIndex(pager) == [pager EXCEPT !.pageIndex = 1]
ChangePageSize(pager, size) == [ResetPageIndex(pager) EXCEPT !.pageSize = size]
NextPage(pager) == [pager EXCEPT !.pageIndex = @ + 1]
PreviousPage(pager) == [pager EXCEPT !.pageIndex = @ - 1]

\* The paginator shows what the last answer said.
SetTokens(pager, prevToken, nextToken) ==
  [pager EXCEPT !.hasPrevious = prevToken # NoToken,
                !.hasNext = nextToken # NoToken]

\* The parameters count, cursor and backwards.
PageQuery(size, token, backwards) ==
  [size |-> size, token |-> token, backwards |-> backwards]

First(list, n) == SubSeq(list, 1, IF n < Len(list) THEN n ELSE Len(list))
Final(list, n) == SubSeq(list, IF n < Len(list) THEN Len(list) - n + 1 ELSE 1, Len(list))

Greatest(S) == IF S = {} THEN NoToken ELSE CHOOSE x \in S : \A y \in S : y <= x

\* The page of the matching items that follow the cursor, or that precede it.
QueryPage(items, query) ==
  LET after == Ascending({i \in items : i > query.token})
      upTo == Ascending({i \in items : i <= query.token})
      page == IF query.backwards THEN Final(upTo, query.size) ELSE First(after, query.size)
  IN [items     |-> page,
      prevToken |-> IF query.backwards
                    THEN Greatest({i \in items : page # <<>> /\ i < page[1]})
                    ELSE query.token,
      nextToken |-> IF query.backwards THEN query.token
                    ELSE IF Len(page) < Len(after) THEN page[Len(page)] ELSE NoToken]

\* The pages that the session holds, with this one under its key.
Cached(session, key, page) ==
  [k \in DOMAIN session \cup {key} |-> IF k = key THEN page ELSE session[k]]

\* The rows of a page without the one at such a place, if there is one.
WithoutRow(rows, places) ==
  IF places = {} THEN rows ELSE RemoveAt(rows, CHOOSE i \in places : TRUE)
=============================================================================
