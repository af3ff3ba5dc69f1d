----------------------------- MODULE HostFilters -----------------------------
(***************************************************************************)
(* The filters of offline hosts (hosts/offline_host_filter.ts), which the  *)
(* page of offline hosts, that of their assignments and the recovery page  *)
(* apply to what the API lists.  A row is a host with its run targets.     *)
(***************************************************************************)
EXTENDS MultiSelect

CONSTANT Info  \* for a host: [lab, group, targets, offline, harness, recent]

FilterTestHarness(rows, harness) ==
  IF harness \in {"", AllOptions} THEN rows
  ELSE {r \in rows : Info[r.host].harness = harness}

FilterHostGroup(rows, groups) ==
  IF groups = {} \/ AllOptions \in groups THEN rows
  ELSE {r \in rows : Info[r.host].group \in groups}

\* A host is shown with the run targets chosen.
FilterRunTarget(rows, targets, isOfflineOnly) ==
  LET Counted(r) ==
        r.targets \cap targets \cap IF isOfflineOnly THEN Info[r.host].offline ELSE r.targets
  IN IF targets = {} \/ AllOptions \in targets THEN rows
     ELSE {[r EXCEPT !.targets = @ \cap targets] : r \in {q \in rows : Counted(q) # {}}}

FilterHostListDataSource(rows, groups, targets, harness, isOfflineOnly) ==
  FilterRunTarget(FilterHostGroup(FilterTestHarness(rows, harness), groups),
                  targets, isOfflineOnly)
=============================================================================
