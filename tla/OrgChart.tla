-------------------------------- MODULE OrgChart --------------------------------
(***************************************************************************)
(* Who reports to whom: the changes employee_service.py and                *)
(* ownership_transfer_service.py make to reporting_manager_id and          *)
(* account_status, and the process-wide HierarchyCache that answers        *)
(* questions about the chart.                                              *)
(*                                                                         *)
(* A change of manager is checked, written and only then followed by the   *)
(* invalidation of the cache: three steps. Filling the cache is a read and *)
(* a later build. Blockers of an off-boarding other than reports (teams,   *)
(* departments) only forbid it, and are left open.                         *)
(***************************************************************************)
EXTENDS Integers, FiniteSets, FiniteSetsExt

CONSTANTS
  Employees, None,
  Accounts,         \* account statuses explored
  Modes             \* operations in use beside create, update and delete, and whether
                    \* requests interleave: [operations, concurrent]

VARIABLES
  mode,             \* one of Modes, the same throughout
  manager,          \* reporting_manager_id
  account,          \* account_status; "ABSENT" when there is no row
  changes,          \* changes of manager under way
  fills,            \* chart readings not built into the cache yet
  cache             \* [fresh, parent]

vars == <<mode, manager, account, changes, fills, cache>>

Terminal == {"RESIGNED", "TERMINATED"}
STATUS_TRANSITIONS ==
  [ACTIVE |-> {"PROBATION", "ON_LEAVE", "NOTICE_PERIOD", "SUSPENDED"} \cup Terminal,
   PROBATION |-> {"ACTIVE", "ON_LEAVE", "NOTICE_PERIOD", "SUSPENDED"} \cup Terminal,
   ON_LEAVE |-> {"ACTIVE", "NOTICE_PERIOD", "SUSPENDED"} \cup Terminal,
   SUSPENDED |-> {"ACTIVE", "NOTICE_PERIOD"} \cup Terminal,
   NOTICE_PERIOD |-> {"ACTIVE", "SUSPENDED"} \cup Terminal,
   RESIGNED |-> {}, TERMINATED |-> {}]

Exists(e) == account[e] # "ABSENT"
IsActive(e) == Exists(e) /\ account[e] \notin Terminal
\* _validate_manager, or no manager
Managers == {None} \cup {m \in Employees : IsActive(m)}
CanBecome(e, s) == s = account[e] \/ s \in STATUS_TRANSITIONS[account[e]]
ReportsOf(e) == {r \in Employees : manager[r] = e}

Serial == mode.concurrent \/ (changes = {} /\ fills = {})

-----------------------------------------------------------------------------
(* detect_cycle_cte, on the table *)

Closed(S) == \A x \in S : manager[x] \in S \cup {None}
\* Everybody at or above m.
Above(m) == {x \in Employees : \A S \in SUBSET Employees : m \in S /\ Closed(S) => x \in S}

\* S turns in itself: each of its members reports to another of them.
Ring(S) == S # {} /\ \A x \in S : manager[x] \in S

\* UNION ALL keeps no track of the rows visited: below a ring the query has no end.
QueryEnds(m) == \A S \in SUBSET Above(m) : ~Ring(S)

NoCycle(e, m) == m # e /\ QueryEnds(m) /\ e \notin Above(m)

-----------------------------------------------------------------------------
(* HierarchyCache *)

\* get_all_reporting_relationships: None for an employee who has no row in it is read
\* as no manager.
Relationships == [e \in Employees |-> IF IsActive(e) THEN manager[e] ELSE None]

Invalidated == [cache EXCEPT !.fresh = FALSE]

\* _ensure_cache
ReadChart ==
  /\ Serial /\ ~cache.fresh /\ fills = {}
  /\ fills' = {Relationships}
  /\ UNCHANGED <<manager, account, changes, cache>>

BuildCache ==
  /\ \E f \in fills : cache' = [fresh |-> TRUE, parent |-> f] /\ fills' = fills \ {f}
  /\ UNCHANGED <<manager, account, changes>>

Expire_never ==
  /\ FALSE
  /\ UNCHANGED vars

\* 300 seconds after it was built.
Expire ==
  /\ cache.fresh
  /\ cache' = Invalidated
  /\ UNCHANGED <<manager, account, changes, fills>>

\* get_ancestor_ids, the nearest first: the walk stops at the first employee met twice.
AncestorIds(parent, e) ==
  LET at[n \in 0..(Cardinality(Employees) + 1)] ==
        IF n = 0 THEN e ELSE IF at[n - 1] = None THEN None ELSE parent[at[n - 1]]
      stop == Min({n \in DOMAIN at : at[n] = None \/ \E k \in 0..(n - 1) : at[k] = at[n]})
  IN  [n \in 1..(stop - 1) |-> at[n]]

AncestorsOf(parent, e) == {AncestorIds(parent, e)[n] : n \in DOMAIN AncestorIds(parent, e)}

DescendantIds_unvisited(parent, e) ==
  LET below[n \in 0..Cardinality(Employees)] ==
        IF n = 0 THEN {c \in Employees : parent[c] = e}
        ELSE below[n - 1] \cup {c \in Employees : parent[c] \in below[n - 1]}
  IN  below[Cardinality(Employees)]

\* get_descendant_ids: e itself counts as visited.
DescendantIds(parent, e) ==
  LET below[n \in 0..Cardinality(Employees)] ==
        IF n = 0 THEN {c \in Employees \ {e} : parent[c] = e}
        ELSE below[n - 1] \cup {c \in Employees \ {e} : parent[c] \in below[n - 1]}
  IN  below[Cardinality(Employees)]

CommonManager_highest(parent, a, b) ==
  LET up == AncestorIds(parent, a)
      common == {n \in DOMAIN up : a = b \/ up[n] \in AncestorsOf(parent, b)}
  IN  IF common = {} THEN None ELSE up[Max(common)]

\* get_common_manager
CommonManager(parent, a, b) ==
  LET up == AncestorIds(parent, a)
      common == {n \in DOMAIN up : a = b \/ up[n] \in AncestorsOf(parent, b)}
  IN  IF common = {} THEN None ELSE up[Min(common)]

-----------------------------------------------------------------------------
(* create and update *)

Create(e, m) ==
  /\ Serial /\ ~Exists(e)
  /\ m \in Managers
  /\ manager' = [manager EXCEPT ![e] = m]
  /\ \E s \in Accounts : account' = [account EXCEPT ![e] = s]
  /\ cache' = Invalidated
  /\ UNCHANGED <<changes, fills>>

\* One change per employee at a time bounds the instance.
CheckChange(e, m) ==
  /\ Serial /\ Exists(e) /\ \A c \in changes : c.employee # e
  /\ m \in Managers /\ (m # None => NoCycle(e, m))
  /\ changes' = changes \cup {[employee |-> e, manager |-> m, written |-> FALSE]}
  /\ UNCHANGED <<manager, account, fills, cache>>

WriteChange(c) ==
  /\ ~c.written /\ Exists(c.employee)
  /\ c.manager \in {None} \cup {m \in Employees : Exists(m)}
  /\ manager' = [manager EXCEPT ![c.employee] = c.manager]
  /\ changes' = (changes \ {c}) \cup {[c EXCEPT !.written = TRUE]}
  /\ UNCHANGED <<account, fills, cache>>

EndChange_keepsCache(c) ==
  /\ c.written \/ ~Exists(c.employee)
  /\ changes' = changes \ {c}
  /\ UNCHANGED <<manager, account, fills, cache>>

\* The invalidation, or the failure of the write.
EndChange(c) ==
  /\ c.written \/ ~Exists(c.employee) \/ c.manager \notin {None} \cup {m \in Employees : Exists(m)}
  /\ changes' = changes \ {c}
  /\ cache' = IF c.written THEN Invalidated ELSE cache
  /\ UNCHANGED <<manager, account, fills>>

\* update: a terminal status is only kept, never set.
ChangeStatus(e, s) ==
  /\ Serial /\ Exists(e) /\ CanBecome(e, s)
  /\ s \in Terminal => account[e] \in Terminal
  /\ account' = [account EXCEPT ![e] = s]
  /\ cache' = Invalidated
  /\ UNCHANGED <<manager, changes, fills>>

-----------------------------------------------------------------------------
(* Leaving *)

\* transfer_reports looks for no cycle: the target may be one of the reports.
TransferReports(e, m, R) ==
  /\ Serial /\ "transfer" \in mode.operations
  /\ Exists(e) /\ IsActive(m)
  /\ manager' = [r \in Employees |-> IF r \in R /\ manager[r] = e THEN m ELSE manager[r]]
  /\ UNCHANGED <<account, changes, fills, cache>>

ExecuteOffboard_unchecked(e, m, R, s) ==
  /\ Serial /\ "execute" \in mode.operations
  /\ Exists(e) /\ s \in Terminal /\ CanBecome(e, s)
  /\ R # {} => m # e /\ IsActive(m)
  /\ manager' = [r \in Employees |-> IF r \in R /\ manager[r] = e THEN m ELSE manager[r]]
  /\ account' = [account EXCEPT ![e] = s]
  /\ UNCHANGED <<changes, fills, cache>>

\* execute_offboard, in one transaction; the request names the reports to move.
ExecuteOffboard(e, m, R, s) ==
  /\ Serial /\ "execute" \in mode.operations
  /\ Exists(e) /\ s \in Terminal /\ CanBecome(e, s)
  /\ R # {} => m # e /\ IsActive(m) /\ \A r \in R : NoCycle(r, m)
  /\ manager' = [r \in Employees |-> IF r \in R /\ manager[r] = e THEN m ELSE manager[r]]
  /\ account' = [account EXCEPT ![e] = s]
  /\ UNCHANGED <<changes, fills, cache>>

OffboardConfirm_reportsLeft(e, s) ==
  /\ Serial /\ "confirm" \in mode.operations
  /\ Exists(e) /\ CanBecome(e, s)
  /\ account' = [account EXCEPT ![e] = s]
  /\ UNCHANGED <<manager, changes, fills, cache>>

\* offboard_confirm and deactivate; any status the transitions allow is taken.
OffboardConfirm(e, s) ==
  /\ Serial /\ "confirm" \in mode.operations
  /\ Exists(e) /\ ReportsOf(e) = {} /\ CanBecome(e, s)
  /\ account' = [account EXCEPT ![e] = s]
  /\ UNCHANGED <<manager, changes, fills, cache>>

Delete_keepsReports(e) ==
  /\ Serial /\ Exists(e)
  /\ account' = [account EXCEPT ![e] = IF @ \in Terminal THEN "ABSENT" ELSE "TERMINATED"]
  /\ cache' = Invalidated
  /\ UNCHANGED <<manager, changes, fills>>

\* The row of somebody who has left goes, and its reports lose their manager; anybody
\* else is terminated.
Delete(e) ==
  /\ Serial /\ Exists(e)
  /\ IF account[e] \in Terminal
     THEN /\ manager' = [r \in Employees |-> IF r = e \/ manager[r] = e THEN None ELSE manager[r]]
          /\ account' = [account EXCEPT ![e] = "ABSENT"]
     ELSE /\ ReportsOf(e) = {}
          /\ account' = [account EXCEPT ![e] = "TERMINATED"]
          /\ UNCHANGED manager
  /\ cache' = Invalidated
  /\ UNCHANGED <<changes, fills>>

-----------------------------------------------------------------------------
Init ==
  /\ mode \in Modes
  /\ manager = [e \in Employees |-> None]
  /\ account = [e \in Employees |-> "ABSENT"]
  /\ changes = {} /\ fills = {}
  /\ cache = [fresh |-> FALSE, parent |-> [e \in Employees |-> None]]

Next ==
  /\ \/ ReadChart \/ BuildCache \/ Expire
     \/ \E c \in changes : WriteChange(c) \/ EndChange(c)
     \/ \E e \in Employees :
          \/ Delete(e)
          \/ \E m \in Employees \cup {None} : Create(e, m) \/ CheckChange(e, m)
          \/ \E s \in Accounts : ChangeStatus(e, s) \/ OffboardConfirm(e, s)
          \/ \E m \in Employees, R \in SUBSET ReportsOf(e) :
               \/ R # {} /\ TransferReports(e, m, R)
               \/ \E s \in Accounts : ExecuteOffboard(e, m, R, s)
  /\ UNCHANGED mode

Spec == Init /\ [][Next]_vars

\* Time passes, and a request that has read the chart builds the cache.
Fairness == WF_cache(Expire) /\ WF_fills(BuildCache)

-----------------------------------------------------------------------------
\* The columns of the chart and the maps of the cache.
ChartTypeOK ==
  /\ mode \in Modes
  /\ manager \in [Employees -> Employees \cup {None}]
  /\ account \in [Employees -> Accounts \cup {"ABSENT", "TERMINATED"}]
  /\ \A e \in Employees : ~Exists(e) => manager[e] = None /\ ReportsOf(e) = {}
  /\ \A c \in changes : c.employee \in Employees /\ c.manager \in Employees \cup {None}
  /\ fills \subseteq [Employees -> Employees \cup {None}]
  /\ cache.parent \in [Employees -> Employees \cup {None}]

\* "Circular reporting hierarchy detected": one request at a time, and without the
\* transfer of reports, nobody ever reports to somebody below, so every query and every
\* walk up the chart comes to an end.
Forest == ~mode.concurrent /\ "transfer" \notin mode.operations => \A S \in SUBSET Employees : ~Ring(S)

\* Nobody is left reporting to an employee who has gone, as long as leavers go by the
\* checked way: not by execute_offboard, whose request may leave reports out, and not
\* while a change of manager is between its check and its write.
NobodyReportsToLeavers ==
  ~mode.concurrent /\ "execute" \notin mode.operations =>
    \A e \in Employees : manager[e] # None => IsActive(manager[e])

\* Where only create, update and delete change the chart, one request at a time, a
\* fresh cache is the chart: each of them invalidates it after its last commit.
CacheCurrent ==
  ~mode.concurrent /\ mode.operations = {} /\ changes = {} /\ cache.fresh => cache.parent = Relationships

\* However requests interleave, and whatever operations leave the cache as it is: once
\* the chart stays the same, the cache comes to show it for good.
CacheCatchesUp ==
  <>[][UNCHANGED <<manager, account>>]_vars => <>[](cache.fresh => cache.parent = Relationships)

\* Up and down agree on every cached chart, cycles included: a is above d exactly when
\* d is below a, so who may see whom does not depend on the direction asked, and nobody
\* is above or below themselves.
UpAgreesWithDown ==
  cache.fresh => \A a, d \in Employees :
    a \in AncestorsOf(cache.parent, d) <=> d \in DescendantIds(cache.parent, a)

\* The common manager of two employees is above both, and no other common manager is
\* below it, unless the chart turns in itself there.
LowestCommonManager ==
  cache.fresh => \A a, b \in Employees :
    LET c == CommonManager(cache.parent, a, b)
        shared == AncestorsOf(cache.parent, a) \cap AncestorsOf(cache.parent, b)
    IN  IF c = None THEN shared = {}
        ELSE c \in shared /\ \A x \in shared : x = c \/ x \in AncestorsOf(cache.parent, c)

\* What a chart promises, alone or cached.
ChartSound ==
  /\ ChartTypeOK /\ Forest /\ NobodyReportsToLeavers /\ CacheCurrent
  /\ UpAgreesWithDown /\ LowestCommonManager
================================================================================
