------------------------------- MODULE LeaveBalances -------------------------------
(* The leave types, and the balances of one employee by type and year: made from the  *)
(* types, for part of the year of joining, with what remained of the year before. A    *)
(* request reads (types, balances, requests), and commits over what is there by then.  *)
(* Days are counted in halves. Approvals and their locks are the module LeaveApproval. *)
EXTENDS Integers, FiniteSets, FiniteSetsExt

CONSTANTS Types,         \* rows of leave_types
          Years,
          Joined,        \* [year, month] in which the employee joined
          Allowances,    \* [days, carry, most]: what a type may give, whether it carries forward,
                         \* and at most how much
          None, Workers,
          Modes          \* bound: the operations used together, one request at a time or two

VARIABLES mode, types, balances, pending,
          job            \* job[w]: the request of a thread and the rows it has read

vars == <<mode, types, balances, pending, job>>

NoType == [row |-> FALSE, active |-> TRUE, gives |-> None]
Balance == [allowed : Nat, carried : Nat, used : Nat]
Idle == [op |-> "idle", on |-> None, view |-> None]
View == [types |-> types, balances |-> balances, pending |-> pending]

Active(T) == {t \in Types : T[t].row /\ T[t].active}
HasAny(B, y) == \E t \in Types : B[y][t] # None

\* The type t has a row from the start.
Init ==
  /\ mode \in Modes
  /\ types \in {[t \in Types |-> IF t = first THEN [NoType EXCEPT !.row = TRUE, !.gives = a] ELSE NoType] :
                first \in {CHOOSE t \in Types : TRUE}, a \in Allowances}
  /\ balances = [y \in Years |-> [t \in Types |-> None]]
  /\ pending = {}
  /\ job = [w \in Workers |-> Idle]

-----------------------------------------------------------------------------
(* What a balance is made of *)

\* round(): a half goes to the even neighbour.
Rounded(n, d) ==
  LET q == n \div d  r == n % d
  IN IF 2 * r > d \/ (2 * r = d /\ q % 2 = 1) THEN q + 1 ELSE q

Prorated_rest(days, month) == Rounded(days * (12 - month), 12)

\* The month of joining counts.
Prorated(days, month) == Rounded(days * (12 - month + 1), 12)

Allowed(days, y) ==
  CASE Joined.year = y -> Prorated(days, Joined.month)
    [] Joined.year > y -> 0
    [] OTHER -> days

Remaining(b) == b.allowed + b.carried - b.used

Carry_uncapped(gives, prior) == IF ~ gives.carry \/ prior = None THEN 0 ELSE Max({0, Remaining(prior)})

\* What remained, up to the most of the type, and never less than nothing.
Carry(gives, prior) ==
  IF ~ gives.carry \/ prior = None THEN 0 ELSE Max({0, Min({Remaining(prior), gives.most})})

Prior(B, y, t) == IF y - 1 \in Years THEN B[y - 1][t] ELSE None

\* The balances of year y as an initialisation would have them: used is kept.
Initialised(T, B, y) ==
  [t \in Types |->
     IF t \notin Active(T) THEN B[y][t]
     ELSE [allowed |-> Allowed(T[t].gives.days, y), carried |-> Carry(T[t].gives, Prior(B, y, t)),
           used |-> IF B[y][t] = None THEN 0 ELSE B[y][t].used]]

-----------------------------------------------------------------------------
(* Requests *)

Read(w, op, on) ==
  /\ op \in mode /\ job[w] = Idle
  /\ "two" \in mode \/ \A v \in Workers : job[v] = Idle
  /\ job' = [job EXCEPT ![w] = [op |-> op, on |-> on, view |-> View]]
  /\ UNCHANGED <<mode, types, balances, pending>>

Request(w) ==
  \/ \E y \in Years : Read(w, "get", y)
  \/ \E y \in Years : Read(w, "initialize", y)
  \/ \E t \in Active(types) : Read(w, "deleteType", t)

Refuse == UNCHANGED <<types, balances>>

\* Rows that were there are updated in the columns that changed, the others inserted: all of
\* them, or none if somebody else inserted one meanwhile.
Save(w, y) ==
  LET view == job[w].view
      new == Initialised(view.types, view.balances, y)
      added == {t \in Types : view.balances[y][t] = None /\ new[t] # None}
      Kept(t, c) == view.balances[y][t] # None /\ new[t][c] = view.balances[y][t][c]
      Merged(t) == IF t \in added THEN new[t]
                   ELSE [c \in {"allowed", "carried", "used"} |-> IF Kept(t, c) THEN balances[y][t][c] ELSE new[t][c]]
  IN IF \E t \in added : balances[y][t] # None THEN Refuse
     ELSE /\ balances' = [balances EXCEPT ![y] = [t \in Types |-> IF new[t] = None THEN @[t] ELSE Merged(t)]]
          /\ UNCHANGED types

Initialize(w) == job[w].op = "initialize" /\ Save(w, job[w].on)

GetBalance_eachTime(w) == job[w].op = "get" /\ Save(w, job[w].on)

\* The balances are made on the first look; when that fails the page is empty.
GetBalance(w) ==
  /\ job[w].op = "get"
  /\ IF HasAny(job[w].view.balances, job[w].on) \/ Active(job[w].view.types) = {} THEN Refuse
     ELSE Save(w, job[w].on)

DeleteType_anyway(w) ==
  /\ job[w].op = "deleteType"
  /\ types' = [types EXCEPT ![job[w].on].active = FALSE]
  /\ UNCHANGED balances

\* A type with pending requests stays.
DeleteType(w) ==
  /\ job[w].op = "deleteType"
  /\ IF job[w].on \in job[w].view.pending THEN Refuse
     ELSE types' = [types EXCEPT ![job[w].on].active = FALSE] /\ UNCHANGED balances

Write(w) ==
  /\ Initialize(w) \/ GetBalance(w) \/ DeleteType(w)
  /\ job' = [job EXCEPT ![w] = Idle]
  /\ UNCHANGED <<mode, pending>>

\* A code that is free again gets no second row: deleted types keep theirs.
CreateType(t, a) ==
  /\ "createType" \in mode /\ ~ types[t].row
  /\ types' = [types EXCEPT ![t] = [NoType EXCEPT !.row = TRUE, !.gives = a]]
  /\ UNCHANGED <<mode, balances, pending, job>>

\* The balances follow when they are initialised the next time. The form puts a type away
\* too, without a look at its requests, and brings it back.
UpdateType(t, a, on) ==
  /\ "updateType" \in mode /\ types[t].row
  /\ types' = [types EXCEPT ![t].gives = a, ![t].active = on]
  /\ UNCHANGED <<mode, balances, pending, job>>

\* A request within the balance is made, and approved or rejected.
Apply(t) ==
  /\ "apply" \in mode /\ t \in Active(types)
  /\ pending' = pending \cup {t}
  /\ UNCHANGED <<mode, types, balances, job>>

Decide(t, y, days) ==
  /\ t \in pending
  /\ pending' = pending \ {t}
  /\ \/ UNCHANGED balances
     \/ /\ balances[y][t] # None /\ Remaining(balances[y][t]) >= days
        /\ balances' = [balances EXCEPT ![y][t].used = @ + days]
  /\ UNCHANGED <<mode, types, job>>

Next ==
  \/ \E w \in Workers : Request(w) \/ Write(w)
  \/ \E t \in Types : \/ \E a \in Allowances : CreateType(t, a) \/ \E on \in BOOLEAN : UpdateType(t, a, on)
                      \/ Apply(t)
                      \/ \E y \in Years : Decide(t, y, 4)

Spec == Init /\ [][Next]_vars

-----------------------------------------------------------------------------
(* Properties *)

Ends(w) == job[w] # Idle /\ job'[w] = Idle
Current(w) == job[w].view = View

\* The part of a first year is no more than the whole, all of it from January on, and
\* shrinks with the month.
ProrationFair == \A a \in Allowances, m \in 1 .. 12 :
  /\ Prorated(a.days, m) <= a.days
  /\ m = 1 => Prorated(a.days, m) = a.days
  /\ m < 12 => Prorated(a.days, m + 1) <= Prorated(a.days, m)
  /\ a.days >= 12 => Prorated(a.days, m) > 0

\* However many years follow each other, no more is carried than some allowance lets.
CarryBounded == \A y \in Years, t \in Types :
  balances[y][t] # None => balances[y][t].carried \in 0 .. Max({a.most : a \in Allowances})

\* An initialisation run twice does what it does once.
InitialisedOnce == \A y \in Years :
  LET once == [balances EXCEPT ![y] = Initialised(types, balances, y)]
  IN Initialised(types, once, y) = once[y]

\* More leave used than there is comes from an initialisation alone, by the types of that day
\* and what is left of the year before; nobody is granted it.
OverdrawnByInitialisation == \A y \in Years, t \in Types :
  LET b == balances[y][t]  c == balances'[y][t]
  IN (c # None /\ Remaining(c) < 0 /\ (b = None \/ Remaining(b) >= 0)) =>
       \E w \in Workers : Ends(w) /\ job[w].op = "initialize"

\* Looking at balances makes a year's first ones and touches none that is there, whoever
\* made it and whenever; a type that comes later waits for an initialisation.
LookingTouchesNothing == \A w \in Workers :
  (Ends(w) /\ job[w].op = "get") => \A y \in Years, t \in Types :
    /\ balances[y][t] # None => balances'[y][t] = balances[y][t]
    /\ balances'[y][t] # balances[y][t] => \A u \in Types : job[w].view.balances[y][u] = None

\* What was used is never forgotten, whatever overlaps.
UsedKept == \A y \in Years, t \in Types :
  balances[y][t] # None => balances'[y][t] # None /\ balances'[y][t].used >= balances[y][t].used

\* A deletion puts a type with a pending request away only when the request came after the look.
PendingKeepsType == \A w \in Workers, t \in Types :
  (Ends(w) /\ Current(w) /\ types[t].active /\ ~ types'[t].active) => t \notin pending

BalancesValid == ProrationFair /\ CarryBounded /\ InitialisedOnce
BalancesStep == OverdrawnByInitialisation /\ LookingTouchesNothing /\ UsedKept /\ PendingKeepsType
===================================================================================
