------------------------------ MODULE MCRequests ------------------------------
(* Everything that goes through the approval engine, one kind of request at a time: *)
(* leave, time entries or attendance corrections of one employee, on the workflows  *)
(* and the chart of MCLeaveApproval; and the balances that leave is taken from.     *)
EXTENDS MCLeaveApproval

CONSTANTS s1, s2, c1, c2

VARIABLES part,
          entries, actualHours, sheetFlows,              \* TimeSheet
          rows, corrections, now, correctionFlows,       \* AttendanceRecords
          mode, types, balances, pending, job            \* LeaveBalances

\* A day of which one stamp is given.
OfficeMarks == {[status |-> "PRESENT", in |-> None, out |-> 3]}

Sheet == INSTANCE TimeSheet WITH
  Targets <- {s1, s2}, Requester <- [t \in {s1, s2} |-> emp],
  ModuleOf <- [t \in {s1, s2} |-> CHOOSE m \in ModuleTypes : TRUE], instances <- sheetFlows,
  Tasks <- {"a", "b"}, Dates <- {1, 2}, Hours <- {1, 2}, MaxInstances <- 3,
  DecidedBy <- [t \in {s1, s2} |-> IF t = s1 THEN {"engine"} ELSE {"direct"}]

Records == INSTANCE AttendanceRecords WITH
  Targets <- {c1, c2}, Requester <- [t \in {c1, c2} |-> emp],
  ModuleOf <- [t \in {c1, c2} |-> CHOOSE m \in ModuleTypes : TRUE], instances <- correctionFlows,
  Kind <- [t \in {c1, c2} |-> IF t = c1 THEN "in" ELSE "out"], Dates <- {0, 1}, DayLength <- 2,
  MaxTime <- 3, AutoAfter <- 2, Window <- 2, HalfDay <- 2, OfficeDays <- {1}, ByHand <- OfficeMarks

\* An employee who joins in the second half of the first of two years; two requests at once
\* where neither leave is taken nor types change.
Accounts == INSTANCE LeaveBalances WITH
  Types <- {s1, s2}, Years <- {1, 2}, Joined <- [year |-> 1, month |-> 7], Workers <- {1, 2},
  Allowances <- {[days |-> 12, carry |-> TRUE, most |-> 2], [days |-> 4, carry |-> FALSE, most |-> 0]},
  Modes <- {{"deleteType", "apply"}, {"get", "initialize", "updateType", "apply"},
            {"get", "initialize", "createType", "two"}}

leave == <<instances, records, today>>
sheet == <<sheetFlows, entries, actualHours>>
attendance == <<correctionFlows, rows, corrections, now>>
accounts == <<mode, types, balances, pending, job>>

\* The parts that do not run stay in one of their initial states.
MCInit ==
  /\ part \in {"leave", "sheet", "attendance", "accounts"}
  /\ Init /\ Sheet!Init /\ Records!Init /\ Accounts!Init
  /\ part = "accounts" \/ (mode = {"deleteType", "apply"} /\ \A t \in {s1, s2} : types[t].row => types[t].gives.carry)

LeaveStep == part = "leave" /\ Next /\ UNCHANGED <<sheet, attendance, accounts, part>>
SheetStep == part = "sheet" /\ Sheet!Next /\ UNCHANGED <<leave, attendance, accounts, part>>
AttendanceStep == part = "attendance" /\ Records!Next /\ UNCHANGED <<leave, sheet, accounts, part>>
AccountsStep == part = "accounts" /\ Accounts!Next /\ UNCHANGED <<vars, sheet, attendance, part>>

MCNext == LeaveStep \/ SheetStep \/ AttendanceStep \/ AccountsStep

MCSpec == MCInit /\ [][MCNext]_<<vars, sheet, attendance, accounts, part>>

-----------------------------------------------------------------------------
(* The properties of TimeSheet and AttendanceRecords, stated there *)

\* Time entries: one round open, hours that count what is approved, an orderly life.
SheetSound == Sheet!SheetSound
\* Attendance rows and their corrections: one mechanism, stamps and hours that agree; and
\* balances that follow the types and what was taken.
RecordsSound ==
  /\ Records!RecordsSound
  /\ [](part = "accounts" => Accounts!BalancesValid)
  /\ [][part = "accounts" => Accounts!BalancesStep]_<<part, accounts>>
=============================================================================

