-------------------------------- MODULE MCSessions --------------------------------
(* Overlapping requests on work sessions, of MCWorkSession, with a history of what each *)
(* of them has not seen; and two parts that share nothing with them: the working        *)
(* calendar with the plans it moves, and signing in.                                    *)
EXTENDS MCWorkSession

CONSTANTS j1, j2, x1, x2,                                  \* CalendarSchedule
          Secrets, AttemptLimit, LockTime, AccessTime, RefreshTime, SignTime, SignModes   \* SignIn

ASSUME SignAssumption ==
  /\ IsFiniteSet(Workers) /\ Secrets # {} /\ AttemptLimit \in Nat \ {0, 1} /\ SignTime \in Nat
  /\ LockTime \in Nat /\ AccessTime \in Nat /\ RefreshTime \in Nat
  /\ \A m \in SignModes : m.time \in 0..SignTime

VARIABLES part,
          since,    \* history: what began behind the back of each request that begins something
          calendarMode, settings, holiday, project, task, review,            \* CalendarSchedule
          signMode, clock, account, pairs, revoked, request, wrong           \* SignIn

\* Weeks of three days; two tasks of a project, the second waiting for the first, and a
\* project without tasks. The weekend may be another day, and a weekly off rule take
\* the second of the days before it.
Plan == [y \in {x1, x2, j2} |->
           CASE y = x1 -> [status |-> "IN_PROGRESS", start |-> 2, end |-> 4]
             [] y = x2 -> [status |-> "NOT_STARTED", start |-> 4, end |-> 5]
             [] y = j2 -> [status |-> "NOT_STARTED", start |-> 2, end |-> 2]]

Calendar == INSTANCE CalendarSchedule WITH
  NHolidays <- 2, Projects <- {j1, j2}, Tasks <- {x1, x2},
  ProjectOf <- [t \in {x1, x2} |-> j1], DependsOn <- [t \in {x1, x2} |-> IF t = x2 THEN {x1} ELSE {}],
  NDays <- 8, WeekLength <- 3, HolidayDates <- {2, 4, 5},
  Calendars <- {[weekend |-> {0}, rules |-> {}], [weekend |-> {1}, rules |-> {<<0, 2>>}]},
  Plans <- {Plan}, mode <- calendarMode,
  Modes <- {[operations |-> {"update"}, holidays |-> 1],
            [operations |-> {"edit", "settings"}, holidays |-> 1],
            [operations |-> {"complete"}, holidays |-> 2]}

\* Guesses one after the other; renewals and sign-outs at once; a change of the password
\* among them; and what an administrator does meanwhile.
MCSignModes ==
  {[workers |-> 1, pairs |-> 1, time |-> 3, operations |-> {"wrong"}],
   [workers |-> 2, pairs |-> 3, time |-> 1, operations |-> {"refresh"}],
   [workers |-> 2, pairs |-> 2, time |-> 2, operations |-> {"refresh", "logout", "restart"}],
   [workers |-> 2, pairs |-> 3, time |-> 0, operations |-> {"solo", "change", "refresh"}],
   [workers |-> 2, pairs |-> 2, time |-> 0, operations |-> {"change", "admin", "wrong"}]}

Signing == INSTANCE SignIn WITH
  Passwords <- Secrets, MaxAttempts <- AttemptLimit, LockFor <- LockTime, AccessFor <- AccessTime,
  RefreshFor <- RefreshTime, MaxTime <- SignTime, Modes <- SignModes,
  mode <- signMode, now <- clock, job <- request

calendar == <<calendarMode, settings, holiday, project, task, review>>
signing == <<signMode, clock, account, pairs, revoked, request, wrong>>

\* The timers that run and the breaks that are open, which were not when the request of a
\* worker looked.
Beginning == {"start", "startLocked", "resume", "breakStart"}
Timers == {s \in SessionIds : sessions[s].status = "RUNNING"}
Pauses == {b \in BreakIds : breaks[b].employee # None}
Nothing == [timers |-> {}, pauses |-> {}]
Noted(seen) ==
  [timers |-> (Timers' \ Timers) \cup (seen.timers \cap Timers'),
   pauses |-> (Pauses' \ Pauses) \cup (seen.pauses \cap Pauses')]
Notes ==
  since' = [w \in Workers |-> IF txn[w].op \in Beginning /\ txn'[w].op \in Beginning
                              THEN Noted(since[w]) ELSE Nothing]

\* The parts that do not run stay in one of their initial states.
SessionsInit ==
  /\ part \in {"sessions", "calendar", "signing"}
  /\ Init /\ Calendar!Init /\ Signing!Init
  /\ since = [w \in Workers |-> Nothing]
  /\ part = "calendar" \/ (calendarMode.operations = {"update"} /\ settings.rules = {})
  /\ part = "signing" \/ signMode.operations = {"wrong"}

SessionsStep == part = "sessions" /\ Next /\ Notes /\ UNCHANGED <<calendar, signing, part>>
CalendarStep == part = "calendar" /\ Calendar!Next /\ UNCHANGED <<vars, since, signing, part>>
SigningStep == part = "signing" /\ Signing!Next /\ UNCHANGED <<vars, since, calendar, part>>

SessionsNext == SessionsStep \/ CalendarStep \/ SigningStep

SessionsSpec == SessionsInit /\ [][SessionsNext]_<<vars, since, calendar, signing, part>>

-----------------------------------------------------------------------------
(* What overlapping requests may still do to each other *)

\* Nothing but end_break adds a timer to one that is running, or a break to one that is
\* open, unless the other began between the request's look and its commit: the checks of
\* start_session, resume_session and start_break leave no other hole, and FOR UPDATE closes
\* this one only for the rows there are.
OnlyOverlapDoubles ==
  [][\A w \in Workers, e \in Employees :
       (txn[w].op \in Beginning /\ txn'[w].op = "idle" /\ txn[w].employee = e) =>
         /\ Running(e)' \ Running(e) # {} => Running(e) \cap Running(e)' \subseteq since[w].timers
         /\ OpenBreaks(e)' \ OpenBreaks(e) # {} => OpenBreaks(e) \subseteq since[w].pauses]_<<vars, since>>

(* The properties of the parts, stated there; they are looked at where the part runs *)

\* Plans, holidays and what managers decide about them.
ScheduleSound ==
  /\ [](part = "calendar" => Calendar!PlansSound)
  /\ [][part = "calendar" => Calendar!ChangesSound]_<<part, calendar>>
\* Tokens, passwords and the lock of an account.
SignInSound ==
  /\ [](part = "signing" => Signing!TokensSound)
  /\ [][part = "signing" => Signing!RevocationsSound]_<<part, signing>>
===================================================================================
