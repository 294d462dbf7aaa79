--------------------------------- MODULE MCPages ---------------------------------
(* That requests on work sessions end, of MCWorkSession, and the parts of the system *)
(* that read what the others write: the pages of productivity with the rule they     *)
(* compute with.                                                                     *)
EXTENDS MCWorkSession

CONSTANTS q1, q2

VARIABLES part,
          dayMode, minute, days, rests, timers, pauses, labels, ran,          \* Productivity
          rule, until, cached, expiry, holder, dropped, second, page          \* PolicyCache

\* Days of three ticks, local time one ahead. Each mode has two of the things that make
\* the numbers of a day hard: sessions that overlap, breaks, a day closed late, a task
\* paused on its own page, gaps that are explained.
Instance(operations, s, b, p, t) == [operations |-> operations, sessions |-> s, breaks |-> b, pauses |-> p, time |-> t]
Day == INSTANCE Productivity WITH
  DayLength <- 3, Offset <- 1, MaxTime <- 3, AutoCloseAfter <- 2, ClockOutWindow <- 4,
  mode <- dayMode, now <- minute, attendance <- days, breaks <- rests, sessions <- timers, worked <- ran,
  Modes <- {Instance({"pause", "resume"}, 2, 0, 0, 3), Instance({"pause", "finish"}, 2, 0, 0, 3),
            Instance({}, 1, 2, 0, 3), Instance({}, 2, 1, 0, 3), Instance({"autoClose", "finish"}, 1, 1, 0, 3),
            Instance({"classify", "resume"}, 1, 1, 0, 3), Instance({}, 1, 1, 1, 2), Instance({}, 1, 0, 2, 2)}

\* Two processes whose threads are the workers: a copy read while it is dropped, and
\* one that nobody drops.
Policy == INSTANCE PolicyCache WITH
  Processes <- {q1, q2}, Threads <- Workers, TTL <- 1, MaxTime <- 2, MaxChanges <- 1,
  clock <- second, request <- page

day == <<dayMode, minute, days, rests, timers, pauses, labels, ran>>
policy == <<rule, until, cached, expiry, holder, dropped, second, page>>

\* The parts that do not run stay in one of their initial states.
PagesInit ==
  /\ part \in {"sessions", "day", "policy"}
  /\ Init /\ Day!Init /\ Policy!Init
  /\ part = "day" \/ dayMode = Instance({}, 1, 0, 2, 2)

SessionsStep == part = "sessions" /\ Next /\ UNCHANGED <<day, policy, part>>
DayStep == part = "day" /\ Day!Next /\ UNCHANGED <<vars, policy, part>>
PolicyStep == part = "policy" /\ Policy!Next /\ UNCHANGED <<vars, day, part>>

PagesNext == SessionsStep \/ DayStep \/ PolicyStep

PagesSpec ==
  /\ PagesInit /\ [][PagesNext]_<<vars, day, policy, part>>
  /\ \A w \in Workers : WF_<<vars, day, policy, part>>(part = "sessions" /\ Advance(w) /\ UNCHANGED <<day, policy, part>>)

-----------------------------------------------------------------------------
(* The properties of the parts, stated there; they are looked at where the part runs *)

\* Presence, work, rest and idle time, tick by tick and against what was done, and the
\* rule they are computed with.
PagesSound ==
  /\ [](part = "day" => Day!NumbersSound)
  /\ [][part = "day" => Day!CountsSound]_<<part, day>>
  /\ [](part = "policy" => Policy!RuleSound)
===================================================================================
