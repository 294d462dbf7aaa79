---------------------------------- MODULE MCRaces ----------------------------------
(* Requests that interleave, one part of the system at a time: the approval flows of *)
(* MCApproval, the reporting lines with their cache, the page of an off-boarding that *)
(* is out of date when it is sent, the help desk, and the lists others choose from.  *)
EXTENDS MCApproval

CONSTANTS
  p1, p2, p3, c1, c2, y1, s1, s2, s3, unset,
  LeavingEmployees, LeavingProjects, LeavingTasks,   \* of Handover
  DeskEmployees, DeskAdmins, DeskCategories, DeskTypes, DeskPriorities, DeskStatuses, DeskNames, DeskModes  \* of Tickets

VARIABLES part,
          chartMode, manager, account, changes, fills, cache,                \* OrgChart
          active, manages, assigned, closedTasks, members, leaveOf, entryOf, request, \* Handover
          deskMode, category, type, priority, status, handler, tickets, job,  \* Tickets
          listMode, clients, scopes, titles, designations, turn               \* MasterData

\* Two employees are enough for a ring, and for a reading of the chart that is out of
\* date when the cache is built from it.
Reporting == INSTANCE OrgChart WITH
  Employees <- {p1, p2}, Accounts <- {"ACTIVE", "RESIGNED"}, mode <- chartMode,
  Modes <- {[operations |-> {"transfer", "execute", "confirm"}, concurrent |-> TRUE]}

\* A leaver and two successors, one for some of the work and one for the rest.
Leaving == INSTANCE Handover WITH
  Employees <- LeavingEmployees, Projects <- LeavingProjects, Tasks <- LeavingTasks,
  leave <- leaveOf, entry <- entryOf

\* Two requests at a time on a ticket, a longer life of one, and what each setting may do to it.
Desk(settings, crash, workers, number, events) ==
  [settings |-> settings, crash |-> crash, workers |-> workers, tickets |-> number, history |-> events]
MCDeskModes ==
  {Desk("none", FALSE, 2, 2, 1), Desk("none", FALSE, 2, 1, 4), Desk("none", FALSE, 1, 1, 6),
   Desk("none", TRUE, 1, 1, 3), Desk("type", FALSE, 1, 1, 2), Desk("category", FALSE, 1, 1, 1),
   Desk("handler", FALSE, 1, 1, 2), Desk("priority", FALSE, 2, 1, 1), Desk("status", FALSE, 1, 1, 1)}
HelpDesk == INSTANCE Tickets WITH
  Employees <- DeskEmployees, Admins <- DeskAdmins, Categories <- DeskCategories, Types <- DeskTypes,
  Priorities <- DeskPriorities, Statuses <- DeskStatuses, Names <- DeskNames, Modes <- DeskModes, mode <- deskMode

\* There is something to raise a ticket with, somebody to work on it, and a status of each name.
ASSUME DeskAssumption ==
  /\ IsFiniteSet(Workers) /\ DeskCategories # {} /\ DeskTypes # {} /\ DeskPriorities # {}
  /\ DeskEmployees \ DeskAdmins # {} /\ "Open" \in DeskNames
  /\ \E f \in [DeskStatuses -> DeskNames] : \A m \in DeskNames : \E s \in DeskStatuses : f[s] = m

\* One request at a time with two rows of a list, and two at a time with one.
Change(name, st, act, why) == [name |-> name, status |-> st, active |-> act, reason |-> why]
Spellings == {<<"acme", 1>>, <<"acme", 2>>, <<"bolt", 1>>}
Any == {Change(n, unset, unset, unset) : n \in Spellings}
       \cup {Change(unset, st, act, why) : st \in {"Active", "Inactive", unset}, act \in {TRUE, FALSE, unset},
                                           why \in {"why", None, unset}}
Few == {Change(unset, st, unset, why) : st \in {"Active", "Inactive"}, why \in {"why", unset}}
       \cup {Change(unset, unset, unset, None)}
Alone(number, ops) == [operations |-> ops, requests |-> 1, rows |-> number, updates |-> Any]
Two(number, ops) == [operations |-> ops, requests |-> 2, rows |-> number, updates |-> Few]
Lists == INSTANCE MasterData WITH
  Ids <- {1, 2, 3}, Names <- Spellings, Codes <- {"A", "B"}, Categories <- {"CAD", "CAM"}, Wide <- 2,
  Unset <- unset, mode <- listMode, job <- turn,
  Modes <- {Alone(2, {"createClient", "updateClient", "deleteClient"}), Two(1, {"createClient", "updateClient", "deleteClient"}),
            Two(1, {"createClient", "deleteClient", "hold"}), Alone(2, {"createScope", "updateScope", "deleteScope"}),
            Two(2, {"createScope"}), Alone(2, {"createTitle", "updateTitle", "deleteTitle", "bulkStatus"}),
            Two(2, {"createTitle", "bulkStatus"}), Alone(3, {"createTitle"}),
            Alone(2, {"createDesignation", "updateDesignation", "deleteDesignation", "hold"}),
            Two(1, {"createDesignation", "deleteDesignation", "hold"}), Two(2, {"createDesignation"})}

chart == <<chartMode, manager, account, changes, fills, cache>>
leaving == <<active, manages, assigned, closedTasks, members, leaveOf, entryOf, request>>
desk == <<deskMode, category, type, priority, status, handler, tickets, job>>
lists == <<listMode, clients, scopes, titles, designations, turn>>

\* The parts that do not run stay in one of their initial states.
RacesInit ==
  /\ part \in {"approval", "chart", "leaving", "desk", "lists"}
  /\ Init /\ Reporting!Init /\ Leaving!Init /\ HelpDesk!Init /\ Lists!Init
  /\ part = "approval" \/ (org = Chart(Usual) /\ \A f \in WorkflowIds : Cardinality(workflows[f].steps) = 2)
  /\ part = "leaving" \/ (closedTasks = {} /\ (\A j \in LeavingProjects : manages[j] = p1) /\ \A t \in LeavingTasks : assigned[t] = p1)
  /\ part = "desk" \/ deskMode = Desk("none", FALSE, 2, 2, 1)
  /\ part = "lists" \/ listMode = Two(2, {"createDesignation"})

ApprovalStep == part = "approval" /\ Next /\ UNCHANGED <<chart, leaving, desk, lists, part>>
ChartStep == part = "chart" /\ Reporting!Next /\ UNCHANGED <<vars, leaving, desk, lists, part>>
LeavingStep == part = "leaving" /\ Leaving!Next /\ UNCHANGED <<vars, chart, desk, lists, part>>
DeskStep == part = "desk" /\ HelpDesk!Next /\ UNCHANGED <<vars, chart, leaving, lists, part>>
ListsStep == part = "lists" /\ Lists!Next /\ UNCHANGED <<vars, chart, leaving, desk, part>>

RacesNext == ApprovalStep \/ ChartStep \/ LeavingStep \/ DeskStep \/ ListsStep

RacesSpec == RacesInit /\ [][RacesNext]_<<part, vars, chart, leaving, desk, lists>> /\ Reporting!Fairness

-----------------------------------------------------------------------------
(* The properties of the parts, stated there *)

\* Ancestors and descendants agree, cycles included, and the cache comes to show a chart
\* that no longer changes.
ReportingSound == []Reporting!UpAgreesWithDown /\ Reporting!CacheCatchesUp
\* An off-boarding moves what the impact page listed and nothing else.
HandedOver == Leaving!HandedOver
\* Numbers, settings and the history of tickets.
TicketsSound == HelpDesk!TicketsSound
\* Clients, scopes of work, titles and designations, whatever overlaps.
ChoicesSound == [](part = "lists" => Lists!ChoicesValid) /\ [][part = "lists" => Lists!ChoicesStep]_<<part, lists>>
====================================================================================
