----------------------------- MODULE RacesProofs -----------------------------
(*****************************************************************************)
(* Proofs about the parts of MCRaces: an off-boarding as Handover has it,    *)
(* for every number of employees, projects and tasks, and the help desk as   *)
(* Tickets has it, for any settings and any number of requests at a time.    *)
(*****************************************************************************)
EXTENDS MCRaces, FiniteSetTheorems, SequenceTheorems, WellFoundedInduction, TLAPS

-----------------------------------------------------------------------------
(* Off-boarding *)

Requests ==
  [by : LeavingEmployees, tasks : SUBSET LeavingTasks, new : LeavingEmployees \cup {None}, bulk : LeavingEmployees \cup {None}, all : BOOLEAN]

\* A request on its way, whatever was listed in it.
RequestOK ==
  request # None =>
    /\ request.by \in LeavingEmployees /\ request.tasks \subseteq LeavingTasks
    /\ request.new \in LeavingEmployees \cup {None} /\ request.bulk \in LeavingEmployees \cup {None} /\ request.all \in BOOLEAN
    /\ request.new = None => request.tasks = {}

HandoverInv == Leaving!HandoverTypeOK /\ RequestOK

\* Whoever takes over a task or a project has not left, and is not the leaver.
LEMMA Taken ==
  ASSUME HandoverInv, request # None, Leaving!ExecuteOffboard(request)
  PROVE  /\ request.by \in LeavingEmployees /\ active' = active \ {request.by}
         /\ \A t \in LeavingTasks :
              /\ assigned[t] # request.by => assigned'[t] = assigned[t]
              /\ assigned'[t] # assigned[t] => assigned'[t] \in active'
              /\ request.bulk # None \/ t \in request.tasks => assigned'[t] # request.by
         /\ \A p \in LeavingProjects :
              /\ manages[p] # request.by => manages'[p] = manages[p]
              /\ manages'[p] # manages[p] => manages'[p] \in active'
              /\ request.new # None /\ p \in request.listed.projects => manages'[p] # request.by
<1>1. /\ Leaving!Successors(request) \subseteq active \ {request.by} /\ active' = active \ {request.by}
      /\ assigned' = Leaving!Reassigned(request) /\ manages' = Leaving!Handed(request)
  BY DEF Leaving!ExecuteOffboard
<1>2. /\ request.by \in LeavingEmployees /\ request.tasks \subseteq LeavingTasks
      /\ request.new = None => request.tasks = {}
  BY DEF HandoverInv, RequestOK
<1>3. request.bulk # None => request.bulk \in active'
  BY <1>1 DEF Leaving!Successors
<1>4. request.new # None /\ (request.tasks # {} \/ request.listed.projects # {}) => request.new \in active'
  BY <1>1 DEF Leaving!Successors
<1>5. request.by \notin active'
  BY <1>1
<1>6. ASSUME NEW t \in LeavingTasks
      PROVE  /\ assigned[t] # request.by => assigned'[t] = assigned[t]
             /\ assigned'[t] # assigned[t] => assigned'[t] \in active'
             /\ request.bulk # None \/ t \in request.tasks => assigned'[t] # request.by
  <2>1. assigned'[t] = IF assigned[t] # request.by THEN assigned[t]
                       ELSE IF request.bulk # None THEN request.bulk
                       ELSE IF t \in request.tasks THEN request.new ELSE assigned[t]
    BY <1>1 DEF Leaving!Reassigned
  <2>2. t \in request.tasks => request.new \in active'
    BY <1>2, <1>4
  <2> QED BY <1>3, <1>5, <2>1, <2>2
<1>7. ASSUME NEW p \in LeavingProjects
      PROVE  /\ manages[p] # request.by => manages'[p] = manages[p]
             /\ manages'[p] # manages[p] => manages'[p] \in active'
             /\ request.new # None /\ p \in request.listed.projects => manages'[p] # request.by
  <2>1. manages'[p] = IF p \in request.listed.projects /\ manages[p] = request.by /\ request.new # None
                      THEN request.new ELSE manages[p]
    BY <1>1 DEF Leaving!Handed
  <2>2. p \in request.listed.projects /\ request.new # None => request.new \in active'
    BY <1>4
  <2> QED BY <1>5, <2>1, <2>2
<1> QED BY <1>1, <1>2, <1>6, <1>7

LEMMA HandoverInvInit == Leaving!Init => HandoverInv
BY DEF Leaving!Init, HandoverInv, Leaving!HandoverTypeOK, RequestOK

LEMMA ExecuteKeeps ==
  ASSUME HandoverInv, request # None, Leaving!ExecuteOffboard(request) PROVE HandoverInv'
<1>1. active' \subseteq LeavingEmployees /\ active' = active \ {request.by}
  BY DEF Leaving!ExecuteOffboard, HandoverInv, Leaving!HandoverTypeOK
<1>2. members' \subseteq LeavingProjects \X active'
  <2>1. members' = {m \in members : m[2] # request.by}
    BY DEF Leaving!ExecuteOffboard
  <2>2. members \subseteq LeavingProjects \X active
    BY DEF HandoverInv, Leaving!HandoverTypeOK
  <2>3. ASSUME NEW m \in members' PROVE m \in LeavingProjects \X active'
    <3>1. m \in members /\ m[2] # request.by /\ m \in LeavingProjects \X active
      BY <2>1, <2>2, <2>3
    <3> QED BY <1>1, <3>1
  <2> QED BY <2>3
<1>3. manages' \in [LeavingProjects -> LeavingEmployees]
  <2>1. /\ manages' = [p \in LeavingProjects |-> manages'[p]]
        /\ \A p \in LeavingProjects : manages[p] \in LeavingEmployees
    BY DEF Leaving!ExecuteOffboard, Leaving!Handed, HandoverInv, Leaving!HandoverTypeOK
  <2>2. \A p \in LeavingProjects : manages'[p] \in LeavingEmployees
    BY <1>1, <2>1, Taken
  <2> QED BY <2>1, <2>2
<1>4. assigned' \in [LeavingTasks -> LeavingEmployees]
  <2>1. /\ assigned' = [t \in LeavingTasks |-> assigned'[t]]
        /\ \A t \in LeavingTasks : assigned[t] \in LeavingEmployees
    BY DEF Leaving!ExecuteOffboard, Leaving!Reassigned, HandoverInv, Leaving!HandoverTypeOK
  <2>2. \A t \in LeavingTasks : assigned'[t] \in LeavingEmployees
    BY <1>1, <2>1, Taken
  <2> QED BY <2>1, <2>2
<1>5. leaveOf' \in [LeavingEmployees -> {"PENDING", "CANCELLED"}]
  BY DEF Leaving!ExecuteOffboard, HandoverInv, Leaving!HandoverTypeOK
<1>6. entryOf' \in [LeavingEmployees -> {"SUBMITTED", "APPROVED"}]
  BY DEF Leaving!ExecuteOffboard, HandoverInv, Leaving!HandoverTypeOK
<1>7. closedTasks' \subseteq LeavingTasks /\ request' = None
  BY DEF Leaving!ExecuteOffboard, HandoverInv, Leaving!HandoverTypeOK
<1> QED BY <1>1, <1>2, <1>3, <1>4, <1>5, <1>6, <1>7 DEF HandoverInv, Leaving!HandoverTypeOK, RequestOK

LEMMA DrawUpKeeps == ASSUME HandoverInv, NEW e \in LeavingEmployees, Leaving!DrawUp(e) PROVE HandoverInv'
<1>1. PICK T \in SUBSET Leaving!Impact(e).tasks : \E new, bulk \in LeavingEmployees \cup {None}, all \in BOOLEAN :
        /\ new = None => T = {}
        /\ request' = [by |-> e, listed |-> Leaving!Impact(e), tasks |-> T, new |-> new, bulk |-> bulk, all |-> all]
  BY DEF Leaving!DrawUp
<1>2. T \subseteq LeavingTasks
  BY DEF Leaving!Impact
<1>3. RequestOK'
  BY <1>1, <1>2 DEF RequestOK
<1>4. Leaving!HandoverTypeOK'
  BY DEF Leaving!DrawUp, HandoverInv, Leaving!HandoverTypeOK
<1> QED BY <1>3, <1>4 DEF HandoverInv

LEMMA HandoverInvNext == HandoverInv /\ [Leaving!Next]_Leaving!vars => HandoverInv'
<1> SUFFICES ASSUME HandoverInv, [Leaving!Next]_Leaving!vars PROVE HandoverInv'
  OBVIOUS
<1>1. ASSUME NEW e \in LeavingEmployees, Leaving!DrawUp(e) PROVE HandoverInv'
  BY <1>1, DrawUpKeeps
<1>2. ASSUME NEW r \in {request} \ {None}, Leaving!ExecuteOffboard(r) PROVE HandoverInv'
  BY <1>2, ExecuteKeeps
<1>3. CASE Leaving!Discard
  BY <1>3 DEF Leaving!Discard, HandoverInv, Leaving!HandoverTypeOK, RequestOK
<1>4. ASSUME NEW t \in LeavingTasks, Leaving!CloseTask(t) PROVE HandoverInv'
  BY <1>4 DEF Leaving!CloseTask, HandoverInv, Leaving!HandoverTypeOK, RequestOK
<1>5. ASSUME NEW t \in LeavingTasks, NEW e \in LeavingEmployees, Leaving!HandTask(t, e) PROVE HandoverInv'
  BY <1>5 DEF Leaving!HandTask, HandoverInv, Leaving!HandoverTypeOK, RequestOK
<1>6. ASSUME NEW p \in LeavingProjects, NEW e \in LeavingEmployees, Leaving!ChangeManager(p, e) PROVE HandoverInv'
  BY <1>6 DEF Leaving!ChangeManager, HandoverInv, Leaving!HandoverTypeOK, RequestOK
<1>7. CASE UNCHANGED Leaving!vars
  BY <1>7 DEF Leaving!vars, HandoverInv, Leaving!HandoverTypeOK, RequestOK
<1> QED BY <1>1, <1>2, <1>3, <1>4, <1>5, <1>6, <1>7 DEF Leaving!Next

\* Somebody leaves in one way only.
LEMMA OnlyExecuted ==
  ASSUME HandoverInv, [Leaving!Next]_Leaving!vars, NEW e \in LeavingEmployees, Leaving!Leaves(e)
  PROVE  request # None /\ Leaving!ExecuteOffboard(request) /\ request.by = e
<1>1. active' # active /\ e \in active \ active'
  BY DEF Leaving!Leaves
<1>2. PICK r \in {request} \ {None} : Leaving!ExecuteOffboard(r)
  BY <1>1 DEF Leaving!Next, Leaving!vars, Leaving!DrawUp, Leaving!Discard, Leaving!CloseTask, Leaving!HandTask, Leaving!ChangeManager
<1> QED BY <1>1, <1>2 DEF Leaving!ExecuteOffboard

LEMMA TasksHanded ==
  ASSUME HandoverInv, [Leaving!Next]_Leaving!vars, NEW e \in LeavingEmployees, Leaving!Leaves(e), request.bulk # None
  PROVE  Leaving!Impact(e)'.tasks = {}
<1>1. \A t \in LeavingTasks : assigned'[t] # e
  BY OnlyExecuted, Taken
<1> QED BY <1>1 DEF Leaving!Impact

LEMMA AllHanded ==
  ASSUME HandoverInv, [Leaving!Next]_Leaving!vars, NEW e \in LeavingEmployees, Leaving!Leaves(e),
         Leaving!Impact(e).projects \subseteq request.listed.projects, request.new # None,
         request.bulk # None \/ Leaving!Impact(e).tasks \subseteq request.tasks, request.all
  PROVE  Leaving!Impact(e)' = Leaving!NothingListed
<1>1. request # None /\ Leaving!ExecuteOffboard(request) /\ request.by = e
  BY OnlyExecuted
<1>2. {p \in LeavingProjects : manages'[p] = e} = {}
  <2>1. \A p \in LeavingProjects : manages[p] = e => p \in request.listed.projects
    BY DEF Leaving!Impact
  <2> QED BY <1>1, <2>1, Taken
<1>3. {t \in LeavingTasks \ closedTasks' : assigned'[t] = e} = {}
  <2>1. closedTasks' = closedTasks
    BY <1>1 DEF Leaving!ExecuteOffboard
  <2>2. request.bulk = None => \A t \in LeavingTasks \ closedTasks : assigned[t] = e => t \in request.tasks
    BY DEF Leaving!Impact
  <2> QED BY <1>1, <2>1, <2>2, Taken
<1>4. {x \in {e} : leaveOf'[x] = "PENDING"} = {}
  <2>1. leaveOf' = IF leaveOf[e] = "PENDING" THEN [leaveOf EXCEPT ![e] = "CANCELLED"] ELSE leaveOf
    BY <1>1 DEF Leaving!ExecuteOffboard
  <2>2. leaveOf'[e] # "PENDING"
    BY <2>1 DEF HandoverInv, Leaving!HandoverTypeOK
  <2> QED BY <2>2
<1>5. {x \in {e} : entryOf'[x] \in {"DRAFT", "SUBMITTED"}} = {}
  <2>1. entryOf' = IF entryOf[e] \in {"DRAFT", "SUBMITTED"} THEN [entryOf EXCEPT ![e] = "APPROVED"] ELSE entryOf
    BY <1>1 DEF Leaving!ExecuteOffboard
  <2>2. entryOf'[e] \notin {"DRAFT", "SUBMITTED"}
    BY <2>1 DEF HandoverInv, Leaving!HandoverTypeOK
  <2> QED BY <2>2
<1>6. {p \in LeavingProjects : <<p, e>> \in members'} = {}
  <2>1. members' = {m \in members : m[2] # e}
    BY <1>1 DEF Leaving!ExecuteOffboard
  <2> QED BY <2>1
<1> QED BY <1>2, <1>3, <1>4, <1>5, <1>6 DEF Leaving!Impact, Leaving!NothingListed

LEMMA OthersKept ==
  ASSUME HandoverInv, [Leaving!Next]_Leaving!vars, NEW e \in LeavingEmployees, Leaving!Leaves(e)
  PROVE  /\ \A t \in LeavingTasks : assigned'[t] # assigned[t] => assigned[t] = e /\ assigned'[t] \in active'
         /\ \A p \in LeavingProjects : manages'[p] # manages[p] => manages[p] = e /\ manages'[p] \in active'
         /\ \A x \in LeavingEmployees \ {e} : leaveOf'[x] = leaveOf[x] /\ entryOf'[x] = entryOf[x]
<1>1. request # None /\ Leaving!ExecuteOffboard(request) /\ request.by = e
  BY OnlyExecuted
<1>2. \A x \in LeavingEmployees \ {e} : leaveOf'[x] = leaveOf[x] /\ entryOf'[x] = entryOf[x]
  BY <1>1 DEF Leaving!ExecuteOffboard, HandoverInv, Leaving!HandoverTypeOK
<1> QED BY <1>1, <1>2, Taken

\* Whatever the parts of the portfolio do, an off-boarding goes the way Handover says.
LEMMA LeavingSteps == [RacesNext]_<<part, vars, chart, leaving, desk, lists>> => [Leaving!Next]_Leaving!vars
BY DEF RacesNext, ApprovalStep, ChartStep, LeavingStep, DeskStep, ListsStep, leaving, Leaving!vars

\* An off-boarding moves what the impact page listed and nothing else, for every number of
\* employees, projects and tasks: with a successor for all tasks none is left however many
\* came after the page was drawn, a request that disposes of all leaves nothing, and nothing
\* goes to or away from anybody but the leaver.
THEOREM HandedOverCorrect == RacesSpec => HandedOver
<1>a. RacesInit => HandoverInv
  BY HandoverInvInit DEF RacesInit
<1>b. HandoverInv /\ [RacesNext]_<<part, vars, chart, leaving, desk, lists>> => HandoverInv'
  BY LeavingSteps, HandoverInvNext
<1>1. RacesSpec => []HandoverInv
  BY <1>a, <1>b, PTL DEF RacesSpec
<1>2. HandoverInv => Leaving!HandoverTypeOK
  BY DEF HandoverInv
<1>3. HandoverInv /\ [Leaving!Next]_Leaving!vars =>
        [\A e \in LeavingEmployees : Leaving!Leaves(e) =>
           /\ request.bulk # None => Leaving!Impact(e)'.tasks = {}
           /\ (/\ Leaving!Impact(e).projects \subseteq request.listed.projects /\ request.new # None
               /\ request.bulk # None \/ Leaving!Impact(e).tasks \subseteq request.tasks
               /\ request.all) => Leaving!Impact(e)' = Leaving!NothingListed]_Leaving!vars
  BY TasksHanded, AllHanded
<1>4. HandoverInv /\ [Leaving!Next]_Leaving!vars =>
        [\A e \in LeavingEmployees : Leaving!Leaves(e) =>
           /\ \A t \in LeavingTasks : assigned'[t] # assigned[t] => assigned[t] = e /\ assigned'[t] \in active'
           /\ \A p \in LeavingProjects : manages'[p] # manages[p] => manages[p] = e /\ manages'[p] \in active'
           /\ \A x \in LeavingEmployees \ {e} : leaveOf'[x] = leaveOf[x] /\ entryOf'[x] = entryOf[x]]_Leaving!vars
  BY OthersKept
<1> QED BY <1>1, <1>2, <1>3, <1>4, LeavingSteps, PTL
  DEF RacesSpec, HandedOver, Leaving!HandedOver, Leaving!ImpactHandedOver, Leaving!OnlyTheLeaversWorkMoves

-----------------------------------------------------------------------------
(* The help desk *)

Notes == [action : {"TicketCreated", "CommentAdded", "TicketClosed"}]
Changes == [action : {"StatusChanged"}, old : DeskNames, new : DeskNames]
ClosedNote == [action |-> "TicketClosed"]
TicketRows ==
  [number : Int, category : DeskCategories, type : DeskTypes, priority : DeskPriorities, status : DeskStatuses,
   raisedBy : DeskEmployees, comments : Nat, history : Seq(Notes \cup Changes)]

\* What a request still has to tell: a change of status, and of a closing two rows.
ChangeRows ==
  {<<r>> : r \in {c \in Changes : c.new \notin HelpDesk!Closing}}
    \cup {<<r, ClosedNote>> : r \in {c \in Changes : c.new \in HelpDesk!Closing}}
PendingRows == ChangeRows \cup {<<r>> : r \in Notes}

Fits(j, on) ==
  \/ j = HelpDesk!Idle
  \/ j \in [step : {"insert"}, ticket : TicketRows]
  \/ j \in [step : {"status"}, on : on, status : DeskStatuses, rows : ChangeRows]
  \/ j \in [step : {"history"}, on : on, rows : PendingRows]
JobOK(j) == Fits(j, DOMAIN tickets)

SettingRow == [row : BOOLEAN, name : DeskNames, active : BOOLEAN]
DeskTyped ==
  /\ deskMode \in DeskModes
  /\ category \in [DeskCategories -> SettingRow] /\ priority \in [DeskPriorities -> SettingRow]
  /\ status \in [DeskStatuses -> SettingRow]
  /\ type \in [DeskTypes -> [category : DeskCategories, row : BOOLEAN, name : DeskNames, active : BOOLEAN]]
  /\ handler \in [DeskCategories -> [DeskEmployees -> {"NONE", "ACTIVE", "INACTIVE"}]]
  /\ tickets \in Seq(TicketRows)
  /\ job \in [Workers -> {job[w] : w \in Workers}]
  /\ \A w \in Workers : JobOK(job[w])

\* What is about to be inserted has one of the numbers given so far or the next.
InsertReady ==
  \A w \in Workers : job[w].step = "insert" =>
    LET t == job[w].ticket IN
    /\ t.number \in HelpDesk!FirstNumber..(HelpDesk!FirstNumber + Len(tickets))
    /\ deskMode.settings # "type" => type[t.type].category = t.category
    /\ t.comments = 0 /\ t.history = <<>>
    /\ deskMode.settings # "status" => HelpDesk!NameOf(t.status) = "Open"

-----------------------------------------------------------------------------
\* A step of the settings keeps the tickets and the requests, and what they refer to.
LEMMA SettingsKeep ==
  ASSUME DeskTyped, HelpDesk!Settings
  PROVE  /\ UNCHANGED <<deskMode, tickets, job>>
         /\ category' \in [DeskCategories -> SettingRow] /\ priority' \in [DeskPriorities -> SettingRow]
         /\ status' \in [DeskStatuses -> SettingRow]
         /\ type' \in [DeskTypes -> [category : DeskCategories, row : BOOLEAN, name : DeskNames, active : BOOLEAN]]
         /\ handler' \in [DeskCategories -> [DeskEmployees -> {"NONE", "ACTIVE", "INACTIVE"}]]
         /\ deskMode.settings # "status" => status' = status
         /\ deskMode.settings # "type" => \A y \in DeskTypes : type'[y].category = type[y].category
         /\ \A i \in DOMAIN tickets :
              LET t == tickets[i] IN
              /\ category[t.category].row => category'[t.category].row
              /\ type[t.type].row => type'[t.type].row
              /\ priority[t.priority].row => priority'[t.priority].row
              /\ status[t.status].row => status'[t.status].row
<1> USE DEF DeskTyped, SettingRow
<1> DEFINE Kept ==
      /\ UNCHANGED <<deskMode, tickets, job>>
      /\ category' \in [DeskCategories -> SettingRow] /\ priority' \in [DeskPriorities -> SettingRow]
      /\ status' \in [DeskStatuses -> SettingRow]
      /\ type' \in [DeskTypes -> [category : DeskCategories, row : BOOLEAN, name : DeskNames, active : BOOLEAN]]
      /\ handler' \in [DeskCategories -> [DeskEmployees -> {"NONE", "ACTIVE", "INACTIVE"}]]
      /\ \A i \in DOMAIN tickets :
           LET t == tickets[i] IN
           /\ category[t.category].row => category'[t.category].row
           /\ type[t.type].row => type'[t.type].row
           /\ priority[t.priority].row => priority'[t.priority].row
           /\ status[t.status].row => status'[t.status].row
<1>0. /\ UNCHANGED <<deskMode, tickets, job>>
      /\ \A i \in DOMAIN tickets : tickets[i] \in TicketRows
  BY DEF HelpDesk!Settings
<1>1. ASSUME NEW c \in DeskCategories, NEW n \in DeskNames, HelpDesk!CreateCategory(c, n)
      PROVE  Kept /\ status' = status /\ type' = type
  BY <1>0, <1>1 DEF HelpDesk!CreateCategory, HelpDesk!Row, TicketRows
<1>2. ASSUME NEW c \in DeskCategories, NEW n \in DeskNames, NEW a \in BOOLEAN, HelpDesk!UpdateCategory(c, n, a)
      PROVE  Kept /\ status' = status /\ type' = type
  <2>1. category'[c] \in SettingRow /\ category'[c].row = category[c].row /\ \A x \in DeskCategories \ {c} : category'[x] = category[x]
    BY <1>2 DEF HelpDesk!UpdateCategory
  <2>2. category' \in [DeskCategories -> SettingRow]
    BY <1>2, <2>1 DEF HelpDesk!UpdateCategory
  <2>3. UNCHANGED <<type, priority, status, handler>>
    BY <1>2 DEF HelpDesk!UpdateCategory
  <2>4. \A i \in DOMAIN tickets : tickets[i].category \in DeskCategories
    BY <1>0 DEF TicketRows
  <2> QED BY <1>0, <2>1, <2>2, <2>3, <2>4
<1>3. ASSUME NEW c \in DeskCategories, HelpDesk!DeleteCategory(c)
      PROVE  Kept /\ status' = status /\ \A y \in DeskTypes : type'[y].category = type[y].category
  <2>1. \A y \in DeskTypes : type'[y] \in [category : DeskCategories, row : BOOLEAN, name : DeskNames, active : BOOLEAN]
                         /\ type'[y].category = type[y].category
                         /\ (type[y].category # c => type'[y] = type[y])
    BY <1>3 DEF HelpDesk!DeleteCategory
  <2>2. type' \in [DeskTypes -> [category : DeskCategories, row : BOOLEAN, name : DeskNames, active : BOOLEAN]]
    BY <1>3, <2>1 DEF HelpDesk!DeleteCategory
  <2>3. category' \in [DeskCategories -> SettingRow] /\ \A x \in DeskCategories \ {c} : category'[x] = category[x]
    BY <1>3 DEF HelpDesk!DeleteCategory
  <2>4. handler' \in [DeskCategories -> [DeskEmployees -> {"NONE", "ACTIVE", "INACTIVE"}]]
    BY <1>3 DEF HelpDesk!DeleteCategory
  <2>5. \A i \in DOMAIN tickets : tickets[i].category # c
    BY <1>3 DEF HelpDesk!DeleteCategory, HelpDesk!Used
  <2>6. ASSUME NEW i \in DOMAIN tickets, type[tickets[i].type].row PROVE type'[tickets[i].type].row
    <3>1. tickets[i].type \in DeskTypes
      BY <1>0 DEF TicketRows
    <3>2. type[tickets[i].type].category # c
      BY <1>3, <2>6, <3>1 DEF HelpDesk!DeleteCategory, HelpDesk!Used
    <3> QED BY <2>1, <2>6, <3>1, <3>2
  <2>7. \A i \in DOMAIN tickets : tickets[i].category \in DeskCategories
    BY <1>0 DEF TicketRows
  <2>8. UNCHANGED <<priority, status>>
    BY <1>3 DEF HelpDesk!DeleteCategory
  <2> QED BY <1>0, <2>1, <2>2, <2>3, <2>4, <2>5, <2>6, <2>7, <2>8
<1>4. ASSUME NEW y \in DeskTypes, NEW c \in DeskCategories, NEW n \in DeskNames, HelpDesk!CreateType(y, c, n) PROVE Kept /\ status' = status
  BY <1>0, <1>4 DEF HelpDesk!CreateType, HelpDesk!TypeRow, TicketRows
<1>5. ASSUME NEW y \in DeskTypes, NEW c \in DeskCategories, NEW n \in DeskNames, NEW a \in BOOLEAN, HelpDesk!UpdateType(y, c, n, a)
      PROVE  Kept /\ status' = status
  <2>1. type'[y] \in [category : DeskCategories, row : BOOLEAN, name : DeskNames, active : BOOLEAN] /\ type'[y].row = type[y].row /\ \A x \in DeskTypes \ {y} : type'[x] = type[x]
    BY <1>5 DEF HelpDesk!UpdateType
  <2>2. type' \in [DeskTypes -> [category : DeskCategories, row : BOOLEAN, name : DeskNames, active : BOOLEAN]]
    BY <1>5, <2>1 DEF HelpDesk!UpdateType
  <2>3. UNCHANGED <<category, priority, status, handler>>
    BY <1>5 DEF HelpDesk!UpdateType
  <2>4. \A i \in DOMAIN tickets : tickets[i].type \in DeskTypes
    BY <1>0 DEF TicketRows
  <2> QED BY <1>0, <2>1, <2>2, <2>3, <2>4
<1>6. ASSUME NEW y \in DeskTypes, HelpDesk!DeleteType(y) PROVE Kept /\ status' = status
  BY <1>0, <1>6 DEF HelpDesk!DeleteType, TicketRows, HelpDesk!Used
<1>7. ASSUME NEW p \in DeskPriorities, NEW n \in DeskNames, HelpDesk!CreatePriority(p, n) PROVE Kept /\ status' = status /\ type' = type
  BY <1>0, <1>7 DEF HelpDesk!CreatePriority, HelpDesk!Row, TicketRows
<1>8. ASSUME NEW p \in DeskPriorities, NEW n \in DeskNames, NEW a \in BOOLEAN, HelpDesk!UpdatePriority(p, n, a)
      PROVE  Kept /\ status' = status /\ type' = type
  <2>1. priority'[p] \in SettingRow /\ priority'[p].row = priority[p].row /\ \A x \in DeskPriorities \ {p} : priority'[x] = priority[x]
    BY <1>8 DEF HelpDesk!UpdatePriority
  <2>2. priority' \in [DeskPriorities -> SettingRow]
    BY <1>8, <2>1 DEF HelpDesk!UpdatePriority
  <2>3. UNCHANGED <<category, type, status, handler>>
    BY <1>8 DEF HelpDesk!UpdatePriority
  <2>4. \A i \in DOMAIN tickets : tickets[i].priority \in DeskPriorities
    BY <1>0 DEF TicketRows
  <2> QED BY <1>0, <2>1, <2>2, <2>3, <2>4
<1>9. ASSUME NEW p \in DeskPriorities, HelpDesk!DeletePriority(p) PROVE Kept /\ status' = status /\ type' = type
  BY <1>0, <1>9 DEF HelpDesk!DeletePriority, TicketRows, HelpDesk!Used
<1>10. ASSUME NEW s \in DeskStatuses, NEW n \in DeskNames, HelpDesk!CreateStatus(s, n) PROVE Kept /\ type' = type
  BY <1>0, <1>10 DEF HelpDesk!CreateStatus, HelpDesk!Row, TicketRows
<1>11. ASSUME NEW s \in DeskStatuses, NEW n \in DeskNames, NEW a \in BOOLEAN, HelpDesk!UpdateStatus(s, n, a) PROVE Kept /\ type' = type
  <2>1. status'[s] \in SettingRow /\ status'[s].row = status[s].row /\ \A x \in DeskStatuses \ {s} : status'[x] = status[x]
    BY <1>11 DEF HelpDesk!UpdateStatus
  <2>2. status' \in [DeskStatuses -> SettingRow]
    BY <1>11, <2>1 DEF HelpDesk!UpdateStatus
  <2>3. UNCHANGED <<category, type, priority, handler>>
    BY <1>11 DEF HelpDesk!UpdateStatus
  <2>4. \A i \in DOMAIN tickets : tickets[i].status \in DeskStatuses
    BY <1>0 DEF TicketRows
  <2> QED BY <1>0, <2>1, <2>2, <2>3, <2>4
<1>12. ASSUME NEW s \in DeskStatuses, HelpDesk!DeleteStatus(s) PROVE Kept /\ type' = type
  BY <1>0, <1>12 DEF HelpDesk!DeleteStatus, TicketRows, HelpDesk!Used
<1>13. ASSUME NEW c \in DeskCategories, NEW e \in DeskEmployees, NEW to \in {"ACTIVE", "INACTIVE"},
              HelpDesk!CreateHandler(c, e) \/ HelpDesk!UpdateHandlerStatus(c, e, to) \/ HelpDesk!DeleteHandler(c, e)
       PROVE  Kept /\ status' = status /\ type' = type
  <2>1. PICK x \in {"ACTIVE", "INACTIVE"} : handler' = [handler EXCEPT ![c][e] = x]
    BY <1>13 DEF HelpDesk!CreateHandler, HelpDesk!UpdateHandlerStatus, HelpDesk!DeleteHandler
  <2>2. handler' \in [DeskCategories -> [DeskEmployees -> {"NONE", "ACTIVE", "INACTIVE"}]]
    BY <2>1
  <2>3. UNCHANGED <<category, type, priority, status>>
    BY <1>13 DEF HelpDesk!CreateHandler, HelpDesk!UpdateHandlerStatus, HelpDesk!DeleteHandler
  <2> QED BY <1>0, <2>2, <2>3
<1>14. CASE deskMode.settings = "category"
  BY <1>14, <1>1, <1>2, <1>3 DEF HelpDesk!Settings
<1>15. CASE deskMode.settings = "type"
  BY <1>15, <1>1, <1>4, <1>5, <1>6 DEF HelpDesk!Settings
<1>16. CASE deskMode.settings = "priority"
  BY <1>16, <1>7, <1>8, <1>9 DEF HelpDesk!Settings
<1>17. CASE deskMode.settings = "status"
  BY <1>17, <1>10, <1>11, <1>12 DEF HelpDesk!Settings
<1>18. CASE deskMode.settings = "handler"
  BY <1>18, <1>13 DEF HelpDesk!Settings
<1> QED BY <1>14, <1>15, <1>16, <1>17, <1>18 DEF HelpDesk!Settings

-----------------------------------------------------------------------------
(* Requests *)

LEMMA JobShapes ==
  ASSUME NEW w, JobOK(job[w])
  PROVE  /\ job[w].step \in {"idle", "insert", "status", "history"}
         /\ job[w].step = "idle" <=> job[w] = HelpDesk!Idle
         /\ job[w].step = "insert" => job[w] \in [step : {"insert"}, ticket : TicketRows]
         /\ job[w].step = "status" =>
              job[w] \in [step : {"status"}, on : DOMAIN tickets, status : DeskStatuses, rows : ChangeRows]
         /\ job[w].step = "history" => job[w] \in [step : {"history"}, on : DOMAIN tickets, rows : PendingRows]
BY DEF JobOK, Fits, HelpDesk!Idle

LEMMA TwoRows == ASSUME NEW a, NEW b PROVE <<a>> \o <<b>> = <<a, b>>
<1>1. <<a>> \in Seq({a, b}) /\ Len(<<a>>) = 1 /\ <<a>>[1] = a
  OBVIOUS
<1>2. <<b>> \in Seq({a, b}) /\ Len(<<b>>) = 1 /\ <<b>>[1] = b
  OBVIOUS
<1>3. PICK p \in Seq({a, b}) : p = <<a>> \o <<b>>
  BY <1>1, <1>2, ConcatProperties
<1>4. Len(p) = 2 /\ p[1] = a /\ p[2] = b
  BY <1>1, <1>2, <1>3, ConcatProperties
<1>5. PICK q \in Seq({a, b}) : q = <<a, b>>
  <2>1. <<a, b>> \in Seq({a, b})
    OBVIOUS
  <2> QED BY <2>1
<1>6. Len(q) = 2 /\ q[1] = a /\ q[2] = b
  BY <1>5
<1>7. p = q
  <2>1. \A i \in 1..Len(p) : p[i] = q[i]
    BY <1>4, <1>6
  <2> QED BY <1>4, <1>6, <2>1, SeqEqual
<1> QED BY <1>3, <1>5, <1>7

\* The rows that are still to be told, one after the other.
LEMMA PendingShape ==
  ASSUME NEW rs \in PendingRows
  PROVE  /\ Head(rs) = rs[1] /\ rs[1] \in Notes \cup Changes
         /\ Len(rs) = 1 \/ (Len(rs) = 2 /\ rs[1] \in Changes /\ Tail(rs) = <<ClosedNote>>)
         /\ rs[1] \in Changes => (Len(rs) = 2 <=> rs[1].new \in HelpDesk!Closing)
         /\ rs \in ChangeRows <=> rs[1] \in Changes
         /\ Len(rs) # 1 => Tail(rs) \in PendingRows
<1>1. CASE \E r \in Notes : rs = <<r>>
  <2>1. PICK r \in Notes : rs = <<r>>
    BY <1>1
  <2>2. Len(rs) = 1 /\ rs[1] = r /\ Head(rs) = r
    BY <2>1
  <2>3. r \notin Changes
    BY DEF Notes, Changes
  <2>4. rs \notin ChangeRows
    <3>1. ASSUME NEW x \in Changes, rs = <<x>> \/ rs = <<x, ClosedNote>> PROVE FALSE
      BY <3>1, <2>2, <2>3
    <3> QED BY <3>1 DEF ChangeRows
  <2> QED BY <2>2, <2>3, <2>4
<1>2. CASE \E r \in Changes : r.new \notin HelpDesk!Closing /\ rs = <<r>>
  <2>1. PICK r \in Changes : r.new \notin HelpDesk!Closing /\ rs = <<r>>
    BY <1>2
  <2>2. Len(rs) = 1 /\ rs[1] = r /\ Head(rs) = r
    BY <2>1
  <2>3. rs \in ChangeRows
    BY <2>1 DEF ChangeRows
  <2> QED BY <2>1, <2>2, <2>3
<1>3. CASE \E r \in Changes : r.new \in HelpDesk!Closing /\ rs = <<r, ClosedNote>>
  <2>1. PICK r \in Changes : r.new \in HelpDesk!Closing /\ rs = <<r, ClosedNote>>
    BY <1>3
  <2>2. Len(rs) = 2 /\ rs[1] = r /\ Head(rs) = r /\ Tail(rs) = <<ClosedNote>>
    BY <2>1
  <2>3. rs \in ChangeRows
    BY <2>1 DEF ChangeRows
  <2>4. <<ClosedNote>> \in PendingRows
    BY DEF PendingRows, Notes, ClosedNote
  <2> QED BY <2>1, <2>2, <2>3, <2>4
<1> QED BY <1>1, <1>2, <1>3 DEF PendingRows, ChangeRows

\* The number generated is the next one.
LEMMA NextNumber ==
  ASSUME DeskTyped, HelpDesk!Numbered
  PROVE  HelpDesk!GenerateTicketNumber = HelpDesk!FirstNumber + Len(tickets)
<1> DEFINE S == {HelpDesk!FirstNumber - 1} \cup {tickets[i].number : i \in DOMAIN tickets}
<1>1. Len(tickets) \in Nat /\ DOMAIN tickets = 1..Len(tickets)
  BY DEF DeskTyped
<1>2. \A i \in 1..Len(tickets) : tickets[i].number = HelpDesk!FirstNumber + i - 1
  BY <1>1 DEF HelpDesk!Numbered
<1>3. S \subseteq Int /\ HelpDesk!FirstNumber + Len(tickets) - 1 \in S
  <2>1. CASE Len(tickets) = 0
    BY <1>1, <1>2, <2>1 DEF HelpDesk!FirstNumber
  <2>2. CASE Len(tickets) # 0
    BY <1>1, <1>2, <2>2 DEF HelpDesk!FirstNumber
  <2> QED BY <2>1, <2>2
<1>4. \A x \in S : x <= HelpDesk!FirstNumber + Len(tickets) - 1
  BY <1>1, <1>2 DEF HelpDesk!FirstNumber
<1>5. Max(S) = HelpDesk!FirstNumber + Len(tickets) - 1
  <2> HIDE DEF S
  <2>1. \A x \in S : HelpDesk!FirstNumber + Len(tickets) - 1 >= x
    BY <1>1, <1>3, <1>4 DEF HelpDesk!FirstNumber
  <2>2. \A y \in S : (\A x \in S : y >= x) => y = HelpDesk!FirstNumber + Len(tickets) - 1
    BY <1>1, <1>3, <2>1 DEF HelpDesk!FirstNumber
  <2>3. (CHOOSE x \in S : \A y \in S : x >= y) = HelpDesk!FirstNumber + Len(tickets) - 1
    BY <1>3, <2>1, <2>2
  <2> QED BY <2>3 DEF Max
<1>6. HelpDesk!GenerateTicketNumber = Max(S) + 1
  BY DEF HelpDesk!GenerateTicketNumber, HelpDesk!Max, Max
<1> QED BY <1>1, <1>5, <1>6 DEF HelpDesk!FirstNumber

\* What each step of a request does to the tickets and to what the request is about.
LEMMA GoesOn ==
  ASSUME DeskTyped, NEW w \in Workers, NEW j, HelpDesk!Goes(w, j)
  PROVE  /\ job'[w] = j /\ \A v \in Workers \ {w} : job'[v] = job[v]
         /\ job' \in [Workers -> {job'[v] : v \in Workers}]
BY DEF DeskTyped, HelpDesk!Goes

DeskInv == DeskTyped /\ HelpDesk!Numbered /\ InsertReady /\ HelpDesk!Classified

LEMMA DeskInvInit == HelpDesk!Init => DeskInv
<1> SUFFICES ASSUME HelpDesk!Init PROVE DeskInv
  OBVIOUS
<1> DEFINE c == CHOOSE x \in DeskCategories : TRUE
           y == CHOOSE x \in DeskTypes : TRUE
           p == CHOOSE x \in DeskPriorities : TRUE
           e == CHOOSE x \in DeskEmployees : x \notin DeskAdmins
           n == CHOOSE f \in [DeskStatuses -> DeskNames] : \A m \in DeskNames : \E s \in DeskStatuses : f[s] = m
<1>1. c \in DeskCategories /\ y \in DeskTypes /\ p \in DeskPriorities /\ n \in [DeskStatuses -> DeskNames]
  BY DeskAssumption
<1>2. /\ deskMode \in DeskModes /\ tickets = <<>> /\ job = [w \in Workers |-> HelpDesk!Idle]
      /\ category = [x \in DeskCategories |-> IF x = c THEN HelpDesk!Row("Open") ELSE HelpDesk!NoRow]
      /\ type = [x \in DeskTypes |-> [HelpDesk!TypeRow(c, "Open") EXCEPT !.row = (x = y)]]
      /\ priority = [x \in DeskPriorities |-> IF x = p THEN HelpDesk!Row("Open") ELSE HelpDesk!NoRow]
      /\ handler = [x \in DeskCategories |-> [z \in DeskEmployees |-> IF x = c /\ z = e THEN "ACTIVE" ELSE "NONE"]]
      /\ status = [s \in DeskStatuses |-> HelpDesk!Row(n[s])]
  BY DEF HelpDesk!Init
<1> HIDE DEF c, y, p, e, n
<1>3. HelpDesk!Row("Open") \in SettingRow /\ HelpDesk!NoRow \in SettingRow /\ \A s \in DeskStatuses : HelpDesk!Row(n[s]) \in SettingRow
  BY <1>1, DeskAssumption DEF HelpDesk!Row, HelpDesk!NoRow, SettingRow
<1>4. type \in [DeskTypes -> [category : DeskCategories, row : BOOLEAN, name : DeskNames, active : BOOLEAN]]
  <2>1. ASSUME NEW x \in DeskTypes
        PROVE  [HelpDesk!TypeRow(c, "Open") EXCEPT !.row = (x = y)] \in [category : DeskCategories, row : BOOLEAN, name : DeskNames, active : BOOLEAN]
    BY <1>1, DeskAssumption DEF HelpDesk!TypeRow
  <2> QED BY <1>2, <2>1
<1>5. tickets \in Seq(TicketRows) /\ DOMAIN tickets = {}
  BY <1>2
<1>6. \A w \in Workers : job[w] = HelpDesk!Idle
  BY <1>2
<1>7. DeskTyped
  BY <1>2, <1>3, <1>4, <1>5, <1>6 DEF DeskTyped, JobOK, Fits
<1> QED BY <1>5, <1>6, <1>7 DEF DeskInv, HelpDesk!Numbered, InsertReady, HelpDesk!Classified, HelpDesk!Idle

\* What is raised is a row that can be inserted as it is.
LEMMA Raised ==
  ASSUME DeskInv, NEW w \in Workers, NEW e \in DeskEmployees, NEW c \in DeskCategories, NEW y \in DeskTypes, NEW p \in DeskPriorities,
         HelpDesk!RaiseTicket(w, e, c, y, p)
  PROVE  /\ job[w] = HelpDesk!Idle /\ UNCHANGED <<deskMode, HelpDesk!settings, tickets>>
         /\ \E t \in TicketRows :
              /\ HelpDesk!Goes(w, [step |-> "insert", ticket |-> t])
              /\ t.number = HelpDesk!FirstNumber + Len(tickets)
              /\ deskMode.settings # "type" => type[t.type].category = t.category
              /\ t.comments = 0 /\ t.history = <<>>
              /\ t.status \in HelpDesk!FirstStatuses
<1>1. PICK s \in HelpDesk!FirstStatuses :
        HelpDesk!Goes(w, [step |-> "insert", ticket |-> [number |-> HelpDesk!GenerateTicketNumber, category |-> c, type |-> y,
                 priority |-> p, status |-> s, raisedBy |-> e, comments |-> 0, history |-> <<>>]])
  BY DEF HelpDesk!RaiseTicket
<1> DEFINE t == [number |-> HelpDesk!GenerateTicketNumber, category |-> c, type |-> y,
                 priority |-> p, status |-> s, raisedBy |-> e, comments |-> 0, history |-> <<>>]
<1>2. HelpDesk!GenerateTicketNumber = HelpDesk!FirstNumber + Len(tickets) /\ HelpDesk!FirstNumber + Len(tickets) \in Int
  BY NextNumber DEF DeskInv, DeskTyped, HelpDesk!FirstNumber
<1>3. s \in DeskStatuses
  BY DEF HelpDesk!FirstStatuses
<1>4. t \in TicketRows
  BY <1>2, <1>3 DEF TicketRows
<1>5. type[y].category = c /\ job[w] = HelpDesk!Idle /\ UNCHANGED <<deskMode, HelpDesk!settings, tickets>>
  BY DEF HelpDesk!RaiseTicket, HelpDesk!Free, HelpDesk!Cardinality, Cardinality
<1> QED BY <1>1, <1>2, <1>4, <1>5

\* While statuses keep their names, there is one that is called Open.
OpenThere == deskMode.settings # "status" => \E s \in DeskStatuses : status[s].row /\ HelpDesk!NameOf(s) = "Open"

LEMMA OpenThereInit == HelpDesk!Init => OpenThere
<1> SUFFICES ASSUME HelpDesk!Init PROVE OpenThere
  OBVIOUS
<1> DEFINE n == CHOOSE f \in [DeskStatuses -> DeskNames] : \A m \in DeskNames : \E s \in DeskStatuses : f[s] = m
<1>1. n \in [DeskStatuses -> DeskNames] /\ \A m \in DeskNames : \E s \in DeskStatuses : n[s] = m
  BY DeskAssumption
<1>2. status = [s \in DeskStatuses |-> HelpDesk!Row(n[s])]
  BY DEF HelpDesk!Init
<1> HIDE DEF n
<1>3. PICK s \in DeskStatuses : n[s] = "Open"
  BY <1>1, DeskAssumption
<1> QED BY <1>2, <1>3 DEF OpenThere, HelpDesk!Row, HelpDesk!NameOf

LEMMA Appended ==
  ASSUME NEW S, NEW q \in Seq(S), NEW x \in S
  PROVE  /\ Append(q, x) \in Seq(S) /\ Len(Append(q, x)) = Len(q) + 1 /\ DOMAIN Append(q, x) = 1..(Len(q) + 1)
         /\ Append(q, x)[Len(q) + 1] = x /\ \A i \in DOMAIN q : Append(q, x)[i] = q[i]
OBVIOUS

\* What an insertion adds, and when it adds nothing.
LEMMA Inserted ==
  ASSUME DeskInv, NEW w \in Workers, HelpDesk!InsertTicket(w)
  PROVE  /\ UNCHANGED <<deskMode, HelpDesk!settings>> /\ job[w].step = "insert" /\ job[w].ticket \in TicketRows
         /\ \/ UNCHANGED tickets /\ HelpDesk!Goes(w, HelpDesk!Idle)
            \/ /\ tickets' = Append(tickets, job[w].ticket) /\ HelpDesk!Insertable(job[w].ticket)
               /\ job[w].ticket.number = HelpDesk!FirstNumber + Len(tickets)
               /\ HelpDesk!Goes(w, [step |-> "history", on |-> Len(tickets) + 1, rows |-> <<[action |-> "TicketCreated"]>>])
<1>1. job[w].step = "insert" /\ UNCHANGED <<deskMode, HelpDesk!settings>>
  BY DEF HelpDesk!InsertTicket
<1>2. job[w].ticket \in TicketRows
  BY <1>1, JobShapes DEF DeskInv, DeskTyped
<1>3. CASE ~HelpDesk!Insertable(job[w].ticket)
  BY <1>1, <1>2, <1>3 DEF HelpDesk!InsertTicket
<1>4. CASE HelpDesk!Insertable(job[w].ticket)
  <2>1. Len(tickets) \in Nat /\ DOMAIN tickets = 1..Len(tickets)
    BY DEF DeskInv, DeskTyped
  <2>2. job[w].ticket.number \in HelpDesk!FirstNumber..(HelpDesk!FirstNumber + Len(tickets))
    BY <1>1 DEF DeskInv, InsertReady
  <2>3. \A i \in 1..Len(tickets) : job[w].ticket.number # HelpDesk!FirstNumber + i - 1
    BY <1>4, <2>1 DEF HelpDesk!Insertable, DeskInv, HelpDesk!Numbered
  <2>4. job[w].ticket.number = HelpDesk!FirstNumber + Len(tickets)
    <3>1. CASE job[w].ticket.number = HelpDesk!FirstNumber + Len(tickets)
      BY <3>1
    <3>2. CASE job[w].ticket.number # HelpDesk!FirstNumber + Len(tickets)
      <4>1. job[w].ticket.number - HelpDesk!FirstNumber + 1 \in 1..Len(tickets)
        BY <2>1, <2>2, <3>2 DEF HelpDesk!FirstNumber
      <4> QED BY <2>1, <2>2, <2>3, <4>1 DEF HelpDesk!FirstNumber
    <3> QED BY <3>1, <3>2
  <2> QED BY <1>1, <1>2, <1>4, <2>4 DEF HelpDesk!InsertTicket
<1> QED BY <1>3, <1>4

LEMMA StatusWritten ==
  ASSUME DeskInv, NEW w \in Workers, HelpDesk!WriteStatus(w)
  PROVE  /\ UNCHANGED <<deskMode, HelpDesk!settings>> /\ job[w].step = "status" /\ job[w].on \in DOMAIN tickets
         /\ job[w].status \in DeskStatuses /\ job[w].rows \in ChangeRows
         /\ \/ UNCHANGED tickets /\ HelpDesk!Goes(w, HelpDesk!Idle) /\ ~status[job[w].status].row
            \/ /\ tickets' = [tickets EXCEPT ![job[w].on].status = job[w].status] /\ status[job[w].status].row
               /\ HelpDesk!Goes(w, [step |-> "history", on |-> job[w].on, rows |-> job[w].rows])
<1>1. job[w].step = "status" /\ UNCHANGED <<deskMode, HelpDesk!settings>>
  BY DEF HelpDesk!WriteStatus
<1>2. job[w] \in [step : {"status"}, on : DOMAIN tickets, status : DeskStatuses, rows : ChangeRows]
  BY <1>1, JobShapes DEF DeskInv, DeskTyped
<1> QED BY <1>1, <1>2 DEF HelpDesk!WriteStatus

LEMMA TailLeft ==
  ASSUME NEW D, NEW R, NEW j \in [step : {"history"}, on : D, rows : R]
  PROVE  [j EXCEPT !.rows = Tail(@)] = [step |-> "history", on |-> j.on, rows |-> Tail(j.rows)]
<1>1. PICK k : k = [j EXCEPT !.rows = Tail(j.rows)]
  OBVIOUS
<1>2. DOMAIN j = {"step", "on", "rows"} /\ j.step = "history"
  OBVIOUS
<1>3. DOMAIN k = {"step", "on", "rows"} /\ k.step = "history" /\ k.on = j.on /\ k.rows = Tail(j.rows)
  BY <1>1, <1>2
<1>4. k = [x \in DOMAIN j |-> IF x = "rows" THEN Tail(j.rows) ELSE j[x]]
  BY <1>1
<1> QED BY <1>1, <1>2, <1>3, <1>4

LEMMA HistoryAdded ==
  ASSUME DeskInv, NEW w \in Workers, HelpDesk!AddHistory(w)
  PROVE  /\ UNCHANGED <<deskMode, HelpDesk!settings>> /\ job[w].step = "history" /\ job[w].on \in DOMAIN tickets
         /\ job[w].rows \in PendingRows
         /\ tickets' = [tickets EXCEPT ![job[w].on].history = Append(@, job[w].rows[1])]
         /\ \/ Len(job[w].rows) = 1 /\ HelpDesk!Goes(w, HelpDesk!Idle)
            \/ Len(job[w].rows) = 2 /\ HelpDesk!Goes(w, [step |-> "history", on |-> job[w].on, rows |-> <<ClosedNote>>])
<1>1. job[w].step = "history" /\ UNCHANGED <<deskMode, HelpDesk!settings>>
  BY DEF HelpDesk!AddHistory
<1>2. job[w] \in [step : {"history"}, on : DOMAIN tickets, rows : PendingRows]
  BY <1>1, JobShapes DEF DeskInv, DeskTyped
<1>3. /\ Head(job[w].rows) = job[w].rows[1]
      /\ Len(job[w].rows) = 1 \/ (Len(job[w].rows) = 2 /\ Tail(job[w].rows) = <<ClosedNote>>)
  BY <1>2, PendingShape
<1>4. tickets' = [tickets EXCEPT ![job[w].on].history = Append(@, job[w].rows[1])]
  BY <1>3 DEF HelpDesk!AddHistory
<1>5. CASE Len(job[w].rows) = 1
  BY <1>1, <1>2, <1>4, <1>5 DEF HelpDesk!AddHistory
<1>6. CASE Len(job[w].rows) = 2
  <2>1. PICK j \in [step : {"history"}, on : DOMAIN tickets, rows : PendingRows] : j = job[w]
    BY <1>2
  <2>2. [j EXCEPT !.rows = Tail(@)] = [step |-> "history", on |-> j.on, rows |-> Tail(j.rows)]
    BY ONLY TailLeft, <2>1
  <2>3. HelpDesk!Goes(w, [j EXCEPT !.rows = Tail(@)])
    BY <1>6, <2>1 DEF HelpDesk!AddHistory
  <2>4. Tail(j.rows) = <<ClosedNote>>
    BY <1>3, <1>6, <2>1
  <2>5. HelpDesk!Goes(w, [step |-> "history", on |-> job[w].on, rows |-> <<ClosedNote>>])
    BY <2>1, <2>2, <2>3, <2>4
  <2> QED BY <1>1, <1>2, <1>4, <1>6, <2>5
<1> QED BY <1>3, <1>5, <1>6

\* A ticket with another status, or one row more in its history.
LEMMA StatusRow ==
  ASSUME NEW t \in TicketRows, NEW s \in DeskStatuses
  PROVE  /\ [t EXCEPT !.status = s] \in TicketRows /\ [t EXCEPT !.status = s].status = s
         /\ \A x \in {"number", "category", "type", "priority", "comments", "history"} : [t EXCEPT !.status = s][x] = t[x]
BY DEF TicketRows

LEMMA HistoryRow ==
  ASSUME NEW t \in TicketRows, NEW r \in Notes \cup Changes
  PROVE  /\ [t EXCEPT !.history = Append(@, r)] \in TicketRows
         /\ [t EXCEPT !.history = Append(@, r)].history = Append(t.history, r)
         /\ \A x \in {"number", "category", "type", "priority", "comments", "status"} :
              [t EXCEPT !.history = Append(@, r)][x] = t[x]
<1>1. Append(t.history, r) \in Seq(Notes \cup Changes)
  BY DEF TicketRows
<1> QED BY <1>1 DEF TicketRows

LEMMA CommentRow ==
  ASSUME NEW t \in TicketRows
  PROVE  /\ [t EXCEPT !.comments = @ + 1] \in TicketRows /\ [t EXCEPT !.comments = @ + 1].comments = t.comments + 1
         /\ \A x \in {"number", "category", "type", "priority", "status", "history"} :
              [t EXCEPT !.comments = @ + 1][x] = t[x]
BY DEF TicketRows

\* A ticket that changes keeps its number and its classification.
Changed(i, t) ==
  /\ t \in TicketRows
  /\ t.number = tickets[i].number /\ t.category = tickets[i].category /\ t.type = tickets[i].type
  /\ t.priority = tickets[i].priority
  /\ t.status = tickets[i].status \/ status[t.status].row

LEMMA OneChanged ==
  ASSUME DeskInv, UNCHANGED <<deskMode, HelpDesk!settings>>, NEW i \in DOMAIN tickets, NEW t, Changed(i, t),
         tickets' = [tickets EXCEPT ![i] = t]
  PROVE  /\ tickets' \in Seq(TicketRows) /\ DOMAIN tickets' = DOMAIN tickets /\ Len(tickets') = Len(tickets)
         /\ HelpDesk!Numbered' /\ HelpDesk!Classified' /\ tickets'[i] = t /\ \A k \in DOMAIN tickets \ {i} : tickets'[k] = tickets[k]
<1>1. tickets \in Seq(TicketRows)
  BY DEF DeskInv, DeskTyped
<1>2. tickets' \in Seq(TicketRows) /\ DOMAIN tickets' = DOMAIN tickets /\ Len(tickets') = Len(tickets)
  BY <1>1 DEF Changed
<1>3. tickets'[i] = t /\ \A k \in DOMAIN tickets \ {i} : tickets'[k] = tickets[k]
  BY <1>1
<1>4. HelpDesk!Numbered'
  BY <1>2, <1>3 DEF Changed, DeskInv, HelpDesk!Numbered
<1>5. HelpDesk!Classified'
  <2>1. ASSUME NEW k \in DOMAIN tickets
        PROVE  /\ tickets'[k].category = tickets[k].category /\ tickets'[k].type = tickets[k].type
               /\ tickets'[k].priority = tickets[k].priority
               /\ tickets'[k].status = tickets[k].status \/ status[tickets'[k].status].row
    BY <1>3 DEF Changed
  <2> QED BY <1>2, <2>1 DEF DeskInv, HelpDesk!Classified, HelpDesk!settings
<1> QED BY <1>2, <1>3, <1>4, <1>5

\* What was raised gets the next place, which its number tells.
LEMMA OneInserted ==
  ASSUME DeskInv, UNCHANGED <<deskMode, HelpDesk!settings>>, NEW t \in TicketRows, tickets' = Append(tickets, t), HelpDesk!Insertable(t),
         t.number = HelpDesk!FirstNumber + Len(tickets), deskMode.settings # "type" => type[t.type].category = t.category
  PROVE  /\ tickets' \in Seq(TicketRows) /\ Len(tickets') = Len(tickets) + 1
         /\ DOMAIN tickets \subseteq DOMAIN tickets' /\ Len(tickets) + 1 \in DOMAIN tickets'
         /\ tickets'[Len(tickets) + 1] = t /\ \A i \in DOMAIN tickets : tickets'[i] = tickets[i]
         /\ \A i \in DOMAIN tickets' : i \in DOMAIN tickets \/ i = Len(tickets) + 1
         /\ HelpDesk!Numbered' /\ HelpDesk!Classified'
<1>1. tickets \in Seq(TicketRows)
  BY DEF DeskInv, DeskTyped
<1>2. PICK n \in Nat : n = Len(tickets) /\ DOMAIN tickets = 1..n
  BY <1>1
<1>3. /\ tickets' \in Seq(TicketRows) /\ Len(tickets') = n + 1 /\ DOMAIN tickets' = 1..(n + 1)
      /\ tickets'[n + 1] = t /\ \A i \in DOMAIN tickets : tickets'[i] = tickets[i]
  BY <1>1, <1>2, Appended
<1>4. \A i \in DOMAIN tickets' : i \in DOMAIN tickets \/ i = n + 1
  BY <1>2, <1>3
<1>5. DOMAIN tickets \subseteq DOMAIN tickets' /\ n + 1 \in DOMAIN tickets'
  BY <1>2, <1>3
<1>6. HelpDesk!Numbered'
  <2>1. ASSUME NEW i \in DOMAIN tickets' PROVE tickets'[i].number = HelpDesk!FirstNumber + i - 1
    <3>1. CASE i = n + 1
      BY <1>2, <1>3, <3>1 DEF HelpDesk!FirstNumber
    <3>2. CASE i \in DOMAIN tickets
      BY <1>3, <3>2 DEF DeskInv, HelpDesk!Numbered
    <3> QED BY <1>4, <3>1, <3>2
  <2> QED BY <2>1 DEF HelpDesk!Numbered
<1>7. HelpDesk!Classified'
  <2>1. ASSUME NEW i \in DOMAIN tickets'
        PROVE  /\ category[tickets'[i].category].row /\ type[tickets'[i].type].row
               /\ priority[tickets'[i].priority].row /\ status[tickets'[i].status].row
               /\ deskMode.settings # "type" => type[tickets'[i].type].category = tickets'[i].category
    <3>1. CASE i = n + 1
      BY <1>3, <3>1 DEF HelpDesk!Insertable
    <3>2. CASE i \in DOMAIN tickets
      BY <1>3, <3>2 DEF DeskInv, HelpDesk!Classified
    <3> QED BY <1>4, <3>1, <3>2
  <2> QED BY <2>1 DEF HelpDesk!Classified, HelpDesk!settings
<1> QED BY <1>2, <1>3, <1>4, <1>5, <1>6, <1>7

\* Requests and settings: what a request was about to do stays possible in principle.
LEMMA JobsOn ==
  ASSUME DeskInv, UNCHANGED <<deskMode, HelpDesk!settings>>, NEW w \in Workers, NEW j, HelpDesk!Goes(w, j), Fits(j, DOMAIN tickets'),
         tickets' \in Seq(TicketRows), Len(tickets') >= Len(tickets), DOMAIN tickets \subseteq DOMAIN tickets',
         j.step # "insert"
  PROVE  DeskTyped' /\ InsertReady'
<1>1. /\ job'[w] = j /\ \A v \in Workers \ {w} : job'[v] = job[v]
      /\ job' \in [Workers -> {job'[v] : v \in Workers}]
  BY GoesOn DEF DeskInv
<1>2. \A v \in Workers : Fits(job[v], DOMAIN tickets)
  BY DEF DeskInv, DeskTyped, JobOK
<1>3. ASSUME NEW v \in Workers PROVE Fits(job'[v], DOMAIN tickets')
  <2>1. CASE v = w
    BY <1>1, <2>1
  <2>2. CASE v # w
    BY <1>1, <1>2, <2>2 DEF Fits
  <2> QED BY <2>1, <2>2
<1>4. DeskTyped'
  <2>1. DeskTyped /\ UNCHANGED <<deskMode, category, type, priority, status, handler>>
    BY DEF DeskInv, HelpDesk!settings
  <2> QED BY <1>1, <1>3, <2>1 DEF DeskTyped, JobOK
<1>5. InsertReady'
  <2>1. ASSUME NEW v \in Workers, job'[v].step = "insert"
        PROVE  /\ job'[v].ticket.number \in HelpDesk!FirstNumber..(HelpDesk!FirstNumber + Len(tickets'))
               /\ deskMode'.settings # "type" => type'[job'[v].ticket.type].category = job'[v].ticket.category
               /\ job'[v].ticket.comments = 0 /\ job'[v].ticket.history = <<>>
               /\ deskMode'.settings # "status" => status'[job'[v].ticket.status].name = "Open"
    <3>1. job'[v] = job[v]
      BY <1>1, <2>1
    <3>2. Len(tickets) \in Nat /\ Len(tickets') \in Nat
      BY DEF DeskInv, DeskTyped
    <3>3. /\ job[v].ticket.number \in HelpDesk!FirstNumber..(HelpDesk!FirstNumber + Len(tickets))
          /\ deskMode.settings # "type" => type[job[v].ticket.type].category = job[v].ticket.category
          /\ job[v].ticket.comments = 0 /\ job[v].ticket.history = <<>>
          /\ deskMode.settings # "status" => status[job[v].ticket.status].name = "Open"
      BY <2>1, <3>1 DEF DeskInv, InsertReady, HelpDesk!NameOf
    <3>4. job[v].ticket.number \in HelpDesk!FirstNumber..(HelpDesk!FirstNumber + Len(tickets'))
      BY <3>2, <3>3 DEF HelpDesk!FirstNumber
    <3>5. deskMode' = deskMode /\ type' = type /\ status' = status
      BY DEF HelpDesk!settings
    <3> QED BY <3>1, <3>3, <3>4, <3>5
  <2> QED BY <2>1 DEF InsertReady, HelpDesk!NameOf
<1> QED BY <1>4, <1>5

\* What the request for another status will write and tell.
LEMMA StatusAsked ==
  ASSUME DeskInv, NEW w \in Workers, NEW e \in DeskEmployees, NEW i \in DOMAIN tickets, NEW s \in DeskStatuses,
         HelpDesk!UpdateTicketStatus(w, e, i, s)
  PROVE  /\ job[w] = HelpDesk!Idle /\ Cardinality(HelpDesk!Busy) < deskMode.workers
         /\ \E rs \in ChangeRows :
              /\ rs[1].old = HelpDesk!NameOf(tickets[i].status) /\ rs[1].new = HelpDesk!NameOf(s)
              /\ HelpDesk!Goes(w, [step |-> "status", on |-> i, status |-> s, rows |-> rs])
              /\ UNCHANGED <<deskMode, HelpDesk!settings, tickets>>
<1> DEFINE r == [action |-> "StatusChanged", old |-> HelpDesk!NameOf(tickets[i].status), new |-> HelpDesk!NameOf(s)]
           rs == <<r>> \o IF HelpDesk!NameOf(s) \in HelpDesk!Closing THEN <<[action |-> "TicketClosed"]>> ELSE <<>>
<1>1. r \in Changes
  <2>1. tickets[i] \in TicketRows
    BY DEF DeskInv, DeskTyped
  <2> QED BY <2>1 DEF DeskInv, DeskTyped, TicketRows, HelpDesk!NameOf, Changes, SettingRow
<1>2. rs = IF HelpDesk!NameOf(s) \in HelpDesk!Closing THEN <<r, ClosedNote>> ELSE <<r>>
  <2> HIDE DEF r
  <2>1. CASE HelpDesk!NameOf(s) \in HelpDesk!Closing
    <3>1. <<r>> \o <<ClosedNote>> = <<r, ClosedNote>>
      BY TwoRows
    <3> QED BY <2>1, <3>1 DEF ClosedNote
  <2>2. CASE HelpDesk!NameOf(s) \notin HelpDesk!Closing
    BY <2>2
  <2> QED BY <2>1, <2>2
<1>3. r.new = HelpDesk!NameOf(s) /\ r.old = HelpDesk!NameOf(tickets[i].status)
  OBVIOUS
<1>4. /\ HelpDesk!Goes(w, [step |-> "status", on |-> i, status |-> s, rows |-> rs]) /\ UNCHANGED <<deskMode, HelpDesk!settings, tickets>>
      /\ job[w] = HelpDesk!Idle /\ Cardinality(HelpDesk!Busy) < deskMode.workers
  BY DEF HelpDesk!UpdateTicketStatus, HelpDesk!Free, HelpDesk!Cardinality, Cardinality
<1> HIDE DEF r, rs
<1>5. rs \in ChangeRows
  BY <1>1, <1>2, <1>3 DEF ChangeRows
<1>6. rs[1] = r
  BY <1>2
<1> QED BY <1>3, <1>4, <1>5, <1>6

LEMMA DeskInvNext ==
  ASSUME DeskInv, OpenThere, [HelpDesk!Next]_HelpDesk!vars
  PROVE  DeskInv' /\ OpenThere'
<1> USE DEF HelpDesk!settings
<1>0. tickets \in Seq(TicketRows) /\ Len(tickets) \in Nat /\ DOMAIN tickets = 1..Len(tickets)
      /\ \A i \in DOMAIN tickets : tickets[i] \in TicketRows
  BY DEF DeskInv, DeskTyped
<1>a. UNCHANGED <<deskMode, status>> => OpenThere'
  BY DEF OpenThere, HelpDesk!NameOf
<1>1. CASE UNCHANGED HelpDesk!vars
  BY <1>1 DEF HelpDesk!vars, DeskInv, DeskTyped, HelpDesk!Numbered, InsertReady, HelpDesk!Classified, OpenThere, HelpDesk!NameOf, JobOK
<1>2. CASE HelpDesk!Settings
  <2>1. DeskTyped
    BY DEF DeskInv
  <2>2. DeskTyped' /\ HelpDesk!Numbered'
    BY <1>2, <2>1, SettingsKeep DEF DeskTyped, DeskInv, HelpDesk!Numbered, JobOK
  <2>3. \A w \in Workers : job[w].step = "insert" => job[w].ticket.type \in DeskTypes
    BY <2>1, JobShapes DEF DeskTyped, TicketRows
  <2>4. InsertReady'
    BY <1>2, <2>1, <2>3, SettingsKeep DEF DeskInv, InsertReady, HelpDesk!NameOf
  <2>5. \A i \in DOMAIN tickets : tickets[i].type \in DeskTypes
    BY <1>0 DEF TicketRows
  <2>6. HelpDesk!Classified'
    BY <1>2, <2>1, <2>5, SettingsKeep DEF DeskInv, HelpDesk!Classified
  <2>7. OpenThere'
    BY <1>2, <2>1, SettingsKeep DEF OpenThere, HelpDesk!NameOf
  <2> QED BY <2>2, <2>4, <2>6, <2>7 DEF DeskInv
<1>3. ASSUME NEW w \in Workers, NEW e \in DeskEmployees, NEW c \in DeskCategories, NEW y \in DeskTypes, NEW p \in DeskPriorities,
             HelpDesk!RaiseTicket(w, e, c, y, p)
      PROVE  DeskInv' /\ OpenThere'
  <2>1. UNCHANGED <<deskMode, HelpDesk!settings, tickets>>
    BY <1>3, Raised
  <2>2. PICK t \in TicketRows :
          /\ HelpDesk!Goes(w, [step |-> "insert", ticket |-> t])
          /\ t.number = HelpDesk!FirstNumber + Len(tickets)
          /\ deskMode.settings # "type" => type[t.type].category = t.category
          /\ t.comments = 0 /\ t.history = <<>>
          /\ t.status \in HelpDesk!FirstStatuses
    BY <1>3, Raised
  <2>3. deskMode.settings # "status" => status[t.status].name = "Open"
    BY <2>2 DEF HelpDesk!FirstStatuses, OpenThere, HelpDesk!NameOf
  <2>4. /\ job'[w] = [step |-> "insert", ticket |-> t] /\ \A v \in Workers \ {w} : job'[v] = job[v]
        /\ job' \in [Workers -> {job'[v] : v \in Workers}]
    BY <2>2, GoesOn DEF DeskInv
  <2>5. ASSUME NEW v \in Workers PROVE Fits(job'[v], DOMAIN tickets')
    <3>1. CASE v = w
      BY <2>2, <2>4, <3>1 DEF Fits
    <3>2. CASE v # w
      BY <2>1, <2>4, <3>2 DEF Fits, DeskInv, DeskTyped, JobOK
    <3> QED BY <3>1, <3>2
  <2>6. DeskTyped'
    <3>1. DeskTyped
      BY DEF DeskInv
    <3> QED BY <2>1, <2>4, <2>5, <3>1 DEF DeskTyped, JobOK
  <2>7. InsertReady'
    <3>1. ASSUME NEW v \in Workers, job'[v].step = "insert"
          PROVE  /\ job'[v].ticket.number \in HelpDesk!FirstNumber..(HelpDesk!FirstNumber + Len(tickets))
                 /\ deskMode.settings # "type" => type[job'[v].ticket.type].category = job'[v].ticket.category
                 /\ job'[v].ticket.comments = 0 /\ job'[v].ticket.history = <<>>
                 /\ deskMode.settings # "status" => status[job'[v].ticket.status].name = "Open"
      <4>1. CASE v = w
        <5>1. HelpDesk!FirstNumber + Len(tickets) \in HelpDesk!FirstNumber..(HelpDesk!FirstNumber + Len(tickets))
          BY <1>0 DEF HelpDesk!FirstNumber
        <5> QED BY <2>2, <2>3, <2>4, <4>1, <5>1
      <4>2. CASE v # w
        BY <2>4, <3>1, <4>2 DEF DeskInv, InsertReady, HelpDesk!NameOf
      <4> QED BY <4>1, <4>2
    <3> QED BY <2>1, <3>1 DEF InsertReady, HelpDesk!NameOf
  <2>8. HelpDesk!Numbered' /\ HelpDesk!Classified'
    BY <2>1 DEF DeskInv, HelpDesk!Numbered, HelpDesk!Classified
  <2> QED BY <1>a, <2>1, <2>6, <2>7, <2>8 DEF DeskInv
<1>4. ASSUME NEW w \in Workers, HelpDesk!InsertTicket(w) PROVE DeskInv' /\ OpenThere'
  <2>1. UNCHANGED <<deskMode, HelpDesk!settings>> /\ job[w].step = "insert" /\ job[w].ticket \in TicketRows
    BY <1>4, Inserted
  <2>2. CASE UNCHANGED tickets /\ HelpDesk!Goes(w, HelpDesk!Idle)
    <3>1. Fits(HelpDesk!Idle, DOMAIN tickets') /\ HelpDesk!Idle.step # "insert"
      BY DEF Fits, HelpDesk!Idle
    <3>2. DeskTyped' /\ InsertReady'
      BY <1>0, <2>1, <2>2, <3>1, JobsOn
    <3>3. HelpDesk!Numbered' /\ HelpDesk!Classified'
      BY <2>1, <2>2 DEF DeskInv, HelpDesk!Numbered, HelpDesk!Classified
    <3> QED BY <1>a, <2>1, <3>2, <3>3 DEF DeskInv
  <2>3. CASE /\ tickets' = Append(tickets, job[w].ticket) /\ HelpDesk!Insertable(job[w].ticket)
             /\ job[w].ticket.number = HelpDesk!FirstNumber + Len(tickets)
             /\ HelpDesk!Goes(w, [step |-> "history", on |-> Len(tickets) + 1, rows |-> <<[action |-> "TicketCreated"]>>])
    <3>1. deskMode.settings # "type" => type[job[w].ticket.type].category = job[w].ticket.category
      BY <2>1 DEF DeskInv, InsertReady
    <3>2. /\ tickets' \in Seq(TicketRows) /\ Len(tickets') = Len(tickets) + 1
          /\ DOMAIN tickets \subseteq DOMAIN tickets' /\ Len(tickets) + 1 \in DOMAIN tickets'
          /\ HelpDesk!Numbered' /\ HelpDesk!Classified'
      BY <2>1, <2>3, <3>1, OneInserted
    <3>5. <<[action |-> "TicketCreated"]>> \in PendingRows
      BY DEF PendingRows, Notes
    <3> DEFINE j == [step |-> "history", on |-> Len(tickets) + 1, rows |-> <<[action |-> "TicketCreated"]>>]
    <3>6. Fits(j, DOMAIN tickets') /\ j.step # "insert" /\ HelpDesk!Goes(w, j)
      BY <2>3, <3>2, <3>5 DEF Fits
    <3> HIDE DEF j
    <3>7. DeskTyped' /\ InsertReady'
      <4>1. Len(tickets') >= Len(tickets)
        BY <1>0, <3>2
      <4> QED BY <2>1, <3>2, <3>6, <4>1, JobsOn
    <3> QED BY <1>a, <2>1, <3>2, <3>7 DEF DeskInv
  <2> QED BY <1>4, <2>2, <2>3, Inserted
<1>5. ASSUME NEW w \in Workers, NEW e \in DeskEmployees, NEW i \in DOMAIN tickets, NEW s \in DeskStatuses,
             HelpDesk!UpdateTicketStatus(w, e, i, s)
      PROVE  DeskInv' /\ OpenThere'
  <2>1. PICK rs \in ChangeRows :
          /\ HelpDesk!Goes(w, [step |-> "status", on |-> i, status |-> s, rows |-> rs])
          /\ UNCHANGED <<deskMode, HelpDesk!settings, tickets>>
    BY <1>5, StatusAsked
  <2> DEFINE j == [step |-> "status", on |-> i, status |-> s, rows |-> rs]
  <2>4. HelpDesk!Goes(w, j) /\ UNCHANGED <<deskMode, HelpDesk!settings, tickets>>
    BY <2>1
  <2>5. Fits(j, DOMAIN tickets') /\ j.step # "insert"
    BY <2>1 DEF Fits
  <2> HIDE DEF j
  <2>6. DeskTyped' /\ InsertReady'
    BY <1>0, <2>4, <2>5, JobsOn
  <2>7. HelpDesk!Numbered' /\ HelpDesk!Classified'
    BY <2>4 DEF DeskInv, HelpDesk!Numbered, HelpDesk!Classified
  <2> QED BY <1>a, <2>4, <2>6, <2>7 DEF DeskInv
<1>6. ASSUME NEW w \in Workers, HelpDesk!WriteStatus(w) PROVE DeskInv' /\ OpenThere'
  <2>1. /\ UNCHANGED <<deskMode, HelpDesk!settings>> /\ job[w].step = "status" /\ job[w].on \in DOMAIN tickets
        /\ job[w].status \in DeskStatuses /\ job[w].rows \in ChangeRows
    BY <1>6, StatusWritten
  <2>2. CASE UNCHANGED tickets /\ HelpDesk!Goes(w, HelpDesk!Idle)
    <3>1. Fits(HelpDesk!Idle, DOMAIN tickets') /\ HelpDesk!Idle.step # "insert"
      BY DEF Fits, HelpDesk!Idle
    <3>2. DeskTyped' /\ InsertReady'
      BY <1>0, <2>1, <2>2, <3>1, JobsOn
    <3>3. HelpDesk!Numbered' /\ HelpDesk!Classified'
      BY <2>1, <2>2 DEF DeskInv, HelpDesk!Numbered, HelpDesk!Classified
    <3> QED BY <1>a, <2>1, <3>2, <3>3 DEF DeskInv
  <2>3. CASE /\ tickets' = [tickets EXCEPT ![job[w].on].status = job[w].status] /\ status[job[w].status].row
             /\ HelpDesk!Goes(w, [step |-> "history", on |-> job[w].on, rows |-> job[w].rows])
    <3> DEFINE i == job[w].on
               t == [tickets[i] EXCEPT !.status = job[w].status]
               j == [step |-> "history", on |-> job[w].on, rows |-> job[w].rows]
    <3>1. Changed(i, t)
      BY <1>0, <2>1, <2>3, StatusRow DEF Changed
    <3>2. tickets' = [tickets EXCEPT ![i] = t]
      BY <2>3
    <3>3. /\ tickets' \in Seq(TicketRows) /\ DOMAIN tickets' = DOMAIN tickets /\ Len(tickets') = Len(tickets)
          /\ HelpDesk!Numbered' /\ HelpDesk!Classified'
      <4> HIDE DEF t, i
      <4>1. i \in DOMAIN tickets
        BY <2>1 DEF i
      <4> QED BY <2>1, <3>1, <3>2, <4>1, OneChanged
    <3>4. Fits(j, DOMAIN tickets') /\ j.step # "insert" /\ HelpDesk!Goes(w, j)
      BY <2>1, <2>3, <3>3 DEF Fits, PendingRows
    <3> HIDE DEF j, t, i
    <3>5. DeskTyped' /\ InsertReady'
      BY <1>0, <2>1, <3>3, <3>4, JobsOn
    <3> QED BY <1>a, <2>1, <3>3, <3>5 DEF DeskInv
  <2> QED BY <1>6, <2>2, <2>3, StatusWritten
<1>7. ASSUME NEW w \in Workers, NEW e \in DeskEmployees, NEW i \in DOMAIN tickets, HelpDesk!AddComment(w, e, i)
      PROVE  DeskInv' /\ OpenThere'
  <2> DEFINE t == [tickets[i] EXCEPT !.comments = @ + 1]
             j == [step |-> "history", on |-> i, rows |-> <<[action |-> "CommentAdded"]>>]
  <2>1. tickets' = [tickets EXCEPT ![i] = t] /\ HelpDesk!Goes(w, j) /\ UNCHANGED <<deskMode, HelpDesk!settings>>
    BY <1>7 DEF HelpDesk!AddComment
  <2>2. Changed(i, t)
    BY <1>0, CommentRow DEF Changed
  <2>3. <<[action |-> "CommentAdded"]>> \in PendingRows
    BY DEF PendingRows, Notes
  <2>4. j.step # "insert" /\ \A D : i \in D => Fits(j, D)
    BY <2>3 DEF Fits
  <2> HIDE DEF t, j
  <2>5. /\ tickets' \in Seq(TicketRows) /\ DOMAIN tickets' = DOMAIN tickets /\ Len(tickets') = Len(tickets)
        /\ HelpDesk!Numbered' /\ HelpDesk!Classified'
    BY <2>1, <2>2, OneChanged
  <2>6. DeskTyped' /\ InsertReady'
    BY <1>0, <2>1, <2>4, <2>5, JobsOn
  <2> QED BY <1>a, <2>1, <2>5, <2>6 DEF DeskInv
<1>8. ASSUME NEW w \in Workers, HelpDesk!AddHistory(w) PROVE DeskInv' /\ OpenThere'
  <2>1. /\ UNCHANGED <<deskMode, HelpDesk!settings>> /\ job[w].step = "history" /\ job[w].on \in DOMAIN tickets
        /\ job[w].rows \in PendingRows
        /\ tickets' = [tickets EXCEPT ![job[w].on].history = Append(@, job[w].rows[1])]
    BY <1>8, HistoryAdded
  <2> DEFINE i == job[w].on
             t == [tickets[i] EXCEPT !.history = Append(@, job[w].rows[1])]
  <2>2. job[w].rows[1] \in Notes \cup Changes
    BY <2>1, PendingShape
  <2>3. Changed(i, t) /\ tickets' = [tickets EXCEPT ![i] = t] /\ i \in DOMAIN tickets
    BY <1>0, <2>1, <2>2, HistoryRow DEF Changed
  <2> HIDE DEF t
  <2>4. /\ tickets' \in Seq(TicketRows) /\ DOMAIN tickets' = DOMAIN tickets /\ Len(tickets') = Len(tickets)
        /\ HelpDesk!Numbered' /\ HelpDesk!Classified'
    <3> HIDE DEF i
    <3> QED BY <2>1, <2>3, OneChanged
  <2>5. <<ClosedNote>> \in PendingRows
    BY DEF PendingRows, Notes, ClosedNote
  <2>6. ASSUME HelpDesk!Goes(w, HelpDesk!Idle) PROVE DeskTyped' /\ InsertReady'
    <3>1. Fits(HelpDesk!Idle, DOMAIN tickets') /\ HelpDesk!Idle.step # "insert"
      BY DEF Fits, HelpDesk!Idle
    <3>2. Len(tickets') >= Len(tickets) /\ DOMAIN tickets \subseteq DOMAIN tickets'
      BY <1>0, <2>4
    <3> QED BY <2>1, <2>4, <2>6, <3>1, <3>2, JobsOn
  <2>7. ASSUME HelpDesk!Goes(w, [step |-> "history", on |-> job[w].on, rows |-> <<ClosedNote>>])
        PROVE  DeskTyped' /\ InsertReady'
    <3> DEFINE j == [step |-> "history", on |-> job[w].on, rows |-> <<ClosedNote>>]
    <3>1. Fits(j, DOMAIN tickets') /\ j.step # "insert" /\ HelpDesk!Goes(w, j)
      BY <2>1, <2>4, <2>5, <2>7 DEF Fits
    <3>2. Len(tickets') >= Len(tickets) /\ DOMAIN tickets \subseteq DOMAIN tickets'
      BY <1>0, <2>4
    <3> HIDE DEF j
    <3> QED BY <2>1, <2>4, <3>1, <3>2, JobsOn
  <2>8. DeskTyped' /\ InsertReady'
    <3>1. HelpDesk!Goes(w, HelpDesk!Idle) \/ HelpDesk!Goes(w, [step |-> "history", on |-> job[w].on, rows |-> <<ClosedNote>>])
      BY <1>8, HistoryAdded
    <3> QED BY <2>6, <2>7, <3>1
  <2> QED BY <1>a, <2>1, <2>4, <2>8 DEF DeskInv
<1>9. ASSUME NEW w \in Workers, HelpDesk!Crash(w) PROVE DeskInv' /\ OpenThere'
  <2>1. HelpDesk!Goes(w, HelpDesk!Idle) /\ UNCHANGED <<deskMode, HelpDesk!settings, tickets>>
    BY <1>9 DEF HelpDesk!Crash
  <2>2. Fits(HelpDesk!Idle, DOMAIN tickets') /\ HelpDesk!Idle.step # "insert"
    BY DEF Fits, HelpDesk!Idle
  <2>3. DeskTyped' /\ InsertReady'
    BY <1>0, <2>1, <2>2, JobsOn
  <2>4. HelpDesk!Numbered' /\ HelpDesk!Classified'
    BY <2>1 DEF DeskInv, HelpDesk!Numbered, HelpDesk!Classified
  <2> QED BY <1>a, <2>1, <2>3, <2>4 DEF DeskInv
<1> QED BY <1>1, <1>2, <1>3, <1>4, <1>5, <1>6, <1>7, <1>8, <1>9 DEF HelpDesk!Next


-----------------------------------------------------------------------------
(* What the history accounts for *)

\* Requests J that have a row of this kind to tell of ticket i next, and those with a
\* change of status ahead.
Owes(j, i, a) == j.step = "history" /\ j.on = i /\ j.rows[1].action = a
Owing(J, i, a) == {w \in Workers : Owes(J[w], i, a)}
Tells(J, i, w) == J[w].step \in {"status", "history"} /\ J[w].on = i /\ J[w].rows[1].action = "StatusChanged"
Known(t, J, i) == HelpDesk!ToldOf(t) \cup {J[w].rows[1].new : w \in Owing(J, i, "StatusChanged")}
ClosingRows(t) == {k \in HelpDesk!Rows(t, "StatusChanged") : t.history[k].new \in HelpDesk!Closing}

\* What was done to a ticket has been told or will be.
Counted(t, J, i) ==
  /\ Cardinality(HelpDesk!Rows(t, "TicketCreated")) + Cardinality(Owing(J, i, "TicketCreated")) = 1
  /\ Cardinality(HelpDesk!Rows(t, "CommentAdded")) + Cardinality(Owing(J, i, "CommentAdded")) = t.comments
  /\ Cardinality(HelpDesk!Rows(t, "TicketClosed")) + Cardinality(Owing(J, i, "TicketClosed")) = Cardinality(ClosingRows(t))

Accounted(t, J, i, name) ==
  /\ name \in Known(t, J, i)
  /\ \A k \in HelpDesk!Rows(t, "StatusChanged") : t.history[k].old \in Known(t, J, i)
  /\ \A w \in Workers : Tells(J, i, w) => J[w].rows[1].old \in Known(t, J, i)

\* One request at a time: each change starts where the one before ended.
Chained(t, J, i, name) ==
  /\ \A k \in HelpDesk!Rows(t, "StatusChanged") : t.history[k].old = HelpDesk!Standing(t, k)
  /\ \A w \in Workers : Tells(J, i, w) => J[w].rows[1].old = HelpDesk!Standing(t, Len(t.history) + 1)
  /\ Owing(J, i, "StatusChanged") = {} => name = HelpDesk!Standing(t, Len(t.history) + 1)
  /\ \A w \in Owing(J, i, "StatusChanged") : name = J[w].rows[1].new

\* The whole of it, with one request at a time or with several.
Told(t, J, i, name, one) ==
  Counted(t, J, i) /\ Accounted(t, J, i, name) /\ (one => Chained(t, J, i, name))
Story(i) == Told(tickets[i], job, i, HelpDesk!NameOf(tickets[i].status), deskMode.workers = 1)

Telling == deskMode.settings # "status" /\ ~deskMode.crash
StoryInv ==
  Telling =>
    /\ \A i \in DOMAIN tickets : Story(i)
    /\ \A w \in Workers : job[w].step = "status" => job[w].rows[1].new = HelpDesk!NameOf(job[w].status)
    /\ deskMode.workers = 1 => \A v, w \in HelpDesk!Busy : v = w

LEMMA SameRows ==
  ASSUME NEW t, NEW u, u.history = t.history
  PROVE  /\ \A a : HelpDesk!Rows(u, a) = HelpDesk!Rows(t, a)
         /\ HelpDesk!ToldOf(u) = HelpDesk!ToldOf(t) /\ ClosingRows(u) = ClosingRows(t)
         /\ \A n : HelpDesk!Standing(u, n) = HelpDesk!Standing(t, n)
BY DEF HelpDesk!Rows, HelpDesk!ToldOf, ClosingRows, HelpDesk!Standing

LEMMA LeastNumber ==
  ASSUME NEW S, S \subseteq Nat, S # {}
  PROVE  \E n \in S : \A k \in S : n <= k
<1>1. PICK n \in S : \A k \in S : <<k, n>> \notin OpToRel(<, Nat)
  BY NatLessThanWellFounded, WFMin
<1>2. \A k \in S : ~(k < n)
  BY <1>1 DEF OpToRel
<1> QED BY <1>2

\* Numbers up to a bound have a greatest one.
LEMMA GreatestNumber ==
  ASSUME NEW n \in Nat, NEW S, S \subseteq 0..n, S # {}
  PROVE  Max(S) \in S /\ \A k \in S : k <= Max(S)
<1>1. PICK d \in {n - k : k \in S} : \A e \in {n - k : k \in S} : d <= e
  <2>1. \A k \in S : n - k \in Nat
    OBVIOUS
  <2>2. {n - k : k \in S} \subseteq Nat /\ {n - k : k \in S} # {}
    BY <2>1
  <2> QED BY <2>2, LeastNumber
<1>2. PICK m \in S : d = n - m
  BY <1>1
<1>3. \A k \in S : m >= k
  <2> SUFFICES ASSUME NEW k \in S PROVE m >= k
    OBVIOUS
  <2>1. d <= n - k
    BY <1>1
  <2> QED BY <2>1, <1>2
<1> QED BY <1>3 DEF Max

\* The greatest of a set of numbers that has one more.
LEMMA GreatestAdded ==
  ASSUME NEW n \in Nat, NEW S \in SUBSET (1..n)
  PROVE  Max(S \cup {n + 1}) = n + 1
<1> DEFINE U == S \cup {n + 1}
<1>1. n + 1 \in U /\ \A x \in U : n + 1 >= x
  OBVIOUS
<1>2. \A y \in U : (\A x \in U : y >= x) => y = n + 1
  OBVIOUS
<1> HIDE DEF U
<1>3. (CHOOSE x \in U : \A y \in U : x >= y) = n + 1
  BY <1>1, <1>2
<1> QED BY <1>3 DEF Max, U

LEMMA MoreRows ==
  ASSUME NEW t \in TicketRows, NEW u \in TicketRows, NEW r \in Notes \cup Changes,
         u.history = Append(t.history, r)
  PROVE  /\ Len(t.history) \in Nat /\ Len(u.history) = Len(t.history) + 1
         /\ \A a : /\ HelpDesk!Rows(t, a) \subseteq 1..Len(t.history) /\ IsFiniteSet(HelpDesk!Rows(t, a))
                   /\ r.action = a => HelpDesk!Rows(u, a) = HelpDesk!Rows(t, a) \cup {Len(t.history) + 1}
                   /\ r.action # a => HelpDesk!Rows(u, a) = HelpDesk!Rows(t, a)
         /\ u.history[Len(t.history) + 1] = r
         /\ \A k \in 1..Len(t.history) : u.history[k] = t.history[k]
<1>1. t.history \in Seq(Notes \cup Changes) /\ Len(t.history) \in Nat /\ DOMAIN t.history = 1..Len(t.history)
  BY DEF TicketRows
<1>2. /\ Len(u.history) = Len(t.history) + 1 /\ DOMAIN u.history = 1..(Len(t.history) + 1)
      /\ u.history[Len(t.history) + 1] = r
      /\ \A k \in DOMAIN t.history : u.history[k] = t.history[k]
  BY <1>1, Appended
<1>3. ASSUME NEW a
      PROVE  /\ HelpDesk!Rows(t, a) \subseteq 1..Len(t.history) /\ IsFiniteSet(HelpDesk!Rows(t, a))
             /\ r.action = a => HelpDesk!Rows(u, a) = HelpDesk!Rows(t, a) \cup {Len(t.history) + 1}
             /\ r.action # a => HelpDesk!Rows(u, a) = HelpDesk!Rows(t, a)
  <2>1. HelpDesk!Rows(t, a) \subseteq 1..Len(t.history)
    BY <1>1 DEF HelpDesk!Rows
  <2>2. IsFiniteSet(1..Len(t.history))
    BY <1>1, FS_Interval
  <2>3. IsFiniteSet(HelpDesk!Rows(t, a))
    BY <2>1, <2>2, FS_Subset
  <2> QED BY <1>1, <1>2, <2>1, <2>3 DEF HelpDesk!Rows
<1> QED BY <1>1, <1>2, <1>3

LEMMA StandingAt ==
  ASSUME NEW t, NEW n, NEW before, before = {k \in HelpDesk!Rows(t, "StatusChanged") : k < n}
  PROVE  HelpDesk!Standing(t, n) = IF before = {} THEN "Open" ELSE t.history[Max(before)].new
BY DEF HelpDesk!Standing, HelpDesk!Max, Max

\* What one row more does to what is told and to where the status stands.
LEMMA MoreTold ==
  ASSUME NEW t \in TicketRows, NEW u \in TicketRows, NEW r \in Notes \cup Changes,
         u.history = Append(t.history, r)
  PROVE  /\ r.action = "StatusChanged" => HelpDesk!ToldOf(u) = HelpDesk!ToldOf(t) \cup {r.new}
         /\ r.action # "StatusChanged" => HelpDesk!ToldOf(u) = HelpDesk!ToldOf(t)
         /\ r.action = "StatusChanged" /\ r.new \in HelpDesk!Closing => ClosingRows(u) = ClosingRows(t) \cup {Len(t.history) + 1}
         /\ ~(r.action = "StatusChanged" /\ r.new \in HelpDesk!Closing) => ClosingRows(u) = ClosingRows(t)
         /\ \A n \in 1..(Len(t.history) + 1) : HelpDesk!Standing(u, n) = HelpDesk!Standing(t, n)
         /\ r.action = "StatusChanged" => HelpDesk!Standing(u, Len(u.history) + 1) = r.new
         /\ r.action # "StatusChanged" => HelpDesk!Standing(u, Len(u.history) + 1) = HelpDesk!Standing(t, Len(t.history) + 1)
<1>a. PICK n \in Nat : n = Len(t.history)
  BY MoreRows
<1>b. PICK sc : sc = "StatusChanged"
  OBVIOUS
<1>1. /\ Len(u.history) = n + 1
      /\ HelpDesk!Rows(t, sc) \subseteq 1..n
      /\ r.action = sc => HelpDesk!Rows(u, sc) = HelpDesk!Rows(t, sc) \cup {n + 1}
      /\ r.action # sc => HelpDesk!Rows(u, sc) = HelpDesk!Rows(t, sc)
      /\ u.history[n + 1] = r
      /\ \A k \in 1..n : u.history[k] = t.history[k]
  <2>1. /\ Len(t.history) \in Nat /\ Len(u.history) = Len(t.history) + 1
        /\ \A a : /\ HelpDesk!Rows(t, a) \subseteq 1..Len(t.history) /\ IsFiniteSet(HelpDesk!Rows(t, a))
                  /\ r.action = a => HelpDesk!Rows(u, a) = HelpDesk!Rows(t, a) \cup {Len(t.history) + 1}
                  /\ r.action # a => HelpDesk!Rows(u, a) = HelpDesk!Rows(t, a)
        /\ u.history[Len(t.history) + 1] = r
        /\ \A k \in 1..Len(t.history) : u.history[k] = t.history[k]
    BY MoreRows, Zenon
  <2> QED BY <2>1, <1>a
<1>2. /\ r.action = sc => HelpDesk!ToldOf(u) = HelpDesk!ToldOf(t) \cup {r.new}
      /\ r.action # sc => HelpDesk!ToldOf(u) = HelpDesk!ToldOf(t)
  <2>1. \A k \in HelpDesk!Rows(t, sc) : u.history[k] = t.history[k]
    BY <1>1
  <2>2. HelpDesk!ToldOf(t) = {"Open"} \cup {t.history[k].new : k \in HelpDesk!Rows(t, sc)} /\ HelpDesk!ToldOf(u) = {"Open"} \cup {u.history[k].new : k \in HelpDesk!Rows(u, sc)}
    BY <1>b DEF HelpDesk!ToldOf
  <2>3. CASE r.action = sc
    <3>1. u.history[n + 1].new = r.new /\ HelpDesk!Rows(u, sc) = HelpDesk!Rows(t, sc) \cup {n + 1}
      BY <1>1, <2>3
    <3>2. {u.history[k].new : k \in HelpDesk!Rows(u, sc)} = {t.history[k].new : k \in HelpDesk!Rows(t, sc)} \cup {r.new}
      <4>1. \A k \in HelpDesk!Rows(u, sc) : k \in HelpDesk!Rows(t, sc) \/ k = n + 1
        BY <3>1
      <4>2. \A k \in HelpDesk!Rows(t, sc) \cup {n + 1} : k \in HelpDesk!Rows(u, sc)
        BY <3>1
      <4>3. ASSUME NEW k \in HelpDesk!Rows(u, sc) PROVE u.history[k].new \in {t.history[m].new : m \in HelpDesk!Rows(t, sc)} \cup {r.new}
        BY <2>1, <3>1, <4>1
      <4>4. ASSUME NEW k \in HelpDesk!Rows(t, sc) PROVE t.history[k].new \in {u.history[m].new : m \in HelpDesk!Rows(u, sc)}
        <5>1. u.history[k].new = t.history[k].new
          BY <2>1
        <5> QED BY <4>2, <5>1
      <4>5. r.new \in {u.history[m].new : m \in HelpDesk!Rows(u, sc)}
        BY <3>1, <4>2
      <4> QED BY <4>3, <4>4, <4>5
    <3>3. PICK A : A = {u.history[k].new : k \in HelpDesk!Rows(u, sc)}
      OBVIOUS
    <3>4. PICK B : B = {t.history[k].new : k \in HelpDesk!Rows(t, sc)}
      OBVIOUS
    <3>5. HelpDesk!ToldOf(t) = {"Open"} \cup B /\ HelpDesk!ToldOf(u) = {"Open"} \cup A /\ A = B \cup {r.new}
      BY <2>2, <3>2, <3>3, <3>4
    <3> QED BY <2>3, <3>5
  <2>4. CASE r.action # sc
    BY <1>1, <2>1, <2>2, <2>4
  <2> QED BY <2>3, <2>4
<1>3. /\ r.action = sc /\ r.new \in HelpDesk!Closing => ClosingRows(u) = ClosingRows(t) \cup {n + 1}
      /\ ~(r.action = sc /\ r.new \in HelpDesk!Closing) => ClosingRows(u) = ClosingRows(t)
  BY <1>1, <1>b DEF ClosingRows
<1>4. ASSUME NEW m \in Int, m \in 1..(n + 1) \/ (m = n + 2 /\ r.action # sc)
      PROVE  HelpDesk!Standing(u, m) = IF m = n + 2 THEN HelpDesk!Standing(t, n + 1) ELSE HelpDesk!Standing(t, m)
  <2> DEFINE l == IF m = n + 2 THEN n + 1 ELSE m
             before == {k \in HelpDesk!Rows(t, sc) : k < l}
  <2>1. before \subseteq 1..n /\ {k \in HelpDesk!Rows(u, sc) : k < m} = before
    BY <1>1, <1>4
  <2>2. CASE before = {}
    BY <1>b, <2>1, <2>2 DEF HelpDesk!Standing, HelpDesk!Max, Max
  <2>3. CASE before # {}
    <3>1. Max(before) \in before
      <4>1. before \subseteq 0..n
        BY <1>1, <2>1
      <4> HIDE DEF before
      <4> QED BY <1>1, <2>3, <4>1, GreatestNumber
    <3>2. u.history[Max(before)] = t.history[Max(before)]
      BY <1>1, <2>1, <3>1
    <3>3. HelpDesk!Standing(t, l) = t.history[Max(before)].new /\ HelpDesk!Standing(u, m) = u.history[Max(before)].new
      <4>1. before = {k \in HelpDesk!Rows(t, "StatusChanged") : k < l} /\ before = {k \in HelpDesk!Rows(u, "StatusChanged") : k < m}
        BY <1>b, <2>1
      <4> HIDE DEF before, l
      <4> QED BY <2>3, <4>1, StandingAt
    <3> QED BY <3>2, <3>3
  <2> QED BY <2>2, <2>3
<1>5. ASSUME r.action = sc PROVE HelpDesk!Standing(u, n + 2) = r.new
  <2>1. {k \in HelpDesk!Rows(u, sc) : k < n + 2} = HelpDesk!Rows(t, sc) \cup {n + 1}
    BY <1>1, <1>5
  <2>2. Max(HelpDesk!Rows(t, sc) \cup {n + 1}) = n + 1
    BY <1>1, GreatestAdded
  <2> QED BY <1>1, <1>b, <2>1, <2>2 DEF HelpDesk!Standing, HelpDesk!Max, Max
<1>6. \A m \in 1..(n + 1) : HelpDesk!Standing(u, m) = HelpDesk!Standing(t, m)
  BY <1>1, <1>4
<1>7. r.action # sc => HelpDesk!Standing(u, n + 2) = HelpDesk!Standing(t, n + 1)
  BY <1>1, <1>4
<1>8. Len(u.history) + 1 = n + 2
  BY <1>1
<1> QED BY <1>2, <1>3, <1>5, <1>6, <1>7, <1>8, <1>a, <1>b

OnlyOf(J, K, w) == \A v \in Workers \ {w} : K[v] = J[v]
SameOwed(J, K, i) ==
  /\ Owing(K, i, "StatusChanged") = Owing(J, i, "StatusChanged")
  /\ \A v \in Owing(J, i, "StatusChanged") : K[v].rows = J[v].rows

\* How the step of one request changes who owes a row.
LEMMA OwingStep ==
  ASSUME NEW J, NEW K, NEW w \in Workers, NEW i, NEW a, OnlyOf(J, K, w)
  PROVE  /\ IsFiniteSet(Owing(J, i, a)) /\ Cardinality(Owing(J, i, a)) \in Nat /\ Cardinality(Owing(K, i, a)) \in Nat
         /\ (w \in Owing(J, i, a) <=> w \in Owing(K, i, a)) => Owing(K, i, a) = Owing(J, i, a)
         /\ w \notin Owing(J, i, a) /\ w \in Owing(K, i, a) =>
              /\ Owing(K, i, a) = Owing(J, i, a) \cup {w}
              /\ Cardinality(Owing(K, i, a)) = Cardinality(Owing(J, i, a)) + 1
         /\ w \in Owing(J, i, a) /\ w \notin Owing(K, i, a) =>
              /\ Owing(J, i, a) = Owing(K, i, a) \cup {w}
              /\ Cardinality(Owing(J, i, a)) = Cardinality(Owing(K, i, a)) + 1
<1> USE DEF OnlyOf
<1> DEFINE P == Owing(J, i, a)
           Q == Owing(K, i, a)
<1>1. \A v \in Workers \ {w} : v \in P <=> v \in Q
  BY DEF Owing
<1>2. P \subseteq Workers /\ Q \subseteq Workers
  BY DEF Owing
<1> HIDE DEF P, Q
<1>3. IsFiniteSet(P) /\ IsFiniteSet(Q)
  BY <1>2, DeskAssumption, FS_Subset
<1>4. Cardinality(P) \in Nat /\ Cardinality(Q) \in Nat
  BY <1>3, FS_CardinalityType
<1>5. (w \in P <=> w \in Q) => Q = P
  BY <1>1, <1>2
<1>6. ASSUME w \notin P, w \in Q PROVE Q = P \cup {w} /\ Cardinality(Q) = Cardinality(P) + 1
  <2>1. Q = P \cup {w}
    BY <1>1, <1>2, <1>6
  <2> QED BY <1>3, <1>6, <2>1, FS_AddElement
<1>7. ASSUME w \in P, w \notin Q PROVE P = Q \cup {w} /\ Cardinality(P) = Cardinality(Q) + 1
  <2>1. P = Q \cup {w}
    BY <1>1, <1>2, <1>7
  <2> QED BY <1>3, <1>7, <2>1, FS_AddElement
<1> QED BY <1>3, <1>4, <1>5, <1>6, <1>7 DEF P, Q

About(J, i, v) == J[v].step \in {"status", "history"} /\ J[v].on = i

LEMMA KnownSame ==
  ASSUME NEW t, NEW u, NEW J, NEW K, NEW i, HelpDesk!ToldOf(u) = HelpDesk!ToldOf(t), SameOwed(J, K, i)
  PROVE  Known(u, K, i) = Known(t, J, i)
<1>1. PICK S : S = Owing(J, i, "StatusChanged")
  OBVIOUS
<1>2. {K[v].rows[1].new : v \in S} = {J[v].rows[1].new : v \in S}
  BY <1>1 DEF SameOwed
<1> QED BY <1>1, <1>2 DEF Known, SameOwed

LEMMA RowsFinite ==
  ASSUME NEW t \in TicketRows, NEW a
  PROVE  IsFiniteSet(HelpDesk!Rows(t, a)) /\ Cardinality(HelpDesk!Rows(t, a)) \in Nat
<1>1. t.history \in Seq(Notes \cup Changes)
  BY DEF TicketRows
<1>2. Len(t.history) \in Nat /\ DOMAIN t.history = 1..Len(t.history)
  BY <1>1
<1>3. HelpDesk!Rows(t, a) \subseteq 1..Len(t.history)
  BY <1>2 DEF HelpDesk!Rows
<1>4. IsFiniteSet(1..Len(t.history))
  BY <1>2, FS_Interval
<1>5. IsFiniteSet(HelpDesk!Rows(t, a))
  BY <1>3, <1>4, FS_Subset
<1> QED BY <1>5, FS_CardinalityType

\* What other requests do, and what is done to other tickets, does not change it.
LEMMA Untouched ==
  ASSUME NEW t, NEW u, u.history = t.history, u.comments = t.comments, NEW J, NEW K, NEW i, NEW name, NEW one \in BOOLEAN,
         \A v \in Workers : K[v] = J[v] \/ (~About(J, i, v) /\ ~About(K, i, v)),
         Told(t, J, i, name, one)
  PROVE  Told(u, K, i, name, one)
<1>1. \A a : Owing(K, i, a) = Owing(J, i, a)
  BY DEF Owing, Owes, About
<1>2. \A v \in Workers : (Tells(K, i, v) <=> Tells(J, i, v)) /\ (Tells(J, i, v) => K[v] = J[v])
  BY DEF Tells, About
<1>3. \A a, v : v \in Owing(J, i, a) => K[v] = J[v]
  BY DEF Owing, Owes, About
<1>4. /\ \A a : HelpDesk!Rows(u, a) = HelpDesk!Rows(t, a)
      /\ HelpDesk!ToldOf(u) = HelpDesk!ToldOf(t) /\ ClosingRows(u) = ClosingRows(t)
      /\ \A n : HelpDesk!Standing(u, n) = HelpDesk!Standing(t, n)
  BY SameRows
<1>5. Known(u, K, i) = Known(t, J, i)
  <2>1. SameOwed(J, K, i)
    BY <1>1, <1>3 DEF SameOwed
  <2> QED BY <2>1, <1>4, KnownSame
<1>6. Counted(u, K, i)
  BY <1>1, <1>4 DEF Told, Counted
<1>7. Accounted(u, K, i, name)
  BY <1>2, <1>4, <1>5 DEF Told, Accounted
<1>8. ASSUME one PROVE Chained(u, K, i, name)
  BY <1>1, <1>2, <1>3, <1>4, <1>8 DEF Told, Chained
<1> QED BY <1>6, <1>7, <1>8 DEF Told

\* A request sets out to change the status, from the name it has now.
LEMMA ToldStart ==
  ASSUME NEW t, NEW J, NEW K, NEW w \in Workers, NEW i, NEW name, NEW one \in BOOLEAN,
         OnlyOf(J, K, w),
         J[w].step = "idle", K[w].step = "status", K[w].rows[1].old = name,
         one => \A v \in Workers \ {w} : J[v].step = "idle",
         Told(t, J, i, name, one)
  PROVE  Told(t, K, i, name, one)
<1> USE DEF OnlyOf
<1>1. \A a : Owing(K, i, a) = Owing(J, i, a)
  BY DEF Owing, Owes, About
<1>2. \A v \in Workers : Tells(K, i, v) => v = w \/ (Tells(J, i, v) /\ K[v] = J[v])
  BY DEF Tells
<1>3. \A a, v : v \in Owing(J, i, a) => K[v] = J[v]
  BY DEF Owing, Owes, About
<1>4. Known(t, K, i) = Known(t, J, i)
  <2>1. SameOwed(J, K, i)
    BY <1>1, <1>3 DEF SameOwed
  <2> QED BY <2>1, KnownSame
<1>5. Counted(t, K, i)
  BY <1>1 DEF Told, Counted
<1>6. Accounted(t, K, i, name)
  BY <1>2, <1>4 DEF Told, Accounted
<1>7. ASSUME one PROVE Chained(t, K, i, name)
  <2>1. \A a : Owing(J, i, a) = {}
    BY <1>7 DEF Owing, Owes, About
  <2> QED BY <1>1, <1>2, <1>7, <2>1 DEF Told, Chained
<1> QED BY <1>5, <1>6, <1>7 DEF Told

\* The status is written: its row is owed.
LEMMA ToldWritten ==
  ASSUME NEW t, NEW u, u.history = t.history, u.comments = t.comments,
         NEW J, NEW K, NEW w \in Workers, NEW i, NEW name, NEW one \in BOOLEAN,
         OnlyOf(J, K, w),
         About(J, i, w), J[w].step = "status", J[w].rows[1].action = "StatusChanged",
         K[w].step = "history", K[w].on = i, K[w].rows = J[w].rows,
         one => \A v \in Workers \ {w} : J[v].step = "idle",
         Told(t, J, i, name, one)
  PROVE  Told(u, K, i, J[w].rows[1].new, one)
<1> USE DEF OnlyOf
<1> DEFINE sc == "StatusChanged"
<1>1. \A a : a # sc => Owing(K, i, a) = Owing(J, i, a)
  BY DEF Owing, Owes, About
<1>2. Owing(K, i, sc) = Owing(J, i, sc) \cup {w} /\ w \notin Owing(J, i, sc)
  BY DEF Owing, Owes, About
<1>3. \A v \in Workers : (Tells(K, i, v) <=> Tells(J, i, v)) /\ K[v].rows = J[v].rows
  BY DEF Tells, About
<1>4. /\ \A a : HelpDesk!Rows(u, a) = HelpDesk!Rows(t, a)
      /\ HelpDesk!ToldOf(u) = HelpDesk!ToldOf(t) /\ ClosingRows(u) = ClosingRows(t)
      /\ \A n : HelpDesk!Standing(u, n) = HelpDesk!Standing(t, n)
  BY SameRows
<1>5. Known(t, J, i) \subseteq Known(u, K, i) /\ J[w].rows[1].new \in Known(u, K, i)
  <2>1. PICK S : S = Owing(J, i, sc) /\ S \subseteq Workers
    BY DEF Owing, Owes, About
  <2>2. {J[v].rows[1].new : v \in S} \subseteq {K[v].rows[1].new : v \in S \cup {w}}
    <3> SUFFICES ASSUME NEW v \in S PROVE J[v].rows[1].new \in {K[x].rows[1].new : x \in S \cup {w}}
      OBVIOUS
    <3>1. K[v].rows = J[v].rows
      BY <1>3, <2>1
    <3> QED BY <3>1
  <2>3. J[w].rows[1].new \in {K[v].rows[1].new : v \in S \cup {w}}
    BY <1>3
  <2> QED BY <1>2, <1>4, <2>1, <2>2, <2>3 DEF Known
<1>6. Counted(u, K, i)
  BY <1>1, <1>4 DEF Told, Counted
<1>7. Accounted(u, K, i, J[w].rows[1].new)
  BY <1>3, <1>4, <1>5 DEF Told, Accounted
<1>8. ASSUME one PROVE Chained(u, K, i, J[w].rows[1].new)
  <2>1. Owing(J, i, sc) = {}
    BY <1>2, <1>8 DEF Owing, Owes, About
  <2> QED BY <1>2, <1>3, <1>4, <1>8, <2>1 DEF Told, Chained
<1> QED BY <1>6, <1>7, <1>8 DEF Told

\* The change is given up: nobody was told of it.
LEMMA ToldGivenUp ==
  ASSUME NEW t, NEW J, NEW K, NEW w \in Workers, NEW i, NEW name, NEW one \in BOOLEAN,
         OnlyOf(J, K, w),
         J[w].step \in {"status", "insert"}, K[w].step = "idle",
         Told(t, J, i, name, one)
  PROVE  Told(t, K, i, name, one)
<1> USE DEF OnlyOf
<1>1. \A a : Owing(K, i, a) = Owing(J, i, a)
  BY DEF Owing, Owes, About
<1>2. \A v \in Workers : Tells(K, i, v) => Tells(J, i, v) /\ K[v] = J[v]
  BY DEF Tells
<1>3. \A a, v : v \in Owing(J, i, a) => K[v] = J[v]
  BY DEF Owing, Owes, About
<1>4. Known(t, K, i) = Known(t, J, i)
  <2>1. SameOwed(J, K, i)
    BY <1>1, <1>3 DEF SameOwed
  <2> QED BY <2>1, KnownSame
<1>5. Counted(t, K, i) /\ Accounted(t, K, i, name)
  BY <1>1, <1>2, <1>4 DEF Told, Counted, Accounted
<1>6. ASSUME one PROVE Chained(t, K, i, name)
  <2>1. Chained(t, J, i, name)
    BY <1>6 DEF Told
  <2>2. Owing(K, i, "StatusChanged") = Owing(J, i, "StatusChanged")
    BY <1>1
  <2>3. \A v \in Owing(J, i, "StatusChanged") : K[v] = J[v]
    BY <1>3
  <2>4. ASSUME NEW v \in Workers, Tells(K, i, v) PROVE K[v].rows[1].old = HelpDesk!Standing(t, Len(t.history) + 1)
    <3>1. Tells(J, i, v) /\ K[v] = J[v]
      BY <1>2, <2>4
    <3>2. J[v].rows[1].old = HelpDesk!Standing(t, Len(t.history) + 1)
      BY <2>1, <3>1 DEF Chained
    <3> QED BY <3>1, <3>2
  <2>5. ASSUME NEW v \in Owing(K, i, "StatusChanged") PROVE name = K[v].rows[1].new
    <3>1. v \in Owing(J, i, "StatusChanged") /\ K[v] = J[v]
      BY <2>2, <2>3
    <3>2. name = J[v].rows[1].new
      BY <2>1, <3>1 DEF Chained
    <3> QED BY <3>1, <3>2
  <2> QED BY <2>1, <2>2, <2>4, <2>5 DEF Chained
<1> QED BY <1>5, <1>6 DEF Told

\* A comment is stored: its row is owed.
LEMMA ToldComment ==
  ASSUME NEW t \in TicketRows, NEW u, u.history = t.history, u.comments = t.comments + 1,
         NEW J, NEW K, NEW w \in Workers, NEW i, NEW name, NEW one \in BOOLEAN,
         OnlyOf(J, K, w),
         ~About(J, i, w), Owes(K[w], i, "CommentAdded"),
         Told(t, J, i, name, one)
  PROVE  Told(u, K, i, name, one)
<1> USE DEF OnlyOf
<1>0. PICK ca : ca = "CommentAdded"
  OBVIOUS
<1>1. \A a : a # ca => Owing(K, i, a) = Owing(J, i, a)
  BY <1>0 DEF Owing, Owes, About
<1>2. w \notin Owing(J, i, ca) /\ w \in Owing(K, i, ca)
  BY <1>0 DEF Owing, Owes, About
<1>3. /\ Cardinality(Owing(K, i, ca)) = Cardinality(Owing(J, i, ca)) + 1
      /\ Cardinality(Owing(J, i, ca)) \in Nat /\ Cardinality(Owing(K, i, ca)) \in Nat
  <2> HIDE DEF OnlyOf
  <2>1. /\ IsFiniteSet(Owing(J, i, ca)) /\ Cardinality(Owing(J, i, ca)) \in Nat /\ Cardinality(Owing(K, i, ca)) \in Nat
        /\ (w \in Owing(J, i, ca) <=> w \in Owing(K, i, ca)) => Owing(K, i, ca) = Owing(J, i, ca)
        /\ w \notin Owing(J, i, ca) /\ w \in Owing(K, i, ca) =>
             /\ Owing(K, i, ca) = Owing(J, i, ca) \cup {w}
             /\ Cardinality(Owing(K, i, ca)) = Cardinality(Owing(J, i, ca)) + 1
        /\ w \in Owing(J, i, ca) /\ w \notin Owing(K, i, ca) =>
             /\ Owing(J, i, ca) = Owing(K, i, ca) \cup {w}
             /\ Cardinality(Owing(J, i, ca)) = Cardinality(Owing(K, i, ca)) + 1
    BY OwingStep
  <2> QED BY <1>2, <2>1
<1>4. \A v \in Workers : (Tells(K, i, v) <=> Tells(J, i, v)) /\ (Tells(J, i, v) => K[v] = J[v])
  BY DEF Tells, Owes, About
<1>5. \A v : v \in Owing(J, i, "StatusChanged") => K[v] = J[v]
  BY DEF Owing, Owes, About
<1>6. /\ \A a : HelpDesk!Rows(u, a) = HelpDesk!Rows(t, a)
      /\ HelpDesk!ToldOf(u) = HelpDesk!ToldOf(t) /\ ClosingRows(u) = ClosingRows(t)
      /\ \A n : HelpDesk!Standing(u, n) = HelpDesk!Standing(t, n)
  BY SameRows
<1>7. Known(u, K, i) = Known(t, J, i)
  <2>1. SameOwed(J, K, i)
    BY <1>0, <1>1, <1>5 DEF SameOwed
  <2> QED BY <2>1, <1>6, KnownSame
<1>8. Counted(u, K, i)
  <2>1. Cardinality(HelpDesk!Rows(t, ca)) \in Nat
    BY RowsFinite
  <2>2. Cardinality(HelpDesk!Rows(t, ca)) + Cardinality(Owing(J, i, ca)) = t.comments
    BY <1>0 DEF Told, Counted
  <2>3. Cardinality(HelpDesk!Rows(u, ca)) + Cardinality(Owing(K, i, ca)) = u.comments
    <3>1. Cardinality(HelpDesk!Rows(u, ca)) = Cardinality(HelpDesk!Rows(t, ca))
      BY <1>6
    <3> QED BY <1>3, <2>1, <2>2, <3>1
  <2> QED BY <1>0, <1>1, <1>6, <2>3 DEF Told, Counted
<1>9. Accounted(u, K, i, name)
  BY <1>4, <1>6, <1>7 DEF Told, Accounted
<1>10. ASSUME one PROVE Chained(u, K, i, name)
  <2>1. Chained(t, J, i, name)
    BY <1>10 DEF Told
  <2>2. Owing(K, i, "StatusChanged") = Owing(J, i, "StatusChanged")
    BY <1>0, <1>1
  <2>3. \A v \in Owing(J, i, "StatusChanged") : K[v] = J[v]
    BY <1>5
  <2>4. HelpDesk!Rows(u, "StatusChanged") = HelpDesk!Rows(t, "StatusChanged")
    BY <1>6
  <2>5. ASSUME NEW v \in Workers, Tells(K, i, v) PROVE K[v].rows[1].old = HelpDesk!Standing(u, Len(u.history) + 1)
    <3>1. Tells(J, i, v) /\ K[v] = J[v]
      BY <1>4, <2>5
    <3>2. J[v].rows[1].old = HelpDesk!Standing(t, Len(t.history) + 1)
      BY <2>1, <3>1 DEF Chained
    <3> QED BY <1>6, <3>1, <3>2
  <2>6. ASSUME NEW v \in Owing(K, i, "StatusChanged") PROVE name = K[v].rows[1].new
    <3>1. v \in Owing(J, i, "StatusChanged") /\ K[v] = J[v]
      BY <2>2, <2>3
    <3>2. name = J[v].rows[1].new
      BY <2>1, <3>1 DEF Chained
    <3> QED BY <3>1, <3>2
  <2>7. \A k \in HelpDesk!Rows(u, "StatusChanged") : u.history[k].old = HelpDesk!Standing(u, k)
    BY <1>6, <2>1, <2>4 DEF Chained
  <2>8. Owing(K, i, "StatusChanged") = {} => name = HelpDesk!Standing(u, Len(u.history) + 1)
    BY <1>6, <2>1, <2>2 DEF Chained
  <2> QED BY <2>5, <2>6, <2>7, <2>8 DEF Chained
<1> QED BY <1>8, <1>9, <1>10 DEF Told

\* A ticket that was just stored, with the request that will tell of it.
LEMMA ToldNew ==
  ASSUME NEW t \in TicketRows, t.comments = 0, t.history = <<>>, NEW K, NEW w \in Workers, NEW i, NEW one \in BOOLEAN,
         \A v \in Workers \ {w} : ~About(K, i, v),
         Owes(K[w], i, "TicketCreated")
  PROVE  Told(t, K, i, "Open", one)
<1>1. \A a : a # "TicketCreated" => Owing(K, i, a) = {}
  BY DEF Owing, Owes, About
<1>2. Owing(K, i, "TicketCreated") = {w}
  BY DEF Owing, Owes, About
<1>3. \A a : HelpDesk!Rows(t, a) = {}
  <2>1. PICK h : h = t.history /\ h = <<>>
    OBVIOUS
  <2>2. DOMAIN h = {}
    BY <2>1
  <2> QED BY <2>1, <2>2 DEF HelpDesk!Rows
<1>4. ClosingRows(t) = {} /\ HelpDesk!ToldOf(t) = {"Open"}
  BY <1>3 DEF ClosingRows, HelpDesk!ToldOf
<1>5. Cardinality({}) = 0 /\ Cardinality({w}) = 1
  BY FS_EmptySet, FS_Singleton
<1>6. Counted(t, K, i)
  <2>1. Owing(K, i, "CommentAdded") = {} /\ Owing(K, i, "TicketClosed") = {}
    BY <1>1
  <2>2. \A a : Cardinality(HelpDesk!Rows(t, a)) = 0
    BY <1>3, <1>5
  <2>3. Cardinality(HelpDesk!Rows(t, "TicketCreated")) + Cardinality(Owing(K, i, "TicketCreated")) = 1
    <3>1. Cardinality(HelpDesk!Rows(t, "TicketCreated")) = 0 /\ Cardinality(Owing(K, i, "TicketCreated")) = 1
      BY <1>2, <1>5, <2>2
    <3> QED BY ONLY <3>1
  <2>4. Cardinality(HelpDesk!Rows(t, "CommentAdded")) + Cardinality(Owing(K, i, "CommentAdded")) = t.comments
    <3>1. /\ Cardinality(HelpDesk!Rows(t, "CommentAdded")) = 0 /\ Cardinality(Owing(K, i, "CommentAdded")) = 0
          /\ t.comments = 0
      BY <1>5, <2>1, <2>2
    <3> QED BY ONLY <3>1
  <2>5. Cardinality(HelpDesk!Rows(t, "TicketClosed")) + Cardinality(Owing(K, i, "TicketClosed")) = Cardinality(ClosingRows(t))
    <3>1. /\ Cardinality(HelpDesk!Rows(t, "TicketClosed")) = 0 /\ Cardinality(Owing(K, i, "TicketClosed")) = 0
          /\ Cardinality(ClosingRows(t)) = 0
      BY <1>4, <1>5, <2>1, <2>2
    <3> QED BY ONLY <3>1
  <2> QED BY <2>3, <2>4, <2>5 DEF Counted
<1>7. \A v \in Workers : ~Tells(K, i, v)
  BY DEF Tells, Owes, About
<1>8. Accounted(t, K, i, "Open")
  BY <1>3, <1>4, <1>7 DEF Accounted, Known
<1>9. HelpDesk!Standing(t, Len(t.history) + 1) = "Open"
  BY <1>3 DEF HelpDesk!Standing
<1>10. Chained(t, K, i, "Open")
  BY <1>1, <1>3, <1>7, <1>9 DEF Chained
<1> QED BY <1>6, <1>8, <1>10 DEF Told

\* One more row is told.
LEMMA ToldMore ==
  ASSUME NEW t \in TicketRows, NEW u \in TicketRows, NEW r \in Notes \cup Changes,
         u.history = Append(t.history, r), u.comments = t.comments,
         NEW J, NEW K, NEW w \in Workers, NEW i, NEW name, NEW one \in BOOLEAN,
         OnlyOf(J, K, w), Owes(J[w], i, r.action), J[w].rows[1] = r,
         \A a : Owes(K[w], i, a) <=> a = "TicketClosed" /\ r \in Changes /\ r.new \in HelpDesk!Closing,
         ~Tells(K, i, w),
         one => \A v \in Workers \ {w} : J[v].step = "idle",
         Told(t, J, i, name, one)
  PROVE  Told(u, K, i, name, one)
<1>a. PICK n \in Nat : n = Len(t.history)
  <2>1. Len(t.history) \in Nat
    BY MoreRows
  <2> QED BY <2>1
<1>1. /\ n \in Nat /\ Len(u.history) = n + 1
      /\ \A a : /\ HelpDesk!Rows(t, a) \subseteq 1..n /\ IsFiniteSet(HelpDesk!Rows(t, a))
                /\ r.action = a => HelpDesk!Rows(u, a) = HelpDesk!Rows(t, a) \cup {n + 1}
                /\ r.action # a => HelpDesk!Rows(u, a) = HelpDesk!Rows(t, a)
      /\ u.history[n + 1] = r
      /\ \A k \in 1..n : u.history[k] = t.history[k]
  <2>1. /\ Len(t.history) \in Nat /\ Len(u.history) = Len(t.history) + 1
        /\ \A a : /\ HelpDesk!Rows(t, a) \subseteq 1..Len(t.history) /\ IsFiniteSet(HelpDesk!Rows(t, a))
                  /\ r.action = a => HelpDesk!Rows(u, a) = HelpDesk!Rows(t, a) \cup {Len(t.history) + 1}
                  /\ r.action # a => HelpDesk!Rows(u, a) = HelpDesk!Rows(t, a)
        /\ u.history[Len(t.history) + 1] = r
        /\ \A k \in 1..Len(t.history) : u.history[k] = t.history[k]
    <3>1. t \in TicketRows /\ u \in TicketRows /\ r \in Notes \cup Changes /\ u.history = Append(t.history, r)
      OBVIOUS
    <3> QED BY ONLY <3>1, MoreRows, Zenon
  <2> QED BY <1>a, <2>1
<1>2. \A a : r.action = a => Cardinality(HelpDesk!Rows(u, a)) = Cardinality(HelpDesk!Rows(t, a)) + 1
  <2> SUFFICES ASSUME NEW a, r.action = a PROVE Cardinality(HelpDesk!Rows(u, a)) = Cardinality(HelpDesk!Rows(t, a)) + 1
    OBVIOUS
  <2>1. n + 1 \notin HelpDesk!Rows(t, a) /\ HelpDesk!Rows(u, a) = HelpDesk!Rows(t, a) \cup {n + 1} /\ IsFiniteSet(HelpDesk!Rows(t, a))
    BY <1>1
  <2>2. Cardinality(HelpDesk!Rows(t, a) \cup {n + 1}) = Cardinality(HelpDesk!Rows(t, a)) + 1
    <3>1. PICK S : S = HelpDesk!Rows(t, a) /\ IsFiniteSet(S) /\ n + 1 \notin S
      BY <2>1
    <3>2. Cardinality(S \cup {n + 1}) = Cardinality(S) + 1
      BY <3>1, FS_AddElement
    <3> QED BY <3>1, <3>2
  <2> QED BY <2>1, <2>2
<1>3. \A a : Cardinality(HelpDesk!Rows(t, a)) \in Nat /\ Cardinality(Owing(J, i, a)) \in Nat /\ Cardinality(Owing(K, i, a)) \in Nat
  BY RowsFinite, OwingStep
<1>4. \A a : /\ w \in Owing(J, i, a) <=> a = r.action
             /\ w \in Owing(K, i, a) <=> (a = "TicketClosed" /\ r \in Changes /\ r.new \in HelpDesk!Closing)
  BY DEF Owing, Owes
<1>5. r.action \in {"TicketCreated", "CommentAdded", "TicketClosed", "StatusChanged"}
      /\ (r.action = "StatusChanged" <=> r \in Changes)
  BY DEF Notes, Changes
<1>6. \A v \in Workers : Tells(K, i, v) => v # w /\ Tells(J, i, v) /\ K[v] = J[v]
  BY DEF Tells, OnlyOf
<1>7. Counted(u, K, i)
  <2>1. /\ Cardinality(HelpDesk!Rows(t, "TicketCreated")) + Cardinality(Owing(J, i, "TicketCreated")) = 1
        /\ Cardinality(HelpDesk!Rows(t, "CommentAdded")) + Cardinality(Owing(J, i, "CommentAdded")) = t.comments
        /\ Cardinality(HelpDesk!Rows(t, "TicketClosed")) + Cardinality(Owing(J, i, "TicketClosed")) = Cardinality(ClosingRows(t))
    BY DEF Told, Counted
  <2>2. ASSUME NEW a, a # "TicketClosed"
        PROVE  Cardinality(HelpDesk!Rows(u, a)) + Cardinality(Owing(K, i, a)) = Cardinality(HelpDesk!Rows(t, a)) + Cardinality(Owing(J, i, a))
    <3>1. CASE r.action = a
      <4>1. w \in Owing(J, i, a) /\ w \notin Owing(K, i, a)
        BY <1>4, <2>2, <3>1
      <4>2. Cardinality(Owing(J, i, a)) = Cardinality(Owing(K, i, a)) + 1
        BY <4>1, OwingStep
      <4> QED BY <1>2, <1>3, <3>1, <4>2
    <3>2. CASE r.action # a
      <4>1. w \notin Owing(J, i, a) /\ w \notin Owing(K, i, a)
        BY <1>4, <2>2, <3>2
      <4>2. Owing(J, i, a) = Owing(K, i, a)
        BY <4>1, OwingStep
      <4> QED BY <1>1, <3>2, <4>2
    <3> QED BY <3>1, <3>2
  <2>3. Cardinality(HelpDesk!Rows(u, "TicketClosed")) + Cardinality(Owing(K, i, "TicketClosed")) = Cardinality(ClosingRows(u))
    <3>0. Cardinality(HelpDesk!Rows(t, "TicketClosed")) \in Nat /\ Cardinality(Owing(J, i, "TicketClosed")) \in Nat
          /\ Cardinality(Owing(K, i, "TicketClosed")) \in Nat
      BY <1>3
    <3>1. CASE r.action = "TicketClosed"
      <4>1. w \in Owing(J, i, "TicketClosed") /\ w \notin Owing(K, i, "TicketClosed")
        BY <1>4, <1>5, <3>1
      <4>2. Cardinality(Owing(J, i, "TicketClosed")) = Cardinality(Owing(K, i, "TicketClosed")) + 1
        BY <4>1, OwingStep
      <4>3. ClosingRows(u) = ClosingRows(t)
        BY <3>1, MoreTold
      <4>4. Cardinality(HelpDesk!Rows(u, "TicketClosed")) = Cardinality(HelpDesk!Rows(t, "TicketClosed")) + 1
        BY <1>2, <3>1
      <4> QED BY <2>1, <3>0, <4>2, <4>3, <4>4
    <3>2. CASE r \in Changes /\ r.new \in HelpDesk!Closing
      <4>1. w \notin Owing(J, i, "TicketClosed") /\ w \in Owing(K, i, "TicketClosed")
        BY <1>4, <1>5, <3>2
      <4>2. Cardinality(Owing(K, i, "TicketClosed")) = Cardinality(Owing(J, i, "TicketClosed")) + 1
        BY <4>1, OwingStep
      <4>3. ClosingRows(u) = ClosingRows(t) \cup {n + 1}
        BY <1>a, <1>5, <3>2, MoreTold
      <4>4. HelpDesk!Rows(u, "TicketClosed") = HelpDesk!Rows(t, "TicketClosed")
        BY <1>1, <1>5, <3>2
      <4>5. Cardinality(ClosingRows(u)) = Cardinality(ClosingRows(t)) + 1
        <5>1. ClosingRows(t) \subseteq HelpDesk!Rows(t, "StatusChanged") /\ n + 1 \notin HelpDesk!Rows(t, "StatusChanged")
              /\ IsFiniteSet(HelpDesk!Rows(t, "StatusChanged"))
          BY <1>1 DEF ClosingRows
        <5>2. IsFiniteSet(ClosingRows(t)) /\ n + 1 \notin ClosingRows(t)
          BY <5>1, FS_Subset
        <5> QED BY <4>3, <5>2, FS_AddElement
      <4> QED BY <2>1, <3>0, <4>2, <4>4, <4>5
    <3>3. CASE r.action # "TicketClosed" /\ ~(r \in Changes /\ r.new \in HelpDesk!Closing)
      <4>1. w \notin Owing(J, i, "TicketClosed") /\ w \notin Owing(K, i, "TicketClosed")
        BY <1>4, <3>3
      <4>2. Owing(J, i, "TicketClosed") = Owing(K, i, "TicketClosed")
        BY <4>1, OwingStep
      <4>3. ClosingRows(u) = ClosingRows(t)
        BY <1>5, <3>3, MoreTold
      <4>4. HelpDesk!Rows(u, "TicketClosed") = HelpDesk!Rows(t, "TicketClosed")
        BY <1>1, <3>3
      <4> QED BY <2>1, <4>2, <4>3, <4>4
    <3> QED BY <3>1, <3>2, <3>3
  <2>4. Cardinality(HelpDesk!Rows(u, "TicketCreated")) + Cardinality(Owing(K, i, "TicketCreated")) = 1
    BY <2>1, <2>2
  <2>5. Cardinality(HelpDesk!Rows(u, "CommentAdded")) + Cardinality(Owing(K, i, "CommentAdded")) = u.comments
    BY <2>1, <2>2
  <2> QED BY <2>3, <2>4, <2>5 DEF Counted
\* Names that were known stay known: a row that is told is no longer owed.
<1>8. Known(t, J, i) \subseteq Known(u, K, i)
  <2>1. PICK S : S = Owing(J, i, "StatusChanged")
    OBVIOUS
  <2>2. PICK T : T = Owing(K, i, "StatusChanged")
    OBVIOUS
  <2>3. \A v \in S \ {w} : K[v] = J[v] /\ v \in T
    BY <2>1, <2>2 DEF Owing, OnlyOf
  <2>4. HelpDesk!ToldOf(t) \subseteq HelpDesk!ToldOf(u)
    BY <1>5, MoreTold
  <2>5. ASSUME NEW v \in S PROVE J[v].rows[1].new \in HelpDesk!ToldOf(u) \cup {K[x].rows[1].new : x \in T}
    <3>1. CASE v = w
      <4>1. r.action = "StatusChanged"
        BY <1>4, <2>1, <2>5, <3>1
      <4> QED BY <3>1, <4>1, MoreTold
    <3>2. CASE v # w
      BY <2>3, <2>5, <3>2
    <3> QED BY <3>1, <3>2
  <2>6. Known(t, J, i) = HelpDesk!ToldOf(t) \cup {J[v].rows[1].new : v \in S}
    BY <2>1 DEF Known
  <2>7. Known(u, K, i) = HelpDesk!ToldOf(u) \cup {K[v].rows[1].new : v \in T}
    BY <2>2 DEF Known
  <2> QED BY <2>4, <2>5, <2>6, <2>7
<1>9. Accounted(u, K, i, name)
  <2>1. name \in Known(u, K, i)
    BY <1>8 DEF Told, Accounted
  <2>2. ASSUME NEW k \in HelpDesk!Rows(u, "StatusChanged") PROVE u.history[k].old \in Known(u, K, i)
    <3>1. CASE k \in HelpDesk!Rows(t, "StatusChanged")
      BY <1>1, <1>8, <3>1 DEF Told, Accounted
    <3>2. CASE k = n + 1 /\ r.action = "StatusChanged"
      <4>1. Tells(J, i, w)
        BY <3>2 DEF Tells, Owes
      <4>2. r.old \in Known(t, J, i)
        BY <4>1 DEF Told, Accounted
      <4> QED BY <1>1, <1>8, <3>2, <4>2
    <3> QED BY <1>1, <3>1, <3>2
  <2>3. ASSUME NEW v \in Workers, Tells(K, i, v) PROVE K[v].rows[1].old \in Known(u, K, i)
    <3>1. Tells(J, i, v) /\ K[v] = J[v]
      BY <1>6, <2>3
    <3>2. J[v].rows[1].old \in Known(t, J, i)
      BY <3>1 DEF Told, Accounted
    <3> QED BY <1>8, <3>1, <3>2
  <2> QED BY <2>1, <2>2, <2>3 DEF Accounted
<1>10. ASSUME one PROVE Chained(u, K, i, name)
  <2>1. Chained(t, J, i, name)
    BY <1>10 DEF Told
  <2>2. \A v \in Workers : ~Tells(K, i, v)
    BY <1>6, <1>10 DEF Tells
  <2>3. Owing(K, i, "StatusChanged") = {}
    BY <2>2 DEF Owing, Owes, Tells
  <2>4. ASSUME NEW k \in HelpDesk!Rows(u, "StatusChanged") PROVE u.history[k].old = HelpDesk!Standing(u, k)
    <3>1. CASE k \in HelpDesk!Rows(t, "StatusChanged")
      <4>1. u.history[k] = t.history[k] /\ t.history[k].old = HelpDesk!Standing(t, k) /\ k \in 1..(n + 1)
        BY <1>1, <2>1, <3>1 DEF Chained
      <4>2. HelpDesk!Standing(u, k) = HelpDesk!Standing(t, k)
        BY <1>a, <4>1, MoreTold
      <4> QED BY <4>1, <4>2
    <3>2. CASE k = n + 1 /\ r.action = "StatusChanged"
      <4>1. Tells(J, i, w)
        BY <3>2 DEF Tells, Owes
      <4>2. r.old = HelpDesk!Standing(t, n + 1)
        BY <1>a, <2>1, <4>1 DEF Chained
      <4>3. n + 1 \in 1..(n + 1)
        BY <1>1
      <4>4. HelpDesk!Standing(u, n + 1) = HelpDesk!Standing(t, n + 1)
        BY <1>a, <4>3, MoreTold
      <4> QED BY <1>1, <3>2, <4>2, <4>4
    <3> QED BY <1>1, <3>1, <3>2
  <2>5. name = HelpDesk!Standing(u, Len(u.history) + 1)
    <3>1. CASE r.action = "StatusChanged"
      <4>1. w \in Owing(J, i, "StatusChanged")
        BY <1>4, <3>1
      <4>2. name = r.new
        BY <2>1, <4>1 DEF Chained
      <4> QED BY <3>1, <4>2, MoreTold
    <3>2. CASE r.action # "StatusChanged"
      <4>1. Owing(J, i, "StatusChanged") = {}
        <5>1. w \notin Owing(J, i, "StatusChanged")
          BY <1>4, <3>2
        <5> QED BY <1>10, <5>1 DEF Owing, Owes
      <4>2. name = HelpDesk!Standing(t, Len(t.history) + 1)
        BY <2>1, <4>1 DEF Chained
      <4> QED BY <3>2, <4>2, MoreTold
    <3> QED BY <3>1, <3>2
  <2> QED BY <2>2, <2>3, <2>4, <2>5 DEF Chained
<1> QED BY <1>7, <1>9, <1>10 DEF Told

\* With one request at a time, a request that begins is alone.
LEMMA AllIdle ==
  ASSUME deskMode.workers = 1, Cardinality(HelpDesk!Busy) < deskMode.workers
  PROVE  \A v \in Workers : job[v] = HelpDesk!Idle
<1>1. HelpDesk!Busy \subseteq Workers
  BY DEF HelpDesk!Busy
<1>2. IsFiniteSet(HelpDesk!Busy) /\ Cardinality(HelpDesk!Busy) \in Nat
  BY <1>1, DeskAssumption, FS_Subset, FS_CardinalityType
<1>3. Cardinality(HelpDesk!Busy) = 0
  BY <1>2
<1>4. HelpDesk!Busy = {}
  BY <1>2, <1>3, FS_EmptySet
<1> QED BY <1>4 DEF HelpDesk!Busy

\* What is told of the other tickets.
LEMMA OthersTold ==
  ASSUME UNCHANGED <<deskMode, status>>, NEW w \in Workers, OnlyOf(job, job', w), NEW k \in DOMAIN tickets,
         ~About(job, k, w), ~About(job', k, w), tickets'[k] = tickets[k], Story(k)
  PROVE  Told(tickets'[k], job', k, status'[tickets'[k].status].name, deskMode'.workers = 1)
<1>1. PICK one \in BOOLEAN : one = (deskMode.workers = 1)
  OBVIOUS
<1>2. Told(tickets[k], job, k, status[tickets[k].status].name, one)
  BY <1>1 DEF Story, HelpDesk!NameOf
<1>3. \A v \in Workers : job'[v] = job[v] \/ (~About(job, k, v) /\ ~About(job', k, v))
  BY DEF OnlyOf
<1>4. Told(tickets[k], job', k, status[tickets[k].status].name, one)
  BY <1>2, <1>3, Untouched
<1> QED BY <1>1, <1>4

\* What remains to be shown of each step: the ticket it is about, and what is under way.
LEMMA StoryGoesOn ==
  ASSUME DeskInv, StoryInv, Telling, UNCHANGED <<deskMode, HelpDesk!settings>>, NEW w \in Workers, NEW j, HelpDesk!Goes(w, j),
         NEW i, ~About(job, i, w) => job[w].step \in {"idle", "insert"},
         j = HelpDesk!Idle \/ j.step = "insert" \/ (j.step \in {"status", "history"} /\ j.on = i),
         j.step = "status" => j.rows[1].new = HelpDesk!NameOf(j.status),
         DOMAIN tickets' \subseteq DOMAIN tickets \cup {i},
         \A k \in DOMAIN tickets \ {i} : tickets'[k] = tickets[k],
         i \in DOMAIN tickets' =>
           Told(tickets'[i], job', i, HelpDesk!NameOf(tickets'[i].status), deskMode.workers = 1),
         job[w] = HelpDesk!Idle => Cardinality(HelpDesk!Busy) < deskMode.workers
  PROVE  StoryInv'
<1>1. job'[w] = j /\ OnlyOf(job, job', w)
  BY GoesOn DEF DeskInv, OnlyOf
<1>2. /\ \A k \in DOMAIN tickets : Story(k)
      /\ \A v \in Workers : job[v].step = "status" => job[v].rows[1].new = HelpDesk!NameOf(job[v].status)
      /\ deskMode.workers = 1 => \A v, x \in HelpDesk!Busy : v = x
  BY DEF StoryInv
<1>3. deskMode' = deskMode /\ status' = status
  BY DEF HelpDesk!settings
<1>4. ASSUME NEW k \in DOMAIN tickets'
      PROVE  Told(tickets'[k], job', k, status'[tickets'[k].status].name, deskMode'.workers = 1)
  <2>1. CASE k = i
    BY <1>3, <1>4, <2>1 DEF HelpDesk!NameOf
  <2>2. CASE k # i
    <3>1. k \in DOMAIN tickets /\ tickets'[k] = tickets[k]
      BY <1>4, <2>2
    <3>2. ~About(job, k, w)
      BY <2>2 DEF About
    <3>3. ~About(job', k, w)
      BY <1>1, <2>2 DEF About, HelpDesk!Idle
    <3> QED BY <1>1, <1>2, <1>3, <3>1, <3>2, <3>3, OthersTold
  <2> QED BY <2>1, <2>2
<1>5. ASSUME NEW v \in Workers, job'[v].step = "status"
      PROVE  job'[v].rows[1].new = status'[job'[v].status].name
  <2>1. CASE v = w
    BY <1>1, <1>3, <1>5, <2>1 DEF HelpDesk!NameOf
  <2>2. CASE v # w
    BY <1>1, <1>2, <1>3, <1>5, <2>2 DEF OnlyOf, HelpDesk!NameOf
  <2> QED BY <2>1, <2>2
<1>6. ASSUME deskMode.workers = 1, NEW v \in Workers, NEW x \in Workers, job'[v] # HelpDesk!Idle, job'[x] # HelpDesk!Idle PROVE v = x
  <2>1. CASE job[w] = HelpDesk!Idle
    <3>1. \A z \in Workers : job[z] = HelpDesk!Idle
      BY <1>6, <2>1, AllIdle
    <3> QED BY <1>1, <1>6, <3>1 DEF OnlyOf
  <2>2. CASE job[w] # HelpDesk!Idle
    BY <1>1, <1>2, <1>6, <2>2 DEF OnlyOf, HelpDesk!Busy
  <2> QED BY <2>1, <2>2
<1>7. (\A k \in DOMAIN tickets : Story(k))'
  BY <1>4 DEF Story, HelpDesk!NameOf
<1>8. (\A v \in Workers : job[v].step = "status" => job[v].rows[1].new = HelpDesk!NameOf(job[v].status))'
  BY <1>5 DEF HelpDesk!NameOf
<1>9. (deskMode.workers = 1 => \A v, x \in HelpDesk!Busy : v = x)'
  BY <1>3, <1>6 DEF HelpDesk!Busy
<1> QED BY <1>7, <1>8, <1>9 DEF StoryInv

LEMMA StoryInvInit == HelpDesk!Init => StoryInv
<1> SUFFICES ASSUME HelpDesk!Init PROVE StoryInv
  OBVIOUS
<1>1. tickets = <<>> /\ \A w \in Workers : job[w] = HelpDesk!Idle
  BY DEF HelpDesk!Init
<1>2. DOMAIN tickets = {} /\ HelpDesk!Busy = {}
  BY <1>1 DEF HelpDesk!Busy
<1>3. \A w \in Workers : job[w].step # "status"
  BY <1>1 DEF HelpDesk!Idle
<1> QED BY <1>2, <1>3 DEF StoryInv

LEMMA StorySettings ==
  ASSUME DeskInv, StoryInv, HelpDesk!Settings
  PROVE  StoryInv'
<1>1. UNCHANGED <<deskMode, tickets, job>> /\ (deskMode.settings # "status" => status' = status)
  BY SettingsKeep DEF DeskInv
<1> QED BY <1>1 DEF StoryInv, Telling, Story, HelpDesk!NameOf, HelpDesk!Busy

\* Who is alone with the ticket, when one request runs at a time.
LEMMA OnlyOne ==
  ASSUME StoryInv, Telling, NEW w \in Workers, job[w] # HelpDesk!Idle, DeskInv
  PROVE  deskMode.workers = 1 => \A v \in Workers \ {w} : job[v].step = "idle"
<1>1. \A v \in Workers : job[v].step = "idle" <=> job[v] = HelpDesk!Idle
  BY JobShapes DEF DeskInv, DeskTyped
<1> QED BY <1>1 DEF StoryInv, HelpDesk!Busy

LEMMA StoryRaise ==
  ASSUME DeskInv, OpenThere, StoryInv, Telling, NEW w \in Workers, NEW e \in DeskEmployees, NEW c \in DeskCategories,
         NEW y \in DeskTypes, NEW p \in DeskPriorities, HelpDesk!RaiseTicket(w, e, c, y, p)
  PROVE  StoryInv'
<1>1. job[w] = HelpDesk!Idle /\ Cardinality(HelpDesk!Busy) < deskMode.workers /\ UNCHANGED <<deskMode, HelpDesk!settings, tickets>>
  BY DEF HelpDesk!RaiseTicket, HelpDesk!Free, HelpDesk!Cardinality, Cardinality
<1>2. PICK t : HelpDesk!Goes(w, [step |-> "insert", ticket |-> t])
  BY DEF HelpDesk!RaiseTicket
<1> DEFINE j == [step |-> "insert", ticket |-> t]
<1>3. PICK i : i \notin DOMAIN tickets
  <2>1. PICK n \in Nat : DOMAIN tickets = 1..n
    BY DEF DeskInv, DeskTyped
  <2>2. n + 1 \notin 1..n
    OBVIOUS
  <2> QED BY <2>1, <2>2
<1>4. j.step = "insert" /\ HelpDesk!Goes(w, j)
  BY <1>2
<1>5. job[w].step = "idle"
  BY <1>1 DEF HelpDesk!Idle
<1> HIDE DEF j
<1>6. UNCHANGED <<deskMode, HelpDesk!settings>> /\ tickets' = tickets
  BY <1>1
<1> QED BY <1>1, <1>3, <1>4, <1>5, <1>6, StoryGoesOn

LEMMA StoryInsert ==
  ASSUME DeskInv, StoryInv, Telling, NEW w \in Workers, HelpDesk!InsertTicket(w)
  PROVE  StoryInv'
<1>1. UNCHANGED <<deskMode, HelpDesk!settings>> /\ job[w].step = "insert" /\ job[w].ticket \in TicketRows /\ job[w] # HelpDesk!Idle
  BY Inserted DEF HelpDesk!Idle
<1>2. PICK n \in Nat : n = Len(tickets) /\ DOMAIN tickets = 1..n /\ tickets \in Seq(TicketRows)
  BY DEF DeskInv, DeskTyped
<1>3. n + 1 \notin DOMAIN tickets
  BY <1>2
<1>4. CASE UNCHANGED tickets /\ HelpDesk!Goes(w, HelpDesk!Idle)
  BY <1>1, <1>3, <1>4, StoryGoesOn DEF HelpDesk!Idle
<1>5. CASE /\ tickets' = Append(tickets, job[w].ticket) /\ HelpDesk!Insertable(job[w].ticket)
           /\ job[w].ticket.number = HelpDesk!FirstNumber + Len(tickets)
           /\ HelpDesk!Goes(w, [step |-> "history", on |-> Len(tickets) + 1, rows |-> <<[action |-> "TicketCreated"]>>])
  <2>1. PICK t \in TicketRows : t = job[w].ticket
    BY <1>1
  <2>2. /\ DOMAIN tickets' = 1..(n + 1) /\ tickets'[n + 1] = t /\ \A k \in DOMAIN tickets : tickets'[k] = tickets[k]
    BY <1>2, <1>5, <2>1, Appended
  <2>3. t.comments = 0 /\ t.history = <<>> /\ HelpDesk!NameOf(t.status) = "Open" /\ status' = status
    BY <1>1, <2>1 DEF DeskInv, InsertReady, Telling, HelpDesk!settings
  <2>4. PICK j : j = [step |-> "history", on |-> n + 1, rows |-> <<[action |-> "TicketCreated"]>>]
    OBVIOUS
  <2>5. j.step = "history" /\ j.on = n + 1 /\ Owes(j, n + 1, "TicketCreated") /\ HelpDesk!Goes(w, j)
    BY <1>2, <1>5, <2>4 DEF Owes
  <2>6. job'[w] = j /\ OnlyOf(job, job', w)
    BY <2>5, GoesOn DEF DeskInv, OnlyOf
  <2>7. \A v \in Workers \ {w} : ~About(job', n + 1, v)
    <3>1. ASSUME NEW v \in Workers \ {w} PROVE ~About(job', n + 1, v)
      <4>1. job[v].step \in {"status", "history"} => job[v].on \in DOMAIN tickets
        BY JobShapes DEF DeskInv, DeskTyped
      <4> QED BY <1>3, <2>6, <4>1 DEF About, OnlyOf
    <3> QED BY <3>1
  <2>8. PICK one \in BOOLEAN : one = (deskMode.workers = 1)
    OBVIOUS
  <2>9. Told(t, job', n + 1, "Open", one)
    <3>1. Owes(job'[w], n + 1, "TicketCreated")
      BY <2>5, <2>6
    <3> QED BY <2>3, <2>7, <3>1, ToldNew
  <2>10. Told(tickets'[n + 1], job', n + 1, HelpDesk!NameOf(tickets'[n + 1].status), deskMode.workers = 1)
    BY <2>2, <2>3, <2>8, <2>9
  <2>11. DOMAIN tickets' \subseteq DOMAIN tickets \cup {n + 1} /\ \A k \in DOMAIN tickets \ {n + 1} : tickets'[k] = tickets[k]
    BY <1>2, <2>2
  <2> QED BY <1>1, <2>5, <2>10, <2>11, StoryGoesOn
<1> QED BY <1>4, <1>5, Inserted

LEMMA StoryAsked ==
  ASSUME DeskInv, StoryInv, Telling, NEW w \in Workers, NEW e \in DeskEmployees, NEW i \in DOMAIN tickets,
         NEW s \in DeskStatuses, HelpDesk!UpdateTicketStatus(w, e, i, s)
  PROVE  StoryInv'
<1>1. /\ job[w] = HelpDesk!Idle /\ Cardinality(HelpDesk!Busy) < deskMode.workers
      /\ \E rs \in ChangeRows :
           /\ rs[1].old = HelpDesk!NameOf(tickets[i].status) /\ rs[1].new = HelpDesk!NameOf(s)
           /\ HelpDesk!Goes(w, [step |-> "status", on |-> i, status |-> s, rows |-> rs])
           /\ UNCHANGED <<deskMode, HelpDesk!settings, tickets>>
  BY StatusAsked
<1>2. PICK rs \in ChangeRows :
        /\ rs[1].old = HelpDesk!NameOf(tickets[i].status) /\ rs[1].new = HelpDesk!NameOf(s)
        /\ HelpDesk!Goes(w, [step |-> "status", on |-> i, status |-> s, rows |-> rs])
        /\ UNCHANGED <<deskMode, HelpDesk!settings, tickets>>
  BY <1>1
<1>3. PICK j : j = [step |-> "status", on |-> i, status |-> s, rows |-> rs]
  OBVIOUS
<1>4. j.step = "status" /\ j.on = i /\ j.status = s /\ j.rows = rs /\ HelpDesk!Goes(w, j)
  BY <1>2, <1>3
<1>5. job'[w] = j /\ OnlyOf(job, job', w)
  BY <1>4, GoesOn DEF DeskInv, OnlyOf
<1>6. PICK one \in BOOLEAN : one = (deskMode.workers = 1)
  OBVIOUS
<1>7. job[w].step = "idle" /\ (one => \A v \in Workers \ {w} : job[v].step = "idle")
  <2>1. HelpDesk!Idle.step = "idle"
    BY DEF HelpDesk!Idle
  <2>2. one => \A v \in Workers : job[v] = HelpDesk!Idle
    BY <1>1, <1>6, AllIdle
  <2> QED BY <1>1, <2>1, <2>2
<1>8. Told(tickets[i], job, i, HelpDesk!NameOf(tickets[i].status), one)
  BY <1>6 DEF StoryInv, Story
<1>9. Told(tickets[i], job', i, HelpDesk!NameOf(tickets[i].status), one)
  <2>1. job'[w].step = "status" /\ job'[w].rows[1].old = HelpDesk!NameOf(tickets[i].status)
    BY <1>2, <1>4, <1>5
  <2> QED BY <1>5, <1>7, <1>8, <2>1, ToldStart
<1>10. tickets' = tickets /\ status' = status /\ UNCHANGED <<deskMode, HelpDesk!settings>>
  BY <1>2 DEF HelpDesk!settings
<1>11. Told(tickets'[i], job', i, HelpDesk!NameOf(tickets'[i].status), deskMode.workers = 1)
  BY <1>6, <1>9, <1>10
<1> QED BY <1>1, <1>2, <1>4, <1>7, <1>10, <1>11, StoryGoesOn

LEMMA StoryWritten ==
  ASSUME DeskInv, StoryInv, Telling, NEW w \in Workers, HelpDesk!WriteStatus(w)
  PROVE  StoryInv'
<1>1. /\ UNCHANGED <<deskMode, HelpDesk!settings>> /\ job[w].step = "status" /\ job[w].on \in DOMAIN tickets
      /\ job[w].status \in DeskStatuses /\ job[w].rows \in ChangeRows /\ job[w] # HelpDesk!Idle
  <2>1. job[w].step = "status"
    BY DEF HelpDesk!WriteStatus
  <2>2. job[w] # HelpDesk!Idle
    BY <2>1 DEF HelpDesk!Idle
  <2> QED BY <2>2, StatusWritten
<1>2. PICK i \in DOMAIN tickets : i = job[w].on
  BY <1>1
<1>3. PICK one \in BOOLEAN : one = (deskMode.workers = 1)
  OBVIOUS
<1>4. Told(tickets[i], job, i, HelpDesk!NameOf(tickets[i].status), one)
  BY <1>3 DEF StoryInv, Story
<1>5. status' = status
  BY <1>1 DEF HelpDesk!settings
<1>6. CASE UNCHANGED tickets /\ HelpDesk!Goes(w, HelpDesk!Idle)
  <2>1. job'[w] = HelpDesk!Idle /\ OnlyOf(job, job', w)
    BY <1>6, GoesOn DEF DeskInv, OnlyOf
  <2>2. job'[w].step = "idle"
    BY <2>1 DEF HelpDesk!Idle
  <2>3. Told(tickets[i], job', i, HelpDesk!NameOf(tickets[i].status), one)
    BY <1>1, <1>4, <2>1, <2>2, ToldGivenUp
  <2>4. Told(tickets'[i], job', i, HelpDesk!NameOf(tickets'[i].status), deskMode.workers = 1)
    BY <1>3, <1>5, <1>6, <2>3
  <2>5. About(job, i, w) /\ HelpDesk!Idle.step # "status"
    BY <1>1, <1>2 DEF About, HelpDesk!Idle
  <2> QED BY <1>1, <1>6, <2>4, <2>5, StoryGoesOn
<1>7. CASE /\ tickets' = [tickets EXCEPT ![job[w].on].status = job[w].status]
           /\ HelpDesk!Goes(w, [step |-> "history", on |-> job[w].on, rows |-> job[w].rows])
  <2>1. PICK j : j = [step |-> "history", on |-> i, rows |-> job[w].rows]
    OBVIOUS
  <2>2. j.step = "history" /\ j.on = i /\ j.rows = job[w].rows /\ HelpDesk!Goes(w, j)
    BY <1>2, <1>7, <2>1
  <2>3. job'[w] = j /\ OnlyOf(job, job', w)
    BY <2>2, GoesOn DEF DeskInv, OnlyOf
  <2>4. PICK t \in TicketRows : t = tickets[i]
    BY DEF DeskInv, DeskTyped
  <2>5. PICK u : u = [t EXCEPT !.status = job[w].status]
    OBVIOUS
  <2>6. u.status = job[w].status /\ u.history = t.history /\ u.comments = t.comments
    BY <1>1, <2>5, StatusRow
  <2>7. /\ tickets'[i] = u /\ DOMAIN tickets' = DOMAIN tickets
        /\ \A k \in DOMAIN tickets \ {i} : tickets'[k] = tickets[k]
    <3>1. tickets \in Seq(TicketRows)
      BY DEF DeskInv, DeskTyped
    <3>2. tickets' = [tickets EXCEPT ![i] = u]
      BY <1>2, <1>7, <2>4, <2>5
    <3> QED BY <3>1, <3>2
  <2>8. About(job, i, w) /\ job[w].rows[1].action = "StatusChanged"
    <3>1. job[w].rows[1] \in Changes
      BY <1>1, PendingShape DEF PendingRows
    <3> QED BY <1>1, <1>2, <3>1 DEF About, Changes
  <2>9. one => \A v \in Workers \ {w} : job[v].step = "idle"
    BY <1>1, <1>3, OnlyOne
  <2>10. Told(u, job', i, job[w].rows[1].new, one)
    BY <1>1, <1>4, <2>2, <2>3, <2>4, <2>6, <2>8, <2>9, ToldWritten
  <2>11. job[w].rows[1].new = HelpDesk!NameOf(u.status)
    BY <1>1, <2>6 DEF StoryInv
  <2>12. Told(tickets'[i], job', i, HelpDesk!NameOf(tickets'[i].status), deskMode.workers = 1)
    BY <1>3, <1>5, <2>7, <2>10, <2>11
  <2> QED BY <1>1, <2>2, <2>7, <2>8, <2>12, StoryGoesOn
<1> QED BY <1>6, <1>7, StatusWritten

LEMMA StoryComment ==
  ASSUME DeskInv, StoryInv, Telling, NEW w \in Workers, NEW e \in DeskEmployees, NEW i \in DOMAIN tickets,
         HelpDesk!AddComment(w, e, i)
  PROVE  StoryInv'
<1>1. /\ job[w] = HelpDesk!Idle /\ Cardinality(HelpDesk!Busy) < deskMode.workers /\ UNCHANGED <<deskMode, HelpDesk!settings>>
      /\ tickets' = [tickets EXCEPT ![i].comments = @ + 1]
      /\ HelpDesk!Goes(w, [step |-> "history", on |-> i, rows |-> <<[action |-> "CommentAdded"]>>])
  BY DEF HelpDesk!AddComment, HelpDesk!Free, HelpDesk!Cardinality, Cardinality
<1>2. PICK j : j = [step |-> "history", on |-> i, rows |-> <<[action |-> "CommentAdded"]>>]
  OBVIOUS
<1>3. j.step = "history" /\ j.on = i /\ Owes(j, i, "CommentAdded") /\ HelpDesk!Goes(w, j)
  BY <1>1, <1>2 DEF Owes
<1>4. job'[w] = j /\ OnlyOf(job, job', w)
  BY <1>3, GoesOn DEF DeskInv, OnlyOf
<1>5. PICK one \in BOOLEAN : one = (deskMode.workers = 1)
  OBVIOUS
<1>6. PICK t \in TicketRows : t = tickets[i]
  BY DEF DeskInv, DeskTyped
<1>7. PICK u : u = [t EXCEPT !.comments = @ + 1]
  OBVIOUS
<1>8. u.status = t.status /\ u.history = t.history /\ u.comments = t.comments + 1
  BY <1>7, CommentRow
<1>9. /\ tickets'[i] = u /\ DOMAIN tickets' = DOMAIN tickets
      /\ \A k \in DOMAIN tickets \ {i} : tickets'[k] = tickets[k]
  <2>1. tickets \in Seq(TicketRows)
    BY DEF DeskInv, DeskTyped
  <2>2. tickets' = [tickets EXCEPT ![i] = u]
    BY <1>1, <1>6, <1>7
  <2> QED BY <2>1, <2>2
<1>10. Told(t, job, i, HelpDesk!NameOf(t.status), one)
  BY <1>5, <1>6 DEF StoryInv, Story
<1>11. ~About(job, i, w) /\ job[w].step = "idle"
  BY <1>1 DEF About, HelpDesk!Idle
<1>12. Told(u, job', i, HelpDesk!NameOf(t.status), one)
  <2>1. Owes(job'[w], i, "CommentAdded")
    BY <1>3, <1>4
  <2> QED BY <1>4, <1>8, <1>10, <1>11, <2>1, ToldComment
<1>13. Told(tickets'[i], job', i, HelpDesk!NameOf(tickets'[i].status), deskMode.workers = 1)
  <2>1. status' = status
    BY <1>1 DEF HelpDesk!settings
  <2> QED BY <1>5, <1>8, <1>9, <1>12, <2>1
<1> QED BY <1>1, <1>3, <1>9, <1>11, <1>13, StoryGoesOn

LEMMA StoryAdded ==
  ASSUME DeskInv, StoryInv, Telling, NEW w \in Workers, HelpDesk!AddHistory(w)
  PROVE  StoryInv'
<1>1. /\ UNCHANGED <<deskMode, HelpDesk!settings>> /\ job[w].step = "history" /\ job[w].on \in DOMAIN tickets
      /\ job[w].rows \in PendingRows /\ job[w] # HelpDesk!Idle
      /\ tickets' = [tickets EXCEPT ![job[w].on].history = Append(@, job[w].rows[1])]
  <2>1. job[w].step = "history"
    BY DEF HelpDesk!AddHistory
  <2>2. job[w] # HelpDesk!Idle
    BY <2>1 DEF HelpDesk!Idle
  <2> QED BY <2>2, HistoryAdded
<1>2. PICK i \in DOMAIN tickets : i = job[w].on
  BY <1>1
<1>3. PICK r \in Notes \cup Changes : r = job[w].rows[1]
  BY <1>1, PendingShape
<1>4. PICK j : /\ HelpDesk!Goes(w, j) /\ (j = HelpDesk!Idle \/ (j.step = "history" /\ j.on = i))
               /\ \A a : Owes(j, i, a) <=> (a = "TicketClosed" /\ r \in Changes /\ r.new \in HelpDesk!Closing)
  <2>1. Len(job[w].rows) = 2 <=> (r \in Changes /\ r.new \in HelpDesk!Closing)
    BY <1>1, <1>3, PendingShape
  <2>2. CASE Len(job[w].rows) = 1 /\ HelpDesk!Goes(w, HelpDesk!Idle)
    <3>1. \A a : ~Owes(HelpDesk!Idle, i, a)
      BY DEF Owes, HelpDesk!Idle
    <3> QED BY <2>1, <2>2, <3>1
  <2>3. CASE Len(job[w].rows) = 2 /\ HelpDesk!Goes(w, [step |-> "history", on |-> job[w].on, rows |-> <<ClosedNote>>])
    <3>1. PICK j : j = [step |-> "history", on |-> i, rows |-> <<ClosedNote>>]
      OBVIOUS
    <3>2. HelpDesk!Goes(w, j) /\ j.step = "history" /\ j.on = i /\ \A a : Owes(j, i, a) <=> a = "TicketClosed"
      BY <1>2, <2>3, <3>1 DEF Owes, ClosedNote
    <3> QED BY <2>1, <2>3, <3>2
  <2> QED BY <2>2, <2>3, HistoryAdded
<1>5. job'[w] = j /\ OnlyOf(job, job', w)
  BY <1>4, GoesOn DEF DeskInv, OnlyOf
<1>6. PICK one \in BOOLEAN : one = (deskMode.workers = 1)
  OBVIOUS
<1>7. PICK t \in TicketRows : t = tickets[i]
  BY DEF DeskInv, DeskTyped
<1>8. PICK u \in TicketRows : u = [t EXCEPT !.history = Append(@, r)]
  BY <1>3, HistoryRow
<1>9. u.status = t.status /\ u.history = Append(t.history, r) /\ u.comments = t.comments
  BY <1>8, HistoryRow
<1>10. /\ tickets'[i] = u /\ DOMAIN tickets' = DOMAIN tickets
       /\ \A k \in DOMAIN tickets \ {i} : tickets'[k] = tickets[k]
  <2>1. tickets \in Seq(TicketRows)
    BY DEF DeskInv, DeskTyped
  <2>2. tickets' = [tickets EXCEPT ![i] = u]
    BY <1>1, <1>2, <1>3, <1>7, <1>8
  <2> QED BY <2>1, <2>2
<1>11. Told(t, job, i, HelpDesk!NameOf(t.status), one)
  BY <1>6, <1>7 DEF StoryInv, Story
<1>12. About(job, i, w) /\ Owes(job[w], i, r.action)
  BY <1>1, <1>2, <1>3 DEF About, Owes
<1>13. j.step # "status" /\ ~Tells(job', i, w)
  <2>1. j.step # "status"
    BY <1>4 DEF HelpDesk!Idle
  <2>2. ~Owes(j, i, "StatusChanged")
    BY <1>4
  <2> QED BY <1>4, <1>5, <2>1, <2>2 DEF Tells, Owes, HelpDesk!Idle
<1>14. one => \A v \in Workers \ {w} : job[v].step = "idle"
  BY <1>1, <1>6, OnlyOne
<1>15. Told(u, job', i, HelpDesk!NameOf(t.status), one)
  <2>1. \A a : Owes(job'[w], i, a) <=> (a = "TicketClosed" /\ r \in Changes /\ r.new \in HelpDesk!Closing)
    BY <1>4, <1>5
  <2> QED BY <1>3, <1>5, <1>9, <1>11, <1>12, <1>13, <1>14, <2>1, ToldMore
<1>16. Told(tickets'[i], job', i, HelpDesk!NameOf(tickets'[i].status), deskMode.workers = 1)
  <2>1. status' = status
    BY <1>1 DEF HelpDesk!settings
  <2> QED BY <1>6, <1>9, <1>10, <1>15, <2>1
<1> QED BY <1>1, <1>4, <1>10, <1>12, <1>13, <1>16, StoryGoesOn

LEMMA StoryInvNext ==
  ASSUME DeskInv, OpenThere, StoryInv, [HelpDesk!Next]_HelpDesk!vars
  PROVE  StoryInv'
<1>1. CASE UNCHANGED HelpDesk!vars
  BY <1>1 DEF HelpDesk!vars, HelpDesk!settings, StoryInv, Telling, Story, HelpDesk!NameOf, HelpDesk!Busy
<1>2. CASE HelpDesk!Settings
  BY <1>2, StorySettings
<1>3. CASE HelpDesk!Next /\ ~HelpDesk!Settings /\ ~Telling
  <2>1. deskMode' = deskMode
    BY <1>3 DEF HelpDesk!Next, HelpDesk!RaiseTicket, HelpDesk!AddComment, HelpDesk!UpdateTicketStatus, HelpDesk!InsertTicket, HelpDesk!WriteStatus, HelpDesk!AddHistory, HelpDesk!Crash
  <2> QED BY <1>3, <2>1 DEF StoryInv, Telling
<1>4. CASE HelpDesk!Next /\ ~HelpDesk!Settings /\ Telling
  <2>1. ASSUME NEW w \in Workers, NEW e \in DeskEmployees, NEW c \in DeskCategories, NEW y \in DeskTypes, NEW p \in DeskPriorities,
               HelpDesk!RaiseTicket(w, e, c, y, p)
        PROVE  StoryInv'
    BY <1>4, <2>1, StoryRaise
  <2>2. ASSUME NEW w \in Workers, NEW e \in DeskEmployees, NEW i \in DOMAIN tickets, HelpDesk!AddComment(w, e, i) PROVE StoryInv'
    BY <1>4, <2>2, StoryComment
  <2>3. ASSUME NEW w \in Workers, NEW e \in DeskEmployees, NEW i \in DOMAIN tickets, NEW s \in DeskStatuses,
               HelpDesk!UpdateTicketStatus(w, e, i, s)
        PROVE  StoryInv'
    BY <1>4, <2>3, StoryAsked
  <2>4. ASSUME NEW w \in Workers, HelpDesk!InsertTicket(w) \/ HelpDesk!WriteStatus(w) \/ HelpDesk!AddHistory(w) PROVE StoryInv'
    BY <1>4, <2>4, StoryInsert, StoryWritten, StoryAdded
  <2>5. ASSUME NEW w \in Workers, HelpDesk!Crash(w) PROVE StoryInv'
    BY <1>4, <2>5 DEF HelpDesk!Crash, Telling
  <2> QED BY <1>4, <2>1, <2>2, <2>3, <2>4, <2>5 DEF HelpDesk!Next
<1> QED BY <1>1, <1>2, <1>3, <1>4

\* With nobody at work on a ticket, what was done to it has been told.
LEMMA StoryTells == DeskInv /\ StoryInv => HelpDesk!TicketsSound
<1> SUFFICES ASSUME DeskInv, StoryInv PROVE HelpDesk!HistoryTells
  BY DEF DeskInv, HelpDesk!TicketsSound
<1> SUFFICES ASSUME NEW i \in DOMAIN tickets, deskMode.settings # "status", ~deskMode.crash,
                    \A w \in HelpDesk!Busy : job[w].step = "insert" \/ job[w].on # i
             PROVE  LET t == tickets[i] IN
                    /\ HelpDesk!NameOf(t.status) \in HelpDesk!ToldOf(t)
                    /\ \A k \in HelpDesk!Rows(t, "StatusChanged") : t.history[k].old \in HelpDesk!ToldOf(t)
                    /\ Cardinality(HelpDesk!Rows(t, "TicketCreated")) = 1 /\ Cardinality(HelpDesk!Rows(t, "CommentAdded")) = t.comments
                    /\ Cardinality(HelpDesk!Rows(t, "TicketClosed")) =
                         Cardinality({k \in HelpDesk!Rows(t, "StatusChanged") : t.history[k].new \in HelpDesk!Closing})
                    /\ deskMode.workers = 1 =>
                         /\ \A k \in HelpDesk!Rows(t, "StatusChanged") : t.history[k].old = HelpDesk!Standing(t, k)
                         /\ HelpDesk!NameOf(t.status) = HelpDesk!Standing(t, Len(t.history) + 1)
  BY DEF HelpDesk!HistoryTells, HelpDesk!Cardinality, Cardinality
<1>1. PICK t \in TicketRows : t = tickets[i]
  BY DEF DeskInv, DeskTyped
<1>2. Counted(t, job, i) /\ Accounted(t, job, i, HelpDesk!NameOf(t.status))
      /\ (deskMode.workers = 1 => Chained(t, job, i, HelpDesk!NameOf(t.status)))
  BY <1>1 DEF StoryInv, Telling, Story, Told
<1>3. \A a : Owing(job, i, a) = {}
  BY DEF Owing, Owes, HelpDesk!Busy, HelpDesk!Idle
<1>4. Cardinality({}) = 0 /\ \A a : Cardinality(HelpDesk!Rows(t, a)) \in Nat
  BY RowsFinite, FS_EmptySet
<1>5. Known(t, job, i) = HelpDesk!ToldOf(t)
  BY <1>3 DEF Known
<1>6. /\ Cardinality(HelpDesk!Rows(t, "TicketCreated")) = 1 /\ Cardinality(HelpDesk!Rows(t, "CommentAdded")) = t.comments
      /\ Cardinality(HelpDesk!Rows(t, "TicketClosed")) = Cardinality(ClosingRows(t))
  BY <1>2, <1>3, <1>4 DEF Counted
<1>7. HelpDesk!NameOf(t.status) \in HelpDesk!ToldOf(t) /\ \A k \in HelpDesk!Rows(t, "StatusChanged") : t.history[k].old \in HelpDesk!ToldOf(t)
  BY <1>2, <1>5 DEF Accounted
<1>8. deskMode.workers = 1 =>
        /\ \A k \in HelpDesk!Rows(t, "StatusChanged") : t.history[k].old = HelpDesk!Standing(t, k)
        /\ HelpDesk!NameOf(t.status) = HelpDesk!Standing(t, Len(t.history) + 1)
  BY <1>2, <1>3 DEF Chained
<1> QED BY <1>1, <1>6, <1>7, <1>8 DEF ClosingRows

\* Whatever the parts of the portfolio do, the help desk goes the way Tickets says.
LEMMA DeskSteps == [RacesNext]_<<part, vars, chart, leaving, desk, lists>> => [HelpDesk!Next]_HelpDesk!vars
BY DEF RacesNext, ApprovalStep, ChartStep, LeavingStep, DeskStep, ListsStep, desk, HelpDesk!vars, HelpDesk!settings

\* For any employees, settings and numbers of requests at a time: ticket numbers have no
\* gap and no duplicate, what a ticket refers to is there, and the history accounts for the
\* status, the comments and the closings once the requests on a ticket have ended; with one
\* request at a time its rows are a chain from Open to the present status.
THEOREM TicketsSoundCorrect == RacesSpec => []TicketsSound
<1>1. RacesInit => DeskInv /\ OpenThere /\ StoryInv
  BY DeskInvInit, OpenThereInit, StoryInvInit DEF RacesInit
<1>2. (DeskInv /\ OpenThere /\ StoryInv) /\ [RacesNext]_<<part, vars, chart, leaving, desk, lists>>
      => (DeskInv /\ OpenThere /\ StoryInv)'
  BY DeskSteps, DeskInvNext, StoryInvNext
<1>3. DeskInv /\ StoryInv => TicketsSound
  BY StoryTells DEF TicketsSound
<1> QED BY <1>1, <1>2, <1>3, PTL DEF RacesSpec
===============================================================================
