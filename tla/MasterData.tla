-------------------------------- MODULE MasterData --------------------------------
(* The tables others choose from: clients, scopes of work, task titles, designations.  *)
(* A request reads (View), checks what it read and decides; its commit writes the       *)
(* columns it changed over the rows as they are by then, unless a unique constraint     *)
(* refuses. Names are a word in a spelling: most checks and no constraint ignore the    *)
(* spelling. Client code and name are treated alike, one is modelled; names hold no     *)
(* wildcard of LIKE.                                                                     *)
EXTENDS Integers, FiniteSets, FiniteSetsExt

CONSTANTS Ids,           \* rows of each table
          Names, Codes, Categories,
          Wide,          \* 100000: the first number that takes a sixth digit
          None, Unset,   \* no value, and a field that a request does not send
          Workers,
          Modes          \* bound: the operations used together, the rows, the requests at once,
                         \* and what updates of a client say

VARIABLES mode, clients, scopes, titles, designations,
          job            \* job[w]: the request of a thread and the rows it has read

tables == <<clients, scopes, titles, designations>>
vars == <<mode, tables, job>>

Lower(n) == n[1]

NoClient == [row |-> FALSE, name |-> None, status |-> "Active", active |-> TRUE, reason |-> None,
             signed |-> FALSE, held |-> FALSE]
NoScope == [row |-> FALSE, code |-> None, name |-> None, category |-> None, active |-> TRUE]
NoTitle == [row |-> FALSE, name |-> None, number |-> 0, active |-> TRUE]
NoDesignation == [row |-> FALSE, code |-> None, active |-> TRUE, held |-> FALSE]

Uses(operation) == operation \in mode.operations
View == [clients |-> clients, scopes |-> scopes, titles |-> titles, designations |-> designations]
Rows(table) == {i \in Ids : table[i].row}
Given(value, old) == IF value = Unset THEN old ELSE value

\* What a flush writes: the columns that differ from what was loaded.
Merge(loaded, new, current) == [c \in DOMAIN new |-> IF new[c] # loaded[c] THEN new[c] ELSE current[c]]

Idle == [op |-> "idle", id |-> None, data |-> None, view |-> None]

Init ==
  /\ mode \in Modes
  /\ clients = [i \in Ids |-> NoClient]
  /\ scopes = [i \in Ids |-> NoScope]
  /\ titles = [i \in Ids |-> NoTitle]
  /\ designations = [i \in Ids |-> NoDesignation]
  /\ job = [w \in Workers |-> Idle]

-----------------------------------------------------------------------------
(* Clients *)

NameTaken_exact(view, name, i) == \E c \in Rows(view.clients) \ {i} : view.clients[c].name = name

\* Another client has the name, whatever the spelling.
NameTaken(view, name, i) == \E c \in Rows(view.clients) \ {i} : Lower(view.clients[c].name) = Lower(name)

NewClient(name) == [NoClient EXCEPT !.row = TRUE, !.name = name]

InSync_activeForgotten(c, data) ==
  [c EXCEPT !.name = Given(data.name, @), !.reason = Given(data.reason, @), !.status = Given(data.status, @)]

\* status wins over is_active, each brings the other along, and an activation forgets
\* why the client was inactive.
InSync(c, data) ==
  LET on == data.status = "Active" \/ (data.status = Unset /\ data.active = TRUE)
      off == data.status = "Inactive" \/ (data.status = Unset /\ data.active = FALSE)
      named == [c EXCEPT !.name = Given(data.name, @), !.reason = Given(data.reason, @)]
  IN IF on THEN [named EXCEPT !.status = "Active", !.active = TRUE, !.reason = None, !.signed = FALSE]
     ELSE IF off THEN [named EXCEPT !.status = "Inactive", !.active = FALSE]
     ELSE named

Deactivates(c, new) == new.status = "Inactive" /\ c.status # "Inactive"

Explained_always(c, data) == TRUE

\* The reason of the request, or one the client has from before.
Explained(c, data) == {data.reason, c.reason} \ {Unset, None} # {}

Updated(c, data) ==
  LET new == InSync(c, data)
  IN IF Deactivates(c, new) THEN [new EXCEPT !.signed = TRUE] ELSE new

UpdateRefused(view, i, data) ==
  LET c == view.clients[i]
  IN \/ /\ data.name # Unset
        /\ Lower(data.name) # Lower(c.name)
        /\ NameTaken(view, data.name, i)
     \/ Deactivates(c, InSync(c, data)) /\ ~ Explained(c, data)

\* A deletion is soft, explains nothing, and is for a client without active projects.
Closed(c) == [c EXCEPT !.status = "Inactive", !.active = FALSE]

-----------------------------------------------------------------------------
(* Scopes of work *)

CodeTaken(table, code, i) == \E s \in Rows(table) \ {i} : table[s].code = code
PairTaken(view, name, category, i) ==
  \E s \in Rows(view.scopes) \ {i} : view.scopes[s].name = name /\ view.scopes[s].category = category

NewScope(data) == [row |-> TRUE, code |-> data.code, name |-> data.name, category |-> data.category, active |-> TRUE]
NewScopeRefused(view, data) == CodeTaken(view.scopes, data.code, None) \/ PairTaken(view, data.name, data.category, None)

ChangedScope(s, data) == [s EXCEPT !.code = Given(data.code, @), !.name = Given(data.name, @),
                                   !.category = Given(data.category, @)]

ChangeRefused_oldCategory(view, i, data) ==
  LET s == view.scopes[i]
  IN \/ data.code # Unset /\ data.code # s.code /\ CodeTaken(view.scopes, data.code, i)
     \/ data.name # Unset /\ PairTaken(view, data.name, s.category, i)

\* The name is looked at in its category only when the name is sent.
ChangeRefused(view, i, data) ==
  LET s == view.scopes[i]
  IN \/ data.code # Unset /\ data.code # s.code /\ CodeTaken(view.scopes, data.code, i)
     \/ data.name # Unset /\ PairTaken(view, data.name, Given(data.category, s.category), i)

\* A deletion asks for Task.scope_id, which the tasks do not have: it always raises.
DeleteScopeRefused == TRUE

-----------------------------------------------------------------------------
(* Task titles *)

TitleTaken_exact(view, name, i) ==
  \E t \in Rows(view.titles) \ {i} : view.titles[t].active /\ view.titles[t].name = name

\* An active row has the title, ignoring case.
TitleTaken(view, name, i) ==
  \E t \in Rows(view.titles) \ {i} : view.titles[t].active /\ Lower(view.titles[t].name) = Lower(name)

LastNumber_active(view) == Max({0} \cup {view.titles[t].number : t \in {k \in Rows(view.titles) : view.titles[k].active}})

\* max(template_code) compares text: TT-99999 is greater than TT-100000.
LastNumber(view) ==
  LET numbers == {view.titles[t].number : t \in Rows(view.titles)}
      short == {n \in numbers : n < Wide}
  IN IF short # {} THEN Max(short) ELSE IF numbers # {} THEN Max(numbers) ELSE 0

NewTitle(view, name) == [row |-> TRUE, name |-> name, number |-> LastNumber(view) + 1, active |-> TRUE]

ChangedTitle(t, data) == [t EXCEPT !.name = Given(data.name, @), !.active = Given(data.active, @)]

\* Only a new wording is looked at; whether the title becomes active is not.
TitleRefused(view, i, data) ==
  data.name # Unset /\ Lower(data.name) # Lower(view.titles[i].name) /\ TitleTaken(view, data.name, i)

-----------------------------------------------------------------------------
(* Requests *)

ScopeData == [code : Codes, name : {Lower(n) : n \in Names}, category : Categories]
ScopeChange == [code : Codes \cup {Unset}, name : {Lower(n) : n \in Names} \cup {Unset}, category : Categories \cup {Unset}]
TitleChange == [name : Names \cup {Unset}, active : BOOLEAN \cup {Unset}]

\* A thread takes a request and reads.
Read(w, op, i, data) ==
  /\ Uses(op) /\ job[w] = Idle
  /\ Cardinality({v \in Workers : job[v] # Idle}) < mode.requests
  /\ job' = [job EXCEPT ![w] = [op |-> op, id |-> i, data |-> data, view |-> View]]
  /\ UNCHANGED <<mode, tables>>

Request(w) ==
  \/ \E n \in Names : Read(w, "createClient", None, n)
  \/ \E i \in Rows(clients), d \in mode.updates : Read(w, "updateClient", i, d)
  \/ \E i \in Rows(clients) : Read(w, "deleteClient", i, None)
  \/ \E d \in ScopeData : Read(w, "createScope", None, d)
  \/ \E i \in Rows(scopes), d \in ScopeChange : Read(w, "updateScope", i, d)
  \/ \E i \in Rows(scopes) : Read(w, "deleteScope", i, None)
  \/ \E n \in Names : Read(w, "createTitle", None, n)
  \/ \E i \in Rows(titles), d \in TitleChange : Read(w, "updateTitle", i, d)
  \/ \E i \in Rows(titles) : Read(w, "deleteTitle", i, None)
  \/ \E S \in SUBSET Rows(titles) \ {{}}, on \in BOOLEAN : Read(w, "bulkStatus", S, on)
  \/ \E c \in Codes : Read(w, "createDesignation", None, c)
  \/ \E i \in Rows(designations), c \in Codes : Read(w, "updateDesignation", i, c)
  \/ \E i \in Rows(designations) : Read(w, "deleteDesignation", i, None)

\* The unique constraints, on the rows as they would be.
Unique(table, column) == \A i, k \in Rows(table) : i # k => table[i][column] # table[k][column]
Constraints_dropped(c, s, t, d) == TRUE

Constraints(c, s, t, d) == Unique(c, "name") /\ Unique(s, "code") /\ Unique(t, "number") /\ Unique(d, "code")

\* A commit, or the refusal of a constraint.
Commit(c, s, t, d) ==
  IF Constraints(c, s, t, d) THEN clients' = c /\ scopes' = s /\ titles' = t /\ designations' = d
  ELSE UNCHANGED tables
Refuse == UNCHANGED tables

Fresh(table) == CHOOSE i \in Ids : ~ table[i].row
Room(table) == Cardinality(Rows(table)) < mode.rows

\* What was loaded with the changes, flushed over row i of the table.
Flushed(loaded, new, table, i) == [table EXCEPT ![i] = Merge(loaded[i], new, @)]

CreateClient(w) ==
  /\ job[w].op = "createClient"
  /\ IF NameTaken(job[w].view, job[w].data, None) \/ ~ Room(clients) THEN Refuse
     ELSE Commit([clients EXCEPT ![Fresh(clients)] = NewClient(job[w].data)], scopes, titles, designations)

UpdateClient(w) ==
  /\ job[w].op = "updateClient"
  /\ LET i == job[w].id  loaded == job[w].view.clients
     IN IF UpdateRefused(job[w].view, i, job[w].data) THEN Refuse
        ELSE Commit(Flushed(loaded, Updated(loaded[i], job[w].data), clients, i), scopes, titles, designations)

DeleteClient(w) ==
  /\ job[w].op = "deleteClient"
  /\ LET i == job[w].id  loaded == job[w].view.clients
     IN IF loaded[i].held THEN Refuse
        ELSE Commit(Flushed(loaded, Closed(loaded[i]), clients, i), scopes, titles, designations)

CreateScope(w) ==
  /\ job[w].op = "createScope"
  /\ IF NewScopeRefused(job[w].view, job[w].data) \/ ~ Room(scopes) THEN Refuse
     ELSE Commit(clients, [scopes EXCEPT ![Fresh(scopes)] = NewScope(job[w].data)], titles, designations)

UpdateScope(w) ==
  /\ job[w].op = "updateScope"
  /\ LET i == job[w].id  loaded == job[w].view.scopes
     IN IF ChangeRefused(job[w].view, i, job[w].data) THEN Refuse
        ELSE Commit(clients, Flushed(loaded, ChangedScope(loaded[i], job[w].data), scopes, i), titles, designations)

DeleteScope(w) == job[w].op = "deleteScope" /\ DeleteScopeRefused /\ Refuse

CreateTitle(w) ==
  /\ job[w].op = "createTitle"
  /\ IF TitleTaken(job[w].view, job[w].data, None) \/ ~ Room(titles) THEN Refuse
     ELSE Commit(clients, scopes, [titles EXCEPT ![Fresh(titles)] = NewTitle(job[w].view, job[w].data)], designations)

UpdateTitle(w) ==
  /\ job[w].op = "updateTitle"
  /\ LET i == job[w].id  loaded == job[w].view.titles
     IN IF TitleRefused(job[w].view, i, job[w].data) THEN Refuse
        ELSE Commit(clients, scopes, Flushed(loaded, ChangedTitle(loaded[i], job[w].data), titles, i), designations)

DeleteTitle(w) ==
  /\ job[w].op = "deleteTitle"
  /\ LET i == job[w].id  loaded == job[w].view.titles
     IN Commit(clients, scopes, Flushed(loaded, [loaded[i] EXCEPT !.active = FALSE], titles, i), designations)

BulkStatus(w) ==
  /\ job[w].op = "bulkStatus"
  /\ LET loaded == job[w].view.titles
     IN Commit(clients, scopes,
               [i \in Ids |-> IF i \in job[w].id
                              THEN Merge(loaded[i], [loaded[i] EXCEPT !.active = job[w].data], titles[i])
                              ELSE titles[i]], designations)

CreateDesignation(w) ==
  /\ job[w].op = "createDesignation"
  /\ IF CodeTaken(job[w].view.designations, job[w].data, None) \/ ~ Room(designations) THEN Refuse
     ELSE Commit(clients, scopes, titles, [designations EXCEPT ![Fresh(designations)] =
                                             [NoDesignation EXCEPT !.row = TRUE, !.code = job[w].data]])

UpdateDesignation(w) ==
  /\ job[w].op = "updateDesignation"
  /\ LET i == job[w].id  loaded == job[w].view.designations
     IN IF loaded[i].code # job[w].data /\ CodeTaken(loaded, job[w].data, i) THEN Refuse
        ELSE Commit(clients, scopes, titles,
                    Flushed(loaded, [loaded[i] EXCEPT !.code = job[w].data], designations, i))

DeleteDesignation_unchecked(w) ==
  /\ job[w].op = "deleteDesignation"
  /\ LET i == job[w].id  loaded == job[w].view.designations
     IN Commit(clients, scopes, titles, Flushed(loaded, [loaded[i] EXCEPT !.active = FALSE], designations, i))

DeleteDesignation(w) ==
  /\ job[w].op = "deleteDesignation"
  /\ LET i == job[w].id  loaded == job[w].view.designations
     IN IF loaded[i].held THEN Refuse
        ELSE Commit(clients, scopes, titles, Flushed(loaded, [loaded[i] EXCEPT !.active = FALSE], designations, i))

Write(w) ==
  /\ \/ CreateClient(w) \/ UpdateClient(w) \/ DeleteClient(w)
     \/ CreateScope(w) \/ UpdateScope(w) \/ DeleteScope(w)
     \/ CreateTitle(w) \/ UpdateTitle(w) \/ DeleteTitle(w) \/ BulkStatus(w)
     \/ CreateDesignation(w) \/ UpdateDesignation(w) \/ DeleteDesignation(w)
  /\ job' = [job EXCEPT ![w] = Idle]
  /\ UNCHANGED mode

\* An employee is given an active designation, or another; a client gets an active project,
\* or its last one is closed.
MayHold(row) == row.row /\ (row.active \/ row.held)
Hold(i) ==
  /\ Uses("hold")
  /\ \/ /\ MayHold(designations[i])
        /\ designations' = [designations EXCEPT ![i].held = ~ @]
        /\ UNCHANGED clients
     \/ /\ MayHold(clients[i])
        /\ clients' = [clients EXCEPT ![i].held = ~ @]
        /\ UNCHANGED designations
  /\ UNCHANGED <<mode, scopes, titles, job>>

Next == (\E w \in Workers : Request(w) \/ Write(w)) \/ (\E i \in Ids : Hold(i))

Spec == Init /\ [][Next]_vars

-----------------------------------------------------------------------------
(* Properties *)

\* The request of thread w was not overtaken: the rows are those it read.
Current(w) == job[w].view = View

Alike(table) == \E i, k \in Rows(table) : i # k /\ Lower(table[i].name) = Lower(table[k].name)
ActiveAlike(table) ==
  \E i, k \in Rows(table) : i # k /\ table[i].active /\ table[k].active /\ Lower(table[i].name) = Lower(table[k].name)
SamePair(table) ==
  \E i, k \in Rows(table) : i # k /\ table[i].name = table[k].name /\ table[i].category = table[k].category

\* "Keep status and is_active in sync": also when requests write column by column over
\* each other. As long as they do not overlap an active client has no mark of a deactivation.
StatusInStep == \A i \in Rows(clients) :
  /\ clients[i].active <=> clients[i].status = "Active"
  /\ mode.requests = 1 /\ clients[i].active => ~ clients[i].signed

\* An update that deactivates leaves a reason and a name, unless another request came
\* between its reading and its commit, or it clears the old reason that let it through.
DeactivationExplained == \A w \in Workers, i \in Ids :
  (/\ job[w].op = "updateClient" /\ job'[w] = Idle /\ Current(w)
   /\ job[w].data.reason # None
   /\ clients[i].status = "Active" /\ clients'[i].status = "Inactive")
  => clients'[i].reason # None /\ clients'[i].signed

\* Two clients come to share a name, in whatever spelling, only when a request was
\* overtaken; the constraint knows spellings apart.
ClientsTellApart == \A w \in Workers :
  (job[w] # Idle /\ job'[w] = Idle /\ Current(w) /\ ~ Alike(clients)) => ~ Alike(clients')

\* So with two active titles, apart from an activation, which nobody checks; and with
\* two scopes of a name in a category, apart from a move to the category.
TitlesTellApart == \A w \in Workers :
  (job[w] # Idle /\ job'[w] = Idle /\ Current(w) /\ ~ ActiveAlike(titles) /\ ActiveAlike(titles'))
  => job[w].op \in {"updateTitle", "bulkStatus"} /\ \E i \in Ids : ~ titles[i].active /\ titles'[i].active
ScopesTellApart == \A w \in Workers :
  (job[w] # Idle /\ job'[w] = Idle /\ Current(w) /\ ~ SamePair(scopes) /\ SamePair(scopes'))
  => job[w].op = "updateScope" /\ job[w].data.name = Unset /\ job[w].data.category # Unset

\* A new title gets a number of its own, as long as five digits are enough: afterwards
\* no title can be created any more.
TitleGetsIn == \A w \in Workers :
  (/\ job[w].op = "createTitle" /\ job'[w] = Idle /\ Current(w) /\ Room(titles)
   /\ \A i \in Rows(titles) : titles[i].number < Wide
   /\ ~ ActiveAlike(titles) /\ \A i \in Rows(titles) : titles[i].active => Lower(titles[i].name) # Lower(job[w].data))
  => titles' # titles

\* Codes and numbers stay unique whatever overlaps.
CodesUnique == /\ Unique(clients, "name") /\ Unique(scopes, "code")
               /\ Unique(titles, "number") /\ Unique(designations, "code")

\* A designation that somebody has, or a client with active projects, is deleted only when
\* the employee or the project came after the look.
HeldKept == \A w \in Workers, i \in Ids :
  job[w].op \in {"deleteClient", "deleteDesignation"} /\ job'[w] = Idle /\ Current(w) =>
    /\ designations[i].held => designations'[i].active = designations[i].active
    /\ clients[i].held => clients'[i].active = clients[i].active

ChoicesValid == StatusInStep /\ CodesUnique
ChoicesStep == /\ DeactivationExplained /\ ClientsTellApart /\ TitlesTellApart /\ ScopesTellApart
               /\ TitleGetsIn /\ HeldKept
===================================================================================
