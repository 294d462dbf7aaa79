---------------------------------- MODULE Tickets ----------------------------------
(* The help desk: its settings, tickets that employees raise, the handlers of a       *)
(* category who move them on, and the history that is kept of it. A request commits   *)
(* its changes one by one; several run at once, and one may die between two commits.  *)
EXTENDS Integers, Sequences, FiniteSets, FiniteSetsExt

CONSTANTS Employees, Admins,
          Categories, Types, Priorities, Statuses,   \* the rows there may be
          Names,                                      \* the names they are given, "Open" among them
          Workers,        \* requests that run at once
          Modes           \* bound: [settings, crash, workers, tickets, history], what is used together,
                          \* how many tickets are raised and how much happens to each

VARIABLES mode,
          category,   \* [row, name, active]
          type,       \* [row, category, name, active]
          priority,   \* [row, name, active]
          status,     \* [row, name, active]
          handler,    \* handler[c][e]: "NONE", "ACTIVE" or "INACTIVE"
          tickets,    \* in the order of their insertion
          job         \* job[w]: what request w is about to do

settings == <<category, type, priority, status, handler>>
vars == <<mode, settings, tickets, job>>

FirstNumber == 101
Closing == {"Closed", "Resolved"}
NoRow == [row |-> FALSE, name |-> "Open", active |-> FALSE]
Row(name) == [row |-> TRUE, name |-> name, active |-> TRUE]
Idle == [step |-> "idle"]
Busy == {w \in Workers : job[w] # Idle}
NameOf(s) == status[s].name

TypeRow(c, name) == [category |-> c, row |-> TRUE, name |-> name, active |-> TRUE]

\* One category with one type and one handler, one priority, and a status of each name.
Init ==
  /\ mode \in Modes
  /\ LET c == CHOOSE x \in Categories : TRUE
         y == CHOOSE x \in Types : TRUE
         p == CHOOSE x \in Priorities : TRUE
         e == CHOOSE x \in Employees : x \notin Admins
         n == CHOOSE f \in [Statuses -> Names] : \A m \in Names : \E s \in Statuses : f[s] = m IN
       /\ category = [x \in Categories |-> IF x = c THEN Row("Open") ELSE NoRow]
       /\ type = [x \in Types |-> [TypeRow(c, "Open") EXCEPT !.row = (x = y)]]
       /\ priority = [x \in Priorities |-> IF x = p THEN Row("Open") ELSE NoRow]
       /\ handler = [x \in Categories |-> [z \in Employees |-> IF x = c /\ z = e THEN "ACTIVE" ELSE "NONE"]]
       /\ status = [s \in Statuses |-> Row(n[s])]
  /\ tickets = <<>>
  /\ job = [w \in Workers |-> Idle]

Goes(w, step) == job' = [job EXCEPT ![w] = step]
Free(w) == job[w] = Idle /\ Cardinality(Busy) < mode.workers

-----------------------------------------------------------------------------
(* Settings: each is one transaction; rows that a ticket uses cannot be deleted *)

Named(table, x, name) == \E y \in DOMAIN table \ {x} : table[y].row /\ table[y].name = name
Used(field, x) == \E i \in DOMAIN tickets : tickets[i][field] = x
TypeNamed(y, c, name) == \E z \in Types \ {y} : type[z].row /\ type[z].category = c /\ type[z].name = name

CreateCategory(c, n) ==
  /\ ~category[c].row /\ ~Named(category, c, n)
  /\ category' = [category EXCEPT ![c] = Row(n)]
  /\ UNCHANGED <<type, priority, status, handler>>
UpdateCategory(c, n, active) ==
  /\ category[c].row /\ ~Named(category, c, n)
  /\ category' = [category EXCEPT ![c].name = n, ![c].active = active]
  /\ UNCHANGED <<type, priority, status, handler>>

\* Its types and handlers go with it.
DeleteCategory_used(c) ==
  /\ category[c].row
  /\ category' = [category EXCEPT ![c].row = FALSE]
  /\ type' = [y \in Types |-> IF type[y].category = c THEN [type[y] EXCEPT !.row = FALSE] ELSE type[y]]
  /\ handler' = [handler EXCEPT ![c] = [e \in Employees |-> "NONE"]]
  /\ UNCHANGED <<priority, status>>
DeleteCategory(c) ==
  /\ category[c].row /\ ~Used("category", c)
  /\ \A y \in Types : type[y].row /\ type[y].category = c => ~Used("type", y)
  /\ category' = [category EXCEPT ![c].row = FALSE]
  /\ type' = [y \in Types |-> IF type[y].category = c THEN [type[y] EXCEPT !.row = FALSE] ELSE type[y]]
  /\ handler' = [handler EXCEPT ![c] = [e \in Employees |-> "NONE"]]
  /\ UNCHANGED <<priority, status>>

CreateType(y, c, n) ==
  /\ ~type[y].row /\ category[c].row /\ ~TypeNamed(y, c, n)
  /\ type' = [type EXCEPT ![y] = TypeRow(c, n)]
  /\ UNCHANGED <<category, priority, status, handler>>
\* The category may be another one, also for a type that tickets use.
UpdateType(y, c, n, active) ==
  /\ type[y].row /\ category[c].row /\ ~TypeNamed(y, c, n)
  /\ type' = [type EXCEPT ![y].category = c, ![y].name = n, ![y].active = active]
  /\ UNCHANGED <<category, priority, status, handler>>
DeleteType(y) ==
  /\ type[y].row /\ ~Used("type", y)
  /\ type' = [type EXCEPT ![y].row = FALSE]
  /\ UNCHANGED <<category, priority, status, handler>>

CreatePriority(p, n) ==
  /\ ~priority[p].row /\ ~Named(priority, p, n)
  /\ priority' = [priority EXCEPT ![p] = Row(n)]
  /\ UNCHANGED <<category, type, status, handler>>
UpdatePriority(p, n, active) ==
  /\ priority[p].row /\ ~Named(priority, p, n)
  /\ priority' = [priority EXCEPT ![p].name = n, ![p].active = active]
  /\ UNCHANGED <<category, type, status, handler>>
DeletePriority(p) ==
  /\ priority[p].row /\ ~Used("priority", p)
  /\ priority' = [priority EXCEPT ![p].row = FALSE]
  /\ UNCHANGED <<category, type, status, handler>>

CreateStatus(s, n) ==
  /\ ~status[s].row /\ ~Named(status, s, n)
  /\ status' = [status EXCEPT ![s] = Row(n)]
  /\ UNCHANGED <<category, type, priority, handler>>
UpdateStatus(s, n, active) ==
  /\ status[s].row /\ ~Named(status, s, n)
  /\ status' = [status EXCEPT ![s].name = n, ![s].active = active]
  /\ UNCHANGED <<category, type, priority, handler>>
DeleteStatus(s) ==
  /\ status[s].row /\ ~Used("status", s)
  /\ status' = [status EXCEPT ![s].row = FALSE]
  /\ UNCHANGED <<category, type, priority, handler>>

\* A handler that was switched off is switched on again rather than inserted.
CreateHandler(c, e) ==
  /\ category[c].row /\ handler[c][e] # "ACTIVE"
  /\ handler' = [handler EXCEPT ![c][e] = "ACTIVE"]
  /\ UNCHANGED <<category, type, priority, status>>
UpdateHandlerStatus(c, e, to) ==
  /\ handler[c][e] # "NONE"
  /\ handler' = [handler EXCEPT ![c][e] = to]
  /\ UNCHANGED <<category, type, priority, status>>
DeleteHandler(c, e) == UpdateHandlerStatus(c, e, "INACTIVE")

-----------------------------------------------------------------------------
(* Raising a ticket *)

\* One above the highest number there is.
GenerateTicketNumber_fromFirst == Max({FirstNumber} \cup {tickets[i].number : i \in DOMAIN tickets}) + 1
GenerateTicketNumber == Max({FirstNumber - 1} \cup {tickets[i].number : i \in DOMAIN tickets}) + 1

\* Open, even when it is switched off; without it the first active one.
FirstStatuses ==
  LET open == {s \in Statuses : status[s].row /\ NameOf(s) = "Open"} IN
  IF open # {} THEN open ELSE {s \in Statuses : status[s].row /\ status[s].active}

RaiseTicket_anyType(w, e, c, y, p) ==
  /\ Free(w) /\ Len(tickets) < mode.tickets
  /\ category[c].row /\ category[c].active
  /\ type[y].row /\ type[y].active
  /\ priority[p].row /\ priority[p].active
  /\ \E s \in FirstStatuses :
       Goes(w, [step |-> "insert", ticket |-> [number |-> GenerateTicketNumber, category |-> c, type |-> y,
                priority |-> p, status |-> s, raisedBy |-> e, comments |-> 0, history |-> <<>>]])
  /\ UNCHANGED <<mode, settings, tickets>>

RaiseTicket(w, e, c, y, p) ==
  /\ Free(w) /\ Len(tickets) < mode.tickets
  /\ category[c].row /\ category[c].active
  /\ type[y].row /\ type[y].active /\ type[y].category = c
  /\ priority[p].row /\ priority[p].active
  /\ \E s \in FirstStatuses :
       Goes(w, [step |-> "insert", ticket |-> [number |-> GenerateTicketNumber, category |-> c, type |-> y,
                priority |-> p, status |-> s, raisedBy |-> e, comments |-> 0, history |-> <<>>]])
  /\ UNCHANGED <<mode, settings, tickets>>

\* The number is unique and the rows it refers to are still there, or the request fails.
Insertable_anyNumber(t) ==
  category[t.category].row /\ type[t.type].row /\ priority[t.priority].row /\ status[t.status].row
Insertable(t) ==
  /\ \A i \in DOMAIN tickets : tickets[i].number # t.number
  /\ category[t.category].row /\ type[t.type].row /\ priority[t.priority].row /\ status[t.status].row

InsertTicket(w) ==
  /\ job[w].step = "insert"
  /\ IF Insertable(job[w].ticket)
     THEN /\ tickets' = Append(tickets, job[w].ticket)
          /\ Goes(w, [step |-> "history", on |-> Len(tickets) + 1, rows |-> <<[action |-> "TicketCreated"]>>])
     ELSE Goes(w, Idle) /\ UNCHANGED tickets
  /\ UNCHANGED <<mode, settings>>

-----------------------------------------------------------------------------
(* Working on a ticket *)

Handles(e, i) == e \in Admins \/ handler[tickets[i].category][e] = "ACTIVE"

\* The names that the history will tell are those of this moment.
UpdateTicketStatus(w, e, i, s) ==
  /\ Free(w) /\ Len(tickets[i].history) + tickets[i].comments < mode.history
  /\ Handles(e, i)
  /\ status[s].row /\ status[s].active /\ s # tickets[i].status
  /\ Goes(w, [step |-> "status", on |-> i, status |-> s,
              rows |-> <<[action |-> "StatusChanged", old |-> NameOf(tickets[i].status), new |-> NameOf(s)]>>
                       \o IF NameOf(s) \in Closing THEN <<[action |-> "TicketClosed"]>> ELSE <<>>])
  /\ UNCHANGED <<mode, settings, tickets>>

WriteStatus_historyLost(w) ==
  /\ job[w].step = "status"
  /\ tickets' = [tickets EXCEPT ![job[w].on].status = job[w].status]
  /\ Goes(w, IF Len(job[w].rows) = 1 THEN Idle
             ELSE [step |-> "history", on |-> job[w].on, rows |-> Tail(job[w].rows)])
  /\ UNCHANGED <<mode, settings>>
WriteStatus(w) ==
  /\ job[w].step = "status"
  /\ IF status[job[w].status].row
     THEN /\ tickets' = [tickets EXCEPT ![job[w].on].status = job[w].status]
          /\ Goes(w, [step |-> "history", on |-> job[w].on, rows |-> job[w].rows])
     ELSE Goes(w, Idle) /\ UNCHANGED tickets
  /\ UNCHANGED <<mode, settings>>

\* Whoever raised the ticket or handles its category, at present or in the past.
AddComment(w, e, i) ==
  /\ Free(w) /\ Len(tickets[i].history) + tickets[i].comments < mode.history
  /\ e \in Admins \/ e = tickets[i].raisedBy \/ handler[tickets[i].category][e] # "NONE"
  /\ tickets' = [tickets EXCEPT ![i].comments = @ + 1]
  /\ Goes(w, [step |-> "history", on |-> i, rows |-> <<[action |-> "CommentAdded"]>>])
  /\ UNCHANGED <<mode, settings>>

\* Each row of history is a commit of its own.
AddHistory(w) ==
  /\ job[w].step = "history"
  /\ tickets' = [tickets EXCEPT ![job[w].on].history = Append(@, Head(job[w].rows))]
  /\ Goes(w, IF Len(job[w].rows) = 1 THEN Idle ELSE [job[w] EXCEPT !.rows = Tail(@)])
  /\ UNCHANGED <<mode, settings>>

Crash(w) == mode.crash /\ job[w] # Idle /\ Goes(w, Idle) /\ UNCHANGED <<mode, settings, tickets>>

-----------------------------------------------------------------------------

Settings ==
  /\ CASE mode.settings = "category" ->
            \E c \in Categories, n \in Names, a \in BOOLEAN :
              CreateCategory(c, n) \/ UpdateCategory(c, n, a) \/ DeleteCategory(c)
       [] mode.settings = "type" ->
            \E y \in Types, c \in Categories, n \in Names, a \in BOOLEAN :
              CreateCategory(c, n) \/ CreateType(y, c, n) \/ UpdateType(y, c, n, a) \/ DeleteType(y)
       [] mode.settings = "priority" ->
            \E p \in Priorities, n \in Names, a \in BOOLEAN :
              CreatePriority(p, n) \/ UpdatePriority(p, n, a) \/ DeletePriority(p)
       [] mode.settings = "status" ->
            \E s \in Statuses, n \in Names, a \in BOOLEAN :
              CreateStatus(s, n) \/ UpdateStatus(s, n, a) \/ DeleteStatus(s)
       [] mode.settings = "handler" ->
            \E c \in Categories, e \in Employees, to \in {"ACTIVE", "INACTIVE"} :
              CreateHandler(c, e) \/ UpdateHandlerStatus(c, e, to) \/ DeleteHandler(c, e)
       [] OTHER -> FALSE
  /\ UNCHANGED <<mode, tickets, job>>

Next ==
  \/ Settings
  \/ \E w \in Workers, e \in Employees, c \in Categories, y \in Types, p \in Priorities : RaiseTicket(w, e, c, y, p)
  \/ \E w \in Workers, e \in Employees, i \in DOMAIN tickets :
       AddComment(w, e, i) \/ \E s \in Statuses : UpdateTicketStatus(w, e, i, s)
  \/ \E w \in Workers : InsertTicket(w) \/ WriteStatus(w) \/ AddHistory(w) \/ Crash(w)

Spec == Init /\ [][Next]_vars

-----------------------------------------------------------------------------
(* Properties *)

\* Numbers follow each other without a gap in the order of the tickets, though each is
\* chosen before it is stored.
Numbered == \A i \in DOMAIN tickets : tickets[i].number = FirstNumber + i - 1

\* What a ticket refers to is there, and its type belongs to its category unless types are
\* moved to other categories.
Classified ==
  \A i \in DOMAIN tickets :
    LET t == tickets[i] IN
    /\ category[t.category].row /\ type[t.type].row /\ priority[t.priority].row /\ status[t.status].row
    /\ mode.settings # "type" => type[t.type].category = t.category

\* While statuses keep their names and no request dies, the history accounts for the status
\* once the requests on the ticket have ended, and each closing is told once. With one request
\* at a time its rows are a chain from Open to the present status.
Rows(t, action) == {k \in DOMAIN t.history : t.history[k].action = action}
ToldOf(t) == {"Open"} \cup {t.history[k].new : k \in Rows(t, "StatusChanged")}
Standing(t, n) ==
  LET before == {k \in Rows(t, "StatusChanged") : k < n} IN
  IF before = {} THEN "Open" ELSE t.history[Max(before)].new
HistoryTells ==
  \A i \in DOMAIN tickets :
    (mode.settings # "status" /\ ~mode.crash /\ \A w \in Busy : job[w].step = "insert" \/ job[w].on # i) =>
      LET t == tickets[i] IN
      /\ NameOf(t.status) \in ToldOf(t)
      /\ \A k \in Rows(t, "StatusChanged") : t.history[k].old \in ToldOf(t)
      /\ Cardinality(Rows(t, "TicketCreated")) = 1 /\ Cardinality(Rows(t, "CommentAdded")) = t.comments
      /\ Cardinality(Rows(t, "TicketClosed")) =
           Cardinality({k \in Rows(t, "StatusChanged") : t.history[k].new \in Closing})
      /\ mode.workers = 1 =>
           /\ \A k \in Rows(t, "StatusChanged") : t.history[k].old = Standing(t, k)
           /\ NameOf(t.status) = Standing(t, Len(t.history) + 1)

\* All of it.
TicketsSound == Numbered /\ Classified /\ HistoryTells
=====================================================================================
