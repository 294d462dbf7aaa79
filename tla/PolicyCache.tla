------------------------------- MODULE PolicyCache -------------------------------
(***************************************************************************)
(* The attendance rule the pages of productivity compute with:             *)
(* policy_resolver.py keeps a copy of the one row in each process, for     *)
(* TTL, and update_rule of attendance_service.py drops the copy of the     *)
(* process it runs in. The threads of a process share the copy and a lock. *)
(***************************************************************************)
EXTENDS Integers

CONSTANTS Processes, Threads, None, TTL, MaxTime, MaxChanges

VARIABLES
  rule,        \* the version of the committed row
  until,       \* history: when each earlier version was replaced
  cached,      \* _cached_rule of each process, by its version
  expiry,      \* _cache_expiry of each process
  holder,      \* the thread that holds a process's _lock
  dropped,     \* history: the newest version a process has dropped its copy for
  clock,
  request      \* what each thread is doing

vars == <<rule, until, cached, expiry, holder, dropped, clock, request>>

Idle == [op |-> "idle", process |-> None, at |-> 0, seen |-> None, known |-> 0, missed |-> FALSE]

\* The request reads the clock once, before anything else.
Begin(w, p, op) ==
  /\ request[w].op = "idle"
  /\ request' = [request EXCEPT ![w] = [Idle EXCEPT !.op = op, !.process = p, !.at = clock,
                                                    !.known = dropped[p]]]
Goes(w, op) == request' = [request EXCEPT ![w].op = op]

Stale(p, at) == cached[p] = None \/ at >= expiry[p]

\* The first check, without the lock.
Check(w, p) ==
  /\ Begin(w, p, IF Stale(p, clock) THEN "lock" ELSE "take")
  /\ UNCHANGED <<rule, until, cached, expiry, holder, dropped, clock>>

\* The second, with it; the row is read from the database under the lock.
Acquire(w) ==
  LET p == request[w].process IN
  /\ request[w].op = "lock" /\ holder[p] = None
  /\ IF Stale(p, request[w].at)
     THEN /\ holder' = [holder EXCEPT ![p] = w]
          /\ request' = [request EXCEPT ![w].op = "store", ![w].seen = rule]
     ELSE Goes(w, "take") /\ UNCHANGED holder
  /\ UNCHANGED <<rule, until, cached, expiry, dropped, clock>>

Expiry_never(w) == MaxTime + TTL
Expiry(w) == request[w].at + TTL

Store(w) ==
  LET p == request[w].process IN
  /\ request[w].op = "store"
  /\ cached' = [cached EXCEPT ![p] = request[w].seen]
  /\ expiry' = [expiry EXCEPT ![p] = Expiry(w)]
  /\ holder' = [holder EXCEPT ![p] = None]
  /\ Goes(w, "take")
  /\ UNCHANGED <<rule, until, dropped, clock>>

\* What get_rule returns is the copy it finds now, and without one it fails.
Take(w) ==
  /\ request[w].op = "take"
  /\ request' = [request EXCEPT ![w].op = IF cached[request[w].process] = None THEN "failed" ELSE "got",
                                ![w].seen = cached[request[w].process]]
  /\ UNCHANGED <<rule, until, cached, expiry, holder, dropped, clock>>

Answer(w) ==
  /\ request[w].op \in {"got", "failed"}
  /\ request' = [request EXCEPT ![w] = Idle]
  /\ UNCHANGED <<rule, until, cached, expiry, holder, dropped, clock>>

\* update_rule commits first.
Update(w, p) ==
  /\ rule < MaxChanges                               \* bound
  /\ Begin(w, p, "clear")
  /\ rule' = rule + 1
  /\ until' = [until EXCEPT ![rule] = clock]
  /\ UNCHANGED <<cached, expiry, holder, dropped, clock>>

Free_always(p) == TRUE
Free(p) == holder[p] = None

\* clear_cache. The threads of the process that are asking miss their copy.
Clear(w) ==
  LET p == request[w].process IN
  /\ request[w].op = "clear" /\ Free(p)
  /\ cached' = [cached EXCEPT ![p] = None]
  /\ expiry' = [expiry EXCEPT ![p] = 0]
  /\ dropped' = [dropped EXCEPT ![p] = rule]
  /\ request' = [t \in Threads |-> IF t = w THEN Idle
                                   ELSE IF request[t].process = p THEN [request[t] EXCEPT !.missed = TRUE]
                                   ELSE request[t]]
  /\ UNCHANGED <<rule, until, holder, clock>>

Pass ==
  /\ clock < MaxTime
  /\ clock' = clock + 1
  /\ UNCHANGED <<rule, until, cached, expiry, holder, dropped, request>>

Init ==
  /\ rule = 0 /\ until = [v \in 0..MaxChanges |-> MaxTime]
  /\ cached = [p \in Processes |-> None] /\ expiry = [p \in Processes |-> 0]
  /\ holder = [p \in Processes |-> None] /\ dropped = [p \in Processes |-> 0]
  /\ clock = 0 /\ request = [w \in Threads |-> Idle]

Next ==
  \/ \E w \in Threads : \/ Acquire(w) \/ Store(w) \/ Take(w) \/ Answer(w) \/ Clear(w)
                        \/ \E p \in Processes : Check(w, p) \/ Update(w, p)
  \/ Pass

Spec == Init /\ [][Next]_vars

-----------------------------------------------------------------------------
\* A page asked for after a change was answered computes with that change or a later
\* one, in the process that made it: no thread puts back the row it read before.
ChangesShown ==
  \A w \in Threads : request[w].op = "got" => request[w].seen >= request[w].known

\* Elsewhere a copy outlives the row it was made of by no more than its lifetime.
CopiesExpire ==
  \A p \in Processes : cached[p] # None => expiry[p] <= until[cached[p]] + TTL

\* A page is left without a rule only when a change drops the copy under its hands.
FailsOnlyOverAChange ==
  \A w \in Threads : request[w].op = "failed" => request[w].missed

RuleSound == ChangesShown /\ CopiesExpire /\ FailsOnlyOverAChange
==================================================================================
