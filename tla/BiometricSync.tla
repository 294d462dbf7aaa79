------------------------------ MODULE BiometricSync ------------------------------
(* The punches of a biometric device on their way into the system: fetched by runs of *)
(* sync_engine.py under a lock with an expiry, or pushed by the device; saved as raw   *)
(* logs, and then normalized, which gives them to the employee their user is mapped to. *)
EXTENDS Integers, Sequences, FiniteSets, FiniteSetsExt

CONSTANTS
  Workers,      \* requests, scheduled jobs and pushes
  Users, UserOf,  \* users of the device; UserOf[p] punches at the time p
  MaxTime, MaxRuns,   \* bounds: punches, runs
  Modes         \* sets of what may happen: "overlap", "die", "offline", "expire", "noRedis",
                \* "window", "late", "push", "map"

VARIABLES
  mode,
  time,         \* punches on the device: 1..time
  mapping,      \* bm_employee_mappings of the users
  raw,          \* bm_raw_logs: the punches saved, TRUE if with a mapping
  normalized,   \* bm_normalized_logs of the punches saved
  history,      \* bm_sync_history, in the order of starting
  lock,         \* the key in Redis
  job

vars == <<mode, time, mapping, raw, normalized, history, lock, job>>

Idle == [op |-> "idle"]
IsRun(j) == j # Idle /\ j.kind \in {"MANUAL", "INCREMENTAL", "SCHEDULED", "WINDOW"}

Saved == DOMAIN raw
Mapped(p) == mapping[UserOf[p]] = "ACTIVE"
With(S, f) == [p \in S \cup DOMAIN f |-> IF p \in DOMAIN f THEN f[p] ELSE Mapped(p)]

Free(w) == job[w] = Idle /\ ("overlap" \in mode \/ \A v \in Workers : job[v] = Idle)
Begin(w, op, kind, fetched, run) ==
  job' = [job EXCEPT ![w] = [op |-> op, kind |-> kind, fetched |-> fetched, seen |-> Saved,
                             new |-> {}, found |-> {}, run |-> run]]

-----------------------------------------------------------------------------
(* run_sync *)

Start_anyway(w, kind) ==
  /\ Free(w) /\ Len(history) < MaxRuns
  /\ lock' = ("noRedis" \notin mode)
  /\ history' = Append(history, [status |-> "RUNNING", checkpoint |-> 0])
  /\ Begin(w, "fetch", kind, {}, Len(history) + 1)
  /\ UNCHANGED <<mode, time, mapping, raw, normalized>>

\* Without Redis there is no lock.
Start(w, kind) ==
  /\ Free(w) /\ Len(history) < MaxRuns
  /\ kind # "WINDOW" \/ "window" \in mode
  /\ ~lock
  /\ lock' = ("noRedis" \notin mode)
  /\ history' = Append(history, [status |-> "RUNNING", checkpoint |-> 0])
  /\ Begin(w, "fetch", kind, {}, Len(history) + 1)
  /\ UNCHANGED <<mode, time, mapping, raw, normalized>>

\* The checkpoint of the run that started last of those that succeeded; 0 when there is
\* none, or nothing new was saved.
Latest ==
  LET successes == {i \in DOMAIN history : history[i].status = "SUCCESS"} IN
  IF successes = {} THEN 0 ELSE history[Max(successes)].checkpoint

\* lookback_days: when they are too few for what was missed, only the last punch.
Lookback == IF "late" \in mode THEN time ELSE 1

From(kind) ==
  CASE kind = "MANUAL" -> {1}
    [] kind = "WINDOW" -> 1..time + 1
    [] kind = "INCREMENTAL" /\ Latest > 0 -> {Latest}
    [] OTHER -> {Lookback}

\* The keys to leave out are read as soon as the records are there.
Fetch(w) ==
  /\ job[w].op = "fetch"
  /\ \E from \in From(job[w].kind) :
       job' = [job EXCEPT ![w].op = "save", ![w].fetched = {p \in 1..time : p >= from}, ![w].seen = Saved]
  /\ UNCHANGED <<mode, time, mapping, raw, normalized, history, lock>>

End(w) == job' = [job EXCEPT ![w] = Idle]

\* The lock is deleted whoever holds it by now; pushes and mappings hold none, and
\* nobody hears of their failure.
Release(w) == lock' = (lock /\ ~IsRun(job[w]))
Close(w, status, checkpoint) ==
  /\ history' = IF IsRun(job[w])
                THEN [history EXCEPT ![job[w].run] = [status |-> status, checkpoint |-> checkpoint]]
                ELSE history
  /\ Release(w) /\ End(w)
Fail(w) == Close(w, "FAILED", 0)

\* All of it in one transaction, which the unique index refuses if a punch is there.
Save(w) ==
  LET new == job[w].fetched \ job[w].seen IN
  /\ job[w].op = "save"
  /\ \/ /\ new \cap Saved # {}
        /\ Fail(w) /\ UNCHANGED raw
     \/ /\ new \cap Saved = {}
        /\ raw' = With(new, raw)
        /\ job' = [job EXCEPT ![w].op = IF new = {} THEN "finish" ELSE "look", ![w].new = new]
        /\ UNCHANGED <<history, lock>>
  /\ UNCHANGED <<mode, time, mapping, normalized>>

\* batch_normalize reads which of them are normalized already and whose they are...
Look(w) ==
  /\ job[w].op = "look"
  /\ job' = [job EXCEPT ![w].op = "normalize", ![w].seen = DOMAIN normalized,
               ![w].found = {p \in job[w].new : Mapped(p)}]
  /\ UNCHANGED <<mode, time, mapping, raw, normalized, history, lock>>

\* ... and adds the rest, refused if somebody else did meanwhile.
Normalize(w) ==
  LET j == job[w] IN
  /\ j.op = "normalize"
  /\ \/ /\ (j.new \ j.seen) \cap DOMAIN normalized # {}
        /\ Fail(w) /\ UNCHANGED <<raw, normalized>>
     \/ /\ (j.new \ j.seen) \cap DOMAIN normalized = {}
        /\ normalized' = [p \in j.new \cup DOMAIN normalized |->
             IF p \in j.new THEN (IF p \in j.found THEN "PENDING" ELSE "UNMAPPED") ELSE normalized[p]]
        /\ raw' = [p \in Saved |-> raw[p] \/ p \in j.found]
        /\ job' = [job EXCEPT ![w].op = "finish"]
        /\ UNCHANGED <<history, lock>>
  /\ UNCHANGED <<mode, time, mapping>>

Finish_now(w) ==
  /\ job[w].op = "finish"
  /\ Close(w, "SUCCESS", IF job[w].new = {} THEN 0 ELSE time)
  /\ UNCHANGED <<mode, time, mapping, raw, normalized>>

\* The checkpoint is the last punch that was new.
Finish(w) ==
  /\ job[w].op = "finish"
  /\ Close(w, "SUCCESS", IF job[w].new = {} THEN 0 ELSE Max(job[w].new))
  /\ UNCHANGED <<mode, time, mapping, raw, normalized>>

\* The device does not answer.
Offline(w) ==
  /\ "offline" \in mode /\ job[w].op = "fetch" /\ Fail(w)
  /\ UNCHANGED <<mode, time, mapping, raw, normalized>>

\* The process dies: what was committed stays, and the lock until it expires.
Die(w) ==
  /\ "die" \in mode /\ job[w] # Idle /\ End(w)
  /\ UNCHANGED <<mode, time, mapping, raw, normalized, history, lock>>

\* The lock expires under a run that died, or under one that takes longer.
Expire ==
  /\ lock /\ ("expire" \in mode \/ \A w \in Workers : ~IsRun(job[w]))
  /\ lock' = FALSE
  /\ UNCHANGED <<mode, time, mapping, raw, normalized, history, job>>

\* Whoever lists the history gives up runs that have been at it for too long.
CleanUp(i) ==
  /\ {"die", "expire"} \cap mode # {} /\ i \in DOMAIN history /\ history[i].status = "RUNNING"
  /\ history' = [history EXCEPT ![i].status = "CANCELLED"]
  /\ UNCHANGED <<mode, time, mapping, raw, normalized, lock, job>>

-----------------------------------------------------------------------------
(* Pushes and mappings *)

\* The device sends some of its punches, and hears OK whatever becomes of them.
Push(w, S) ==
  /\ "push" \in mode /\ Free(w) /\ S # {} /\ S \subseteq 1..time
  /\ Begin(w, "save", "PUSH", S, 0)
  /\ UNCHANGED <<mode, time, mapping, raw, normalized, history, lock>>

\* A mapping is made, or made active again, and its logs are looked for.
Activate(w, u) ==
  /\ "map" \in mode /\ Free(w) /\ mapping[u] # "ACTIVE"
  /\ mapping' = [mapping EXCEPT ![u] = "ACTIVE"]
  /\ Begin(w, "remap", "MAP", {}, 0)
  /\ UNCHANGED <<mode, time, raw, normalized, history, lock>>

Deactivate(u) ==
  /\ "map" \in mode /\ mapping[u] = "ACTIVE"
  /\ "overlap" \in mode \/ \A w \in Workers : job[w] = Idle
  /\ mapping' = [mapping EXCEPT ![u] = "INACTIVE"]
  /\ UNCHANGED <<mode, time, raw, normalized, history, lock, job>>

Remap_quietly(w) ==
  LET new == {p \in Saved : ~raw[p] /\ Mapped(p)} IN
  /\ job[w].op = "remap"
  /\ raw' = [p \in Saved |-> raw[p] \/ p \in new]
  /\ End(w)
  /\ UNCHANGED <<mode, time, mapping, normalized, history, lock>>

\* Of the logs without a mapping, those that now have one.
Remap(w) ==
  LET new == {p \in Saved : ~raw[p] /\ Mapped(p)} IN
  /\ job[w].op = "remap"
  /\ raw' = [p \in Saved |-> raw[p] \/ p \in new]
  /\ IF new = {} THEN End(w) ELSE job' = [job EXCEPT ![w].op = "look", ![w].new = new]
  /\ UNCHANGED <<mode, time, mapping, normalized, history, lock>>

Punch ==
  /\ time < MaxTime
  /\ time' = time + 1
  /\ UNCHANGED <<mode, mapping, raw, normalized, history, lock, job>>

-----------------------------------------------------------------------------
Init ==
  /\ mode \in Modes
  /\ time = 0
  /\ mapping \in [Users -> IF "map" \in mode THEN {"NONE"} ELSE {"ACTIVE"}]
  /\ raw = <<>> /\ normalized = <<>> /\ history = <<>>
  /\ lock = FALSE
  /\ job = [w \in Workers |-> Idle]

Work(w) ==
  \/ \E kind \in {"MANUAL", "INCREMENTAL", "SCHEDULED", "WINDOW"} : Start(w, kind)
  \/ Fetch(w) \/ Save(w) \/ Look(w) \/ Normalize(w) \/ Finish(w) \/ Offline(w) \/ Die(w)
  \/ \E S \in SUBSET (1..MaxTime) : Push(w, S)
  \/ \E u \in Users : Activate(w, u)
  \/ Remap(w)

Next ==
  \/ \E w \in Workers : Work(w)
  \/ \E u \in Users : Deactivate(u)
  \/ \E i \in 1..MaxRuns : CleanUp(i)
  \/ Expire \/ Punch

Spec == Init /\ [][Next]_vars

-----------------------------------------------------------------------------
\* Raw logs are of punches, normalized ones of raw logs.
SyncTypeOK ==
  /\ DOMAIN normalized \subseteq Saved /\ Saved \subseteq 1..time
  /\ \A i \in DOMAIN history :
       history[i].status \in {"RUNNING", "SUCCESS", "FAILED", "CANCELLED"} /\ history[i].checkpoint \in 0..time

\* "Acquire Redis distributed lock (prevents concurrent sync for same device)": as long as
\* Redis answers and the lock outlives the runs, there is one at a time, and a run that
\* dies does not lock the others out for good.
OneRun == {"expire", "noRedis"} \cap mode = {} => Cardinality({w \in Workers : IsRun(job[w])}) <= 1

\* However runs, pushes and mappings overlap, a run past the saving has saved all that it
\* fetched: what others saved since stays, and what clashes ends the run.
FetchedIsSaved ==
  \A w \in Workers : job[w] # Idle /\ job[w].op \in {"look", "normalize", "finish"} =>
    job[w].fetched \subseteq Saved

\* An incremental run may start from the checkpoint: nothing before it is missing, whatever
\* failed, died or overlapped; unless a run was given a window, or looked back too little.
NothingBeforeCheckpoint == {"window", "late"} \cap mode = {} => 1..Latest \subseteq Saved

\* Requests that neither overlap nor die leave no punch behind: each one saved is normalized,
\* for the employee if its user is or was mapped since.
EveryPunchCounts ==
  mode \cap {"overlap", "die"} = {} /\ (\A w \in Workers : job[w] = Idle) =>
    \A p \in Saved : /\ p \in DOMAIN normalized
                     /\ normalized[p] = (IF raw[p] THEN "PENDING" ELSE "UNMAPPED")
                     /\ Mapped(p) => raw[p]

\* Punches arrive, and arrive once.
SyncSound == SyncTypeOK /\ OneRun /\ FetchedIsSaved /\ NothingBeforeCheckpoint /\ EveryPunchCounts
===============================================================================
