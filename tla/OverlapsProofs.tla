---------------------------- MODULE OverlapsProofs ----------------------------
(*****************************************************************************)
(* Proofs about BiometricSync as it runs in MCOverlaps, for every number of  *)
(* requests, users, punches and runs, and every set of cases: the lock, the  *)
(* checkpoints and the normalization, each an invariant on top of the types. *)
(*****************************************************************************)
EXTENDS MCOverlaps, ApprovalEngineProofs

-----------------------------------------------------------------------------
(* The invariant *)

Ops == {"fetch", "save", "look", "normalize", "finish", "remap"}
Runs == {"MANUAL", "INCREMENTAL", "SCHEDULED", "WINDOW"}
Jobs == [op : Ops, kind : Runs \cup {"PUSH", "MAP"}, fetched : SUBSET Nat, seen : SUBSET Nat,
         new : SUBSET Nat, found : SUBSET Nat, run : Nat]
Outcomes == [status : {"RUNNING", "SUCCESS", "FAILED", "CANCELLED"}, checkpoint : Nat]

\* The columns; a checkpoint is never ahead of the device.
SyncShape ==
  /\ time \in Nat
  /\ raw \in [Sync!Saved -> BOOLEAN] /\ Sync!Saved \subseteq 1..time
  /\ DOMAIN normalized \subseteq Sync!Saved
  /\ history \in Seq(Outcomes) /\ \A i \in DOMAIN history : history[i].checkpoint <= time
  /\ lock \in BOOLEAN
  /\ DOMAIN mapping = SyncUsers /\ DOMAIN job = Workers

\* A run has a row of the history; what was fetched is saved once the saving is past.
JobOK(j) ==
  /\ j \in Jobs
  /\ j.op = "fetch" => j.kind \in Runs
  /\ j.op = "remap" => j.kind \notin Runs /\ j.fetched = {}
  /\ j.kind \in Runs => j.run \in 1..Len(history)
  /\ j.fetched \subseteq 1..time
  /\ j.op \in {"fetch", "save"} => j.new = {}
  /\ j.op = "save" => j.seen \subseteq Sync!Saved
  /\ j.op \in {"look", "normalize", "finish"} => j.fetched \subseteq Sync!Saved /\ j.new \subseteq Sync!Saved
  /\ j.kind \in Runs => j.new \subseteq j.fetched

JobsOK == \A w \in Workers : job[w] = Sync!Idle \/ JobOK(job[w])

\* Whoever runs holds the lock, alone.
LockHeld ==
  {"expire", "noRedis"} \cap mode = {} =>
    \A w \in Workers : Sync!IsRun(job[w]) => lock /\ \A v \in Workers : Sync!IsRun(job[v]) => v = w

\* Up to each punch that a run fetched, all are saved or were fetched with it.
Grounded(j) ==
  /\ j.kind # "WINDOW"
  /\ j.op \in {"save", "look", "normalize", "finish"} /\ j.kind \in Runs =>
       \A p \in j.fetched : 1..p \subseteq Sync!Saved \cup j.fetched
\* Each success has a checkpoint up to which all is saved, not only the latest one.
CheckpointsOK ==
  {"window", "late"} \cap mode = {} =>
    /\ \A i \in DOMAIN history : history[i].status = "SUCCESS" => 1..history[i].checkpoint \subseteq Sync!Saved
    /\ \A w \in Workers : job[w] # Sync!Idle => Grounded(job[w])

\* Normalized as its mapping says; about to be normalized by the job j.
Recorded(p) == p \in DOMAIN normalized /\ normalized[p] = (IF raw[p] THEN "PENDING" ELSE "UNMAPPED")
Takes(j, p) == j.op \in {"look", "normalize"} /\ p \in j.new
\* What a job has read is still so, when no other runs.
SettledBy(j) ==
  /\ j.op = "save" => j.seen = Sync!Saved
  /\ j.op \in {"look", "normalize"} => \A p \in j.new : raw[p] = Sync!Mapped(p)
  /\ j.op = "normalize" => j.found = {p \in j.new : Sync!Mapped(p)} /\ j.seen = DOMAIN normalized
Alone ==
  "overlap" \notin mode => \A v, w \in Workers : job[v] # Sync!Idle /\ job[w] # Sync!Idle => v = w
\* Punches wait for nobody but the job that has them in hand.
Settled ==
  mode \cap {"overlap", "die"} = {} =>
    /\ \A w \in Workers : job[w] # Sync!Idle => SettledBy(job[w])
    /\ \A p \in Sync!Saved : (\A w \in Workers : ~Takes(job[w], p)) => Recorded(p)
    /\ \A p \in Sync!Saved : (\A w \in Workers : job[w].op # "remap") => (Sync!Mapped(p) => raw[p])

SyncInv == SyncShape /\ JobsOK /\ LockHeld /\ CheckpointsOK /\ Alone /\ Settled

\* A step takes nothing away.
Grows ==
  /\ SyncShape' /\ time <= time' /\ Sync!Saved \subseteq Sync!Saved' /\ Len(history) <= Len(history')

-----------------------------------------------------------------------------
\* What is true of a job stays true while nothing is taken away.
LEMMA StaysOK ==
  ASSUME NEW j, JobOK(j), SyncShape, Grows
  PROVE  JobOK(j)'
<1>1. 1..time \subseteq 1..time' /\ 1..Len(history) \subseteq 1..Len(history')
  BY DEF Grows, SyncShape
<1> QED BY <1>1 DEF JobOK, Grows

\* A step of one worker.
LEMMA JobsStep ==
  ASSUME SyncShape, JobsOK, Grows, NEW w \in Workers, NEW j, job' = [job EXCEPT ![w] = j],
         j = Sync!Idle \/ JobOK(j)'
  PROVE  JobsOK'
<1> SUFFICES ASSUME NEW v \in Workers PROVE job'[v] = Sync!Idle \/ (JobOK(job[v]))'
  BY DEF JobsOK
<1>1. CASE v = w
  BY <1>1 DEF SyncShape
<1>2. CASE v # w
  <2>1. job'[v] = job[v]
    BY <1>2 DEF SyncShape
  <2>2. CASE job[v] = Sync!Idle
    BY <2>1, <2>2
  <2>3. CASE JobOK(job[v])
    <3> PICK k : k = job[v]
      OBVIOUS
    <3>1. JobOK(k)'
      BY <2>3, StaysOK
    <3> QED BY <3>1, <2>1
  <2> QED BY <2>2, <2>3 DEF JobsOK
<1> QED BY <1>1, <1>2

\* What a job is when it is not idle.
LEMMA JobIs ==
  ASSUME JobsOK, NEW w \in Workers, job[w] # Sync!Idle
  PROVE  /\ JobOK(job[w])
         /\ job[w] = [op |-> job[w].op, kind |-> job[w].kind, fetched |-> job[w].fetched, seen |-> job[w].seen,
                      new |-> job[w].new, found |-> job[w].found, run |-> job[w].run]
<1>1. JobOK(job[w])
  BY DEF JobsOK
<1> QED BY <1>1 DEF JobOK, Jobs

LEMMA Underway ==
  ASSUME JobsOK, NEW w \in Workers, job[w].op \in Ops
  PROVE  job[w] # Sync!Idle /\ JobOK(job[w])
BY DEF JobsOK, Sync!Idle, Ops

LEMMA HistoryAppended ==
  ASSUME SyncShape, history' = Append(history, [status |-> "RUNNING", checkpoint |-> 0])
  PROVE  /\ history' \in Seq(Outcomes) /\ Len(history') = Len(history) + 1
         /\ \A i \in DOMAIN history : history'[i] = history[i]
         /\ history'[Len(history) + 1] = [status |-> "RUNNING", checkpoint |-> 0]
         /\ DOMAIN history' = DOMAIN history \cup {Len(history) + 1}
<1>1. [status |-> "RUNNING", checkpoint |-> 0] \in Outcomes
  BY DEF Outcomes
<1> QED BY <1>1 DEF SyncShape

LEMMA HistoryClosed ==
  ASSUME SyncShape, NEW i \in DOMAIN history, NEW o \in Outcomes, history' = [history EXCEPT ![i] = o]
  PROVE  /\ history' \in Seq(Outcomes) /\ Len(history') = Len(history) /\ DOMAIN history' = DOMAIN history
         /\ history'[i] = o /\ \A k \in DOMAIN history \ {i} : history'[k] = history[k]
BY DEF SyncShape

-----------------------------------------------------------------------------
(* Types and jobs *)

\* Closing a run, whatever its result.
LEMMA CloseShape ==
  ASSUME SyncShape, JobsOK, NEW w \in Workers, job[w] # Sync!Idle, NEW s \in {"SUCCESS", "FAILED"},
         NEW c \in 0..time, Sync!Close(w, s, c), UNCHANGED <<time, mapping, raw>>,
         normalized' \in {normalized}
  PROVE  Grows /\ JobsOK'
<1>1. job' = [job EXCEPT ![w] = Sync!Idle]
  BY DEF Sync!Close, Sync!End
<1>2. /\ history' \in Seq(Outcomes) /\ Len(history') = Len(history)
      /\ \A i \in DOMAIN history' : history'[i].checkpoint <= time
  <2>1. CASE Sync!IsRun(job[w])
    <3>1. job[w].run \in DOMAIN history
      BY <2>1, JobIs DEF JobOK, SyncShape, Sync!IsRun, Runs
    <3>2. history' = [history EXCEPT ![job[w].run] = [status |-> s, checkpoint |-> c]]
      BY <2>1 DEF Sync!Close
    <3>3. [status |-> s, checkpoint |-> c] \in Outcomes
      BY DEF SyncShape, Outcomes
    <3>4. PICK i \in DOMAIN history : i = job[w].run
      BY <3>1
    <3>5. PICK o \in Outcomes : o = [status |-> s, checkpoint |-> c]
      BY <3>3
    <3>6. history' = [history EXCEPT ![i] = o] /\ o.checkpoint = c
      BY <3>2, <3>4, <3>5
    <3> QED BY <3>6, HistoryClosed DEF SyncShape
  <2>2. CASE ~Sync!IsRun(job[w])
    BY <2>2 DEF Sync!Close, SyncShape
  <2> QED BY <2>1, <2>2
<1>3. lock' \in BOOLEAN
  BY DEF Sync!Close, Sync!Release, SyncShape
<1>4. Grows
  BY <1>1, <1>2, <1>3 DEF Grows, SyncShape, Sync!Saved
<1> QED BY <1>1, <1>4, JobsStep

LEMMA StartShape ==
  ASSUME SyncShape, JobsOK, NEW w \in Workers, NEW kind \in Runs, Sync!Start(w, kind)
  PROVE  Grows /\ JobsOK'
<1> DEFINE j == [op |-> "fetch", kind |-> kind, fetched |-> {}, seen |-> Sync!Saved, new |-> {}, found |-> {},
                 run |-> Len(history) + 1]
<1>1. job' = [job EXCEPT ![w] = j] /\ UNCHANGED <<time, mapping, raw, normalized>> /\ lock' \in BOOLEAN
  BY DEF Sync!Start, Sync!Begin
<1>2. Grows
  <2>1. history' = Append(history, [status |-> "RUNNING", checkpoint |-> 0])
    BY DEF Sync!Start
  <2> QED BY <1>1, <2>1, HistoryAppended DEF Grows, SyncShape, Sync!Saved
<1>3. j \in Jobs /\ j.run = Len(history')
  <2>1. Len(history') = Len(history) + 1
    BY HistoryAppended DEF Sync!Start
  <2>2. Sync!Saved \subseteq Nat /\ Len(history) + 1 \in Nat
    BY DEF SyncShape
  <2> QED BY <2>1, <2>2 DEF Jobs, Ops, Runs
<1>4. PICK k : k = j
  OBVIOUS
<1>5. JobOK(k)'
  <2>1. Len(history') \in Nat /\ Len(history') > 0
    BY <1>2, HistoryAppended DEF Sync!Start, Grows, SyncShape
  <2> QED BY <1>3, <1>4, <2>1 DEF JobOK, Runs
<1> QED BY <1>1, <1>2, <1>4, <1>5, JobsStep

LEMMA Quiet ==
  ASSUME SyncShape, NEW w \in Workers, NEW j, job' = [job EXCEPT ![w] = j], lock' \in BOOLEAN,
         UNCHANGED <<time, mapping, raw, normalized, history>>
  PROVE  Grows
<1>1. Len(history) \in Nat
  BY DEF SyncShape
<1>2. SyncShape'
  BY DEF SyncShape, Sync!Saved
<1> QED BY <1>1, <1>2 DEF Grows, SyncShape, Sync!Saved

LEMMA FetchShape ==
  ASSUME SyncShape, JobsOK, NEW w \in Workers, Sync!Fetch(w)
  PROVE  Grows /\ JobsOK'
<1>1. JobOK(job[w]) /\ job[w].op = "fetch" /\ job[w] # Sync!Idle
  BY Underway DEF Sync!Fetch, Ops
<1>2. PICK from \in Sync!From(job[w].kind) :
        job' = [job EXCEPT ![w].op = "save", ![w].fetched = {p \in 1..time : p >= from}, ![w].seen = Sync!Saved]
  BY DEF Sync!Fetch
<1>3. PICK F : F = {p \in 1..time : p >= from}
  OBVIOUS
<1>4. PICK k : k = [job[w] EXCEPT !.op = "save", !.fetched = F, !.seen = Sync!Saved]
  OBVIOUS
<1>5. job' = [job EXCEPT ![w] = k]
  BY <1>2, <1>3, <1>4
<1>6. Grows
  BY <1>5, Quiet DEF Sync!Fetch, SyncShape
<1>7. JobOK(k)'
  <2>1. F \subseteq 1..time /\ F \subseteq Nat /\ Sync!Saved \subseteq Nat
    BY <1>3 DEF SyncShape
  <2>2. k \in Jobs
    BY <1>1, <1>4, <2>1 DEF JobOK, Jobs, Ops
  <2>3. k.op = "save" /\ k.kind = job[w].kind /\ k.run = job[w].run /\ k.fetched = F /\ k.seen = Sync!Saved /\ k.new = job[w].new
    BY <1>1, <1>4 DEF JobOK, Jobs
  <2>4. UNCHANGED <<time, raw, history>>
    BY DEF Sync!Fetch
  <2> QED BY <1>1, <2>1, <2>2, <2>3, <2>4 DEF JobOK, Sync!Saved
<1> QED BY <1>5, <1>6, <1>7, JobsStep

LEMMA SaveShape ==
  ASSUME SyncShape, JobsOK, NEW w \in Workers, Sync!Save(w)
  PROVE  Grows /\ JobsOK'
<1>1. JobOK(job[w]) /\ job[w].op = "save" /\ job[w] # Sync!Idle
  BY Underway DEF Sync!Save, Ops
<1>2. PICK new : new = job[w].fetched \ job[w].seen
  OBVIOUS
<1>3. CASE new \cap Sync!Saved # {}
  <2>1. Sync!Close(w, "FAILED", 0) /\ UNCHANGED <<time, mapping, raw, normalized>>
    BY <1>2, <1>3 DEF Sync!Save, Sync!Fail
  <2> QED BY <1>1, <2>1, CloseShape DEF SyncShape
<1>4. CASE new \cap Sync!Saved = {}
  <2>1. /\ raw' = Sync!With(new, raw)
        /\ job' = [job EXCEPT ![w].op = IF new = {} THEN "finish" ELSE "look", ![w].new = new]
        /\ UNCHANGED <<time, mapping, normalized, history, lock>>
    BY <1>2, <1>4 DEF Sync!Save
  <2>2. PICK k : k = [job[w] EXCEPT !.op = IF new = {} THEN "finish" ELSE "look", !.new = new]
    OBVIOUS
  <2>3. job' = [job EXCEPT ![w] = k]
    BY <2>1, <2>2
  <2>4. new \subseteq 1..time /\ new \subseteq job[w].fetched /\ job[w].fetched \subseteq Sync!Saved \cup new /\ new \subseteq Nat
    BY <1>1, <1>2 DEF JobOK, SyncShape
  <2>5. DOMAIN raw' = Sync!Saved \cup new /\ raw' \in [Sync!Saved \cup new -> BOOLEAN]
    BY <2>1 DEF Sync!With, Sync!Saved, Sync!Mapped, SyncShape
  <2>6. Grows
    <3>1. Len(history) \in Nat
      BY DEF SyncShape
    <3> QED BY <2>1, <2>3, <2>4, <2>5, <3>1 DEF Grows, SyncShape, Sync!Saved
  <2>7. JobOK(k)'
    <3>1. k \in Jobs
      BY <1>1, <2>2, <2>4 DEF JobOK, Jobs, Ops
    <3>2. /\ k.op \in {"finish", "look"} /\ k.kind = job[w].kind /\ k.run = job[w].run
          /\ k.fetched = job[w].fetched /\ k.new = new
      BY <1>1, <2>2 DEF JobOK, Jobs
    <3> QED BY <1>1, <2>1, <2>4, <2>5, <3>1, <3>2 DEF JobOK, Sync!Saved
  <2> QED BY <2>3, <2>6, <2>7, JobsStep
<1> QED BY <1>3, <1>4

LEMMA LookShape ==
  ASSUME SyncShape, JobsOK, NEW w \in Workers, Sync!Look(w)
  PROVE  Grows /\ JobsOK'
<1>1. JobOK(job[w]) /\ job[w].op = "look" /\ job[w] # Sync!Idle
  BY Underway DEF Sync!Look, Ops
<1>2. PICK found : found = {p \in job[w].new : Sync!Mapped(p)}
  OBVIOUS
<1>3. PICK k : k = [job[w] EXCEPT !.op = "normalize", !.seen = DOMAIN normalized, !.found = found]
  OBVIOUS
<1>4. job' = [job EXCEPT ![w] = k] /\ UNCHANGED <<time, mapping, raw, normalized, history, lock>>
  BY <1>2, <1>3 DEF Sync!Look
<1>5. Grows
  BY <1>4, Quiet DEF SyncShape
<1>6. JobOK(k)'
  <2>1. found \subseteq Nat /\ DOMAIN normalized \subseteq Nat
    <3>1. job[w].new \subseteq Nat /\ 1..time \subseteq Nat
      BY <1>1 DEF JobOK, Jobs, SyncShape
    <3> QED BY <1>2, <3>1 DEF SyncShape
  <2>2. k \in Jobs
    BY <1>1, <1>3, <2>1 DEF JobOK, Jobs, Ops
  <2>3. /\ k.op = "normalize" /\ k.kind = job[w].kind /\ k.run = job[w].run
        /\ k.fetched = job[w].fetched /\ k.new = job[w].new
    BY <1>1, <1>3 DEF JobOK, Jobs
  <2> QED BY <1>1, <1>4, <2>2, <2>3 DEF JobOK, Sync!Saved
<1> QED BY <1>4, <1>5, <1>6, JobsStep

LEMMA NormalizeShape ==
  ASSUME SyncShape, JobsOK, NEW w \in Workers, Sync!Normalize(w)
  PROVE  Grows /\ JobsOK'
<1>1. JobOK(job[w]) /\ job[w].op = "normalize" /\ job[w] # Sync!Idle
  BY Underway DEF Sync!Normalize, Ops
<1>2. PICK late : late = (job[w].new \ job[w].seen) \cap DOMAIN normalized
  OBVIOUS
<1>3. CASE late # {}
  <2>1. Sync!Close(w, "FAILED", 0) /\ UNCHANGED <<time, mapping, raw, normalized>>
    BY <1>2, <1>3 DEF Sync!Normalize, Sync!Fail
  <2> QED BY <1>1, <2>1, CloseShape DEF SyncShape
<1>4. CASE late = {}
  <2>1. /\ DOMAIN normalized' = job[w].new \cup DOMAIN normalized
        /\ raw' = [p \in Sync!Saved |-> raw[p] \/ p \in job[w].found]
        /\ job' = [job EXCEPT ![w].op = "finish"]
        /\ UNCHANGED <<time, mapping, history, lock>>
    BY <1>2, <1>4 DEF Sync!Normalize
  <2>2. PICK k : k = [job[w] EXCEPT !.op = "finish"]
    OBVIOUS
  <2>3. job' = [job EXCEPT ![w] = k]
    BY <2>1, <2>2
  <2>5. DOMAIN raw' = Sync!Saved /\ raw' \in [Sync!Saved -> BOOLEAN]
    BY <2>1
  <2>6. Grows
    <3>1. Len(history) \in Nat
      BY DEF SyncShape
    <3>2. DOMAIN normalized' \subseteq Sync!Saved
      BY <1>1, <2>1 DEF JobOK, SyncShape
    <3> QED BY <2>1, <2>3, <2>5, <3>1, <3>2 DEF Grows, SyncShape, Sync!Saved
  <2>7. JobOK(k)'
    <3>1. k \in Jobs
      BY <1>1, <2>2 DEF JobOK, Jobs, Ops
    <3>2. /\ k.op = "finish" /\ k.kind = job[w].kind /\ k.run = job[w].run
          /\ k.fetched = job[w].fetched /\ k.new = job[w].new
      BY <1>1, <2>2 DEF JobOK, Jobs
    <3> QED BY <1>1, <2>1, <2>5, <3>1, <3>2 DEF JobOK, Sync!Saved
  <2> QED BY <2>3, <2>6, <2>7, JobsStep
<1> QED BY <1>3, <1>4

LEMMA FinishShape ==
  ASSUME SyncShape, JobsOK, NEW w \in Workers, Sync!Finish(w)
  PROVE  Grows /\ JobsOK'
<1>1. JobOK(job[w]) /\ job[w].op = "finish" /\ job[w] # Sync!Idle
  BY Underway DEF Sync!Finish, Ops
<1>2. PICK c : c = IF job[w].new = {} THEN 0 ELSE Max(job[w].new)
  OBVIOUS
<1>3. c \in 0..time
  <2>1. job[w].new \subseteq 0..time /\ time \in Nat /\ 0 \in 0..time
    <3>1. job[w].new \subseteq Sync!Saved
      BY <1>1 DEF JobOK
    <3>2. time \in Nat /\ Sync!Saved \subseteq 1..time
      BY DEF SyncShape
    <3>3. 1..time \subseteq 0..time /\ 0 \in 0..time
      BY <3>2
    <3> QED BY <3>1, <3>2, <3>3
  <2>2. job[w].new # {} => Max(job[w].new) \in job[w].new
    BY <2>1, GreatestNumber
  <2> QED BY <1>2, <2>1, <2>2
<1>4. Sync!Close(w, "SUCCESS", c) /\ UNCHANGED <<time, mapping, raw, normalized>>
  BY <1>2 DEF Sync!Finish, Sync!Max, Max
<1> QED BY <1>1, <1>3, <1>4, CloseShape

LEMMA OfflineShape ==
  ASSUME SyncShape, JobsOK, NEW w \in Workers, Sync!Offline(w)
  PROVE  Grows /\ JobsOK'
<1>1. JobOK(job[w]) /\ job[w].op = "fetch" /\ job[w] # Sync!Idle
  BY Underway DEF Sync!Offline, Ops
<1>2. Sync!Close(w, "FAILED", 0) /\ UNCHANGED <<time, mapping, raw, normalized>>
  BY DEF Sync!Offline, Sync!Fail
<1> QED BY <1>1, <1>2, CloseShape DEF SyncShape

LEMMA DieShape ==
  ASSUME SyncShape, JobsOK, NEW w \in Workers, Sync!Die(w)
  PROVE  Grows /\ JobsOK'
<1>1. job' = [job EXCEPT ![w] = Sync!Idle] /\ UNCHANGED <<time, mapping, raw, normalized, history, lock>>
  BY DEF Sync!Die, Sync!End
<1>2. Grows
  BY <1>1, Quiet DEF SyncShape
<1> QED BY <1>1, <1>2, JobsStep

LEMMA BeginShape ==
  ASSUME SyncShape, JobsOK, NEW w \in Workers, NEW op \in {"save", "remap"}, NEW kind \in {"PUSH", "MAP"},
         NEW S \in SUBSET (1..time), op = "remap" => S = {},
         Sync!Begin(w, op, kind, S, 0), Grows, UNCHANGED <<time, raw>>
  PROVE  JobsOK'
<1> DEFINE j == [op |-> op, kind |-> kind, fetched |-> S, seen |-> Sync!Saved, new |-> {}, found |-> {}, run |-> 0]
<1>1. job' = [job EXCEPT ![w] = j]
  BY DEF Sync!Begin
<1>2. j \in Jobs
  <2>1. S \subseteq Nat /\ Sync!Saved \subseteq Nat /\ 0 \in Nat
    BY DEF SyncShape
  <2> QED BY <2>1 DEF Jobs, Ops, Runs
<1>3. PICK k : k = j
  OBVIOUS
<1>4. JobOK(k)'
  BY <1>2, <1>3 DEF JobOK, Runs, Sync!Saved
<1> QED BY <1>1, <1>3, <1>4, JobsStep

LEMMA PushShape ==
  ASSUME SyncShape, JobsOK, NEW w \in Workers, NEW S, Sync!Push(w, S)
  PROVE  Grows /\ JobsOK'
<1>1. Sync!Begin(w, "save", "PUSH", S, 0) /\ UNCHANGED <<time, mapping, raw, normalized, history, lock>> /\ S \in SUBSET (1..time)
  BY DEF Sync!Push
<1>2. Grows
  BY <1>1, Quiet DEF SyncShape, Sync!Begin
<1> QED BY <1>1, <1>2, BeginShape

LEMMA ActivateShape ==
  ASSUME SyncShape, JobsOK, NEW w \in Workers, NEW u \in SyncUsers, Sync!Activate(w, u)
  PROVE  Grows /\ JobsOK'
<1>1. /\ Sync!Begin(w, "remap", "MAP", {}, 0) /\ UNCHANGED <<time, raw, normalized, history, lock>>
      /\ DOMAIN mapping' = DOMAIN mapping
  BY DEF Sync!Activate
<1>2. Len(history) \in Nat /\ DOMAIN job' = DOMAIN job
  BY <1>1 DEF SyncShape, Sync!Begin
<1>3. Grows
  BY <1>1, <1>2 DEF SyncShape, Grows, Sync!Saved
<1> QED BY <1>1, <1>3, BeginShape

LEMMA RemapShape ==
  ASSUME SyncShape, JobsOK, NEW w \in Workers, Sync!Remap(w)
  PROVE  Grows /\ JobsOK'
<1>1. JobOK(job[w]) /\ job[w].op = "remap" /\ job[w] # Sync!Idle
  BY Underway DEF Sync!Remap, Ops
<1>2. PICK new : new = {p \in Sync!Saved : ~raw[p] /\ Sync!Mapped(p)}
  OBVIOUS
<1>3. /\ raw' = [p \in Sync!Saved |-> raw[p] \/ p \in new]
      /\ IF new = {} THEN Sync!End(w) ELSE job' = [job EXCEPT ![w].op = "look", ![w].new = new]
      /\ UNCHANGED <<time, mapping, normalized, history, lock>>
  BY <1>2 DEF Sync!Remap
<1>4. PICK k : k = IF new = {} THEN Sync!Idle ELSE [job[w] EXCEPT !.op = "look", !.new = new]
  OBVIOUS
<1>5. job' = [job EXCEPT ![w] = k]
  BY <1>3, <1>4 DEF Sync!End
<1>6. Grows
  <2>1. Len(history) \in Nat
    BY DEF SyncShape
  <2> QED BY <1>3, <1>5, <2>1 DEF Grows, SyncShape, Sync!Saved
<1>7. ASSUME new # {} PROVE JobOK(k)'
  <2>1. new \subseteq Sync!Saved /\ Sync!Saved \subseteq Nat
    BY <1>2 DEF SyncShape
  <2>2. k \in Jobs
    BY <1>1, <1>4, <1>7, <2>1 DEF JobOK, Jobs, Ops
  <2>3. /\ k.op = "look" /\ k.kind = job[w].kind /\ k.run = job[w].run
        /\ k.fetched = job[w].fetched /\ k.new = new
    BY <1>1, <1>4, <1>7 DEF JobOK, Jobs
  <2>4. job[w].kind \notin Runs /\ job[w].fetched = {}
    BY <1>1 DEF JobOK
  <2> QED BY <1>1, <1>3, <2>1, <2>2, <2>3, <2>4 DEF JobOK, Sync!Saved, Runs
<1> QED BY <1>4, <1>5, <1>6, <1>7, JobsStep

\* Of the steps that belong to no worker.
LEMMA OthersShape ==
  ASSUME SyncShape, JobsOK, UNCHANGED job,
         \/ \E u \in SyncUsers : Sync!Deactivate(u)
         \/ \E i \in 1..SyncMaxRuns : Sync!CleanUp(i)
         \/ Sync!Expire
         \/ Sync!Punch
  PROVE  Grows /\ JobsOK'
<1>0. Len(history) \in Nat
  BY DEF SyncShape
<1>1. Grows
  <2>1. CASE \E u \in SyncUsers : Sync!Deactivate(u)
    BY <1>0, <2>1 DEF Sync!Deactivate, SyncShape, Grows, Sync!Saved
  <2>2. ASSUME NEW i \in 1..SyncMaxRuns, Sync!CleanUp(i) PROVE Grows
    <3>1. history' = [history EXCEPT ![i].status = "CANCELLED"] /\ i \in DOMAIN history
      BY <2>2 DEF Sync!CleanUp
    <3>2. history[i] \in Outcomes
      BY <3>1 DEF SyncShape
    <3>3. PICK o : o = [history[i] EXCEPT !.status = "CANCELLED"]
      OBVIOUS
    <3>4. o \in Outcomes /\ o.checkpoint = history[i].checkpoint /\ history' = [history EXCEPT ![i] = o]
      BY <3>1, <3>2, <3>3 DEF Outcomes
    <3>5. /\ history' \in Seq(Outcomes) /\ Len(history') = Len(history)
          /\ \A k \in DOMAIN history' : history'[k].checkpoint <= time
      BY <3>1, <3>4, HistoryClosed DEF SyncShape
    <3> QED BY <1>0, <2>2, <3>5 DEF Sync!CleanUp, SyncShape, Grows, Sync!Saved
  <2>3. CASE Sync!Expire
    <3>1. lock' \in BOOLEAN /\ UNCHANGED <<time, mapping, raw, normalized, history, job>>
      BY <2>3 DEF Sync!Expire
    <3> QED BY <1>0, <3>1 DEF SyncShape, Grows, Sync!Saved
  <2>4. CASE Sync!Punch
    <3>1. time' \in Nat /\ time <= time' /\ 1..time \subseteq 1..time'
      BY <2>4 DEF Sync!Punch, SyncShape
    <3>2. \A i \in DOMAIN history : history[i].checkpoint <= time'
      <4> SUFFICES ASSUME NEW i \in DOMAIN history PROVE history[i].checkpoint <= time'
        OBVIOUS
      <4>1. history[i] \in Outcomes /\ history[i].checkpoint <= time
        BY DEF SyncShape
      <4>2. history[i].checkpoint \in Nat
        BY <4>1 DEF Outcomes
      <4> QED BY <3>1, <4>1, <4>2 DEF SyncShape
    <3> QED BY <1>0, <2>4, <3>1, <3>2 DEF Sync!Punch, SyncShape, Grows, Sync!Saved
  <2> QED BY <2>1, <2>2, <2>3, <2>4
<1>2. JobsOK'
  <2> SUFFICES ASSUME NEW v \in Workers PROVE job'[v] = Sync!Idle \/ (JobOK(job[v]))'
    BY DEF JobsOK
  <2>1. PICK k : k = job[v]
    OBVIOUS
  <2>2. k = Sync!Idle \/ JobOK(k)
    BY <2>1 DEF JobsOK
  <2>3. k = Sync!Idle \/ JobOK(k)'
    BY <1>1, <2>2, StaysOK
  <2> QED BY <2>1, <2>3
<1> QED BY <1>1, <1>2

LEMMA ShapeKept ==
  ASSUME SyncShape, JobsOK, Sync!Next
  PROVE  Grows /\ JobsOK'
<1>1. ASSUME NEW w \in Workers, Sync!Work(w) PROVE Grows /\ JobsOK'
  <2>1. ASSUME NEW kind \in {"MANUAL", "INCREMENTAL", "SCHEDULED", "WINDOW"}, Sync!Start(w, kind) PROVE Grows /\ JobsOK'
    BY <2>1, StartShape DEF Runs
  <2>2. ASSUME NEW S, Sync!Push(w, S) PROVE Grows /\ JobsOK'
    BY <2>2, PushShape
  <2>3. ASSUME NEW u \in SyncUsers, Sync!Activate(w, u) PROVE Grows /\ JobsOK'
    BY <2>3, ActivateShape
  <2> QED BY <1>1, <2>1, <2>2, <2>3, FetchShape, SaveShape, LookShape, NormalizeShape, FinishShape, OfflineShape,
             DieShape, RemapShape DEF Sync!Work
<1>2. CASE \/ \E u \in SyncUsers : Sync!Deactivate(u)
           \/ \E i \in 1..SyncMaxRuns : Sync!CleanUp(i)
           \/ Sync!Expire
           \/ Sync!Punch
  <2>1. UNCHANGED job
    BY <1>2 DEF Sync!Deactivate, Sync!CleanUp, Sync!Expire, Sync!Punch
  <2> QED BY <1>2, <2>1, OthersShape
<1> QED BY <1>1, <1>2 DEF Sync!Next

-----------------------------------------------------------------------------
(* One run at a time *)

\* The lock is taken before a run and outlives it unless it expires.
LEMMA LockStep ==
  ASSUME SyncShape, JobsOK, LockHeld, Sync!Next, UNCHANGED mode
  PROVE  LockHeld'
<1> SUFFICES ASSUME {"expire", "noRedis"} \cap mode = {}
             PROVE  \A w \in Workers : Sync!IsRun(job'[w]) => lock' /\ \A v \in Workers : Sync!IsRun(job'[v]) => v = w
  BY DEF LockHeld, Sync!IsRun
<1> DEFINE Running(w) == Sync!IsRun(job[w])
           Goal == \A w \in Workers : Sync!IsRun(job'[w]) => lock' /\ \A v \in Workers : Sync!IsRun(job'[v]) => v = w
<1>1. \A w \in Workers : Sync!IsRun(job[w]) => lock /\ \A v \in Workers : Sync!IsRun(job[v]) => v = w
  BY DEF LockHeld
\* A step after which only runs of before are left.
<1>2. ASSUME \A v \in Workers : Sync!IsRun(job'[v]) => Sync!IsRun(job[v]), lock' = lock PROVE Goal
  BY <1>1, <1>2
<1> HIDE DEF Goal
<1>3. ASSUME NEW w \in Workers, NEW j, job' = [job EXCEPT ![w] = j], Sync!IsRun(j) => Sync!IsRun(job[w]), lock' = lock PROVE Goal
  BY <1>2, <1>3 DEF SyncShape
<1>4. ASSUME NEW w \in Workers, job' = [job EXCEPT ![w] = Sync!Idle], lock' = lock PROVE Goal
  BY <1>3, <1>4 DEF Sync!IsRun
<1>5. ASSUME NEW w \in Workers, job[w] # Sync!Idle, NEW s, NEW c, Sync!Close(w, s, c) PROVE Goal
  <2>1. job' = [job EXCEPT ![w] = Sync!Idle]
    BY <1>5 DEF Sync!Close, Sync!End
  <2>2. CASE Sync!IsRun(job[w])
    <3>1. \A v \in Workers : ~Sync!IsRun(job'[v])
      BY <1>1, <2>1, <2>2 DEF SyncShape, Sync!IsRun
    <3> QED BY <3>1 DEF Goal
  <2>3. CASE ~Sync!IsRun(job[w])
    <3>1. lock' = lock
      BY <1>5, <2>3 DEF Sync!Close, Sync!Release, SyncShape
    <3> QED BY <1>4, <2>1, <3>1
  <2> QED BY <2>2, <2>3
<1>6. ASSUME NEW w \in Workers, Sync!Work(w) PROVE Goal
  <2>1. ASSUME NEW kind \in {"MANUAL", "INCREMENTAL", "SCHEDULED", "WINDOW"}, Sync!Start(w, kind) PROVE Goal
    <3>1. ~lock /\ lock' /\ \A v \in Workers : v # w => job'[v] = job[v]
      BY <2>1 DEF Sync!Start, Sync!Begin, SyncShape
    <3>2. \A v \in Workers : Sync!IsRun(job'[v]) => v = w
      BY <1>1, <3>1
    <3> QED BY <3>1, <3>2 DEF Goal
  <2>2. ASSUME NEW S, Sync!Push(w, S) PROVE Goal
    <3>1. PICK j : job' = [job EXCEPT ![w] = j] /\ j.kind = "PUSH" /\ lock' = lock
      BY <2>2 DEF Sync!Push, Sync!Begin
    <3> QED BY <1>3, <3>1 DEF Sync!IsRun
  <2>3. ASSUME NEW u \in SyncUsers, Sync!Activate(w, u) PROVE Goal
    <3>1. PICK j : job' = [job EXCEPT ![w] = j] /\ j.kind = "MAP" /\ lock' = lock
      BY <2>3 DEF Sync!Activate, Sync!Begin
    <3> QED BY <1>3, <3>1 DEF Sync!IsRun
  <2>4. CASE Sync!Fetch(w)
    <3>1. PICK j : job' = [job EXCEPT ![w] = j] /\ j.kind = job[w].kind /\ lock' = lock /\ job[w] # Sync!Idle
      <4>1. job[w] # Sync!Idle /\ JobOK(job[w])
        BY <2>4, Underway DEF Sync!Fetch, Ops
      <4>2. PICK F : job' = [job EXCEPT ![w].op = "save", ![w].fetched = F, ![w].seen = Sync!Saved]
        BY <2>4 DEF Sync!Fetch
      <4>3. PICK j : j = [job[w] EXCEPT !.op = "save", !.fetched = F, !.seen = Sync!Saved]
        OBVIOUS
      <4>4. j.kind = job[w].kind
        BY <4>1, <4>3 DEF JobOK, Jobs
      <4>5. job' = [job EXCEPT ![w] = j] /\ lock' = lock
        BY <2>4, <4>2, <4>3 DEF Sync!Fetch
      <4> QED BY <4>1, <4>4, <4>5
    <3> QED BY <1>3, <3>1 DEF Sync!IsRun
  <2>5. CASE Sync!Save(w)
    <3>1. job[w] # Sync!Idle /\ JobOK(job[w])
      BY <2>5, Underway DEF Sync!Save, Ops
    <3>2. CASE Sync!Fail(w)
      BY <1>5, <3>1, <3>2 DEF Sync!Fail
    <3>3. CASE ~Sync!Fail(w)
      <4>1. PICK n, o : job' = [job EXCEPT ![w].op = o, ![w].new = n]
        BY <2>5, <3>3 DEF Sync!Save
      <4>2. PICK j : j = [job[w] EXCEPT !.op = o, !.new = n]
        OBVIOUS
      <4>3. j.kind = job[w].kind
        BY <3>1, <4>2 DEF JobOK, Jobs
      <4>4. job' = [job EXCEPT ![w] = j] /\ lock' = lock
        BY <2>5, <3>3, <4>1, <4>2 DEF Sync!Save
      <4> QED BY <1>3, <3>1, <4>3, <4>4 DEF Sync!IsRun
    <3> QED BY <3>2, <3>3
  <2>6. CASE Sync!Look(w)
    <3>1. job[w] # Sync!Idle /\ JobOK(job[w])
      BY <2>6, Underway DEF Sync!Look, Ops
    <3>2. PICK n, o : job' = [job EXCEPT ![w].op = "normalize", ![w].seen = o, ![w].found = n]
      BY <2>6 DEF Sync!Look
    <3>3. PICK j : j = [job[w] EXCEPT !.op = "normalize", !.seen = o, !.found = n]
      OBVIOUS
    <3>4. j.kind = job[w].kind
      BY <3>1, <3>3 DEF JobOK, Jobs
    <3>5. job' = [job EXCEPT ![w] = j] /\ lock' = lock
      BY <2>6, <3>2, <3>3 DEF Sync!Look
    <3> QED BY <1>3, <3>1, <3>4, <3>5 DEF Sync!IsRun
  <2>7. CASE Sync!Normalize(w)
    <3>1. job[w] # Sync!Idle /\ JobOK(job[w])
      BY <2>7, Underway DEF Sync!Normalize, Ops
    <3>2. CASE Sync!Fail(w)
      BY <1>5, <3>1, <3>2 DEF Sync!Fail
    <3>3. CASE ~Sync!Fail(w)
      <4>1. job' = [job EXCEPT ![w].op = "finish"] /\ lock' = lock
        BY <2>7, <3>3 DEF Sync!Normalize
      <4>2. PICK j : j = [job[w] EXCEPT !.op = "finish"]
        OBVIOUS
      <4> QED BY <1>3, <3>1, <4>1, <4>2 DEF JobOK, Jobs, Sync!IsRun
    <3> QED BY <3>2, <3>3
  <2>8. CASE Sync!Finish(w)
    <3>1. job[w] # Sync!Idle
      BY <2>8, Underway DEF Sync!Finish, Ops
    <3> QED BY <1>5, <3>1, <2>8 DEF Sync!Finish, Sync!Max, Max
  <2>9. CASE Sync!Offline(w)
    <3>1. job[w] # Sync!Idle
      BY <2>9, Underway DEF Sync!Offline, Ops
    <3> QED BY <1>5, <3>1, <2>9 DEF Sync!Offline, Sync!Fail
  <2>10. CASE Sync!Die(w)
    BY <1>4, <2>10 DEF Sync!Die, Sync!End
  <2>11. CASE Sync!Remap(w)
    <3>1. job[w] # Sync!Idle /\ JobOK(job[w]) /\ lock' = lock
      BY <2>11, Underway DEF Sync!Remap, Ops
    <3>2. CASE Sync!End(w)
      BY <1>4, <3>1, <3>2 DEF Sync!End
    <3>3. CASE ~Sync!End(w)
      <4>1. PICK n : job' = [job EXCEPT ![w].op = "look", ![w].new = n]
        BY <2>11, <3>3 DEF Sync!Remap
      <4>2. PICK j : j = [job[w] EXCEPT !.op = "look", !.new = n]
        OBVIOUS
      <4>3. j.kind = job[w].kind
        BY <3>1, <4>2 DEF JobOK, Jobs
      <4>4. job' = [job EXCEPT ![w] = j]
        BY <4>1, <4>2
      <4> QED BY <1>3, <3>1, <4>3, <4>4 DEF Sync!IsRun
    <3> QED BY <3>2, <3>3
  <2> QED BY <1>6, <2>1, <2>2, <2>3, <2>4, <2>5, <2>6, <2>7, <2>8, <2>9, <2>10, <2>11 DEF Sync!Work
<1>7. ASSUME \/ \E u \in SyncUsers : Sync!Deactivate(u)
             \/ \E i \in 1..SyncMaxRuns : Sync!CleanUp(i)
             \/ Sync!Punch
      PROVE  Goal
  <2>1. job' = job /\ lock' = lock
    BY <1>7 DEF Sync!Deactivate, Sync!CleanUp, Sync!Punch
  <2>2. \A v \in Workers : Sync!IsRun(job'[v]) => Sync!IsRun(job[v])
    BY <2>1
  <2> QED BY <1>2, <2>1, <2>2
<1>8. ASSUME Sync!Expire PROVE Goal
  <2>1. \A w \in Workers : ~Sync!IsRun(job'[w])
    <3>1. UNCHANGED job /\ \A w \in Workers : ~Sync!IsRun(job[w])
      BY <1>8 DEF Sync!Expire
    <3> QED BY <3>1
  <2> QED BY <2>1 DEF Goal
<1>9. Goal
  <2>1. CASE \E w \in Workers : Sync!Work(w)
    BY <1>6, <2>1
  <2> QED BY <1>7, <1>8, <2>1 DEF Sync!Next
<1> QED BY <1>9 DEF Goal

-----------------------------------------------------------------------------
(* Checkpoints *)

Rooted ==
  /\ \A i \in DOMAIN history : history[i].status = "SUCCESS" => 1..history[i].checkpoint \subseteq Sync!Saved
  /\ \A w \in Workers : job[w] # Sync!Idle => Grounded(job[w])

LEMMA RootedJobs ==
  ASSUME SyncShape, Grows, \A v \in Workers : job[v] # Sync!Idle => Grounded(job[v]),
         NEW w \in Workers, NEW j, job' = [job EXCEPT ![w] = j], j = Sync!Idle \/ Grounded(j)'
  PROVE  \A v \in Workers : job'[v] # Sync!Idle => (Grounded(job[v]))'
<1> SUFFICES ASSUME NEW v \in Workers, job'[v] # Sync!Idle PROVE (Grounded(job[v]))'
  OBVIOUS
<1>1. CASE v = w
  BY <1>1 DEF SyncShape
<1>2. CASE v # w
  <2>1. PICK k : k = job[v]
    OBVIOUS
  <2>2. job'[v] = k /\ Grounded(k)
    BY <1>2, <2>1 DEF SyncShape
  <2>3. Grounded(k)'
    BY <2>2 DEF Grounded, Grows
  <2> QED BY <2>2, <2>3
<1> QED BY <1>1, <1>2

LEMMA RootedHistory ==
  ASSUME \A i \in DOMAIN history : history[i].status = "SUCCESS" => 1..history[i].checkpoint \subseteq Sync!Saved,
         history' = history, Grows
  PROVE  \A i \in DOMAIN history' : history'[i].status = "SUCCESS" => 1..history'[i].checkpoint \subseteq Sync!Saved'
BY DEF Grows

\* A run that succeeds leaves its checkpoint, which must have all before it.
LEMMA RootedClose ==
  ASSUME SyncShape, JobsOK, Rooted, Grows, NEW w \in Workers, job[w] # Sync!Idle, NEW s \in {"SUCCESS", "FAILED"},
         NEW c \in 0..time, Sync!Close(w, s, c), s = "SUCCESS" /\ Sync!IsRun(job[w]) => 1..c \subseteq Sync!Saved'
  PROVE  Rooted'
<1>1. job' = [job EXCEPT ![w] = Sync!Idle]
  BY DEF Sync!Close, Sync!End
<1>2. \A v \in Workers : job'[v] # Sync!Idle => (Grounded(job[v]))'
  BY <1>1, RootedJobs DEF Rooted
<1>3. \A i \in DOMAIN history' : history'[i].status = "SUCCESS" => 1..history'[i].checkpoint \subseteq Sync!Saved'
  <2>1. CASE Sync!IsRun(job[w])
    <3>1. job[w].run \in DOMAIN history
      BY <2>1, JobIs DEF JobOK, SyncShape, Sync!IsRun, Runs
    <3>2. history' = [history EXCEPT ![job[w].run] = [status |-> s, checkpoint |-> c]]
      BY <2>1 DEF Sync!Close
    <3>3. [status |-> s, checkpoint |-> c] \in Outcomes
      BY DEF SyncShape, Outcomes
    <3>4. PICK i \in DOMAIN history : i = job[w].run
      BY <3>1
    <3>5. PICK o \in Outcomes : o = [status |-> s, checkpoint |-> c]
      BY <3>3
    <3>6. history' = [history EXCEPT ![i] = o] /\ o.checkpoint = c /\ o.status = s
      BY <3>2, <3>4, <3>5
    <3>7. DOMAIN history' = DOMAIN history /\ history'[i] = o /\ \A k \in DOMAIN history \ {i} : history'[k] = history[k]
      BY <3>6, HistoryClosed
    <3>8. \A k \in DOMAIN history \ {i} : history[k].status = "SUCCESS" => 1..history[k].checkpoint \subseteq Sync!Saved'
      BY DEF Rooted, Grows
    <3> QED BY <2>1, <3>6, <3>7, <3>8
  <2>2. CASE ~Sync!IsRun(job[w])
    <3>1. history' = history
      BY <2>2 DEF Sync!Close
    <3> QED BY <3>1, RootedHistory DEF Rooted
  <2> QED BY <2>1, <2>2
<1> QED BY <1>2, <1>3 DEF Rooted

LEMMA RootedFail ==
  ASSUME SyncShape, JobsOK, Rooted, Grows, NEW w \in Workers, job[w] # Sync!Idle, Sync!Fail(w)
  PROVE  Rooted'
<1>1. Sync!Close(w, "FAILED", 0)
  BY DEF Sync!Fail
<1>2. 0 \in 0..time
  BY DEF SyncShape
<1> QED BY <1>1, <1>2, RootedClose

LEMMA RootedJob ==
  ASSUME SyncShape, Grows, Rooted, history' = history,
         NEW w \in Workers, NEW j, job' = [job EXCEPT ![w] = j], j = Sync!Idle \/ Grounded(j)'
  PROVE  Rooted'
<1>1. \A v \in Workers : job'[v] # Sync!Idle => (Grounded(job[v]))'
  BY RootedJobs DEF Rooted
<1>2. \A i \in DOMAIN history' : history'[i].status = "SUCCESS" => 1..history'[i].checkpoint \subseteq Sync!Saved'
  BY RootedHistory DEF Rooted
<1> QED BY <1>1, <1>2 DEF Rooted

\* Where the last success left off, nothing is missing.
LEMMA LatestRooted ==
  ASSUME SyncShape, Rooted
  PROVE  Sync!Latest \in Nat /\ 1..Sync!Latest \subseteq Sync!Saved
<1>1. PICK successes : successes = {i \in DOMAIN history : history[i].status = "SUCCESS"}
  OBVIOUS
<1>2. CASE successes = {}
  <2>1. Sync!Latest = 0
    BY <1>1, <1>2 DEF Sync!Latest, Sync!Max, Max
  <2> QED BY <2>1
<1>3. CASE successes # {}
  <2>1. successes \subseteq 0..Len(history) /\ Len(history) \in Nat
    BY <1>1 DEF SyncShape
  <2>2. Max(successes) \in successes
    BY <1>3, <2>1, GreatestNumber
  <2>3. Sync!Latest = history[Max(successes)].checkpoint
    BY <1>1, <1>3 DEF Sync!Latest, Sync!Max, Max
  <2>4. PICK m : m = Max(successes)
    OBVIOUS
  <2>5. m \in DOMAIN history /\ history[m].status = "SUCCESS" /\ Sync!Latest = history[m].checkpoint
    BY <1>1, <2>2, <2>3, <2>4
  <2>6. history[m] \in Outcomes
    BY <2>5 DEF SyncShape
  <2> QED BY <2>5, <2>6 DEF Rooted, Outcomes
<1> QED BY <1>2, <1>3

LEMMA RootedFetch ==
  ASSUME SyncShape, JobsOK, Rooted, Grows, {"window", "late"} \cap mode = {}, NEW w \in Workers, Sync!Fetch(w)
  PROVE  Rooted'
<1>1. JobOK(job[w]) /\ job[w].op = "fetch"
  BY Underway DEF Sync!Fetch, Ops
<1>2. PICK from \in Sync!From(job[w].kind) :
        job' = [job EXCEPT ![w].op = "save", ![w].fetched = {p \in 1..time : p >= from}, ![w].seen = Sync!Saved]
  BY DEF Sync!Fetch
<1>3. PICK F : F = {p \in 1..time : p >= from}
  OBVIOUS
<1>4. PICK k : k = [job[w] EXCEPT !.op = "save", !.fetched = F, !.seen = Sync!Saved]
  OBVIOUS
<1>5. job' = [job EXCEPT ![w] = k] /\ history' = history /\ raw' = raw
  BY <1>2, <1>3, <1>4 DEF Sync!Fetch
<1>6. k.fetched = F
  BY <1>1, <1>4 DEF JobOK, Jobs
<1>7. from \in Nat /\ 1..(from - 1) \subseteq Sync!Saved
  <2>1. "window" \notin mode /\ "late" \notin mode
    OBVIOUS
  <2>2. from = 1 \/ (from = Sync!Latest /\ Sync!Latest > 0)
    <3>1. job[w] # Sync!Idle
      BY <1>1 DEF Sync!Idle
    <3>2. job[w].kind # "WINDOW" /\ Sync!Lookback = 1
      BY <2>1, <3>1 DEF Rooted, Grounded, Sync!Lookback
    <3> QED BY <1>2, <3>2 DEF Sync!From
  <2> QED BY <2>2, LatestRooted
<1>8. Grounded(k)'
  <2>0. k.kind # "WINDOW"
    <3>1. job[w] # Sync!Idle
      BY <1>1 DEF Sync!Idle
    <3> QED BY <1>1, <1>4, <3>1 DEF Rooted, Grounded, JobOK, Jobs
  <2> SUFFICES ASSUME NEW p \in F, NEW q \in 1..p PROVE q \in Sync!Saved \/ q \in F
    BY <1>5, <1>6, <2>0 DEF Grounded, Sync!Saved
  <2>1. q \in 1..time
    BY <1>3 DEF SyncShape
  <2>2. q >= from \/ q \in 1..(from - 1)
    BY <1>7, <2>1
  <2> QED BY <1>3, <1>7, <2>1, <2>2
<1> QED BY <1>5, <1>8, RootedJob

LEMMA RootedSave ==
  ASSUME SyncShape, JobsOK, Rooted, Grows, NEW w \in Workers, Sync!Save(w)
  PROVE  Rooted'
<1>1. JobOK(job[w]) /\ job[w].op = "save" /\ job[w] # Sync!Idle
  BY Underway DEF Sync!Save, Ops
<1>2. CASE Sync!Fail(w)
  BY <1>1, <1>2, RootedFail
<1>3. CASE ~Sync!Fail(w)
  <2>1. PICK o, n : job' = [job EXCEPT ![w].op = o, ![w].new = n] /\ o \in {"look", "finish"}
    BY <1>3 DEF Sync!Save
  <2>2. PICK k : k = [job[w] EXCEPT !.op = o, !.new = n]
    OBVIOUS
  <2>3. job' = [job EXCEPT ![w] = k] /\ history' = history
    BY <1>3, <2>1, <2>2 DEF Sync!Save
  <2>4. k.kind = job[w].kind /\ k.fetched = job[w].fetched
    BY <1>1, <2>2 DEF JobOK, Jobs
  <2>5. Grounded(job[w])
    BY <1>1 DEF Rooted
  <2>6. Grounded(k)'
    BY <1>1, <2>4, <2>5 DEF Grounded, Grows
  <2> QED BY <2>3, <2>6, RootedJob
<1> QED BY <1>2, <1>3

LEMMA RootedLook ==
  ASSUME SyncShape, JobsOK, Rooted, Grows, NEW w \in Workers, Sync!Look(w)
  PROVE  Rooted'
<1>1. JobOK(job[w]) /\ job[w].op = "look" /\ job[w] # Sync!Idle
  BY Underway DEF Sync!Look, Ops
<1>2. PICK o, n : job' = [job EXCEPT ![w].op = "normalize", ![w].seen = o, ![w].found = n]
  BY DEF Sync!Look
<1>3. PICK k : k = [job[w] EXCEPT !.op = "normalize", !.seen = o, !.found = n]
  OBVIOUS
<1>4. job' = [job EXCEPT ![w] = k] /\ history' = history
  BY <1>2, <1>3 DEF Sync!Look
<1>5. k.kind = job[w].kind /\ k.fetched = job[w].fetched
  BY <1>1, <1>3 DEF JobOK, Jobs
<1>6. Grounded(job[w])
  BY <1>1 DEF Rooted
<1>7. Grounded(k)'
  BY <1>1, <1>5, <1>6 DEF Grounded, Grows
<1> QED BY <1>4, <1>7, RootedJob

LEMMA RootedNormalize ==
  ASSUME SyncShape, JobsOK, Rooted, Grows, NEW w \in Workers, Sync!Normalize(w)
  PROVE  Rooted'
<1>1. JobOK(job[w]) /\ job[w].op = "normalize" /\ job[w] # Sync!Idle
  BY Underway DEF Sync!Normalize, Ops
<1>2. CASE Sync!Fail(w)
  BY <1>1, <1>2, RootedFail
<1>3. CASE ~Sync!Fail(w)
  <2>1. job' = [job EXCEPT ![w].op = "finish"] /\ history' = history
    BY <1>3 DEF Sync!Normalize
  <2>2. PICK k : k = [job[w] EXCEPT !.op = "finish"]
    OBVIOUS
  <2>3. job' = [job EXCEPT ![w] = k]
    BY <2>1, <2>2
  <2>4. k.kind = job[w].kind /\ k.fetched = job[w].fetched
    BY <1>1, <2>2 DEF JobOK, Jobs
  <2>5. Grounded(job[w])
    BY <1>1 DEF Rooted
  <2>6. Grounded(k)'
    BY <1>1, <2>4, <2>5 DEF Grounded, Grows
  <2> QED BY <2>1, <2>3, <2>6, RootedJob
<1> QED BY <1>2, <1>3

LEMMA RootedFinish ==
  ASSUME SyncShape, JobsOK, Rooted, Grows, NEW w \in Workers, Sync!Finish(w)
  PROVE  Rooted'
<1>1. JobOK(job[w]) /\ job[w].op = "finish" /\ job[w] # Sync!Idle
  BY Underway DEF Sync!Finish, Ops
<1>2. PICK c : c = IF job[w].new = {} THEN 0 ELSE Max(job[w].new)
  OBVIOUS
<1>3. job[w].new \subseteq 0..time /\ time \in Nat /\ 0 \in 0..time
  <2>1. job[w].new \subseteq Sync!Saved
    BY <1>1 DEF JobOK
  <2>2. time \in Nat /\ Sync!Saved \subseteq 1..time
    BY DEF SyncShape
  <2>3. 1..time \subseteq 0..time /\ 0 \in 0..time
    BY <2>2
  <2> QED BY <2>1, <2>2, <2>3
<1>4. job[w].new # {} => Max(job[w].new) \in job[w].new
  BY <1>3, GreatestNumber
<1>5. Sync!Close(w, "SUCCESS", c) /\ raw' = raw /\ c \in 0..time
  BY <1>2, <1>3, <1>4 DEF Sync!Finish, Sync!Max, Max
<1>6. ASSUME Sync!IsRun(job[w]) PROVE 1..c \subseteq Sync!Saved'
  <2>1. CASE job[w].new = {}
    BY <1>2, <2>1
  <2>2. CASE job[w].new # {}
    <3>1. c \in job[w].fetched
      BY <1>1, <1>2, <1>4, <1>6, <2>2 DEF JobOK, Sync!IsRun, Runs
    <3>2. Grounded(job[w]) /\ job[w].fetched \subseteq Sync!Saved
      BY <1>1 DEF Rooted, JobOK
    <3>3. 1..c \subseteq Sync!Saved \cup job[w].fetched
      BY <1>1, <1>6, <3>1, <3>2 DEF Grounded, Sync!IsRun, Runs
    <3> QED BY <1>5, <3>2, <3>3 DEF Sync!Saved
  <2> QED BY <2>1, <2>2
<1> QED BY <1>1, <1>5, <1>6, RootedClose

LEMMA RootedWork ==
  ASSUME SyncShape, JobsOK, Rooted, Grows, {"window", "late"} \cap mode = {}, NEW w \in Workers, Sync!Work(w)
  PROVE  Rooted'
<1>1. ASSUME NEW kind \in {"MANUAL", "INCREMENTAL", "SCHEDULED", "WINDOW"}, Sync!Start(w, kind) PROVE Rooted'
  <2>0. PICK j : j = [op |-> "fetch", kind |-> kind, fetched |-> {}, seen |-> Sync!Saved, new |-> {}, found |-> {},
                      run |-> Len(history) + 1]
    OBVIOUS
  <2>1. job' = [job EXCEPT ![w] = j] /\ j.op = "fetch" /\ j.kind # "WINDOW"
    BY <1>1, <2>0 DEF Sync!Start, Sync!Begin
  <2>2. Grounded(j)'
    BY <2>1 DEF Grounded
  <2>3. \A v \in Workers : job'[v] # Sync!Idle => (Grounded(job[v]))'
    BY <2>1, <2>2, RootedJobs DEF Rooted
  <2>4. history' = Append(history, [status |-> "RUNNING", checkpoint |-> 0]) /\ raw' = raw
    BY <1>1 DEF Sync!Start
  <2>5. \A i \in DOMAIN history' : history'[i].status = "SUCCESS" => 1..history'[i].checkpoint \subseteq Sync!Saved'
    BY <2>4, HistoryAppended DEF Rooted, Sync!Saved
  <2> QED BY <2>3, <2>5 DEF Rooted
<1>2. ASSUME NEW S, Sync!Push(w, S) PROVE Rooted'
  <2>1. PICK j : job' = [job EXCEPT ![w] = j] /\ j.kind = "PUSH" /\ history' = history
    BY <1>2 DEF Sync!Push, Sync!Begin
  <2>2. Grounded(j)'
    BY <2>1 DEF Grounded, Runs
  <2> QED BY <2>1, <2>2, RootedJob
<1>3. ASSUME NEW u \in SyncUsers, Sync!Activate(w, u) PROVE Rooted'
  <2>1. PICK j : job' = [job EXCEPT ![w] = j] /\ j.kind = "MAP" /\ history' = history
    BY <1>3 DEF Sync!Activate, Sync!Begin
  <2>2. Grounded(j)'
    BY <2>1 DEF Grounded, Runs
  <2> QED BY <2>1, <2>2, RootedJob
<1>4. CASE Sync!Offline(w)
  <2>1. job[w] # Sync!Idle /\ Sync!Fail(w)
    BY <1>4, Underway DEF Sync!Offline, Ops
  <2> QED BY <2>1, RootedFail
<1>5. CASE Sync!Die(w)
  <2>1. job' = [job EXCEPT ![w] = Sync!Idle] /\ history' = history
    BY <1>5 DEF Sync!Die, Sync!End
  <2> QED BY <2>1, RootedJob
<1>6. CASE Sync!Remap(w)
  <2>1. JobOK(job[w]) /\ job[w].op = "remap" /\ history' = history
    BY <1>6, Underway DEF Sync!Remap, Ops
  <2>2. CASE Sync!End(w)
    BY <2>1, <2>2, RootedJob DEF Sync!End
  <2>3. CASE ~Sync!End(w)
    <3>1. PICK n : job' = [job EXCEPT ![w].op = "look", ![w].new = n]
      BY <1>6, <2>3 DEF Sync!Remap
    <3>2. PICK k : k = [job[w] EXCEPT !.op = "look", !.new = n]
      OBVIOUS
    <3>3. job' = [job EXCEPT ![w] = k]
      BY <3>1, <3>2
    <3>4. k.kind \notin Runs
      BY <2>1, <3>2 DEF JobOK, Jobs
    <3>5. Grounded(k)'
      BY <3>4 DEF Grounded, Runs
    <3> QED BY <2>1, <3>3, <3>5, RootedJob
  <2> QED BY <2>2, <2>3
<1> QED BY <1>1, <1>2, <1>3, <1>4, <1>5, <1>6, RootedFetch, RootedSave, RootedLook, RootedNormalize, RootedFinish DEF Sync!Work

LEMMA CheckpointsStep ==
  ASSUME SyncShape, JobsOK, CheckpointsOK, Grows, Sync!Next, UNCHANGED mode
  PROVE  CheckpointsOK'
<1> SUFFICES ASSUME {"window", "late"} \cap mode = {} PROVE Rooted'
  BY DEF CheckpointsOK, Rooted
<1>1. Rooted
  BY DEF CheckpointsOK, Rooted
<1>2. CASE \E w \in Workers : Sync!Work(w)
  BY <1>1, <1>2, RootedWork
<1>3. ASSUME history' = history, job' = job PROVE Rooted'
  <2>1. \A i \in DOMAIN history' : history'[i].status = "SUCCESS" => 1..history'[i].checkpoint \subseteq Sync!Saved'
    BY <1>1, <1>3, RootedHistory DEF Rooted
  <2>2. ASSUME NEW v \in Workers, job'[v] # Sync!Idle PROVE (Grounded(job[v]))'
    <3>1. PICK k : k = job[v]
      OBVIOUS
    <3>2. Grounded(k)
      BY <1>1, <1>3, <2>2, <3>1 DEF Rooted
    <3>3. Grounded(k)'
      BY <3>2 DEF Grounded, Grows
    <3> QED BY <1>3, <3>1, <3>3
  <2> QED BY <2>1, <2>2 DEF Rooted
<1>4. ASSUME NEW i \in 1..SyncMaxRuns, Sync!CleanUp(i) PROVE Rooted'
  <2>1. history' = [history EXCEPT ![i].status = "CANCELLED"] /\ i \in DOMAIN history /\ job' = job /\ raw' = raw
    BY <1>4 DEF Sync!CleanUp
  <2>2. history[i] \in Outcomes
    BY <2>1 DEF SyncShape
  <2>3. PICK o : o = [history[i] EXCEPT !.status = "CANCELLED"]
    OBVIOUS
  <2>4. o \in Outcomes /\ o.status = "CANCELLED" /\ history' = [history EXCEPT ![i] = o]
    BY <2>1, <2>2, <2>3 DEF Outcomes
  <2>5. DOMAIN history' = DOMAIN history /\ history'[i] = o /\ \A k \in DOMAIN history \ {i} : history'[k] = history[k]
    BY <2>1, <2>4, HistoryClosed
  <2>6. \A k \in DOMAIN history' : history'[k].status = "SUCCESS" => 1..history'[k].checkpoint \subseteq Sync!Saved'
    BY <1>1, <2>1, <2>4, <2>5 DEF Rooted, Sync!Saved
  <2>7. \A v \in Workers : job'[v] # Sync!Idle => (Grounded(job[v]))'
    BY <1>1, <2>1 DEF Rooted, Grounded, Sync!Saved
  <2> QED BY <2>6, <2>7 DEF Rooted
<1>5. CASE Sync!Expire \/ Sync!Punch \/ \E u \in SyncUsers : Sync!Deactivate(u)
  <2>1. history' = history /\ job' = job
    BY <1>5 DEF Sync!Expire, Sync!Punch, Sync!Deactivate
  <2> QED BY <1>3, <2>1
<1> QED BY <1>2, <1>4, <1>5 DEF Sync!Next

-----------------------------------------------------------------------------
(* Requests that do not overlap *)

LEMMA WorkerJob ==
  ASSUME NEW w \in Workers, Sync!Work(w)
  PROVE  (\E k : job' = [job EXCEPT ![w] = k]) /\ (Sync!Free(w) \/ job[w] # Sync!Idle)
<1>1. ASSUME NEW kind, Sync!Start(w, kind) PROVE (\E k : job' = [job EXCEPT ![w] = k]) /\ Sync!Free(w)
  BY <1>1 DEF Sync!Start, Sync!Begin
<1>2. ASSUME NEW S, Sync!Push(w, S) PROVE (\E k : job' = [job EXCEPT ![w] = k]) /\ Sync!Free(w)
  BY <1>2 DEF Sync!Push, Sync!Begin
<1>3. ASSUME NEW u, Sync!Activate(w, u) PROVE (\E k : job' = [job EXCEPT ![w] = k]) /\ Sync!Free(w)
  BY <1>3 DEF Sync!Activate, Sync!Begin
<1>4. CASE Sync!Fetch(w)
  <2>1. PICK F : job' = [job EXCEPT ![w].op = "save", ![w].fetched = F, ![w].seen = Sync!Saved]
    BY <1>4 DEF Sync!Fetch
  <2>2. PICK k : k = [job[w] EXCEPT !.op = "save", !.fetched = F, !.seen = Sync!Saved]
    OBVIOUS
  <2>3. job' = [job EXCEPT ![w] = k] /\ job[w].op = "fetch"
    BY <1>4, <2>1, <2>2 DEF Sync!Fetch
  <2>4. job[w] # Sync!Idle
    BY <2>3 DEF Sync!Idle
  <2> QED BY <2>3, <2>4
<1>5. CASE Sync!Save(w)
  BY <1>5 DEF Sync!Save, Sync!Idle, Sync!Fail, Sync!Close, Sync!End
<1>6. CASE Sync!Look(w)
  <2>1. PICK F, G : job' = [job EXCEPT ![w].op = "normalize", ![w].seen = G, ![w].found = F]
    BY <1>6 DEF Sync!Look
  <2>2. PICK k : k = [job[w] EXCEPT !.op = "normalize", !.seen = G, !.found = F]
    OBVIOUS
  <2>3. job' = [job EXCEPT ![w] = k] /\ job[w].op = "look"
    BY <1>6, <2>1, <2>2 DEF Sync!Look
  <2>4. job[w] # Sync!Idle
    BY <2>3 DEF Sync!Idle
  <2> QED BY <2>3, <2>4
<1>7. CASE Sync!Normalize(w)
  BY <1>7 DEF Sync!Normalize, Sync!Idle, Sync!Fail, Sync!Close, Sync!End
<1>8. CASE Sync!Finish(w)
  <2>1. job' = [job EXCEPT ![w] = Sync!Idle] /\ job[w].op = "finish"
    BY <1>8 DEF Sync!Finish, Sync!Fail, Sync!Close, Sync!End
  <2>2. job[w] # Sync!Idle
    BY <2>1 DEF Sync!Idle
  <2> QED BY <2>1, <2>2
<1>9. CASE Sync!Offline(w)
  <2>1. job' = [job EXCEPT ![w] = Sync!Idle] /\ job[w].op = "fetch"
    BY <1>9 DEF Sync!Offline, Sync!Fail, Sync!Close, Sync!End
  <2>2. job[w] # Sync!Idle
    BY <2>1 DEF Sync!Idle
  <2> QED BY <2>1, <2>2
<1>10. CASE Sync!Die(w)
  BY <1>10 DEF Sync!Die, Sync!End
<1>11. CASE Sync!Remap(w)
  BY <1>11 DEF Sync!Remap, Sync!Idle, Sync!End
<1> QED BY <1>1, <1>2, <1>3, <1>4, <1>5, <1>6, <1>7, <1>8, <1>9, <1>10, <1>11 DEF Sync!Work

LEMMA OthersIdle ==
  ASSUME SyncShape, Alone, "overlap" \notin mode, NEW w \in Workers, Sync!Work(w)
  PROVE  \A v \in Workers \ {w} : job[v] = Sync!Idle /\ job'[v] = Sync!Idle
<1>1. PICK k : job' = [job EXCEPT ![w] = k]
  BY WorkerJob
<1>2. \A v \in Workers \ {w} : job'[v] = job[v]
  BY <1>1 DEF SyncShape
<1>3. \A v \in Workers \ {w} : job[v] = Sync!Idle
  BY WorkerJob DEF Alone, Sync!Free
<1> QED BY <1>2, <1>3

\* Without overlap one job at a time.
LEMMA AloneStep ==
  ASSUME SyncShape, Alone, Sync!Next, UNCHANGED mode
  PROVE  Alone'
<1> SUFFICES ASSUME "overlap" \notin mode
             PROVE  \A v, w \in Workers : job'[v] # Sync!Idle /\ job'[w] # Sync!Idle => v = w
  BY DEF Alone
<1>1. ASSUME NEW x \in Workers, Sync!Work(x), NEW v \in Workers, NEW w \in Workers, job'[v] # Sync!Idle, job'[w] # Sync!Idle
      PROVE  v = w
  BY <1>1, OthersIdle
<1>2. CASE ~ \E x \in Workers : Sync!Work(x)
  <2>1. job' = job
    BY <1>2 DEF Sync!Next, Sync!Deactivate, Sync!CleanUp, Sync!Expire, Sync!Punch
  <2> QED BY <2>1 DEF Alone
<1> QED BY <1>1, <1>2

\* All is settled except for what the job j still has to do.
SettledWith(j) ==
  /\ j # Sync!Idle => SettledBy(j)
  /\ \A p \in Sync!Saved : ~Takes(j, p) => Recorded(p)
  /\ j.op # "remap" => \A p \in Sync!Saved : Sync!Mapped(p) => raw[p]

LEMMA SettledBefore ==
  ASSUME Settled, mode \cap {"overlap", "die"} = {}, NEW w \in Workers,
         \A v \in Workers \ {w} : job[v] = Sync!Idle
  PROVE  SettledWith(job[w])
<1>1. \A v \in Workers \ {w} : job[v].op = "idle"
  BY DEF Sync!Idle
<1>2. \A v \in Workers \ {w} : job[v].op # "remap" /\ \A p : ~Takes(job[v], p)
  BY <1>1 DEF Takes
<1> QED BY <1>2 DEF Settled, SettledWith

LEMMA SettledAfter ==
  ASSUME NEW w \in Workers, \A v \in Workers \ {w} : job'[v] = Sync!Idle, SettledWith(job[w])'
  PROVE  Settled'
<1>1. \A v \in Workers \ {w} : job'[v].op = "idle"
  BY DEF Sync!Idle
<1> QED BY <1>1 DEF Settled, SettledWith, Takes

\* Steps that leave the punches alone.
LEMMA SettledQuiet ==
  ASSUME NEW j, NEW k, SettledWith(j), UNCHANGED <<mapping, raw, normalized>>,
         k # Sync!Idle => SettledBy(k), j.op = "remap" => k.op = "remap", \A p \in Sync!Saved : Takes(j, p) => Takes(k, p)
  PROVE  SettledWith(k)'
BY DEF SettledWith, SettledBy, Takes, Recorded, Sync!Saved, Sync!Mapped

LEMMA SettledClose ==
  ASSUME NEW w \in Workers, NEW s, NEW c, Sync!Close(w, s, c), SyncShape, SettledWith(job[w]),
         job[w].op \in {"fetch", "save", "finish"}, UNCHANGED <<mapping, raw, normalized>>
  PROVE  SettledWith(job[w])'
<1>1. PICK j : j = job[w]
  OBVIOUS
<1>2. job'[w] = Sync!Idle
  BY DEF Sync!Close, Sync!End, SyncShape
<1>3. SettledWith(Sync!Idle)'
  <2>1. PICK k : k = Sync!Idle
    OBVIOUS
  <2>2. \A p \in Sync!Saved : ~Takes(j, p)
    BY <1>1 DEF Takes
  <2>3. SettledWith(k)'
    BY <1>1, <2>1, <2>2, SettledQuiet
  <2> QED BY <2>1, <2>3
<1> QED BY <1>2, <1>3

LEMMA SettledStart ==
  ASSUME SyncShape, NEW w \in Workers, NEW op \in {"fetch", "save", "remap"}, NEW kind, NEW S, NEW run, job[w] = Sync!Idle,
         Sync!Begin(w, op, kind, S, run), SettledWith(job[w]),
         UNCHANGED <<raw, normalized>>, op = "remap" \/ mapping' = mapping
  PROVE  SettledWith(job[w])'
<1>1. PICK k : k = [op |-> op, kind |-> kind, fetched |-> S, seen |-> Sync!Saved, new |-> {}, found |-> {}, run |-> run]
  OBVIOUS
<1>2. job'[w] = k /\ k.op = op /\ k.seen = Sync!Saved /\ k.new = {}
  BY <1>1 DEF Sync!Begin, SyncShape
<1>3. (\A p \in Sync!Saved : Recorded(p)) /\ \A p \in Sync!Saved : Sync!Mapped(p) => raw[p]
  BY DEF SettledWith, Takes, Sync!Idle
<1>4. SettledWith(k)'
  BY <1>2, <1>3 DEF SettledWith, SettledBy, Recorded, Sync!Saved, Sync!Mapped, Takes
<1> QED BY <1>2, <1>4

LEMMA SettledSave ==
  ASSUME SyncShape, JobsOK, NEW w \in Workers, Sync!Save(w), SettledWith(job[w])
  PROVE  SettledWith(job[w])'
<1>1. JobOK(job[w]) /\ job[w].op = "save" /\ job[w] # Sync!Idle
  BY Underway DEF Sync!Save, Ops
<1>2. CASE (job[w].fetched \ job[w].seen) \cap Sync!Saved # {}
  <2>1. Sync!Close(w, "FAILED", 0) /\ UNCHANGED <<mapping, raw, normalized>>
    BY <1>2 DEF Sync!Fail, Sync!Save
  <2> QED BY <1>1, <2>1, SettledClose
<1>3. CASE (job[w].fetched \ job[w].seen) \cap Sync!Saved = {}
  <2>0. PICK new : new = job[w].fetched \ job[w].seen
    OBVIOUS
  <2>1. /\ raw' = Sync!With(new, raw) /\ UNCHANGED <<mapping, normalized>>
        /\ job' = [job EXCEPT ![w].op = IF new = {} THEN "finish" ELSE "look", ![w].new = new]
        /\ new \cap Sync!Saved = {}
    BY <1>3, <2>0 DEF Sync!Save
  <2>2. PICK k : k = [job[w] EXCEPT !.op = IF new = {} THEN "finish" ELSE "look", !.new = new]
    OBVIOUS
  <2>3. job'[w] = k
    BY <2>1, <2>2 DEF SyncShape
  <2>4. k.op = (IF new = {} THEN "finish" ELSE "look") /\ k.new = new
    BY <1>1, <2>2 DEF JobOK, Jobs
  <2>5. /\ DOMAIN raw' = Sync!Saved \cup new
        /\ \A p \in Sync!Saved : raw'[p] = raw[p]
        /\ \A p \in new : raw'[p] = Sync!Mapped(p)
    BY <2>1 DEF Sync!With, Sync!Saved
  <2>6. (\A p \in Sync!Saved : Recorded(p)) /\ \A p \in Sync!Saved : Sync!Mapped(p) => raw[p]
    BY <1>1 DEF SettledWith, Takes
  <2>7. \A p : Sync!Mapped(p)' = Sync!Mapped(p)
    BY <2>1 DEF Sync!Mapped
  <2>8. \A p \in Sync!Saved : Recorded(p)'
    BY <2>1, <2>5, <2>6 DEF Recorded
  <2>9. \A p \in Sync!Saved' : ~Takes(k, p) => Recorded(p)'
    BY <2>4, <2>5, <2>8 DEF Takes, Sync!Saved
  <2>10. \A p \in Sync!Saved' : Sync!Mapped(p)' => raw'[p]
    BY <2>5, <2>6, <2>7 DEF Sync!Saved
  <2>11. SettledBy(k)'
    BY <2>4, <2>5, <2>7 DEF SettledBy
  <2>12. SettledWith(k)'
    BY <2>9, <2>10, <2>11 DEF SettledWith
  <2> QED BY <2>3, <2>12
<1> QED BY <1>2, <1>3

LEMMA SettledLook ==
  ASSUME SyncShape, JobsOK, NEW w \in Workers, Sync!Look(w), SettledWith(job[w])
  PROVE  SettledWith(job[w])'
<1>1. JobOK(job[w]) /\ job[w].op = "look" /\ job[w] # Sync!Idle
  BY Underway DEF Sync!Look, Ops
<1>2. PICK found : found = {p \in job[w].new : Sync!Mapped(p)}
  OBVIOUS
<1>3. PICK k : k = [job[w] EXCEPT !.op = "normalize", !.seen = DOMAIN normalized, !.found = found]
  OBVIOUS
<1>4. job'[w] = k /\ UNCHANGED <<mapping, raw, normalized>>
  BY <1>2, <1>3 DEF Sync!Look, SyncShape
<1>5. k.op = "normalize" /\ k.seen = DOMAIN normalized /\ k.found = found /\ k.new = job[w].new
  BY <1>1, <1>3 DEF JobOK, Jobs
<1>6. SettledBy(k)
  BY <1>1, <1>2, <1>5 DEF SettledWith, SettledBy
<1>7. PICK j : j = job[w]
  OBVIOUS
<1>8. SettledWith(k)'
  BY <1>1, <1>4, <1>5, <1>6, <1>7, SettledQuiet DEF Takes
<1> QED BY <1>4, <1>8

LEMMA SettledNormalize ==
  ASSUME SyncShape, JobsOK, NEW w \in Workers, Sync!Normalize(w), SettledWith(job[w])
  PROVE  SettledWith(job[w])'
<1>1. JobOK(job[w]) /\ job[w].op = "normalize" /\ job[w] # Sync!Idle
  BY Underway DEF Sync!Normalize, Ops
<1>2. PICK j : j = job[w]
  OBVIOUS
<1>3. /\ j.seen = DOMAIN normalized /\ j.found = {p \in j.new : Sync!Mapped(p)} /\ \A p \in j.new : raw[p] = Sync!Mapped(p)
      /\ j.new \subseteq Sync!Saved
  BY <1>1, <1>2 DEF SettledWith, SettledBy, JobOK
<1>4. /\ normalized' = [p \in j.new \cup DOMAIN normalized |->
             IF p \in j.new THEN (IF p \in j.found THEN "PENDING" ELSE "UNMAPPED") ELSE normalized[p]]
      /\ raw' = [p \in Sync!Saved |-> raw[p] \/ p \in j.found]
      /\ job' = [job EXCEPT ![w].op = "finish"]
      /\ mapping' = mapping
  BY <1>2, <1>3 DEF Sync!Normalize
<1>5. PICK k : k = [j EXCEPT !.op = "finish"]
  OBVIOUS
<1>6. job'[w] = k /\ k.op = "finish"
  BY <1>1, <1>2, <1>4, <1>5 DEF SyncShape, JobOK, Jobs
<1>7. Sync!Saved' = Sync!Saved /\ \A p \in Sync!Saved : raw'[p] = raw[p]
  BY <1>3, <1>4 DEF Sync!Saved, Sync!Mapped, SyncShape
<1>8. ASSUME NEW p \in Sync!Saved PROVE Recorded(p)'
  <2>1. CASE p \in j.new
    BY <1>3, <1>4, <1>7, <2>1 DEF Recorded
  <2>2. CASE p \notin j.new
    <3>1. Recorded(p)
      BY <1>2, <2>2 DEF SettledWith, Takes
    <3> QED BY <1>4, <1>7, <2>2, <3>1 DEF Recorded
  <2> QED BY <2>1, <2>2
<1>9. \A p \in Sync!Saved : Sync!Mapped(p) => raw[p]
  BY <1>1 DEF SettledWith
<1>10. \A p \in Sync!Saved' : Sync!Mapped(p)' => raw'[p]
  BY <1>4, <1>7, <1>9 DEF Sync!Mapped
<1>11. SettledWith(k)'
  BY <1>6, <1>7, <1>8, <1>10 DEF SettledWith, SettledBy
<1> QED BY <1>6, <1>11

LEMMA SettledRemap ==
  ASSUME SyncShape, JobsOK, NEW w \in Workers, Sync!Remap(w), SettledWith(job[w])
  PROVE  SettledWith(job[w])'
<1>1. JobOK(job[w]) /\ job[w].op = "remap" /\ job[w] # Sync!Idle
  BY Underway DEF Sync!Remap, Ops
<1>2. PICK new : new = {p \in Sync!Saved : ~raw[p] /\ Sync!Mapped(p)}
  OBVIOUS
<1>3. /\ raw' = [p \in Sync!Saved |-> raw[p] \/ p \in new]
      /\ IF new = {} THEN Sync!End(w) ELSE job' = [job EXCEPT ![w].op = "look", ![w].new = new]
      /\ mapping' = mapping /\ normalized' = normalized
  BY <1>2 DEF Sync!Remap
<1>4. PICK k : k = IF new = {} THEN Sync!Idle ELSE [job[w] EXCEPT !.op = "look", !.new = new]
  OBVIOUS
<1>5. job'[w] = k
  BY <1>3, <1>4 DEF Sync!End, SyncShape
<1>6. (new = {} => k = Sync!Idle /\ k.op = "idle") /\ (new # {} => k.op = "look" /\ k.new = new)
  BY <1>1, <1>4 DEF JobOK, Jobs, Sync!Idle
<1>7. Sync!Saved' = Sync!Saved /\ new \subseteq Sync!Saved
  BY <1>2, <1>3 DEF Sync!Saved
<1>8. \A p \in Sync!Saved : (p \in new => raw'[p]) /\ (p \notin new => raw'[p] = raw[p])
  BY <1>3 DEF SyncShape
<1>9. \A p \in Sync!Saved : Recorded(p)
  BY <1>1 DEF SettledWith, Takes
<1>10. \A p \in Sync!Saved' : ~Takes(k, p) => Recorded(p)'
  BY <1>3, <1>6, <1>7, <1>8, <1>9 DEF Recorded, Takes
<1>11. \A p \in Sync!Saved' : Sync!Mapped(p)' => raw'[p]
  BY <1>2, <1>3, <1>7, <1>8 DEF Sync!Mapped
<1>12. k # Sync!Idle => SettledBy(k)'
  BY <1>2, <1>3, <1>6, <1>7, <1>8 DEF SettledBy, Sync!Mapped
<1>13. SettledWith(k)'
  BY <1>10, <1>11, <1>12 DEF SettledWith
<1> QED BY <1>5, <1>13

\* Each request that does not overlap settles what it saved before it ends.
LEMMA SettledStep ==
  ASSUME SyncShape, JobsOK, Alone, Settled, Sync!Next, UNCHANGED mode
  PROVE  Settled'
<1> SUFFICES ASSUME mode \cap {"overlap", "die"} = {} PROVE Settled'
  BY DEF Settled
<1>0. "overlap" \notin mode /\ "die" \notin mode
  OBVIOUS
<1>1. ASSUME NEW w \in Workers, Sync!Work(w) PROVE Settled'
  <2>1. \A v \in Workers \ {w} : job[v] = Sync!Idle /\ job'[v] = Sync!Idle
    BY <1>0, <1>1, OthersIdle
  <2>2. SettledWith(job[w])
    BY <2>1, SettledBefore
  <2>3. ASSUME NEW kind, Sync!Start(w, kind) PROVE SettledWith(job[w])'
    <3>1. /\ Sync!Begin(w, "fetch", kind, {}, Len(history) + 1) /\ job[w] = Sync!Idle
          /\ UNCHANGED <<raw, normalized>> /\ mapping' = mapping
      BY <2>3 DEF Sync!Start, Sync!Free
    <3> QED BY <2>2, <3>1, SettledStart
  <2>4. ASSUME NEW S, Sync!Push(w, S) PROVE SettledWith(job[w])'
    <3>1. /\ Sync!Begin(w, "save", "PUSH", S, 0) /\ job[w] = Sync!Idle
          /\ UNCHANGED <<raw, normalized>> /\ mapping' = mapping
      BY <2>4 DEF Sync!Push, Sync!Free
    <3> QED BY <2>2, <3>1, SettledStart
  <2>5. ASSUME NEW u, Sync!Activate(w, u) PROVE SettledWith(job[w])'
    <3>1. /\ Sync!Begin(w, "remap", "MAP", {}, 0) /\ job[w] = Sync!Idle
          /\ UNCHANGED <<raw, normalized>>
      BY <2>5 DEF Sync!Activate, Sync!Free
    <3> QED BY <2>2, <3>1, SettledStart
  <2>6. ASSUME Sync!Fetch(w) PROVE SettledWith(job[w])'
    <3>1. job[w].op = "fetch" /\ JobOK(job[w]) /\ UNCHANGED <<mapping, raw, normalized>>
      BY <2>6, Underway DEF Sync!Fetch, Ops
    <3>2. PICK F : job' = [job EXCEPT ![w].op = "save", ![w].fetched = F, ![w].seen = Sync!Saved]
      BY <2>6 DEF Sync!Fetch
    <3>3. PICK k : k = [job[w] EXCEPT !.op = "save", !.fetched = F, !.seen = Sync!Saved]
      OBVIOUS
    <3>4. job'[w] = k
      BY <3>2, <3>3 DEF SyncShape
    <3>5. k.op = "save" /\ k.seen = Sync!Saved
      BY <3>1, <3>3 DEF JobOK, Jobs
    <3>6. PICK j : j = job[w]
      OBVIOUS
    <3>7. SettledBy(k) /\ \A p \in Sync!Saved : ~Takes(j, p)
      BY <3>1, <3>5, <3>6 DEF SettledBy, Takes
    <3>8. SettledWith(k)'
      BY <2>2, <3>1, <3>6, <3>7, SettledQuiet
    <3> QED BY <3>4, <3>8
  <2>7. ASSUME Sync!Finish(w) PROVE SettledWith(job[w])'
    <3>1. PICK c : Sync!Close(w, "SUCCESS", c)
      BY <2>7 DEF Sync!Finish, Sync!Max, Max
    <3>2. job[w].op \in {"fetch", "save", "finish"} /\ UNCHANGED <<mapping, raw, normalized>>
      BY <2>7 DEF Sync!Finish, Sync!Max, Max
    <3> QED BY <2>2, <3>1, <3>2, SettledClose
  <2>8. ASSUME Sync!Offline(w) PROVE SettledWith(job[w])'
    <3>1. Sync!Close(w, "FAILED", 0) /\ job[w].op \in {"fetch", "save", "finish"} /\ UNCHANGED <<mapping, raw, normalized>>
      BY <2>8 DEF Sync!Offline, Sync!Fail
    <3> QED BY <2>2, <3>1, SettledClose
  <2>9. ASSUME Sync!Die(w) PROVE SettledWith(job[w])'
    BY <1>0, <2>9 DEF Sync!Die
  <2>10. SettledWith(job[w])'
    BY <1>1, <2>2, <2>3, <2>4, <2>5, <2>6, <2>7, <2>8, <2>9, SettledSave, SettledLook, SettledNormalize, SettledRemap
    DEF Sync!Work
  <2> QED BY <2>1, <2>10, SettledAfter
<1>2. ASSUME NEW u \in SyncUsers, Sync!Deactivate(u) PROVE Settled'
  <2>1. job' = job /\ raw' = raw /\ normalized' = normalized /\ mapping' = [mapping EXCEPT ![u] = "INACTIVE"]
    BY <1>2 DEF Sync!Deactivate
  <2>2. \A v \in Workers : job[v] = Sync!Idle
    BY <1>0, <1>2 DEF Sync!Deactivate
  <2>3. \A p : Sync!Mapped(p)' => Sync!Mapped(p)
    BY <2>1 DEF Sync!Mapped, SyncShape
  <2>4. \A v \in Workers : job[v].op = "idle"
    BY <2>2 DEF Sync!Idle
  <2>5. (\A p \in Sync!Saved : Recorded(p)) /\ \A p \in Sync!Saved : Sync!Mapped(p) => raw[p]
    BY <2>4 DEF Settled, Takes
  <2> QED BY <2>1, <2>2, <2>3, <2>5 DEF Settled, Recorded, Sync!Saved
<1>3. CASE Sync!Expire \/ Sync!Punch \/ \E i \in 1..SyncMaxRuns : Sync!CleanUp(i)
  <2>1. UNCHANGED <<mode, mapping, raw, normalized, job>>
    BY <1>3 DEF Sync!Expire, Sync!Punch, Sync!CleanUp
  <2> QED BY <2>1 DEF Settled, SettledBy, Takes, Recorded, Sync!Saved, Sync!Mapped
<1> QED BY <1>1, <1>2, <1>3 DEF Sync!Next

-----------------------------------------------------------------------------
LEMMA SyncInvInit == Sync!Init => SyncInv
<1> SUFFICES ASSUME Sync!Init PROVE SyncInv
  OBVIOUS
<1>1. Sync!Saved = {} /\ DOMAIN normalized = {} /\ DOMAIN history = {} /\ time = 0 /\ history = <<>> /\ lock = FALSE
  BY DEF Sync!Init, Sync!Saved
<1>2. \A w \in Workers : job[w] = Sync!Idle
  BY DEF Sync!Init
<1>3. SyncShape
  <2>0. raw \in Seq(BOOLEAN) /\ Len(raw) = 0
    BY DEF Sync!Init
  <2>1. raw \in [Sync!Saved -> BOOLEAN]
    BY <1>1, <2>0 DEF Sync!Saved
  <2>3. time \in Nat /\ lock \in BOOLEAN
    BY DEF Sync!Init
  <2>4. history \in Seq(Outcomes)
    BY DEF Sync!Init
  <2>2. DOMAIN mapping = SyncUsers /\ DOMAIN job = Workers
    BY DEF Sync!Init
  <2> QED BY <1>1, <2>1, <2>2, <2>3, <2>4 DEF SyncShape
<1>4. \A w \in Workers : ~Sync!IsRun(job[w])
  BY <1>2 DEF Sync!IsRun
<1> QED BY <1>1, <1>2, <1>3, <1>4 DEF SyncInv, JobsOK, LockHeld, CheckpointsOK, Alone, Settled

LEMMA SyncInvStep == SyncInv /\ [Sync!Next]_Sync!vars => SyncInv'
<1> SUFFICES ASSUME SyncInv, [Sync!Next]_Sync!vars PROVE SyncInv'
  OBVIOUS
<1>1. CASE Sync!Next
  <2>1. UNCHANGED mode
    BY <1>1 DEF Sync!Next, Sync!Work, Sync!Start, Sync!Fetch, Sync!Save, Sync!Look, Sync!Normalize, Sync!Finish, Sync!Offline, Sync!Die, Sync!Push, Sync!Activate, Sync!Remap,
                Sync!Deactivate, Sync!CleanUp, Sync!Expire, Sync!Punch
  <2>2. Grows /\ JobsOK'
    BY <1>1, ShapeKept DEF SyncInv
  <2> QED BY <1>1, <2>1, <2>2, LockStep, CheckpointsStep, AloneStep, SettledStep DEF SyncInv, Grows
<1>2. CASE UNCHANGED Sync!vars
  <2>1. UNCHANGED <<mode, time, mapping, raw, normalized, history, lock, job>>
    BY <1>2 DEF Sync!vars
  <2>2. Sync!Saved' = Sync!Saved
    BY <2>1 DEF Sync!Saved
  <2>3. SyncShape' /\ JobsOK' /\ LockHeld' /\ Alone'
    BY <2>1, <2>2 DEF SyncInv, SyncShape, JobsOK, JobOK, LockHeld, Alone
  <2>4. CheckpointsOK' /\ Settled'
    BY <2>1, <2>2 DEF SyncInv, CheckpointsOK, Grounded, Settled, SettledBy, Takes, Recorded, Sync!Mapped
  <2> QED BY <2>3, <2>4 DEF SyncInv
<1> QED BY <1>1, <1>2

\* The invariant implies the property the run checks.
LEMMA SyncInvSound == SyncInv => Sync!SyncSound
<1> SUFFICES ASSUME SyncInv PROVE Sync!SyncSound
  OBVIOUS
<1>1. SyncShape /\ JobsOK
  BY DEF SyncInv
<1>2. Sync!SyncTypeOK
  <2>1. ASSUME NEW i \in DOMAIN history
        PROVE  history[i].status \in {"RUNNING", "SUCCESS", "FAILED", "CANCELLED"} /\ history[i].checkpoint \in 0..time
    <3>1. history[i] \in Outcomes /\ history[i].checkpoint <= time /\ time \in Nat
      BY <1>1 DEF SyncShape
    <3>2. history[i].checkpoint \in Nat
      BY <3>1 DEF Outcomes
    <3> QED BY <3>1, <3>2 DEF Outcomes
  <2> QED BY <1>1, <2>1 DEF Sync!SyncTypeOK, SyncShape
<1>3. Sync!OneRun
  <2> SUFFICES ASSUME {"expire", "noRedis"} \cap mode = {}
               PROVE  Cardinality({w \in Workers : Sync!IsRun(job[w])}) <= 1
    BY DEF Sync!OneRun, Sync!Cardinality, Cardinality
  <2>1. PICK R : R = {w \in Workers : Sync!IsRun(job[w])}
    OBVIOUS
  <2>2. \A v, w \in R : v = w
    BY <2>1 DEF SyncInv, LockHeld
  <2>3. CASE R = {}
    BY <2>1, <2>3, FS_EmptySet
  <2>4. CASE R # {}
    <3>1. PICK w \in R : R = {w}
      BY <2>2, <2>4
    <3>2. Cardinality({w}) = 1
      BY FS_Singleton
    <3> QED BY <2>1, <3>1, <3>2
  <2> QED BY <2>3, <2>4
<1>4. Sync!FetchedIsSaved
  BY <1>1 DEF Sync!FetchedIsSaved, JobsOK, JobOK
<1>5. Sync!NothingBeforeCheckpoint
  <2> SUFFICES ASSUME {"window", "late"} \cap mode = {} PROVE 1..Sync!Latest \subseteq Sync!Saved
    BY DEF Sync!NothingBeforeCheckpoint
  <2>1. Rooted
    BY DEF SyncInv, CheckpointsOK, Rooted
  <2> QED BY <1>1, <2>1, LatestRooted
<1>6. Sync!EveryPunchCounts
  <2> SUFFICES ASSUME mode \cap {"overlap", "die"} = {}, \A w \in Workers : job[w] = Sync!Idle, NEW p \in Sync!Saved
               PROVE  Recorded(p) /\ (Sync!Mapped(p) => raw[p])
    BY DEF Sync!EveryPunchCounts, Recorded
  <2>1. \A w \in Workers : job[w].op = "idle"
    BY DEF Sync!Idle
  <2>2. \A w \in Workers : job[w].op # "remap" /\ ~Takes(job[w], p)
    BY <2>1 DEF Takes
  <2> QED BY <2>2 DEF SyncInv, Settled
<1> QED BY <1>2, <1>3, <1>4, <1>5, <1>6 DEF Sync!SyncSound

\* Whatever the parts of the portfolio do, the punches go the way BiometricSync says.
LEMMA SyncSteps == OverlapsNext => [Sync!Next]_Sync!vars
BY DEF OverlapsNext, LeaveStep, SyncStep, sync, Sync!vars

\* Punches arrive, and arrive once, for every number of requests, users and punches: raw
\* logs are saved in one piece, one run at a time holds the lock, nothing before a checkpoint
\* is missing, and without overlap every punch saved is normalized for whoever it is of.
THEOREM SyncSoundCorrect == OverlapsSpec => []SyncSound
<1>1. OverlapsInit => SyncInv
  BY SyncInvInit DEF OverlapsInit
<1>2. SyncInv /\ [OverlapsNext]_<<vars, sync, part>> => SyncInv'
  <2>1. [OverlapsNext]_<<vars, sync, part>> => [Sync!Next]_Sync!vars
    BY SyncSteps DEF sync, Sync!vars
  <2> QED BY <2>1, SyncInvStep
<1>3. SyncInv => SyncSound
  BY SyncInvSound DEF SyncSound
<1> QED BY <1>1, <1>2, <1>3, PTL DEF OverlapsSpec
===============================================================================
