---------------------------- MODULE MCWorkSession ----------------------------
(* Instances of WorkSession for TLC. *)
EXTENDS WorkSession, TLC

CONSTANTS e1, t1, t2, w1, w2

\* Every task assigned to everybody, or only the first one.
AllAssigned == Employees \X Tasks
OnlyFirstAssigned == Employees \X {t1}

\* Tasks are interchangeable, and so are workers.
TaskSymmetry == Permutations(Tasks)
Symmetric == Permutations(Workers) \cup Permutations(Tasks)
=============================================================================
