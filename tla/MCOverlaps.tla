-------------------------------- MODULE MCOverlaps --------------------------------
(* What overlaps outside the approval engine: decisions on leave made directly, of *)
(* MCLeaveApproval, and the ways of a punch from the biometric device.             *)
EXTENDS MCLeaveApproval

CONSTANTS SyncUsers, SyncUserOf, SyncMaxTime, SyncMaxRuns, SyncModes   \* of BiometricSync

VARIABLES part, mode, time, mapping, raw, normalized, history, lock, job   \* BiometricSync

Sync == INSTANCE BiometricSync WITH
  Users <- SyncUsers, UserOf <- SyncUserOf, MaxTime <- SyncMaxTime, MaxRuns <- SyncMaxRuns, Modes <- SyncModes

sync == <<mode, time, mapping, raw, normalized, history, lock, job>>

\* The part that does not run stays in one of its initial states.
OverlapsInit ==
  /\ part \in {"leave", "sync"}
  /\ Init /\ Sync!Init
  /\ part = "sync" \/ mode = CHOOSE m \in SyncModes : TRUE

LeaveStep == part = "leave" /\ Next /\ UNCHANGED <<sync, part>>
SyncStep == part = "sync" /\ Sync!Next /\ UNCHANGED <<vars, part>>

OverlapsNext == LeaveStep \/ SyncStep

OverlapsSpec == OverlapsInit /\ [][OverlapsNext]_<<vars, sync, part>>

\* The punches are of one user; two requests at a time, and what each case adds.
MCUserOf == [p \in {1, 2} |-> CHOOSE u \in SyncUsers : TRUE]
MCModes == {{"overlap", "push"}, {"overlap", "expire", "die"}, {"overlap", "map"}, {"overlap", "noRedis"},
            {"map", "push", "offline", "window", "late"}}

-----------------------------------------------------------------------------
(* The property of BiometricSync, stated there *)

\* Punches arrive, and arrive once.
SyncSound == Sync!SyncSound
===================================================================================
