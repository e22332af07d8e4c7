------------------------- MODULE DurableCheckpoint -------------------------
(***************************************************************************)
(* What checkpoint_store.py still promises on a machine that may lose      *)
(* power: the atomic checkpoint, which a power loss may take back to an    *)
(* earlier version of itself, yet never behind a transition whose own call *)
(* was answered "ok".  "answered" are those requests here.                 *)
(***************************************************************************)
EXTENDS AtomicCheckpoint

\* What a checkpoint may have been before: nothing, or the same goal with
\* fewer receipts.
Versions(c) ==
  {None} \cup {v \in Checkpoints :
                 c # None /\ v.goal = c.goal /\ IsPrefix(v.history, c.history)}

Rollback ==
  /\ ckpt' \in Versions(ckpt)
  /\ answered \subseteq Applied(ckpt')
  /\ UNCHANGED answered

DurableNext == AbstractNext \/ Rollback

DurableSpec == AbstractInit /\ [][DurableNext]_abstractVars

-----------------------------------------------------------------------------
\* What a caller makes of it: what was answered is recorded ...
AnsweredRecorded == answered \subseteq Applied(ckpt)

\* ... and no request is recorded twice, before or after a power loss.
RecordedOnce == ckpt # None => IsInjective(ckpt.history)
=============================================================================
