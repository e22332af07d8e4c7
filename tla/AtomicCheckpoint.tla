-------------------------- MODULE AtomicCheckpoint --------------------------
(***************************************************************************)
(* What checkpoint_store.py promises to its callers, with no process, no   *)
(* lock and no temporary file in sight: one checkpoint that is created     *)
(* once, that a transition request advances at most once, and a set of     *)
(* requests that were answered "ok".  A process crash is not visible here: *)
(* it may only keep an answer from being given.                            *)
(***************************************************************************)
EXTENDS Sequences, SequencesExt

CONSTANTS
  Requests,   \* request ids of the transitions a caller may ask for
  Goals,      \* the goals a checkpoint file may be created for
  None        \* "there is no checkpoint"

VARIABLES
  ckpt,       \* the checkpoint, or None
  answered    \* the requests an advance answered "ok"

abstractVars == <<ckpt, answered>>

(***************************************************************************)
(* A checkpoint keeps the goal it was created for, one receipt per applied *)
(* request, and whether the slice it stands in may be advanced now (the    *)
(* evaluator would say checkpoint with auto_continue).                     *)
(***************************************************************************)
Checkpoints == [goal: Goals, history: Seq(Requests), ready: BOOLEAN]

\* A checkpoint that may be put at the path: fresh, or with the receipts it
\* comes with, none of them twice.
Valid(c) == c \in Checkpoints /\ IsInjective(c.history)

Advanced(c, r) ==
  [goal |-> c.goal, history |-> Append(c.history, r), ready |-> FALSE]

Applied(c) == IF c = None THEN {} ELSE ToSet(c.history)

-----------------------------------------------------------------------------
AbstractInit ==
  /\ ckpt = None
  /\ answered = {}

Publish ==
  /\ ckpt = None
  /\ Valid(ckpt')
  /\ UNCHANGED answered

Observe ==
  /\ ckpt # None
  /\ \E b \in BOOLEAN : ckpt' = [ckpt EXCEPT !.ready = b]
  /\ UNCHANGED answered

Transition ==
  /\ ckpt # None
  /\ ckpt.ready
  /\ \E r \in Requests : r \notin Applied(ckpt) /\ ckpt' = Advanced(ckpt, r)
  /\ UNCHANGED answered

\* Any answer "ok" is given for a request the checkpoint records, whether
\* this call or an earlier one applied it.
Answer == \E r \in Applied(ckpt) :
  /\ answered' = answered \cup {r}
  /\ UNCHANGED ckpt

AbstractNext == Publish \/ Observe \/ Transition \/ Answer

AbstractSpec == AbstractInit /\ [][AbstractNext]_abstractVars

\* The life of a checkpoint that has been created.
Published == Valid(ckpt) /\ answered = {}

PublishedSpec == Published /\ [][AbstractNext]_abstractVars
=============================================================================
