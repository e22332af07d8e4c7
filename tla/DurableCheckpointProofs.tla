---------------------- MODULE DurableCheckpointProofs ----------------------
(***************************************************************************)
(* What the durable checkpoint is worth to a caller, for any requests and  *)
(* goals: the properties below hold of every specification that implements *)
(* DurableSpec, whatever its processes, files and locks.                   *)
(***************************************************************************)
EXTENDS DurableCheckpoint, HistoryFacts

DurableInv ==
  /\ ckpt \in Checkpoints \cup {None}
  /\ answered \subseteq Requests
  /\ AnsweredRecorded
  /\ RecordedOnce

\* A transition appends the one request it was asked for.
LEMMA TransitionInv ==
  ASSUME None \notin Checkpoints, DurableInv, Transition
  PROVE  DurableInv'
<1>1. PICK r \in Requests : /\ ckpt # None /\ r \notin Applied(ckpt)
                           /\ ckpt' = Advanced(ckpt, r) /\ answered' = answered
  BY DEF Transition
<1> DEFINE h == ckpt.history
<1>2. /\ ckpt \in Checkpoints /\ ckpt' = [goal |-> ckpt.goal, history |-> Append(h, r), ready |-> FALSE]
      /\ h \in Seq(Requests)
  BY <1>1 DEF DurableInv, Advanced, Checkpoints
<1>3. /\ ckpt' \in Checkpoints /\ ckpt'.history = Append(h, r)
  <2>1. Append(h, r) \in Seq(Requests)
    BY <1>2
  <2> QED BY <1>2, <2>1 DEF Checkpoints
<1>4. ToSet(Append(h, r)) = ToSet(h) \cup {r}
  BY <1>2, AppendSet
<1>5. IsInjective(Append(h, r))
  <2>1. r \notin ToSet(h) /\ IsInjective(h)
    BY <1>1 DEF Applied, DurableInv, RecordedOnce
  <2> QED BY <1>2, <2>1, ReceiptsStayDistinct
<1>6. answered' \subseteq Applied(ckpt')
  BY <1>1, <1>3, <1>4 DEF Applied, DurableInv, AnsweredRecorded
<1> QED BY <1>1, <1>3, <1>5, <1>6 DEF DurableInv, AnsweredRecorded, RecordedOnce

\* A power loss brings back a prefix, which repeats nothing either.
LEMMA RollbackInv ==
  ASSUME None \notin Checkpoints, DurableInv, Rollback
  PROVE  DurableInv'
<1>1. CASE ckpt' = None
  BY <1>1 DEF Rollback, DurableInv, AnsweredRecorded, RecordedOnce
<1>2. CASE ckpt' # None
  <2>1. /\ ckpt' \in Checkpoints /\ ckpt # None /\ ckpt \in Checkpoints
        /\ IsPrefix(ckpt'.history, ckpt.history)
    BY <1>2 DEF Rollback, Versions, DurableInv
  <2>2. ckpt'.history \in Seq(Requests) /\ ckpt.history \in Seq(Requests)
    BY <2>1 DEF Checkpoints
  <2>3. IsInjective(ckpt'.history)
    BY <2>1, <2>2, PrefixDistinct DEF DurableInv, RecordedOnce
  <2> QED BY <2>1, <2>3 DEF Rollback, DurableInv, AnsweredRecorded, RecordedOnce
<1> QED BY <1>1, <1>2

\* Publication and observation leave the history as it is; an answer is given
\* for what it records.
LEMMA KeepingInv ==
  ASSUME None \notin Checkpoints, DurableInv, Publish \/ Observe \/ Answer
  PROVE  DurableInv'
<1>1. CASE Publish
  <2>1. /\ ckpt = None /\ ckpt' \in Checkpoints /\ IsInjective(ckpt'.history)
        /\ answered' = answered
    BY <1>1 DEF Publish, Valid
  <2>2. answered = {}
    BY <2>1 DEF DurableInv, AnsweredRecorded, Applied
  <2> QED BY <2>1, <2>2 DEF DurableInv, AnsweredRecorded, RecordedOnce
<1>2. CASE Observe
  <2>1. PICK b \in BOOLEAN : /\ ckpt # None /\ ckpt' = [ckpt EXCEPT !.ready = b]
                             /\ answered' = answered
    BY <1>2, Zenon DEF Observe
  <2>2. ckpt \in Checkpoints
    BY <2>1 DEF DurableInv
  <2>3. ckpt' \in Checkpoints /\ ckpt'.history = ckpt.history
    BY <2>1, <2>2 DEF Checkpoints
  <2> QED BY <2>1, <2>3 DEF DurableInv, AnsweredRecorded, RecordedOnce, Applied
<1>3. CASE Answer
  <2>1. PICK r \in Applied(ckpt) : answered' = answered \cup {r} /\ ckpt' = ckpt
    BY <1>3 DEF Answer
  <2>2. r \in Requests
    BY <2>1 DEF DurableInv, Applied, Checkpoints, ToSet
  <2> QED BY <2>1, <2>2 DEF DurableInv, AnsweredRecorded, RecordedOnce
<1> QED BY <1>1, <1>2, <1>3

\* Whatever implements the durable checkpoint never answers a request that
\* its checkpoint does not record, now or after any power loss, and never
\* records a request twice, however often callers retry it.
THEOREM DurablePromise ==
  ASSUME None \notin Checkpoints
  PROVE  DurableSpec => [](AnsweredRecorded /\ RecordedOnce)
<1>1. AbstractInit => DurableInv
  BY DEF AbstractInit, DurableInv, AnsweredRecorded, RecordedOnce
<1>2. DurableInv /\ [DurableNext]_abstractVars => DurableInv'
  <2>1. ASSUME DurableInv, UNCHANGED abstractVars PROVE DurableInv'
    BY <2>1 DEF abstractVars, DurableInv, AnsweredRecorded, RecordedOnce
  <2> QED BY <2>1, TransitionInv, RollbackInv, KeepingInv DEF DurableNext, AbstractNext
<1>3. DurableInv => AnsweredRecorded /\ RecordedOnce
  BY DEF DurableInv
<1> QED BY <1>1, <1>2, <1>3, PTL DEF DurableSpec
=============================================================================
