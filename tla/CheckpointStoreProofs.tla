----------------------- MODULE CheckpointStoreProofs -----------------------
(***************************************************************************)
(* The store's safety properties for any processes, requests and goals.    *)
(***************************************************************************)
EXTENDS CheckpointStore, HistoryFacts

(***************************************************************************)
(* Facts about checkpoints.                                                *)
(***************************************************************************)

\* Publishing one more receipt gives a checkpoint of the same goal that
\* records one more request.
LEMMA AdvancedFacts ==
  ASSUME NEW c \in Checkpoints, NEW r \in Requests
  PROVE  /\ Advanced(c, r) \in Checkpoints
         /\ Advanced(c, r).goal = c.goal
         /\ Advanced(c, r).history = Append(c.history, r)
         /\ Advanced(c, r) # None
<1>1. Append(c.history, r) \in Seq(Requests)
  BY DEF Checkpoints
<1>2. Advanced(c, r) = [goal |-> c.goal, history |-> Append(c.history, r), ready |-> FALSE]
  BY DEF Advanced
<1>3. Advanced(c, r) \in Checkpoints
  BY <1>1, <1>2 DEF Checkpoints
<1>4. Advanced(c, r) # None
  BY <1>3, SentinelsDiffer
<1> QED BY <1>2, <1>3, <1>4

\* What create_file is given is a checkpoint that repeats no request.
LEMMA CreatableFacts ==
  ASSUME NEW c \in Creatable
  PROVE  c \in Checkpoints /\ IsInjective(c.history) /\ c # None
<1>1. c \in Checkpoints /\ c.history \in Imported
  BY ImportsAreValid DEF Creatable, Checkpoints
<1> QED BY <1>1, ImportsAreValid, SentinelsDiffer

-----------------------------------------------------------------------------
(***************************************************************************)
(* The invariant.                                                          *)
(***************************************************************************)

\* The initial state satisfies the invariant.
LEMMA InitInv == Init => StoreInv
BY SentinelsDiffer
   DEF Init, StoreInv, TypeOK, LockHeld, AdvanceShape, CreateShape, PublishShape,
       NoLostUpdate, AppliedOnce, SurvivorsAreVersions, ConfirmedDurable,
       Steps, Outcomes, Applied, Checkpoints

\* A step of one process that leaves the disk and the answers alone, and takes
\* its own call from a place where nothing is held to another such place or
\* out of the critical section, keeps the invariant.
LEMMA QuietStep ==
  ASSUME StoreInv, NEW p \in Procs,
         ReadFails(p) \/ LoadFails(p) \/ Duplicate(p) \/ HashConflict(p)
           \/ Refuse(p) \/ AlreadyExists(p) \/ InspectFails(p) \/ LockFails(p) \/ SyncFails(p)
  PROVE  StoreInv'
BY SentinelsDiffer
   DEF ReadFails, LoadFails, Duplicate, HashConflict, Refuse, AlreadyExists, InspectFails,
       LockFails, SyncFails, Finish, Raise, Goto, diskVars, callVars, ackVars,
       StoreInv, TypeOK, LockHeld, AdvanceShape, CreateShape, PublishShape,
       NoLostUpdate, AppliedOnce, SurvivorsAreVersions, ConfirmedDurable,
       Steps, Outcomes, HashMatches

\* Starting a call, and going on inside one without touching the disk.
LEMMA LocalStep ==
  ASSUME StoreInv, NEW p \in Procs,
         (\E r \in Requests : CallAdvance(p, r)) \/ (\E c \in Creatable : CallCreate(p, c))
           \/ ReadRaw(p) \/ PathIsFree(p) \/ WriteTemp(p) \/ FsyncTemp(p)
           \/ WriteFails(p) \/ ReplaceFails(p) \/ LinkFails(p)
           \/ UnlinkTemp(p) \/ UnlinkFails(p) \/ CleanupFails(p)
  PROVE  StoreInv'
<1> USE SentinelsDiffer
     DEF Goto, Finish, Raise, diskVars, callVars, ackVars, HashMatches, Steps, Outcomes,
         StoreInv, TypeOK, LockHeld, AdvanceShape, CreateShape, PublishShape,
         NoLostUpdate, AppliedOnce, SurvivorsAreVersions, ConfirmedDurable
<1>1. CASE \E r \in Requests : CallAdvance(p, r)
  BY <1>1 DEF CallAdvance
<1>2. CASE \E c \in Creatable : CallCreate(p, c)
  <2>1. PICK c \in Creatable : CallCreate(p, c)
    BY <1>2
  <2>2. c \in Checkpoints /\ IsInjective(c.history) /\ c # None
    BY CreatableFacts
  <2> QED BY <2>1, <2>2 DEF CallCreate
<1>3. CASE ReadRaw(p)
  BY <1>3 DEF ReadRaw
<1>4. CASE PathIsFree(p)
  BY <1>4 DEF PathIsFree
<1>5. CASE WriteTemp(p) \/ FsyncTemp(p) \/ WriteFails(p)
  BY <1>5 DEF WriteTemp, FsyncTemp, WriteFails
<1>6. CASE ReplaceFails(p) \/ LinkFails(p) \/ UnlinkTemp(p) \/ UnlinkFails(p)
  BY <1>6 DEF ReplaceFails, LinkFails, UnlinkTemp, UnlinkFails
<1>7. CASE CleanupFails(p)
  BY <1>7 DEF CleanupFails
<1> HIDE DEF StoreInv
<1> QED BY <1>1, <1>2, <1>3, <1>4, <1>5, <1>6, <1>7

\* Taking the lock, and giving it back with or without a result.
LEMMA LockStep ==
  ASSUME StoreInv, NEW p \in Procs, AcquireLock(p) \/ Return(p) \/ Crash(p)
  PROVE  StoreInv'
<1> USE SentinelsDiffer
     DEF Goto, diskVars, callVars, ackVars, HashMatches, Steps, Outcomes, Forget,
         StoreInv, TypeOK, LockHeld, AdvanceShape, CreateShape, PublishShape,
         NoLostUpdate, AppliedOnce, SurvivorsAreVersions, ConfirmedDurable
<1>1. CASE AcquireLock(p)
  BY <1>1 DEF AcquireLock
<1>2. CASE Return(p)
  BY <1>2 DEF Return
<1>3. CASE Crash(p)
  BY <1>3 DEF Crash
<1> QED BY <1>1, <1>2, <1>3

\* Applying a new request prepares the next version of the file.
LEMMA ApplyStep ==
  ASSUME StoreInv, NEW p \in Procs, Apply(p)
  PROVE  StoreInv'
<1>1. file \in Checkpoints /\ request[p] \in Requests
  BY DEF Apply, Goto, StoreInv, TypeOK, AdvanceShape
<1>2. Advanced(file, request[p]) \in Checkpoints
  BY <1>1, AdvancedFacts
<1> QED
  BY <1>1, <1>2, SentinelsDiffer
     DEF Apply, Goto, diskVars, ackVars, HashMatches, Steps, Outcomes,
         StoreInv, TypeOK, LockHeld, AdvanceShape, CreateShape, PublishShape,
         NoLostUpdate, AppliedOnce, SurvivorsAreVersions, ConfirmedDurable

\* A directory sync leaves the published file as the only survivor.
LEMMA SyncStep ==
  ASSUME StoreInv, NEW p \in Procs, SyncDirectory(p)
  PROVE  StoreInv'
<1>1. file \in Checkpoints
  BY DEF SyncDirectory, Finish, Raise, Goto, StoreInv, TypeOK, PublishShape
<1>2. IsPrefix(file.history, file.history)
  BY <1>1, PrefixReflexive DEF Checkpoints
<1> QED
  BY <1>1, <1>2, SentinelsDiffer
     DEF SyncDirectory, Finish, Raise, Goto, callVars, ackVars, HashMatches, Steps, Outcomes,
         StoreInv, TypeOK, LockHeld, AdvanceShape, CreateShape, PublishShape,
         NoLostUpdate, AppliedOnce, SurvivorsAreVersions, ConfirmedDurable

\* A power loss brings back an earlier version and ends every call.
LEMMA PowerLossStep ==
  ASSUME StoreInv, PowerLoss
  PROVE  StoreInv'
<1>1. \A c \in Checkpoints : IsPrefix(c.history, c.history)
  BY PrefixReflexive DEF Checkpoints
<1> QED
  BY <1>1, SentinelsDiffer
     DEF PowerLoss, ackVars, HashMatches, Steps, Outcomes,
         StoreInv, TypeOK, LockHeld, AdvanceShape, CreateShape, PublishShape,
         NoLostUpdate, AppliedOnce, SurvivorsAreVersions, ConfirmedDurable

\* os.replace publishes the next version of the file, which all earlier
\* versions are prefixes of.
LEMMA ReplaceStep ==
  ASSUME StoreInv, NEW p \in Procs, Replace(p)
  PROVE  StoreInv'
<1> DEFINE r == request[p]
           new == Advanced(file, r)
<1>1. /\ file \in Checkpoints /\ r \in Requests /\ r \notin Applied(file)
      /\ lock = p /\ pc[p] = "replace" /\ temp[p] = "synced" /\ updated[p] = new
  BY DEF Replace, Goto, StoreInv, TypeOK, LockHeld, AdvanceShape, PublishShape, NoLostUpdate
<1>2. /\ new \in Checkpoints /\ new.goal = file.goal /\ new # None
      /\ new.history = Append(file.history, r)
      /\ file.history \in Seq(Requests)
  BY <1>1, AdvancedFacts DEF Checkpoints
<1> HIDE DEF new
<1>3. file' = new /\ survivors' = survivors \cup {new}
  BY <1>1 DEF Replace, Landed
<1>4. Applied(new) = Applied(file) \cup {r}
  BY <1>1, <1>2, AppendSet, SentinelsDiffer DEF Applied
<1>5. \A c \in survivors : Applied(c) \subseteq Applied(file)
  <2>1. ASSUME NEW c \in survivors, c # None PROVE Applied(c) \subseteq Applied(file)
    <3>1. c.history \in Seq(Requests) /\ IsPrefix(c.history, file.history)
      BY <2>1 DEF StoreInv, TypeOK, SurvivorsAreVersions, Checkpoints
    <3> QED BY <1>1, <1>2, <2>1, <3>1, PrefixSet, SentinelsDiffer DEF Applied
  <2> QED BY <2>1 DEF Applied
<1>6. SurvivorsAreVersions'
  <2>1. ASSUME NEW c \in survivors, c # None
        PROVE  c.goal = new.goal /\ IsPrefix(c.history, new.history)
    <3>1. /\ c.history \in Seq(Requests) /\ IsPrefix(c.history, file.history)
          /\ c.goal = file.goal
      BY <2>1 DEF StoreInv, TypeOK, SurvivorsAreVersions, Checkpoints
    <3> QED BY <1>1, <1>2, <3>1, PrefixAppend
  <2>2. IsPrefix(new.history, new.history)
    BY <1>2, PrefixReflexive DEF Checkpoints
  <2> QED BY <1>2, <1>3, <2>1, <2>2, SentinelsDiffer DEF SurvivorsAreVersions, StoreInv
<1>7. AppliedOnce'
  <2>1. IsInjective(file.history) /\ r \notin ToSet(file.history)
    BY <1>1, SentinelsDiffer DEF StoreInv, AppliedOnce, Applied
  <2>2. IsInjective(new.history)
    BY <1>1, <1>2, <2>1, ReceiptsStayDistinct
  <2> QED BY <1>3, <2>2 DEF StoreInv, AppliedOnce
<1>8. ConfirmedDurable'
  <2>1. \A q \in confirmed : q \in Applied(new)
    BY <1>4 DEF StoreInv, PublishShape, ConfirmedDurable
  <2> QED BY <1>3, <2>1 DEF StoreInv, ConfirmedDurable, Replace, ackVars
<1>9. PublishShape'
  <2>1. \A q \in Procs : pc[q] = "return" /\ outcome[q] = "applied" =>
          request[q] \in Applied(new)
    BY <1>4 DEF StoreInv, PublishShape
  <2>2. \A q \in Procs : pc'[q] = "return" =>
          pc[q] = "return" /\ outcome'[q] = outcome[q] /\ request'[q] = request[q]
    BY <1>1 DEF StoreInv, TypeOK, Replace, Goto, callVars
  <2>3. \A q \in Procs : pc'[q] \in {"replace", "link"} => temp'[q] = "synced"
    BY <1>1 DEF StoreInv, TypeOK, PublishShape, LockHeld, Replace, Goto
  <2>4. file' \in survivors' /\ file' # None
    BY <1>2, <1>3
  <2> QED BY <1>3, <2>1, <2>2, <2>3, <2>4 DEF StoreInv, PublishShape
<1>10. TypeOK' /\ LockHeld' /\ CreateShape'
  BY <1>1, <1>2, <1>3
     DEF StoreInv, TypeOK, LockHeld, CreateShape, Replace, Goto, callVars, ackVars, Steps
<1>11. AdvanceShape' /\ NoLostUpdate'
  BY <1>1, <1>2, <1>3, <1>4
     DEF StoreInv, LockHeld, AdvanceShape, NoLostUpdate, Replace, Goto, callVars,
         TypeOK
<1> QED BY <1>6, <1>7, <1>8, <1>9, <1>10, <1>11 DEF StoreInv

\* A valid checkpoint put at an unused path: no version survives but the
\* absence of one.
LEMMA FirstVersion ==
  ASSUME StoreInv, file = None, NEW new \in Checkpoints, IsInjective(new.history),
         file' = new, survivors' = survivors \cup {new}
  PROVE  /\ (confirmed' = confirmed => ConfirmedDurable')
         /\ SurvivorsAreVersions' /\ AppliedOnce'
         /\ survivors \subseteq {None} /\ confirmed = {}
         /\ \A q \in Procs : ~(pc[q] = "return" /\ outcome[q] = "applied")
<1>1. survivors = {None}
  BY DEF StoreInv, SurvivorsAreVersions, PublishShape
<1>2. Applied(None) = {}
  BY DEF Applied
<1>3. confirmed = {} /\ \A q \in Procs : ~(pc[q] = "return" /\ outcome[q] = "applied")
  BY <1>1, <1>2 DEF StoreInv, ConfirmedDurable, PublishShape
<1>4. SurvivorsAreVersions'
  <2>1. IsPrefix(new.history, new.history)
    BY PrefixReflexive DEF Checkpoints
  <2> QED BY <1>1, <2>1, SentinelsDiffer DEF SurvivorsAreVersions
<1>5. AppliedOnce'
  BY <1>1 DEF AppliedOnce
<1> QED BY <1>1, <1>3, <1>4, <1>5 DEF ConfirmedDurable

\* os.link publishes a new checkpoint where there was none.
LEMMA LinkStep ==
  ASSUME StoreInv, NEW p \in Procs, Link(p)
  PROVE  StoreInv'
<1> DEFINE new == updated[p]
<1>1. /\ file = None /\ new \in Checkpoints /\ IsInjective(new.history)
      /\ lock = p /\ pc[p] = "link" /\ request[p] = None /\ temp[p] = "synced"
  BY DEF Link, Goto, StoreInv, TypeOK, LockHeld, CreateShape, PublishShape
<1>2. file' = new /\ survivors' = survivors \cup {new} /\ file' # None
  BY <1>1, SentinelsDiffer DEF Link, Landed
<1>3. /\ ConfirmedDurable' /\ SurvivorsAreVersions' /\ AppliedOnce'
      /\ \A q \in Procs : ~(pc[q] = "return" /\ outcome[q] = "applied")
  BY <1>1, <1>2, FirstVersion DEF Link, ackVars
<1>4. TypeOK' /\ LockHeld' /\ CreateShape' /\ PublishShape'
  BY <1>1, <1>2, <1>3
     DEF StoreInv, TypeOK, LockHeld, CreateShape, PublishShape, Link, Goto,
         callVars, ackVars, Steps
<1>5. AdvanceShape' /\ NoLostUpdate'
  BY <1>1, <1>2
     DEF StoreInv, TypeOK, LockHeld, AdvanceShape, NoLostUpdate, Link, Goto, callVars
<1> QED BY <1>3, <1>4, <1>5 DEF StoreInv

\* So does a host that takes no lock.
LEMMA HostCreateStep ==
  ASSUME StoreInv, HostCreate
  PROVE  StoreInv'
<1>1. file' \in Creatable
  BY DEF HostCreate
<1>2. /\ file = None /\ file' \in Checkpoints /\ IsInjective(file'.history)
      /\ survivors' = survivors \cup {file'} /\ file' # None
  BY <1>1, CreatableFacts DEF HostCreate
<1>3. /\ ConfirmedDurable' /\ SurvivorsAreVersions' /\ AppliedOnce'
      /\ \A q \in Procs : ~(pc[q] = "return" /\ outcome[q] = "applied")
  BY <1>2, FirstVersion DEF HostCreate, ackVars
<1>4. TypeOK' /\ LockHeld' /\ CreateShape' /\ PublishShape'
  BY <1>2, <1>3
     DEF StoreInv, TypeOK, LockHeld, CreateShape, PublishShape, HostCreate,
         callVars, ackVars
<1>5. AdvanceShape' /\ NoLostUpdate'
  BY <1>2
     DEF StoreInv, TypeOK, LockHeld, AdvanceShape, NoLostUpdate, HostCreate, callVars,
         Applied
<1> QED BY <1>3, <1>4, <1>5 DEF StoreInv

\* A host observation changes no history, and nobody is inside the lock.
LEMMA HostObserveStep ==
  ASSUME StoreInv, HostObserve
  PROVE  StoreInv'
<1>1. PICK b \in BOOLEAN : file' = [file EXCEPT !.ready = b]
  BY DEF HostObserve
<1>2. /\ lock = None /\ file # None /\ file \in Checkpoints
  BY DEF HostObserve, StoreInv, TypeOK
<1>3. /\ file' \in Checkpoints /\ file' # None
      /\ file'.goal = file.goal /\ file'.history = file.history
      /\ survivors' = survivors \cup {file'}
  BY <1>1, <1>2, SentinelsDiffer DEF HostObserve, Checkpoints
<1>4. Applied(file') = Applied(file)
  BY <1>2, <1>3 DEF Applied
<1>5. SurvivorsAreVersions'
  <2>1. IsPrefix(file.history, file.history)
    BY <1>2, PrefixReflexive DEF Checkpoints
  <2> QED BY <1>2, <1>3, <2>1, SentinelsDiffer DEF StoreInv, SurvivorsAreVersions
<1>6. AppliedOnce' /\ ConfirmedDurable'
  BY <1>2, <1>3, <1>4
     DEF StoreInv, AppliedOnce, ConfirmedDurable, PublishShape, HostObserve, ackVars
<1>7. \A q \in Procs : pc[q] \notin {"read", "load", "exists", "write", "fsync",
                                     "replace", "link", "unlink", "sync"}
  BY <1>2, SentinelsDiffer DEF StoreInv, LockHeld
<1>8. PublishShape'
  BY <1>3, <1>4, <1>7 DEF StoreInv, PublishShape, HostObserve, callVars
<1>9. TypeOK' /\ LockHeld' /\ CreateShape' /\ AdvanceShape' /\ NoLostUpdate'
  BY <1>3, <1>7
     DEF StoreInv, TypeOK, LockHeld, CreateShape, AdvanceShape, NoLostUpdate,
         HostObserve, callVars, ackVars
<1> QED BY <1>5, <1>6, <1>8, <1>9 DEF StoreInv

\* Every step of the system, a power loss included, keeps the invariant.
LEMMA NextInv ==
  ASSUME StoreInv, [Next \/ PowerLoss]_vars
  PROVE  StoreInv'
<1>1. ASSUME NEW p \in Procs, Begin(p) \/ Run(p) \/ Crash(p) PROVE StoreInv'
  <2>1. CASE Begin(p)
    BY <2>1, LocalStep DEF Begin
  <2>2. CASE AdvanceStep(p)
    BY <2>2, LocalStep, QuietStep, ApplyStep, ReplaceStep DEF AdvanceStep
  <2>3. CASE CreateStep(p)
    BY <2>3, LocalStep, QuietStep, LinkStep DEF CreateStep
  <2>4. CASE CommonStep(p)
    BY <2>4, LocalStep, QuietStep, LockStep, SyncStep DEF CommonStep
  <2>5. CASE Crash(p)
    BY <2>5, LockStep
  <2> QED BY <1>1, <2>1, <2>2, <2>3, <2>4, <2>5 DEF Run
<1>2. CASE UNCHANGED vars
  BY <1>2 DEF vars, StoreInv, TypeOK, LockHeld, AdvanceShape, CreateShape,
     PublishShape, NoLostUpdate, AppliedOnce, SurvivorsAreVersions,
     ConfirmedDurable, HashMatches
<1> QED BY <1>1, <1>2, HostCreateStep, HostObserveStep, PowerLossStep DEF Next

-----------------------------------------------------------------------------
(***************************************************************************)
(* The theorems.                                                           *)
(***************************************************************************)

\* The invariant holds on a machine that may lose power.
THEOREM StoreInvariant == PowerSpec => []StoreInv
<1>1. Init => StoreInv
  BY InitInv
<1>2. StoreInv /\ [Next \/ PowerLoss]_vars => StoreInv'
  BY NextInv
<1> QED BY <1>1, <1>2, PTL DEF PowerSpec

\* Type correctness of the store.
THEOREM StoreTypes == PowerSpec => []TypeOK
BY StoreInvariant, PTL DEF StoreInv

\* No advance overwrites a version it has not read, whatever interleaving,
\* crash or power loss.
THEOREM StoreNoLostUpdate == PowerSpec => []NoLostUpdate
BY StoreInvariant, PTL DEF StoreInv

\* A request id is recorded at most once.
THEOREM StoreAppliedOnce == PowerSpec => []AppliedOnce
BY StoreInvariant, PTL DEF StoreInv

\* A power loss leaves an earlier version of the same goal, never a torn file.
THEOREM StoreSurvivors == PowerSpec => []SurvivorsAreVersions
BY StoreInvariant, PTL DEF StoreInv

\* A transition answered by the call that applied it survives a power loss.
THEOREM StoreConfirmedDurable == PowerSpec => []ConfirmedDurable
BY StoreInvariant, PTL DEF StoreInv

\* A temporary file exists only between mkstemp and the rename or unlink, or
\* where the unlink of an except-clause has failed.
TempInv ==
  \A p \in Procs : pc[p] \notin {"fsync", "replace", "link", "unlink"} =>
    temp[p] = None \/ (temp[p] = "stuck" /\ pc[p] = "return" /\ outcome[p] = "oserror")

\* What a process does to temporary files is its own.
LEMMA TempStep ==
  ASSUME TypeOK, TempInv, NEW p \in Procs, Begin(p) \/ Run(p) \/ Crash(p)
  PROVE  TempInv'
<1>1. CASE Begin(p)
  BY <1>1 DEF Begin, CallAdvance, CallCreate, Goto, TypeOK, TempInv
<1>2. CASE \E from \in Steps, how \in Outcomes : Raise(p, from, how)
  BY <1>2 DEF Raise, Finish, Goto, TypeOK, TempInv
<1>3. CASE ReadRaw(p) \/ Duplicate(p) \/ Apply(p) \/ Replace(p) \/ PathIsFree(p)
             \/ Link(p) \/ UnlinkTemp(p) \/ AcquireLock(p) \/ SyncDirectory(p)
  BY <1>3 DEF ReadRaw, Duplicate, Apply, Replace, PathIsFree, Link, UnlinkTemp, AcquireLock,
     SyncDirectory, Finish, Goto, TypeOK, TempInv
<1>4. CASE WriteTemp(p) \/ FsyncTemp(p) \/ CleanupFails(p)
  BY <1>4 DEF WriteTemp, FsyncTemp, CleanupFails, Finish, Goto, TypeOK, TempInv
<1>6. CASE Return(p) \/ Crash(p)
  BY <1>6 DEF Return, Crash, Forget, Goto, TypeOK, TempInv
<1>5. CASE ReadFails(p) \/ LoadFails(p) \/ HashConflict(p) \/ Refuse(p) \/ ReplaceFails(p)
             \/ AlreadyExists(p) \/ InspectFails(p) \/ LinkFails(p) \/ UnlinkFails(p)
             \/ LockFails(p) \/ WriteFails(p) \/ SyncFails(p)
  BY <1>2, <1>5 DEF ReadFails, LoadFails, HashConflict, Refuse, ReplaceFails, AlreadyExists,
     InspectFails, LinkFails, UnlinkFails, LockFails, WriteFails, SyncFails, Steps, Outcomes
<1> QED BY <1>1, <1>3, <1>4, <1>5, <1>6 DEF Run, AdvanceStep, CreateStep, CommonStep

\* A call that has ended leaves no temporary file, however it ended (the
\* except-clauses of _write_temp, create_file and advance_file), except one it
\* could not unlink, which its caller learns of by an OSError.
THEOREM StoreNoTempLeft == PowerSpec => []NoTempLeft
<1>1. Init => TempInv
  BY DEF Init, TempInv
<1>2. TypeOK /\ TempInv /\ [Next \/ PowerLoss]_vars => TempInv'
  <2>1. ASSUME TypeOK, TempInv, PowerLoss PROVE TempInv'
    BY <2>1 DEF PowerLoss, TempInv
  <2>2. ASSUME TypeOK, TempInv, HostObserve \/ HostCreate \/ UNCHANGED vars PROVE TempInv'
    BY <2>2 DEF HostObserve, HostCreate, vars, TempInv
  <2> QED BY <2>1, <2>2, TempStep DEF Next
<1>3. TempInv => NoTempLeft
  BY DEF TempInv, NoTempLeft
<1> QED BY <1>1, <1>2, <1>3, StoreTypes, PTL DEF PowerSpec

-----------------------------------------------------------------------------
(***************************************************************************)
(* Without power loss: nothing is taken back, and the store implements the *)
(* atomic checkpoint.                                                      *)
(***************************************************************************)

\* What a step does to the file, seen from its callers.
LEMMA FileStep ==
  ASSUME StoreInv, [Next]_vars
  PROVE  \/ UNCHANGED file
         \/ file = None
         \/ \E p \in Procs : Replace(p)
         \/ HostObserve
BY DEF Next, Begin, Run, AdvanceStep, CreateStep, CommonStep, vars, diskVars, Finish, Raise,
       CallAdvance, CallCreate, AcquireLock, LockFails, ReadRaw, ReadFails,
       LoadFails, Duplicate, HashConflict, Refuse, Apply, AlreadyExists, InspectFails,
       PathIsFree, WriteTemp, FsyncTemp, WriteFails, CleanupFails, ReplaceFails, Link,
       LinkFails, UnlinkTemp, UnlinkFails, SyncDirectory, SyncFails, Return,
       HostCreate, Crash

\* Replace publishes the advance of the file by a request new to it.
LEMMA ReplaceAdvances ==
  ASSUME StoreInv, NEW p \in Procs, Replace(p)
  PROVE  /\ file \in Checkpoints /\ file # None /\ file.ready
         /\ request[p] \in Requests /\ request[p] \notin Applied(file)
         /\ file' = Advanced(file, request[p])
BY DEF Replace, Goto, StoreInv, TypeOK, AdvanceShape, NoLostUpdate

\* The file keeps its goal and only gains receipts.
LEMMA FileGrows ==
  ASSUME StoreInv, [Next]_vars
  PROVE  /\ file # None =>
              /\ file' # None
              /\ file'.goal = file.goal
              /\ IsPrefix(file.history, file'.history)
         /\ Applied(file) \subseteq Applied(file')
<1>1. CASE file = None
  BY <1>1 DEF Applied
<1>2. CASE UNCHANGED file /\ file # None
  <2>1. IsPrefix(file.history, file.history)
    BY <1>2, PrefixReflexive DEF StoreInv, TypeOK, Checkpoints
  <2> QED BY <1>2, <2>1
<1>3. ASSUME NEW p \in Procs, Replace(p), file # None
      PROVE  /\ file' # None /\ file'.goal = file.goal
             /\ IsPrefix(file.history, file'.history)
             /\ Applied(file) \subseteq Applied(file')
  <2>1. /\ file' # None /\ file'.goal = file.goal /\ file'.history = Append(file.history, request[p])
        /\ file.history \in Seq(Requests)
        /\ request[p] \in Requests
    <3>1. /\ file \in Checkpoints /\ request[p] \in Requests
          /\ file' = Advanced(file, request[p])
      BY <1>3, ReplaceAdvances
    <3>2. /\ Advanced(file, request[p]) # None
          /\ Advanced(file, request[p]).goal = file.goal
          /\ Advanced(file, request[p]).history = Append(file.history, request[p])
      BY <3>1, AdvancedFacts
    <3> QED BY <3>1, <3>2 DEF Checkpoints
  <2>2. IsPrefix(file.history, Append(file.history, request[p]))
    BY <2>1, PrefixReflexive, PrefixAppend
  <2>3. ToSet(Append(file.history, request[p])) = ToSet(file.history) \cup {request[p]}
    BY <2>1, AppendSet
  <2> QED BY <1>3, <2>1, <2>2, <2>3 DEF Applied
<1>4. CASE HostObserve /\ file # None
  <2>1. file \in Checkpoints
    BY <1>4 DEF StoreInv, TypeOK
  <2>2. /\ file'.goal = file.goal /\ file'.history = file.history
        /\ file' \in Checkpoints
    BY <1>4, <2>1 DEF HostObserve, Checkpoints
  <2>3. file' # None /\ IsPrefix(file.history, file.history)
    BY <2>1, <2>2, SentinelsDiffer, PrefixReflexive DEF Checkpoints
  <2> QED BY <1>4, <2>2, <2>3 DEF Applied
<1> QED BY <1>1, <1>2, <1>3, <1>4, FileStep

\* An answer is only ever prepared for a request the file records.
LEMMA AckStep ==
  ASSUME StoreInv, AckInv, [Next]_vars
  PROVE  AckInv'
<1>1. Applied(file) \subseteq Applied(file')
  BY FileGrows
<1>2. acked' \subseteq acked \cup {request[p] : p \in {q \in Procs : pc[q] = "return"
                                       /\ outcome[q] \in {"applied", "duplicate"}}}
  BY DEF Next, Begin, Run, AdvanceStep, CreateStep, CommonStep, vars, ackVars, Finish, Raise,
       Goto, CallAdvance, CallCreate, AcquireLock, LockFails, ReadRaw, ReadFails,
       LoadFails, Duplicate, HashConflict, Refuse, Apply, AlreadyExists, InspectFails,
       PathIsFree, WriteTemp, FsyncTemp, WriteFails, CleanupFails, Replace, ReplaceFails, Link,
       LinkFails, UnlinkTemp, UnlinkFails, SyncDirectory, SyncFails, Return,
       HostCreate, HostObserve, Crash
<1>3. ASSUME NEW q \in Procs, pc'[q] = "return", outcome'[q] \in {"applied", "duplicate"}
      PROVE  request'[q] \in Applied(file')
  <2>1. CASE pc[q] = "return" /\ outcome'[q] = outcome[q] /\ request'[q] = request[q]
    BY <1>1, <1>3, <2>1 DEF AckInv
  <2>2. CASE Duplicate(q) \/ SyncDirectory(q)
    <3>1. CASE Duplicate(q)
      BY <3>1 DEF Duplicate, Finish, callVars, diskVars
    <3>2. CASE SyncDirectory(q)
      <4>1. pc[q] = "sync" /\ file' = file /\ request' = request
        BY <3>2 DEF SyncDirectory, Finish, Raise, Goto, callVars
      <4>2. request[q] # None
        BY <1>3, <3>2 DEF SyncDirectory, Finish, Raise, StoreInv, TypeOK
      <4> QED BY <4>1, <4>2 DEF StoreInv, AdvanceShape
    <3> QED BY <2>2, <3>1, <3>2
  <2>3. \/ pc[q] = "return" /\ outcome'[q] = outcome[q] /\ request'[q] = request[q]
        \/ Duplicate(q) \/ SyncDirectory(q)
    <3> USE <1>3 DEF StoreInv, TypeOK, Goto, Finish, Raise, callVars, Forget
    <3>1. ASSUME NEW p \in Procs, Begin(p) \/ Crash(p) \/ AdvanceStep(p)
          PROVE  \/ pc[q] = "return" /\ outcome'[q] = outcome[q] /\ request'[q] = request[q]
                 \/ Duplicate(q)
      BY <3>1 DEF Begin, AdvanceStep, CallAdvance, CallCreate, Crash, ReadRaw, ReadFails,
         LoadFails, Duplicate, HashConflict, Refuse, Apply, Replace, ReplaceFails
    <3>2. ASSUME NEW p \in Procs, CreateStep(p) \/ CommonStep(p)
          PROVE  \/ pc[q] = "return" /\ outcome'[q] = outcome[q] /\ request'[q] = request[q]
                 \/ SyncDirectory(q)
      BY <3>2 DEF CreateStep, CommonStep, AcquireLock, LockFails, AlreadyExists, InspectFails,
         PathIsFree, WriteTemp, FsyncTemp, WriteFails, CleanupFails, Link, LinkFails, UnlinkTemp,
         UnlinkFails, SyncDirectory, SyncFails, Return
    <3>3. CASE HostCreate \/ HostObserve \/ UNCHANGED vars
      BY <3>3 DEF HostCreate, HostObserve, vars
    <3> QED BY <3>1, <3>2, <3>3 DEF Next, Run
  <2> QED BY <2>1, <2>2, <2>3
<1> QED BY <1>1, <1>2, <1>3 DEF AckInv, AckedRecorded

\* The system without power loss keeps both invariants.
THEOREM StoreAckInvariant == Spec => [](StoreInv /\ AckInv)
<1>1. Init => StoreInv /\ AckInv
  BY InitInv DEF Init, AckInv, AckedRecorded
<1>2. StoreInv /\ AckInv /\ [Next]_vars => (StoreInv /\ AckInv)'
  BY NextInv, AckStep
<1> QED BY <1>1, <1>2, PTL DEF Spec

\* A request answered "ok" stays recorded.
THEOREM StoreAckedRecorded == Spec => []AckedRecorded
BY StoreAckInvariant, PTL DEF AckInv

\* No step overwrites a checkpoint by another goal's or a shorter one.
THEOREM StoreNeverOverwritten == Spec => NeverOverwritten
<1>1. StoreInv /\ [Next]_vars =>
        [file # None => /\ file' # None
                        /\ file'.goal = file.goal
                        /\ IsPrefix(file.history, file'.history)]_vars
  BY FileGrows
<1> QED BY <1>1, StoreAckInvariant, PTL DEF Spec, NeverOverwritten

\* The steps that the callers or the disk can tell from a stutter.
LEMMA VisibleStep ==
  ASSUME [Next]_vars
  PROVE  \/ UNCHANGED <<file, acked, confirmed>>
         \/ \E p \in Procs : Replace(p) \/ Link(p) \/ Return(p)
         \/ HostCreate \/ HostObserve
BY DEF Next, Begin, Run, AdvanceStep, CreateStep, CommonStep, vars, diskVars, ackVars,
       Finish, Raise, CallAdvance, CallCreate, AcquireLock, LockFails, ReadRaw, ReadFails,
       LoadFails, Duplicate, HashConflict, Refuse, Apply, AlreadyExists, InspectFails,
       PathIsFree, WriteTemp, FsyncTemp, WriteFails, CleanupFails, ReplaceFails,
       LinkFails, UnlinkTemp, UnlinkFails, SyncDirectory, SyncFails, Crash

\* Every step of the store is a step of the atomic checkpoint, or invisible.
LEMMA AtomicStep ==
  ASSUME StoreInv, AckInv, [Next]_vars
  PROVE  [Atomic!AbstractNext]_<<file, acked>>
<1>0. \A c : Atomic!Applied(c) = Applied(c)
  BY DEF Atomic!Applied, Applied, Atomic!ToSet, ToSet
<1>1. ASSUME NEW p \in Procs, Replace(p) PROVE Atomic!Transition
  BY <1>0, <1>1, ReplaceAdvances DEF Replace, ackVars, Atomic!Transition,
     Atomic!Advanced, Advanced
<1>2. ASSUME NEW p \in Procs, Link(p) PROVE Atomic!Publish
  <2>1. /\ file = None /\ file' \in Checkpoints /\ IsInjective(file'.history)
        /\ acked' = acked
    BY <1>2 DEF Link, Goto, ackVars, StoreInv, TypeOK, CreateShape
  <2> QED BY <2>1 DEF Checkpoints, IsInjective, Atomic!Publish, Atomic!Valid, Atomic!Checkpoints,
     Atomic!IsInjective
<1>3. ASSUME HostCreate PROVE Atomic!Publish
  <2>1. /\ file = None /\ file' \in Checkpoints /\ IsInjective(file'.history)
        /\ acked' = acked
    BY <1>3, CreatableFacts DEF HostCreate, ackVars
  <2> QED BY <2>1 DEF Checkpoints, IsInjective, Atomic!Publish, Atomic!Valid, Atomic!Checkpoints,
     Atomic!IsInjective
<1>4. ASSUME HostObserve PROVE Atomic!Observe
  BY <1>4, Zenon DEF HostObserve, ackVars, Atomic!Observe
<1>5. ASSUME NEW p \in Procs, Return(p)
      PROVE  Atomic!Answer \/ UNCHANGED <<file, acked>>
  <2>1. CASE outcome[p] \in {"applied", "duplicate"}
    <3>1. /\ acked' = acked \cup {request[p]} /\ file' = file
          /\ request[p] \in Applied(file)
      BY <1>5, <2>1 DEF Return, Goto, diskVars, AckInv
    <3> QED BY <1>0, <3>1 DEF Atomic!Answer
  <2>2. CASE outcome[p] \notin {"applied", "duplicate"}
    BY <1>5, <2>2 DEF Return, diskVars
  <2> QED BY <2>1, <2>2
<1> QED BY <1>1, <1>2, <1>3, <1>4, <1>5, VisibleStep DEF Atomic!AbstractNext

\* The store implements the atomic checkpoint: to its callers, every call takes
\* effect at one instant, at most once, and crashes do not show.
THEOREM StoreImplementsAtomic == Spec => ImplementsAtomic
<1>1. Init => Atomic!AbstractInit
  BY DEF Init, Atomic!AbstractInit
<1>2. StoreInv /\ AckInv /\ [Next]_vars => [Atomic!AbstractNext]_(Atomic!abstractVars)
  BY AtomicStep DEF Atomic!abstractVars
<1> QED BY <1>1, <1>2, StoreAckInvariant, PTL DEF Spec, ImplementsAtomic, Atomic!AbstractSpec

-----------------------------------------------------------------------------
(***************************************************************************)
(* With power loss: the store implements the durable checkpoint.           *)
(***************************************************************************)

\* What a power loss leaves is a version of the goal that records every
\* confirmed request.
LEMMA PowerLossRollsBack ==
  ASSUME StoreInv, PowerLoss
  PROVE  Durable!Rollback
<1>0. \A c : Durable!Applied(c) = Applied(c)
  BY DEF Durable!Applied, Applied, Durable!ToSet, ToSet
<1>1. file' \in survivors /\ confirmed' = confirmed
  BY DEF PowerLoss, ackVars
<1>2. confirmed \subseteq Applied(file')
  BY <1>1 DEF StoreInv, ConfirmedDurable
<1>3. file' \in Durable!Versions(file)
  <2>1. CASE file' = None
    BY <2>1 DEF Durable!Versions
  <2>2. CASE file' # None
    <3>1. /\ file' \in Checkpoints /\ file # None /\ file'.goal = file.goal
          /\ IsPrefix(file'.history, file.history)
      BY <1>1, <2>2 DEF StoreInv, TypeOK, SurvivorsAreVersions
    <3>2. Durable!IsPrefix(file'.history, file.history)
      BY <3>1 DEF IsPrefix, Durable!IsPrefix
    <3> QED BY <3>1, <3>2 DEF Durable!Versions, Durable!Checkpoints, Checkpoints
  <2> QED BY <2>1, <2>2
<1> QED BY <1>0, <1>1, <1>2, <1>3 DEF Durable!Rollback

\* Every step is a step of the durable checkpoint, or invisible: a call is
\* answered only once every version on the disk records its request.
LEMMA DurableStep ==
  ASSUME StoreInv, [Next \/ PowerLoss]_vars
  PROVE  [Durable!DurableNext]_<<file, confirmed>>
<1>0. \A c : Durable!Applied(c) = Applied(c)
  BY DEF Durable!Applied, Applied, Durable!ToSet, ToSet
<1>1. ASSUME NEW p \in Procs, Replace(p) PROVE Durable!Transition
  BY <1>0, <1>1, ReplaceAdvances DEF Replace, ackVars, Durable!Transition,
     Durable!Advanced, Advanced
<1>2. ASSUME NEW p \in Procs, Link(p) PROVE Durable!Publish
  <2>1. /\ file = None /\ file' \in Checkpoints /\ IsInjective(file'.history)
        /\ confirmed' = confirmed
    BY <1>2 DEF Link, Goto, ackVars, StoreInv, TypeOK, CreateShape
  <2> QED BY <2>1 DEF Checkpoints, IsInjective, Durable!Publish, Durable!Valid, Durable!Checkpoints,
     Durable!IsInjective
<1>3. ASSUME HostCreate PROVE Durable!Publish
  <2>1. /\ file = None /\ file' \in Checkpoints /\ IsInjective(file'.history)
        /\ confirmed' = confirmed
    BY <1>3, CreatableFacts DEF HostCreate, ackVars
  <2> QED BY <2>1 DEF Checkpoints, IsInjective, Durable!Publish, Durable!Valid, Durable!Checkpoints,
     Durable!IsInjective
<1>4. ASSUME HostObserve PROVE Durable!Observe
  BY <1>4, Zenon DEF HostObserve, ackVars, Durable!Observe
<1>5. ASSUME NEW p \in Procs, Return(p)
      PROVE  Durable!Answer \/ UNCHANGED <<file, confirmed>>
  <2>1. CASE outcome[p] = "applied"
    <3>1. /\ confirmed' = confirmed \cup {request[p]} /\ file' = file
          /\ request[p] \in Applied(file)
      BY <1>5, <2>1 DEF Return, Goto, diskVars, StoreInv, PublishShape
    <3> QED BY <1>0, <3>1 DEF Durable!Answer
  <2>2. CASE outcome[p] # "applied"
    BY <1>5, <2>2 DEF Return, diskVars
  <2> QED BY <2>1, <2>2
<1> QED BY <1>1, <1>2, <1>3, <1>4, <1>5, VisibleStep, PowerLossRollsBack
        DEF Durable!DurableNext, Durable!AbstractNext

\* On a machine that may lose power, the store implements the durable
\* checkpoint: a restart finds a version the goal has had, with every
\* transition that its own call reported, and the protocol goes on from it.
THEOREM StoreImplementsDurable == PowerSpec => ImplementsDurable
<1>1. Init => Durable!AbstractInit
  BY DEF Init, Durable!AbstractInit
<1>2. StoreInv /\ [Next \/ PowerLoss]_vars => [Durable!DurableNext]_(Durable!abstractVars)
  BY DurableStep DEF Durable!abstractVars
<1> QED BY <1>1, <1>2, StoreInvariant, PTL
        DEF PowerSpec, ImplementsDurable, Durable!DurableSpec
=============================================================================
