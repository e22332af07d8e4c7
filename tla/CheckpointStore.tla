-------------------------- MODULE CheckpointStore --------------------------
(***************************************************************************)
(* checkpoint_store.py: create_file and advance_file, run by several       *)
(* processes against one checkpoint path, beside a host that writes its    *)
(* observations into the same file.  One action is one system call or one  *)
(* decision between two system calls, so that processes interleave, fail   *)
(* and die exactly where the code lets them.                               *)
(*                                                                         *)
(* The raw SHA-256 of the file is modelled by the content it is taken of.  *)
(***************************************************************************)
EXTENDS Sequences, SequencesExt, FiniteSets

CONSTANTS
  Procs,      \* processes calling the store
  Requests,   \* request ids
  Goals,      \* goals a checkpoint is created for
  Imported,   \* request ids of the receipts a new file may come with
  None,       \* no file, no lock holder, no value
  Torn        \* a file whose data never reached the disk

VARIABLES
  file,       \* what the checkpoint path names: a checkpoint or None
  survivors,  \* what a power loss may leave under that path
  lock,       \* holder of the OS lock on <path>.lock, or None
  pc,         \* where each process is in its call
  request,    \* its request id; None while it runs create_file
  expected,   \* its expected_sha256: a content it saw, or None
  raw,        \* what read_bytes returned
  updated,    \* the checkpoint it is going to publish
  temp,       \* its temporary file: None, "written", "synced" or "stuck"
  outcome,    \* how its call ends
  acked,      \* requests some call answered "ok"
  confirmed   \* those among them answered by the call that applied them

diskVars == <<file, survivors>>
callVars == <<request, expected, raw, updated>>
ackVars  == <<acked, confirmed>>
vars == <<file, survivors, lock, pc, request, expected, raw, updated, temp,
          outcome, acked, confirmed>>

Checkpoints == [goal: Goals, history: Seq(Requests), ready: BOOLEAN]

ASSUME SentinelsDiffer ==
  /\ None \notin Checkpoints /\ Torn \notin Checkpoints /\ None # Torn
  /\ None \notin Procs /\ None \notin Requests

\* validate_goal_checkpoint: "duplicate advance request".
ASSUME ImportsAreValid ==
  Imported \subseteq {h \in Seq(Requests) : IsInjective(h)}

Steps == {"idle", "lock", "read", "load", "exists", "write", "fsync",
          "replace", "link", "unlink", "sync", "return"}
Outcomes == {"none", "applied", "duplicate", "created", "invalid", "oserror"}

\* What create_file is given, any valid state: a fresh goal of new_goal, a
\* migrated task that is at a slice limit already, or a copy with receipts.
Creatable == [goal: Goals, history: Imported, ready: BOOLEAN]

\* advance_checkpoint: a receipt is appended and the slice counters restart,
\* so the new slice is not ready; `ready` says the evaluator would answer
\* checkpoint with auto_continue.
Advanced(c, r) ==
  [goal |-> c.goal, history |-> Append(c.history, r), ready |-> FALSE]

Applied(c) == IF c = None THEN {} ELSE ToSet(c.history)

Init ==
  /\ file = None /\ survivors = {None}
  /\ lock = None
  /\ pc = [p \in Procs |-> "idle"]
  /\ request = [p \in Procs |-> None]
  /\ expected = [p \in Procs |-> None]
  /\ raw = [p \in Procs |-> None]
  /\ updated = [p \in Procs |-> None]
  /\ temp = [p \in Procs |-> None]
  /\ outcome = [p \in Procs |-> "none"]
  /\ acked = {} /\ confirmed = {}

-----------------------------------------------------------------------------
(* Control flow of one call.                                               *)

Goto(p, from, to) ==
  /\ pc[p] = from
  /\ pc' = [pc EXCEPT ![p] = to]

\* Leave the with-block with a result or an exception; Return unlocks.
Finish(p, from, how) ==
  /\ Goto(p, from, "return")
  /\ outcome' = [outcome EXCEPT ![p] = how]
  /\ UNCHANGED <<lock, callVars, ackVars>>

\* An exception before publication, or after it: every except-clause on the
\* way removes the temporary file, if there is one (but see CleanupFails).
Raise(p, from, how) ==
  /\ Finish(p, from, how)
  /\ temp' = [temp EXCEPT ![p] = None]
  /\ UNCHANGED diskVars

\* advance_file is called, with the hash of the file as the caller saw it
\* or with none.  The file may change before the lock is taken.
CallAdvance(p, r) ==
  /\ Goto(p, "idle", "lock")
  /\ request' = [request EXCEPT ![p] = r]
  /\ \E h \in {None, file} : expected' = [expected EXCEPT ![p] = h]
  /\ UNCHANGED <<diskVars, lock, raw, updated, temp, outcome, ackVars>>

\* create_file is called with a valid state.
CallCreate(p, c) ==
  /\ Goto(p, "idle", "lock")
  /\ updated' = [updated EXCEPT ![p] = c]
  /\ UNCHANGED <<diskVars, lock, request, expected, raw, temp, outcome, ackVars>>

\* Mutant: every caller gets a lock file of its own.
AcquirePrivateLock(p) ==
  /\ lock' = p
  /\ Goto(p, "lock", IF request[p] = None THEN "exists" ELSE "read")
  /\ UNCHANGED <<diskVars, callVars, temp, outcome, ackVars>>

\* flock(LOCK_EX | LOCK_NB) succeeds only on a free lock.
AcquireLock(p) ==
  /\ lock = None
  /\ lock' = p
  /\ Goto(p, "lock", IF request[p] = None THEN "exists" ELSE "read")
  /\ UNCHANGED <<diskVars, callVars, temp, outcome, ackVars>>

\* Mutant: flock without LOCK_NB waits instead of failing.
LockWaits(p) == lock = p /\ Raise(p, "lock", "invalid")

\* Contention, or the lock file cannot be opened: an explicit error, no retry.
LockFails(p) == Raise(p, "lock", "invalid")

-----------------------------------------------------------------------------
(* advance_file, under the lock.                                           *)

\* _require_regular_file and read_bytes.
ReadRaw(p) ==
  /\ Goto(p, "read", "load")
  /\ file # None
  /\ raw' = [raw EXCEPT ![p] = file]
  /\ UNCHANGED <<diskVars, lock, request, expected, updated, temp, outcome, ackVars>>

\* No such file, or it cannot be read.
ReadFails(p) == Raise(p, "read", "invalid")

\* The second read, load_json_object, and the validation of what it returned
\* may raise.
LoadFails(p) == Raise(p, "load", "invalid")

\* A request already in the history is answered with the state as it is,
\* before the expected hash is looked at.
Duplicate(p) ==
  /\ Finish(p, "load", "duplicate")
  /\ request[p] \in Applied(file)
  /\ UNCHANGED <<diskVars, temp>>

HashMatches(p) == expected[p] \in {None, raw[p]}

\* The hash compared is that of the first read.
HashConflict(p) ==
  /\ Raise(p, "load", "invalid")
  /\ request[p] \notin Applied(file)
  /\ ~HashMatches(p)

\* advance_checkpoint raises: the slice is not at an automatic checkpoint.
Refuse(p) ==
  /\ Raise(p, "load", "invalid")
  /\ request[p] \notin Applied(file)
  /\ HashMatches(p)
  /\ ~file.ready

\* Mutant: the history is not searched for the request id.
ApplyAgain(p) ==
  /\ Goto(p, "load", "write")
  /\ file # None
  /\ HashMatches(p)
  /\ file.ready
  /\ updated' = [updated EXCEPT ![p] = Advanced(file, request[p])]
  /\ UNCHANGED <<diskVars, lock, request, expected, raw, temp, outcome, ackVars>>

Apply(p) ==
  /\ Goto(p, "load", "write")
  /\ file # None
  /\ request[p] \notin Applied(file)
  /\ HashMatches(p)
  /\ file.ready
  /\ updated' = [updated EXCEPT ![p] = Advanced(file, request[p])]
  /\ UNCHANGED <<diskVars, lock, request, expected, raw, temp, outcome, ackVars>>

-----------------------------------------------------------------------------
(* create_file, under the lock.                                            *)

AlreadyExists(p) == file # None /\ Raise(p, "exists", "invalid")

\* _validate_components: a part of the path is a link by now, or unreadable.
InspectFails(p) == Raise(p, "exists", "invalid")

PathIsFree(p) ==
  /\ Goto(p, "exists", "write")
  /\ file = None
  /\ UNCHANGED <<diskVars, lock, callVars, temp, outcome, ackVars>>

-----------------------------------------------------------------------------
(* Writing and publishing the temporary file.                              *)

WriteTemp(p) ==
  /\ Goto(p, "write", "fsync")
  /\ temp' = [temp EXCEPT ![p] = "written"]
  /\ UNCHANGED <<diskVars, lock, callVars, outcome, ackVars>>

\* Mutant: the temporary file is closed without fsync.
CloseTemp(p) ==
  /\ Goto(p, "fsync", IF request[p] = None THEN "link" ELSE "replace")
  /\ temp' = [temp EXCEPT ![p] = "written"]
  /\ UNCHANGED <<diskVars, lock, callVars, outcome, ackVars>>

FsyncTemp(p) ==
  /\ Goto(p, "fsync", IF request[p] = None THEN "link" ELSE "replace")
  /\ temp' = [temp EXCEPT ![p] = "synced"]
  /\ UNCHANGED <<diskVars, lock, callVars, outcome, ackVars>>

\* mkstemp, write or fsync raises: the temporary file is unlinked.
WriteFails(p) == \E s \in {"write", "fsync"} : Raise(p, s, "oserror")

\* What a power loss would find in p's temporary file.
Landed(p) == IF temp[p] = "synced" THEN updated[p] ELSE Torn

\* os.replace: visible at once, on disk only when the directory is.
Replace(p) ==
  /\ Goto(p, "replace", "sync")
  /\ file' = updated[p]
  /\ survivors' = survivors \cup {Landed(p)}
  /\ temp' = [temp EXCEPT ![p] = None]
  /\ UNCHANGED <<lock, callVars, outcome, ackVars>>

\* Mutant: the except-clause forgets the temporary file.
ReplaceFailsKeepingTemp(p) ==
  /\ Finish(p, "replace", "oserror")
  /\ UNCHANGED <<diskVars, temp>>

\* Mutant: the except-clause does not raise again.
ReplaceFailsSilently(p) == Raise(p, "replace", "applied")

ReplaceFails(p) == Raise(p, "replace", "oserror")

\* Mutant: create publishes with os.replace.
LinkOver(p) ==
  /\ Goto(p, "link", "unlink")
  /\ file' = updated[p]
  /\ survivors' = survivors \cup {Landed(p)}
  /\ UNCHANGED <<lock, callVars, temp, outcome, ackVars>>

\* os.link never overwrites; the temporary name stays until it is unlinked.
Link(p) ==
  /\ Goto(p, "link", "unlink")
  /\ file = None
  /\ file' = updated[p]
  /\ survivors' = survivors \cup {Landed(p)}
  /\ UNCHANGED <<lock, callVars, temp, outcome, ackVars>>

\* FileExistsError becomes a validation error, any other OSError is raised.
LinkFails(p) == Raise(p, "link", IF file = None THEN "oserror" ELSE "invalid")

UnlinkTemp(p) ==
  /\ Goto(p, "unlink", "sync")
  /\ temp' = [temp EXCEPT ![p] = None]
  /\ UNCHANGED <<diskVars, lock, callVars, outcome, ackVars>>

\* The first unlink raises, the handler's second one removes the file: the
\* caller sees an OSError although the checkpoint is published.
UnlinkFails(p) == Raise(p, "unlink", "oserror")

\* Something raised and the except-clause cannot unlink the file either: this
\* second OSError is what the caller sees.
CleanupFails(p) ==
  /\ temp[p] # None
  /\ \E s \in {"fsync", "replace", "link", "unlink"} : Finish(p, s, "oserror")
  /\ temp' = [temp EXCEPT ![p] = "stuck"]
  /\ UNCHANGED diskVars

\* Mutant: the directory is not synced.
SkipDirectory(p) ==
  /\ Finish(p, "sync", IF request[p] = None THEN "created" ELSE "applied")
  /\ UNCHANGED <<diskVars, temp>>

\* fsync of the directory: the path now names the same file after a power loss.
SyncDirectory(p) ==
  /\ Finish(p, "sync", IF request[p] = None THEN "created" ELSE "applied")
  /\ survivors' = {file}
  /\ UNCHANGED <<file, temp>>

\* The directory cannot be synced: an OSError after publication.
SyncFails(p) == Raise(p, "sync", "oserror")

\* Everything a call held in memory is gone.
Forget(p) ==
  /\ request' = [request EXCEPT ![p] = None]
  /\ expected' = [expected EXCEPT ![p] = None]
  /\ raw' = [raw EXCEPT ![p] = None]
  /\ updated' = [updated EXCEPT ![p] = None]
  /\ outcome' = [outcome EXCEPT ![p] = "none"]

\* The finally-block unlocks (a call that never got the lock unlocks nothing)
\* and the caller gets the state or the exception.  A stuck temporary file has
\* a name that no call will ever open again.
Return(p) ==
  /\ Goto(p, "return", "idle")
  /\ lock' = IF lock = p THEN None ELSE lock
  /\ acked' = IF outcome[p] \in {"applied", "duplicate"}
                THEN acked \cup {request[p]} ELSE acked
  /\ confirmed' = IF outcome[p] = "applied"
                    THEN confirmed \cup {request[p]} ELSE confirmed
  /\ Forget(p)
  /\ temp' = [temp EXCEPT ![p] = IF @ = "stuck" THEN None ELSE @]
  /\ UNCHANGED diskVars

-----------------------------------------------------------------------------
(* The environment.                                                        *)

\* The host records observations "under the same lock and compare-and-swap
\* discipline"; they may make the slice ready to advance, or no longer so.
HostObserve ==
  /\ lock = None
  /\ file # None
  /\ \E b \in BOOLEAN : file' = [file EXCEPT !.ready = b]
  /\ survivors' = survivors \cup {file'}
  /\ UNCHANGED <<lock, pc, callVars, temp, outcome, ackVars>>

\* A host or a restored backup puts a first checkpoint at the path, without
\* the lock: nothing obliges it to go through create_file.
HostCreate ==
  /\ file = None
  /\ file' \in Creatable
  /\ survivors' = survivors \cup {file'}
  /\ UNCHANGED <<lock, pc, callVars, temp, outcome, ackVars>>

\* A process dies: the OS releases its lock.  Its temporary file, if any, is
\* abandoned under a name no call will ever open again.
Crash(p) ==
  /\ pc[p] # "idle"
  /\ pc' = [pc EXCEPT ![p] = "idle"]
  /\ lock' = IF lock = p THEN None ELSE lock
  /\ temp' = [temp EXCEPT ![p] = None]
  /\ Forget(p)
  /\ UNCHANGED <<diskVars, ackVars>>

\* The machine stops: every process dies and the path names one of the
\* versions the disk may hold.
PowerLoss ==
  /\ file' \in survivors
  /\ survivors' = {file'}
  /\ lock' = None
  /\ pc' = [p \in Procs |-> "idle"]
  /\ request' = [p \in Procs |-> None]
  /\ expected' = [p \in Procs |-> None]
  /\ raw' = [p \in Procs |-> None]
  /\ updated' = [p \in Procs |-> None]
  /\ temp' = [p \in Procs |-> None]
  /\ outcome' = [p \in Procs |-> "none"]
  /\ UNCHANGED ackVars

-----------------------------------------------------------------------------
Begin(p) == (\E r \in Requests : CallAdvance(p, r)) \/ (\E c \in Creatable : CallCreate(p, c))

AdvanceStep(p) ==
  \/ ReadRaw(p) \/ ReadFails(p) \/ LoadFails(p)
  \/ Duplicate(p) \/ HashConflict(p) \/ Refuse(p) \/ Apply(p)
  \/ Replace(p) \/ ReplaceFails(p)

CreateStep(p) ==
  \/ AlreadyExists(p) \/ InspectFails(p) \/ PathIsFree(p)
  \/ Link(p) \/ LinkFails(p) \/ UnlinkTemp(p) \/ UnlinkFails(p)

CommonStep(p) ==
  \/ AcquireLock(p) \/ LockFails(p)
  \/ WriteTemp(p) \/ FsyncTemp(p) \/ WriteFails(p) \/ CleanupFails(p)
  \/ SyncDirectory(p) \/ SyncFails(p) \/ Return(p)

Run(p) == AdvanceStep(p) \/ CreateStep(p) \/ CommonStep(p)

Next ==
  \/ \E p \in Procs : Begin(p) \/ Run(p) \/ Crash(p)
  \/ HostObserve
  \/ HostCreate

Spec == Init /\ [][Next]_vars

\* The same system on a machine that may lose power.
PowerSpec == Init /\ [][Next \/ PowerLoss]_vars

\* A call keeps running: the OS answers every system call, with a result or
\* an error.  Nothing is assumed of the lock, which is never waited for.
FairSpec == Spec /\ \A p \in Procs : WF_vars(Run(p))

-----------------------------------------------------------------------------
(* Properties.                                                             *)

\* Every field has its type; no torn file is ever on disk under the path.
TypeOK ==
  /\ file \in Checkpoints \cup {None}
  /\ survivors \subseteq Checkpoints \cup {None}
  /\ lock \in Procs \cup {None}
  /\ pc \in [Procs -> Steps]
  /\ request \in [Procs -> Requests \cup {None}]
  /\ expected \in [Procs -> Checkpoints \cup {None}]
  /\ raw \in [Procs -> Checkpoints \cup {None}]
  /\ updated \in [Procs -> Checkpoints \cup {None}]
  /\ temp \in [Procs -> {None, "written", "synced", "stuck"}]
  /\ outcome \in [Procs -> Outcomes]
  /\ acked \subseteq Requests
  /\ confirmed \subseteq Requests

\* What p will publish is the next transition of what the path names now, and
\* the hash its caller gave is the hash of it: nothing written since the first
\* read of checkpoint_store.py:152 is lost by the replace of line 164.
NoLostUpdate == \A p \in Procs :
  request[p] # None /\ pc[p] \in {"write", "fsync", "replace"} =>
    /\ file = raw[p]
    /\ HashMatches(p)
    /\ updated[p] = Advanced(file, request[p])

\* A request id is recorded at most once, in the file and in every version a
\* power loss may bring back, however often and by whomever it is retried.
AppliedOnce == \A c \in survivors \cup {file} : c # None => IsInjective(c.history)

\* Without power loss, a request that was ever answered "ok" is recorded: no
\* later call, error or crash takes the transition back.
AckedRecorded == acked \subseteq Applied(file)

\* What a power loss may leave is whole, and an earlier version of the same
\* goal: never a torn file, never another history.
SurvivorsAreVersions ==
  /\ Torn \notin survivors
  /\ \A c \in survivors : c # None =>
       /\ file # None
       /\ c.goal = file.goal
       /\ IsPrefix(c.history, file.history)

\* A transition answered by the call that applied it survives a power loss.
ConfirmedDurable == \A r \in confirmed, c \in survivors : r \in Applied(c)

\* The module's first line promises crash-safe persistence, and the migration
\* guide says that a crash after publication is recovered by replaying the id:
\* then any request answered "ok", replays included, survives a power loss.
AckedDurable == \A r \in acked, c \in survivors : r \in Applied(c)

\* A call that has ended, with a result or any error, leaves no temporary file
\* except where it could not be unlinked, and then the caller sees an OSError.
NoTempLeft ==
  \A p \in Procs : pc[p] \in {"idle", "return"} =>
    temp[p] = None \/ (temp[p] = "stuck" /\ outcome[p] = "oserror")

\* No step of any process replaces a checkpoint by one of another goal or by
\* one that forgot a receipt: create_file never overwrites what appeared at
\* the path after it looked, and advance_file only appends.
NeverOverwritten ==
  [][file # None =>
       /\ file' # None
       /\ file'.goal = file.goal
       /\ IsPrefix(file.history, file'.history)]_vars

\* Every call ends, whoever holds the lock and whoever died holding it.
CallReturns == \A p \in Procs : pc[p] # "idle" ~> pc[p] = "idle"

\* The store implements the atomic checkpoint.
Atomic == INSTANCE AtomicCheckpoint WITH ckpt <- file, answered <- acked
ImplementsAtomic == Atomic!AbstractSpec

\* With power loss it implements the durable one: whatever is on the disk
\* between fsync, rename and the sync of the directory (_fsync_directory), a
\* restart finds a version the goal has had, no older than any transition
\* its own call reported, and everything goes on from there as before.
Durable == INSTANCE DurableCheckpoint WITH ckpt <- file, answered <- confirmed
ImplementsDurable == Durable!DurableSpec

-----------------------------------------------------------------------------
(* The inductive invariant behind the properties above.                    *)

\* The lock is held wherever the with-block is running.
LockHeld == \A p \in Procs :
  pc[p] \in {"read", "load", "exists", "write", "fsync", "replace", "link",
             "unlink", "sync"} => lock = p

\* What p read is still what the path names, and the request is still new.
AdvanceShape == \A p \in Procs :
  /\ pc[p] \in {"read", "load", "replace"} => request[p] # None
  /\ pc[p] = "load" => file # None /\ file = raw[p]
  /\ pc[p] \in {"write", "fsync", "replace"} /\ request[p] # None =>
       file # None /\ file.ready /\ request[p] \notin Applied(file)
  /\ pc[p] = "sync" /\ request[p] # None => request[p] \in Applied(file)

\* create_file publishes a valid checkpoint.
CreateShape == \A p \in Procs :
  /\ pc[p] \in {"idle", "exists", "link", "unlink"} => request[p] = None
  /\ request[p] = None /\ pc[p] \in {"lock", "exists", "write", "fsync", "link"} =>
       updated[p] # None /\ IsInjective(updated[p].history)

\* Only a synced temporary file is published, and a call that will report a
\* transition of its own has it on disk.
PublishShape ==
  /\ file \in survivors
  /\ \A p \in Procs :
      /\ pc[p] \in {"replace", "link"} => temp[p] = "synced"
      /\ pc[p] \in {"unlink", "sync"} => file # None
      /\ pc[p] = "return" /\ outcome[p] \in {"applied", "duplicate"} =>
           request[p] # None
      /\ pc[p] = "return" /\ outcome[p] = "applied" =>
           \A c \in survivors : request[p] \in Applied(c)

StoreInv ==
  /\ TypeOK
  /\ LockHeld
  /\ AdvanceShape
  /\ CreateShape
  /\ PublishShape
  /\ NoLostUpdate
  /\ AppliedOnce
  /\ SurvivorsAreVersions
  /\ ConfirmedDurable

\* Without power loss, in addition: an answer to come is already recorded.
AckInv ==
  /\ AckedRecorded
  /\ \A p \in Procs : pc[p] = "return" /\ outcome[p] \in {"applied", "duplicate"} =>
       request[p] \in Applied(file)
=============================================================================
