----------------------------- MODULE StateLock -----------------------------
(***************************************************************************)
(* The mkdir lock around one profile's state file (outcome.sh,             *)
(* _state_lock and _state_unlock), one action per filesystem operation or  *)
(* liveness probe.                                                         *)
(*                                                                         *)
(* A process is named by its pid, the only thing kill -0 can ask about:    *)
(* pc[p] = "off" says no process has pid p, and Start(p) gives the pid to  *)
(* a new one.  The token published beside the pid tells apart two          *)
(* acquisitions of one pid; a process has one acquisition under way at a   *)
(* time and a new one with the same pid starts at "out", so the pid alone  *)
(* decides every test the code makes and the token is left out.            *)
(***************************************************************************)
EXTENDS FiniteSets

CONSTANTS
  Procs,          \* the pids
  Bare,           \* the lock directory exists and holds no owner file
  Absent,         \* there is no lock directory
  Recycled,       \* the pids that are given to a second process, once
  CrashPoints     \* the steps at which a shell may be killed

ASSUME LockValues == Bare \notin Procs /\ Absent \notin Procs /\ Bare # Absent
ASSUME KnownPids  == Recycled \subseteq Procs

Steps == {"out", "try", "publish", "undo", "read", "probe", "meta", "reread",
          "reprobe", "move", "unmeta", "cs", "check", "unlink", "rmdir"}

ASSUME KnownCrashPoints == CrashPoints \subseteq Steps

VARIABLES
  lock,      \* Absent, Bare, or the pid in ${f}.lock/owner
  meta,      \* does ${f}.lock.reclaiming exist?
  pc,        \* pc[p]: the next operation of process p
  seen,      \* seen[p]: the pid p read out of the owner file, Bare if none
  orphan,    \* orphan[p]: what is left to do of the rm of a killed shell
  scars,     \* history: which of the mishaps below there have been
  reused     \* the pids that have been given to a second process

env  == <<orphan, scars, reused>>
vars == <<lock, meta, pc, seen, orphan, scars, reused>>

(* What a death can do to the protocol.  "probe": the process reread out of the
   owner file gave its lock up and ended before the kill -0; "rm": the rm of a
   killed shell went on without it; "litter": a shell was killed while it had
   made a directory and not put its pid in, or held the meta-lock. *)
Mishaps == {"probe", "rm", "litter"}

TypeOK ==
  /\ lock \in Procs \cup {Bare, Absent}
  /\ meta \in BOOLEAN
  /\ pc \in [Procs -> Steps \cup {"off"}]
  /\ seen \in [Procs -> Procs \cup {Bare}]
  /\ orphan \in [Procs -> {"none", "unlink", "rmdir"}]
  /\ scars \subseteq Mishaps
  /\ reused \subseteq Recycled

Alive(p) == pc[p] # "off"                                    \* kill -0

Goto(p, from, to) == pc[p] = from /\ pc' = [pc EXCEPT ![p] = to]

Init ==
  /\ lock = Absent
  /\ meta = FALSE
  /\ pc = [p \in Procs |-> "out"]
  /\ seen = [p \in Procs |-> Bare]
  /\ orphan = [p \in Procs |-> "none"]
  /\ scars = {}
  /\ reused = {}

----------------------------------------------------------------------------
(* _state_lock *)

Call(p) == Goto(p, "out", "try") /\ UNCHANGED <<lock, meta, seen, env>>

(* mkdir of the lock directory; the parent directory may be unusable, which
   is only a poll and a retry. *)
MkdirLock(p) ==
  /\ lock = Absent
  /\ Goto(p, "try", "publish")
  /\ lock' = Bare
  /\ UNCHANGED <<meta, seen, env>>

(* Mutant: mkdir -p, which does not fail on a directory that exists. *)
MutantMkdirParents(p) ==
  /\ lock # Absent
  /\ Goto(p, "try", "publish")
  /\ UNCHANGED <<lock, meta, seen, env>>

MkdirFails(p) ==
  /\ lock # Absent
  /\ Goto(p, "try", "read")
  /\ UNCHANGED <<lock, meta, seen, env>>

(* Write .owner.tmp and rename it to owner, inside whatever directory now
   has the lock's name. *)
Publish(p) ==
  /\ lock # Absent
  /\ Goto(p, "publish", "cs")
  /\ lock' = p
  /\ UNCHANGED <<meta, seen, env>>

PublishFails(p) ==
  /\ Goto(p, "publish", "undo")
  /\ UNCHANGED <<lock, meta, seen, env>>

(* Mutant: a failed write leaves the directory it made. *)
MutantUndoLost(p) == Goto(p, "undo", "try") /\ UNCHANGED <<lock, meta, seen, env>>

Undo(p) ==
  /\ Goto(p, "undo", "try")
  /\ lock' = Absent
  /\ UNCHANGED <<meta, seen, env>>

ReadOwner(p) ==
  /\ seen' = [seen EXCEPT ![p] = IF lock \in Procs THEN lock ELSE Bare]
  /\ Goto(p, "read", IF lock \in Procs THEN "probe" ELSE "try")
  /\ UNCHANGED <<lock, meta, env>>

(* What a probe compared is not looked at again: the pid is read anew. *)
Answered(p) == seen' = [seen EXCEPT ![p] = Bare] /\ UNCHANGED <<lock, meta, env>>

Probe(p) ==
  /\ Goto(p, "probe", IF Alive(seen[p]) THEN "try" ELSE "meta")
  /\ Answered(p)

(* Mutant: the reclaimers do not exclude each other. *)
MutantMetaShared(p) ==
  Goto(p, "meta", "reread") /\ meta' = TRUE /\ UNCHANGED <<lock, seen, env>>

MkdirMeta(p) ==
  /\ Goto(p, "meta", IF meta THEN "try" ELSE "reread")
  /\ meta' = TRUE
  /\ UNCHANGED <<lock, seen, env>>

RereadOwner(p) ==
  /\ seen' = [seen EXCEPT ![p] = IF lock \in Procs THEN lock ELSE Bare]
  /\ Goto(p, "reread", IF lock \in Procs THEN "reprobe" ELSE "unmeta")
  /\ UNCHANGED <<lock, meta, env>>

(* Mutant: the first kill -0 is trusted. *)
MutantTrustFirstProbe(p) ==
  Goto(p, "reprobe", "move") /\ Answered(p)

Reprobe(p) ==
  /\ Goto(p, "reprobe", IF Alive(seen[p]) THEN "unmeta" ELSE "move")
  /\ Answered(p)

MoveAway(p) ==
  /\ Goto(p, "move", "unmeta")
  /\ lock' = Absent
  /\ UNCHANGED <<meta, seen, env>>

RemoveMeta(p) ==
  /\ Goto(p, "unmeta", "try")
  /\ meta' = FALSE
  /\ UNCHANGED <<lock, seen, env>>

----------------------------------------------------------------------------
(* _state_unlock *)

Unlock(p) == Goto(p, "cs", "check") /\ UNCHANGED <<lock, meta, seen, env>>

CheckMine(p) ==
  /\ Goto(p, "check", IF lock = p THEN "unlink" ELSE "out")
  /\ UNCHANGED <<lock, meta, seen, env>>

(* rm -rf empties the directory, then removes it; the rmdir fails when an
   owner file has appeared in between. *)
Emptied == IF lock = Absent THEN Absent ELSE Bare
Removed == IF lock = Bare THEN Absent ELSE lock

UnlinkOwner(p) ==
  /\ Goto(p, "unlink", "rmdir")
  /\ lock' = Emptied
  /\ UNCHANGED <<meta, seen, env>>

RmdirLock(p) ==
  /\ Goto(p, "rmdir", "out")
  /\ lock' = Removed
  /\ UNCHANGED <<meta, seen, env>>

----------------------------------------------------------------------------
(* The processes themselves *)

Making == {"publish", "undo", "rmdir"}    \* made the directory, no owner in it

(* The lock p has given up, and q is about to probe p's pid all the same. *)
ProbedLate(p) == lock # p /\ \E q \in Procs : pc[q] = "reprobe" /\ seen[q] = p

Littering(p) == pc[p] \in Making \cup {"reread", "reprobe", "move", "unmeta"}

Gone(p, mishaps) ==
  /\ pc' = [pc EXCEPT ![p] = "off"]
  /\ seen' = [seen EXCEPT ![p] = Bare]
  /\ scars' = scars \cup mishaps \cup (IF ProbedLate(p) THEN {"probe"} ELSE {})
  /\ UNCHANGED <<lock, meta, reused>>

Exit(p) == pc[p] = "out" /\ Gone(p, {}) /\ UNCHANGED orphan

Crash(p) ==
  /\ pc[p] \in CrashPoints
  /\ Gone(p, IF Littering(p) THEN {"litter"} ELSE {})
  /\ UNCHANGED orphan

(* Killed while its rm runs: the command goes on without the shell. *)
CrashLeavingRm(p) ==
  /\ pc[p] \in CrashPoints \cap {"unlink", "rmdir"}
  /\ orphan[p] = "none"
  /\ Gone(p, {"rm"})
  /\ orphan' = [orphan EXCEPT ![p] = pc[p]]

OrphanUnlink(p) ==
  /\ orphan[p] = "unlink"
  /\ lock' = Emptied
  /\ orphan' = [orphan EXCEPT ![p] = "rmdir"]
  /\ UNCHANGED <<meta, pc, seen, scars, reused>>

OrphanRmdir(p) ==
  /\ orphan[p] = "rmdir"
  /\ lock' = Removed
  /\ orphan' = [orphan EXCEPT ![p] = "none"]
  /\ UNCHANGED <<meta, pc, seen, scars, reused>>

Start(p) ==
  /\ p \in Recycled \ reused
  /\ Goto(p, "off", "out")
  /\ reused' = reused \cup {p}
  /\ UNCHANGED <<lock, meta, seen, orphan, scars>>

----------------------------------------------------------------------------
Acquiring(p) ==
  \/ MkdirLock(p) \/ MkdirFails(p) \/ Publish(p) \/ PublishFails(p) \/ Undo(p)
  \/ ReadOwner(p) \/ Probe(p) \/ MkdirMeta(p) \/ RereadOwner(p) \/ Reprobe(p)
  \/ MoveAway(p) \/ RemoveMeta(p)

Releasing(p) == Unlock(p) \/ CheckMine(p) \/ UnlinkOwner(p) \/ RmdirLock(p)

Environment(p) ==
  Exit(p) \/ Crash(p) \/ CrashLeavingRm(p) \/ OrphanUnlink(p) \/ OrphanRmdir(p)
    \/ Start(p)

Next == \E p \in Procs : Call(p) \/ Acquiring(p) \/ Releasing(p) \/ Environment(p)

Spec == Init /\ [][Next]_vars

(* A live process is scheduled, and a write that can succeed does not fail
   for ever: _state_lock retries until it has published its pid. *)
FairSpec ==
  Spec /\ \A p \in Procs : /\ WF_vars(Acquiring(p))
                          /\ SF_vars(Publish(p))
                          /\ WF_vars(Releasing(p))

----------------------------------------------------------------------------
(* Properties *)

(* The two deaths after which the protocol protects nobody until the state
   settles: outcome.sh:223 (kill -0 after the reread) and outcome.sh:252 (the
   rm of a shell that is gone). *)
Disturbed == scars \cap {"probe", "rm"} # {}

(* outcome.sh:100-104, as its comment has it: no two processes are ever inside
   a transaction on the same state file.  A process that exits while it is
   probed, or a rm that outlives its shell, refutes it. *)
MutualExclusion ==
  \A p, q \in Procs : pc[p] = "cs" /\ pc[q] = "cs" => p = q

(* outcome.sh:237-246: between _state_lock and the check in _state_unlock the
   owner file names the caller.  Over shells killed at every command, failing
   writes and recycled pids, only the two deaths above take it away. *)
HolderKeepsLock ==
  Disturbed \/ \A p \in Procs : pc[p] \in {"cs", "check", "unlink"} => lock = p

(* outcome.sh:134-138: at most one process is mid-reclaim, whatever dies. *)
Reclaiming == {p \in Procs : pc[p] \in {"reread", "reprobe", "move", "unmeta"}}

OneReclaimer == \A p, q \in Reclaiming : p = q

(* A death can leave what no process takes away: a directory without an owner
   file, whose maker is gone, or a meta-lock nobody holds (outcome.sh:216-220);
   and the pid of a dead owner can be a living stranger's (outcome.sh:211).
   Without a death none of this excuses a wait. *)
Abandoned ==
  \/ /\ scars # {}
     /\ \/ lock = Bare /\ \A p \in Procs : pc[p] \notin Making
        \/ meta /\ Reclaiming = {}
  \/ lock \in reused /\ Alive(lock) /\ pc[lock] \notin {"cs", "check", "unlink"}

WaitSteps  == Steps \ {"out", "cs", "check", "unlink", "rmdir"}
Waiting(q) == pc[q] \in WaitSteps
Contended  == \E q \in Procs : Waiting(q)

(* outcome.sh:104-109: while anybody waits for the lock, somebody gets it,
   unless something is left abandoned.  Hence a lock whose owner died does not
   outlast it either: who enters holds a lock of its own (HolderKeepsLock). *)
SomebodyEnters ==
  Contended ~> ((\E q \in Procs : pc[q] = "cs") \/ ~Contended \/ Abandoned)

(* What the lock looks like to its callers, step by step. *)
Phase(step) ==
  CASE step = "off"       -> "absent"
    [] step = "cs"        -> "inside"
    [] step \in WaitSteps -> "waiting"
    [] OTHER              -> "idle"

phases == [p \in Procs |-> Phase(pc[p])]

Abstract == INSTANCE Mutex WITH phase <- phases, broken <- Disturbed

(* outcome.sh:100-105: seen from its callers, the directory protocol is a
   mutual exclusion lock that dead holders give up, until one of the two deaths
   breaks it. *)
RefinesMutex == Abstract!Spec

----------------------------------------------------------------------------
(* The inductive invariant behind the safety properties *)

Owning  == {"cs", "check", "unlink"}       \* its pid is in the owner file
Holds(p) == pc[p] \in Making \cup Owning

OneHolder == \A p, q \in Procs : Holds(p) /\ Holds(q) => p = q

HolderDirectory ==
  \A p \in Procs : /\ pc[p] \in Making => lock = Bare
                   /\ pc[p] \in Owning => lock = p

MetaHeld == \A p \in Reclaiming : meta

(* What a reclaimer knows: the pid it reread either is alive or still owns a
   lock nobody holds; and it moves away only such a lock. *)
LockIsDead == lock \in Procs /\ \A q \in Procs : ~Holds(q)

ReclaimerKnows ==
  \A p \in Procs :
    /\ pc[p] \in {"probe", "reprobe"} => seen[p] \in Procs
    /\ pc[p] = "reprobe" =>
         Alive(seen[p]) \/ (lock = seen[p] /\ LockIsDead)
    /\ pc[p] = "move" => LockIsDead

NoOrphan == \A p \in Procs : orphan[p] = "none"

IndInv ==
  /\ TypeOK /\ MetaHeld /\ OneReclaimer
  /\ Disturbed \/ (NoOrphan /\ OneHolder /\ HolderDirectory /\ ReclaimerKnows)
=============================================================================
