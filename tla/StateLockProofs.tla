-------------------------- MODULE StateLockProofs --------------------------
(***************************************************************************)
(* Proofs about the mkdir lock, for every set of pids.  Type correctness   *)
(* and the uniqueness of the reclaimer hold whatever dies and whenever.    *)
(* Mutual exclusion holds until one of two deaths that the code cannot     *)
(* guard against (Disturbed); nothing is assumed about timing.             *)
(***************************************************************************)
EXTENDS StateLock, TLAPS

(* The control points are needed, by name, in every proof below. *)
USE DEF Steps

(* The initial state has the right types. *)
THEOREM InitType == Init => TypeOK
  BY DEF Init, TypeOK

LEMMA StepKeepsType == TypeOK /\ [Next]_vars => TypeOK'
<1> SUFFICES ASSUME TypeOK, [Next]_vars PROVE TypeOK'
  OBVIOUS
<1> USE LockValues, KnownCrashPoints DEF TypeOK, env, Answered
<1>1. CASE UNCHANGED vars
  BY <1>1 DEF vars
<1>2. ASSUME NEW p \in Procs, Call(p) PROVE TypeOK'
  BY <1>2 DEF Call, Goto
<1>3. ASSUME NEW p \in Procs, Acquiring(p) PROVE TypeOK'
  <2>1. CASE MkdirLock(p) \/ MkdirFails(p) \/ Publish(p) \/ PublishFails(p) \/ Undo(p)
    BY <2>1 DEF MkdirLock, MkdirFails, Publish, PublishFails, Undo, Goto
  <2>2. CASE ReadOwner(p) \/ RereadOwner(p)
    BY <2>2 DEF ReadOwner, RereadOwner, Goto
  <2>3. CASE Probe(p) \/ Reprobe(p)
    BY <2>3 DEF Probe, Reprobe, Goto
  <2>4. CASE MkdirMeta(p) \/ MoveAway(p) \/ RemoveMeta(p)
    BY <2>4 DEF MkdirMeta, MoveAway, RemoveMeta, Goto
  <2>5. QED BY <1>3, <2>1, <2>2, <2>3, <2>4 DEF Acquiring
<1>4. ASSUME NEW p \in Procs, Releasing(p) PROVE TypeOK'
  BY <1>4 DEF Releasing, Unlock, CheckMine, UnlinkOwner, RmdirLock, Emptied, Removed, Goto
<1>5. ASSUME NEW p \in Procs, Environment(p) PROVE TypeOK'
  BY <1>5 DEF Environment, Exit, Crash, CrashLeavingRm, OrphanUnlink, OrphanRmdir,
              Start, Gone, Mishaps, Emptied, Removed, Goto
<1>6. QED BY <1>1, <1>2, <1>3, <1>4, <1>5 DEF Next

(* outcome.sh:143-254: whatever the shells do and wherever they die, the lock
   directory holds one pid or none and every process is at a known step. *)
THEOREM TypeCorrect == Spec => []TypeOK
<1>1. QED BY InitType, StepKeepsType, PTL DEF Spec

----------------------------------------------------------------------------
(* MetaHeld and OneReclaimer are kept by every step, disturbed or not. *)
LEMMA StepKeepsMeta ==
  ASSUME TypeOK, MetaHeld, OneReclaimer, [Next]_vars PROVE MetaHeld' /\ OneReclaimer'
<1> USE DEF TypeOK, MetaHeld, OneReclaimer, Reclaiming, Answered
<1>1. CASE UNCHANGED vars
  BY <1>1 DEF vars
<1>2. ASSUME NEW p \in Procs, Call(p) PROVE MetaHeld' /\ OneReclaimer'
  BY <1>2 DEF Call, Goto
<1>3. ASSUME NEW p \in Procs, Acquiring(p) PROVE MetaHeld' /\ OneReclaimer'
  <2>1. CASE MkdirLock(p) \/ MkdirFails(p) \/ Publish(p) \/ PublishFails(p) \/ Undo(p)
    BY <2>1 DEF MkdirLock, MkdirFails, Publish, PublishFails, Undo, Goto
  <2>2. CASE ReadOwner(p) \/ RereadOwner(p)
    BY <2>2 DEF ReadOwner, RereadOwner, Goto
  <2>3. CASE Probe(p) \/ Reprobe(p)
    BY <2>3 DEF Probe, Reprobe, Goto
  <2>4. CASE MkdirMeta(p)
    BY <2>4 DEF MkdirMeta, Goto
  <2>5. CASE MoveAway(p) \/ RemoveMeta(p)
    BY <2>5 DEF MoveAway, RemoveMeta, Goto
  <2>6. QED BY <1>3, <2>1, <2>2, <2>3, <2>4, <2>5 DEF Acquiring
<1>4. ASSUME NEW p \in Procs, Releasing(p) PROVE MetaHeld' /\ OneReclaimer'
  BY <1>4 DEF Releasing, Unlock, CheckMine, UnlinkOwner, RmdirLock, Goto
<1>5. ASSUME NEW p \in Procs, Environment(p) PROVE MetaHeld' /\ OneReclaimer'
  BY <1>5 DEF Environment, Exit, Crash, CrashLeavingRm, OrphanUnlink, OrphanRmdir,
              Start, Gone, Goto
<1>6. QED BY <1>1, <1>2, <1>3, <1>4, <1>5 DEF Next

----------------------------------------------------------------------------
(* A death that no probe is under way for, or that disturbs nothing. *)
LEMMA Undisturbed == ~Disturbed' /\ [Next]_vars => ~Disturbed
<1> SUFFICES ASSUME [Next]_vars, Disturbed PROVE Disturbed'
  OBVIOUS
<1>1. scars \subseteq scars'
  BY DEF vars, env, Next, Call, Acquiring, MkdirLock, MkdirFails, Publish, PublishFails,
         Undo, ReadOwner, Probe, MkdirMeta, RereadOwner, Reprobe, MoveAway, RemoveMeta,
         Answered, Releasing, Unlock, CheckMine, UnlinkOwner, RmdirLock, Environment,
         Exit, Crash, CrashLeavingRm, OrphanUnlink, OrphanRmdir, Start, Gone
<1>2. QED BY <1>1 DEF Disturbed

(* While the two deaths have not happened, the holder, the reclaimer and the
   directory agree. *)
Settled == NoOrphan /\ OneHolder /\ HolderDirectory /\ ReclaimerKnows

LEMMA StepKeepsSettled ==
  ASSUME TypeOK, TypeOK', MetaHeld, OneReclaimer, Settled, ~Disturbed', [Next]_vars
  PROVE  Settled'
PROOF
<1> USE LockValues
<1> USE DEF Settled, TypeOK, NoOrphan, OneHolder, HolderDirectory, MetaHeld,
            OneReclaimer, Reclaiming, ReclaimerKnows, LockIsDead, Holds, Making,
            Owning, Alive, Goto, Answered, env
<1>1. CASE UNCHANGED vars
  BY <1>1 DEF vars
<1>2. ASSUME NEW p \in Procs, Call(p) PROVE Settled'
  BY <1>2 DEF Call
<1>3. ASSUME NEW p \in Procs, Acquiring(p) PROVE Settled'
  <2>1. CASE MkdirLock(p)
    BY <2>1 DEF MkdirLock
  <2>2. CASE MkdirFails(p)
    BY <2>2 DEF MkdirFails
  <2>3. CASE Publish(p)
    BY <2>3 DEF Publish
  <2>4. CASE PublishFails(p) \/ Undo(p)
    BY <2>4 DEF PublishFails, Undo
  <2>5. CASE ReadOwner(p)
    BY <2>5 DEF ReadOwner
  <2>6. CASE Probe(p)
    BY <2>6 DEF Probe
  <2>7. CASE MkdirMeta(p)
    BY <2>7 DEF MkdirMeta
  <2>8. CASE RereadOwner(p)
    BY <2>8 DEF RereadOwner
  <2>9. CASE Reprobe(p)
    BY <2>9 DEF Reprobe
  <2>10. CASE MoveAway(p)
    BY <2>10 DEF MoveAway
  <2>11. CASE RemoveMeta(p)
    BY <2>11 DEF RemoveMeta
  <2>12. QED BY <1>3, <2>1, <2>2, <2>3, <2>4, <2>5, <2>6, <2>7, <2>8, <2>9, <2>10,
                <2>11 DEF Acquiring
<1>4. ASSUME NEW p \in Procs, Releasing(p) PROVE Settled'
  <2>1. CASE Unlock(p) \/ CheckMine(p)
    BY <2>1 DEF Unlock, CheckMine
  <2>2. CASE UnlinkOwner(p)
    BY <2>2 DEF UnlinkOwner, Emptied
  <2>3. CASE RmdirLock(p)
    BY <2>3 DEF RmdirLock, Removed
  <2>4. QED BY <1>4, <2>1, <2>2, <2>3 DEF Releasing
<1>5. ASSUME NEW p \in Procs, Environment(p) PROVE Settled'
  <2>1. CASE Exit(p) \/ Crash(p)
    BY <2>1 DEF Exit, Crash, Gone, ProbedLate, Disturbed
  <2>2. CASE CrashLeavingRm(p) \/ OrphanUnlink(p) \/ OrphanRmdir(p)
    BY <2>2 DEF CrashLeavingRm, OrphanUnlink, OrphanRmdir, Gone, Disturbed
  <2>3. CASE Start(p)
    BY <2>3 DEF Start
  <2>4. QED BY <1>5, <2>1, <2>2, <2>3 DEF Environment
<1>6. QED BY <1>1, <1>2, <1>3, <1>4, <1>5 DEF Next

LEMMA InitIndInv == Init => IndInv
  BY InitType DEF Init, IndInv, NoOrphan, OneHolder, HolderDirectory, MetaHeld,
                  OneReclaimer, Reclaiming, ReclaimerKnows, Holds, Making, Owning

LEMMA StepKeepsIndInv == IndInv /\ [Next]_vars => IndInv'
<1> SUFFICES ASSUME IndInv, [Next]_vars PROVE IndInv'
  OBVIOUS
<1>1. TypeOK' /\ MetaHeld' /\ OneReclaimer'
  BY StepKeepsType, StepKeepsMeta DEF IndInv
<1>2. ASSUME ~Disturbed' PROVE Settled'
  BY <1>1, <1>2, Undisturbed, StepKeepsSettled DEF IndInv, Settled
<1>3. QED BY <1>1, <1>2 DEF IndInv, Settled

(* What TypeOK, the reclaimer's knowledge and the holder's lock amount to, at
   every step of any number of shells, killed at any command. *)
THEOREM IndInvAlways == Spec => []IndInv
<1>1. QED BY InitIndInv, StepKeepsIndInv, PTL DEF Spec

(* outcome.sh:134-138: two processes are never both between the mkdir and the
   rm of .lock.reclaiming, with no condition on who dies when. *)
THEOREM ReclaimIsSerialised == Spec => []OneReclaimer
<1>1. IndInv => OneReclaimer
  BY DEF IndInv
<1>2. QED BY IndInvAlways, <1>1, PTL

(* outcome.sh:100-105: until one of the two deaths, transactions on one state
   file never overlap, whatever else dies, fails or takes over a pid. *)
THEOREM LockExcludes == Spec => [](~Disturbed => MutualExclusion)
<1>1. IndInv => (~Disturbed => MutualExclusion)
  BY DEF IndInv, MutualExclusion, OneHolder, Holds, Owning
<1>2. QED BY IndInvAlways, <1>1, PTL

(* outcome.sh:237-246: until one of the two deaths, the check in _state_unlock
   always finds the caller's own pid. *)
THEOREM UnlockFindsItsLock == Spec => []HolderKeepsLock
<1>1. IndInv => HolderKeepsLock
  BY DEF IndInv, HolderKeepsLock, HolderDirectory, Owning
<1>2. QED BY IndInvAlways, <1>1, PTL

----------------------------------------------------------------------------
(* Every step of one process moves its own phase and nobody else's. *)
LEMMA OnePhaseMoves ==
  ASSUME TypeOK, NEW p \in Procs, NEW from, NEW to,
         pc[p] = from, pc' = [pc EXCEPT ![p] = to]
  PROVE  /\ phases[p] = Phase(from)
         /\ phases' = [phases EXCEPT ![p] = Phase(to)]
BY DEF TypeOK, phases

LEMMA PhaseValues ==
  /\ Phase("off") = "absent"
  /\ Phase("cs") = "inside"
  /\ Phase("try") = "waiting" /\ Phase("publish") = "waiting"
  /\ \A step \in {"out", "check", "unlink", "rmdir"} : Phase(step) = "idle"
  /\ \A step \in WaitSteps : Phase(step) = "waiting"
BY DEF Phase, WaitSteps

(* Entering needs the abstract lock to be free, which is what the invariant
   says of a process about to publish its pid. *)
LEMMA EmptyWhilePublishing ==
  ASSUME IndInv, ~Disturbed, NEW p \in Procs, pc[p] = "publish" PROVE Abstract!Inside = {}
<1>1. \A q \in Procs : pc[q] # "cs"
  BY DEF IndInv, OneHolder, Holds, Owning, Making
<1>2. \A step \in Steps \cup {"off"} : step # "cs" => Phase(step) # "inside"
  BY DEF Phase, WaitSteps
<1>3. \A q \in Procs : phases[q] # "inside"
  BY <1>1, <1>2 DEF IndInv, TypeOK, phases
<1>4. QED BY <1>3 DEF Abstract!Inside

(* Only a death adds a scar, and it leaves its process absent. *)
LEMMA DeathRefines ==
  ASSUME TypeOK, NEW p \in Procs, NEW s \in Steps, pc[p] = s,
         pc' = [pc EXCEPT ![p] = "off"], Disturbed => Disturbed'
  PROVE  Abstract!Next
<1>1. phases[p] = Phase(s) /\ phases' = [phases EXCEPT ![p] = Phase("off")]
  BY OnePhaseMoves
<1>2. Phase(s) # "absent"
  BY DEF Phase
<1>3. Disturbed' \in {Disturbed, TRUE}
  BY DEF Disturbed
<1>4. Abstract!Die(p)
  BY <1>1, <1>2, <1>3, PhaseValues DEF Abstract!Die
<1>5. QED BY <1>4 DEF Abstract!Next

LEMMA StepRefines ==
  ASSUME IndInv, [Next]_vars PROVE [Abstract!Next]_<<phases, Disturbed>>
PROOF
<1>0. TypeOK BY DEF IndInv
<1> USE <1>0
<1> DEFINE Refined == [Abstract!Next]_<<phases, Disturbed>>
<1>1. CASE UNCHANGED vars
  BY <1>1 DEF vars, phases, Disturbed
<1>2. ASSUME NEW p \in Procs, Call(p) PROVE Refined
  <2>1. pc[p] = "out" /\ pc' = [pc EXCEPT ![p] = "try"] /\ scars' = scars
    BY <1>2 DEF Call, Goto, env
  <2>2. phases[p] = Phase("out") /\ phases' = [phases EXCEPT ![p] = Phase("try")]
    BY <2>1, OnePhaseMoves
  <2>3. Disturbed' = Disturbed
    BY <2>1 DEF Disturbed
  <2>4. Abstract!Request(p)
    BY <2>2, <2>3, PhaseValues DEF Abstract!Request, Abstract!Move
  <2>5. QED BY <2>4 DEF Abstract!Next
<1>3. ASSUME NEW p \in Procs, Acquiring(p) PROVE Refined
  <2>0. scars' = scars
    BY <1>3 DEF Acquiring, MkdirLock, MkdirFails, Publish, PublishFails, Undo, ReadOwner,
                Probe, MkdirMeta, RereadOwner, Reprobe, MoveAway, RemoveMeta, Answered, env
  <2>1. Disturbed' = Disturbed
    BY <2>0 DEF Disturbed
  <2>2. CASE Publish(p)
    <3>1. pc[p] = "publish" /\ pc' = [pc EXCEPT ![p] = "cs"]
      BY <2>2 DEF Publish, Goto
    <3>2. phases[p] = Phase("publish") /\ phases' = [phases EXCEPT ![p] = Phase("cs")]
      BY <3>1, OnePhaseMoves
    <3>3. Abstract!Inside = {} \/ Disturbed
      BY <3>1, EmptyWhilePublishing
    <3>4. Abstract!Enter(p)
      BY <2>1, <3>2, <3>3, PhaseValues DEF Abstract!Enter, Abstract!Move
    <3>5. QED BY <3>4 DEF Abstract!Next
  <2>3. CASE ~Publish(p)
    <3>1. PICK s, t \in WaitSteps : pc[p] = s /\ pc' = [pc EXCEPT ![p] = t]
      BY <1>3, <2>3
      DEF WaitSteps, Acquiring, MkdirLock, MkdirFails, PublishFails, Undo, ReadOwner,
          Probe, MkdirMeta, RereadOwner, Reprobe, MoveAway, RemoveMeta, Goto
    <3>2. phases[p] = Phase(s) /\ phases' = [phases EXCEPT ![p] = Phase(t)]
      BY <3>1, OnePhaseMoves
    <3>3. phases' = phases
      BY <3>2, PhaseValues DEF phases
    <3>4. QED BY <2>1, <3>3
  <2>4. QED BY <2>2, <2>3
<1>4. ASSUME NEW p \in Procs, Releasing(p) PROVE Refined
  <2>0. scars' = scars
    BY <1>4 DEF Releasing, Unlock, CheckMine, UnlinkOwner, RmdirLock, env
  <2>1. Disturbed' = Disturbed
    BY <2>0 DEF Disturbed
  <2>2. CASE Unlock(p)
    <3>1. pc[p] = "cs" /\ pc' = [pc EXCEPT ![p] = "check"]
      BY <2>2 DEF Unlock, Goto
    <3>2. phases[p] = Phase("cs") /\ phases' = [phases EXCEPT ![p] = Phase("check")]
      BY <3>1, OnePhaseMoves
    <3>3. Abstract!Leave(p)
      BY <2>1, <3>2, PhaseValues DEF Abstract!Leave, Abstract!Move
    <3>4. QED BY <3>3 DEF Abstract!Next
  <2>3. CASE CheckMine(p) \/ UnlinkOwner(p) \/ RmdirLock(p)
    <3>1. PICK s, t \in {"out", "check", "unlink", "rmdir"} :
            pc[p] = s /\ pc' = [pc EXCEPT ![p] = t]
      BY <2>3 DEF CheckMine, UnlinkOwner, RmdirLock, Goto
    <3>2. phases[p] = Phase(s) /\ phases' = [phases EXCEPT ![p] = Phase(t)]
      BY <3>1, OnePhaseMoves
    <3>3. Phase(s) = "idle" /\ Phase(t) = "idle"
      BY PhaseValues
    <3>4. phases' = phases
      BY <3>2, <3>3 DEF phases
    <3>5. QED BY <2>1, <3>4
  <2>4. QED BY <1>4, <2>2, <2>3 DEF Releasing
<1>5. ASSUME NEW p \in Procs, Environment(p) PROVE Refined
  <2>1. CASE Exit(p) \/ Crash(p) \/ CrashLeavingRm(p)
    <3>1. PICK s \in Steps : pc[p] = s /\ pc' = [pc EXCEPT ![p] = "off"]
      BY <2>1, KnownCrashPoints DEF Exit, Crash, CrashLeavingRm, Gone
    <3>2. Disturbed => Disturbed'
      BY <2>1 DEF Exit, Crash, CrashLeavingRm, Gone, Disturbed
    <3>3. QED BY <3>1, <3>2, DeathRefines
  <2>2. CASE OrphanUnlink(p) \/ OrphanRmdir(p)
    <3>1. pc' = pc /\ scars' = scars
      BY <2>2 DEF OrphanUnlink, OrphanRmdir
    <3>2. QED BY <3>1 DEF phases, Disturbed
  <2>3. CASE Start(p)
    <3>1. pc[p] = "off" /\ pc' = [pc EXCEPT ![p] = "out"] /\ scars' = scars
      BY <2>3 DEF Start, Goto
    <3>2. phases[p] = Phase("off") /\ phases' = [phases EXCEPT ![p] = Phase("out")]
      BY <3>1, OnePhaseMoves
    <3>3. Disturbed' = Disturbed
      BY <3>1 DEF Disturbed
    <3>4. Abstract!Begin(p)
      BY <3>2, <3>3, PhaseValues DEF Abstract!Begin, Abstract!Move
    <3>5. QED BY <3>4 DEF Abstract!Next
  <2>4. QED BY <1>5, <2>1, <2>2, <2>3 DEF Environment
<1>6. QED BY <1>1, <1>2, <1>3, <1>4, <1>5 DEF Next

(* outcome.sh:100-105: the directory protocol implements, step by step, the
   mutual exclusion its callers rely on, until one of the two deaths. *)
THEOREM LockRefinesMutex == Spec => RefinesMutex
<1>1. Init => Abstract!Init
  BY PhaseValues DEF Init, Abstract!Init, phases, Disturbed
<1>2. IndInv /\ [Next]_vars => [Abstract!Next]_<<phases, Disturbed>>
  BY StepRefines
<1>3. QED BY IndInvAlways, <1>1, <1>2, PTL DEF Spec, RefinesMutex, Abstract!Spec
=============================================================================
