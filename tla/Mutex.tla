------------------------------- MODULE Mutex -------------------------------
(***************************************************************************)
(* What outcome.sh promises its callers of _state_lock and _state_unlock:  *)
(* the transactions on one profile's state file are serialised, and a      *)
(* process that dies inside one gives its place up.  A death may break the *)
(* lock; broken, it excludes nobody.                                       *)
(***************************************************************************)
CONSTANT Procs

VARIABLES
  phase,     \* phase[p]: "absent", "idle", "waiting" or "inside"
  broken     \* has a death broken the lock?

TypeOK ==
  /\ phase \in [Procs -> {"absent", "idle", "waiting", "inside"}]
  /\ broken \in BOOLEAN

Inside == {p \in Procs : phase[p] = "inside"}

Init == phase = [p \in Procs |-> "idle"] /\ broken = FALSE

Move(p, from, to) ==
  phase[p] = from /\ phase' = [phase EXCEPT ![p] = to] /\ UNCHANGED broken

Request(p) == Move(p, "idle", "waiting")
Enter(p)   == (Inside = {} \/ broken) /\ Move(p, "waiting", "inside")
Leave(p)   == Move(p, "inside", "idle")
Begin(p)   == Move(p, "absent", "idle")

Die(p) ==
  /\ phase[p] # "absent"
  /\ phase' = [phase EXCEPT ![p] = "absent"]
  /\ broken' \in {broken, TRUE}

Next == \E p \in Procs : Request(p) \/ Enter(p) \/ Leave(p) \/ Begin(p) \/ Die(p)

Spec == Init /\ [][Next]_<<phase, broken>>
=============================================================================
