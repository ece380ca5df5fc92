---------------------------- MODULE HelperSession ----------------------------
(***************************************************************************)
(* vpn-up-helper on one profile: connect and the OpenConnect it becomes,   *)
(* the vpnc-script wrapper that OpenConnect runs, and stop, around the     *)
(* root-owned state directory (lock, pid, started, session, status).       *)
(*                                                                         *)
(* connect takes a flock whose descriptor survives execve; stop takes no   *)
(* lock at all.  Every file is replaced by a rename and removed by an      *)
(* unlink, so each of these is one step.  Nobody reads the endpoint file,  *)
(* and it is left out.                                                     *)
(*                                                                         *)
(* A process is a pid and the token of its start; the token also names the *)
(* generation (session id and request id) that a connect makes up.         *)
(***************************************************************************)
EXTENDS Integers, FiniteSets

CONSTANTS
  Pids,         \* process ids
  Stops,        \* runs of vpn-up-helper stop
  None,         \* no pid
  MaxPolls,     \* checks that stop makes after SIGTERM, before the last one
  MaxBorn       \* bound: process starts

ASSUME Parameters ==
  /\ None \notin Pids
  /\ MaxPolls \in Nat \ {0} /\ MaxBorn \in Nat

VARIABLES
  proc,         \* the process table
  born,         \* tokens given out
  lock,         \* token of the connect whose descriptor was locked last
  pidFile, startedFile,
  session,      \* generation in the session file
  status,       \* the status file
  script,       \* the wrapper that runs, or NoScript
  pc,           \* where the connect of a pid is
  stop,         \* the stops and their variables
  confirmed,    \* history: generations whose wrapper recorded a tunnel
  blurred,      \* history, of those that live: connects that were between their
                \* lock and their execve while a stop checked the record, and
                \* tunnels that ran when such a check failed
  signalled,    \* history, of those that live: tunnels sent SIGTERM by a stop
  reborn        \* history: stops about to signal a pid that was given away after
                \* they identified its process

files == <<pidFile, startedFile>>
telemetry == <<session, status, script, confirmed>>
history == <<blurred, signalled, reborn>>
vars == <<proc, born, lock, files, telemetry, pc, stop, history>>

BeforeLock == {"lock"}
Holding    == {"check", "prunePid", "pruneStarted", "session", "status", "pid",
               "started", "exec", "undoPid", "undoStarted"}
Connecting == BeforeLock \cup Holding
Reported   == {"pid", "started", "exec", "undoPid", "undoStarted", "run"}

Processes == [exe : {"none", "helper", "openconnect", "other"}, token : Nat]
Statuses  == [gen : Nat, verified : BOOLEAN, ever : BOOLEAN]
Scripts   == [gen : Nat, reason : {"none", "up", "down"}, step : {"none", "before", "real"}]
StopSteps == {"off", "readPid", "readStarted", "identify", "term", "kill", "prunePid",
              "pruneStarted"}
Polls     == 0..MaxPolls
StopRuns  == [pc : StopSteps, phase : {"first", "wait", "last"}, pid : Pids \cup {None},
              started : Nat, polls : Polls]

Nobody   == [exe |-> "none", token |-> 0]
NoScript == [gen |-> 0, reason |-> "none", step |-> "none"]
Idle     == [pc |-> "off", phase |-> "first", pid |-> None, started |-> 0, polls |-> 0]

TypeOK ==
  /\ proc \in [Pids -> Processes]
  /\ born \in Nat /\ lock \in Nat
  /\ pidFile \in Pids \cup {None} /\ startedFile \in Nat
  /\ session \in Nat /\ status \in Statuses
  /\ script \in Scripts
  /\ pc \in [Pids -> Connecting \cup {"off", "run"}]
  /\ stop \in [Stops -> StopRuns]
  /\ confirmed \subseteq Nat
  /\ blurred \subseteq Nat /\ reborn \subseteq Stops /\ signalled \subseteq Nat

Init ==
  /\ proc = [p \in Pids |-> Nobody] /\ born = 0 /\ lock = 0
  /\ pidFile = None /\ startedFile = 0
  /\ session = 0 /\ status = [gen |-> 0, verified |-> FALSE, ever |-> FALSE]
  /\ script = NoScript
  /\ pc = [p \in Pids |-> "off"] /\ stop = [s \in Stops |-> Idle]
  /\ confirmed = {} /\ blurred = {} /\ reborn = {} /\ signalled = {}

(* The process of a pid ends. *)
Ends(p) ==
  /\ proc' = [proc EXCEPT ![p] = Nobody]
  /\ blurred' = blurred \ {proc[p].token}
  /\ signalled' = signalled \ {proc[p].token}

(* Mutants: the descriptor is closed by execve; the scripts do not have it. *)
MutantCloexec ==
  /\ lock # 0
  /\ \/ script.gen = lock
     \/ \E p \in Pids : proc[p].exe = "helper" /\ proc[p].token = lock
MutantScriptFree ==
  /\ lock # 0
  /\ \E p \in Pids : proc[p].exe \in {"helper", "openconnect"} /\ proc[p].token = lock

(* A descriptor that was locked stays locked while it is open in the process
   that opened it, before or after its execve, or in a child of that one. *)
Locked ==
  /\ lock # 0
  /\ \/ script.gen = lock
     \/ \E p \in Pids : proc[p].exe \in {"helper", "openconnect"} /\ proc[p].token = lock

(* Mutant: the start token is not compared. *)
MutantNoToken(pid, started) == pid # None /\ proc[pid].exe = "openconnect"

(* vu_state_check: the executable and the start token both match. *)
Live(pid, started) ==
  /\ pid # None
  /\ proc[pid].exe = "openconnect" /\ proc[pid].token = started

----------------------------------------------------------------------------
(* connect *)

(* The stops that are about to signal a pid. *)
Signalling(p) == {s \in Stops : stop[s].pc \in {"term", "kill"} /\ stop[s].pid = p}

Spawn(p, exe) ==
  /\ pc[p] = "off" /\ proc[p] = Nobody /\ born < MaxBorn
  /\ born' = born + 1
  /\ reborn' = reborn \cup Signalling(p)
  /\ proc' = [proc EXCEPT ![p] = [exe |-> exe, token |-> born + 1]]
  /\ UNCHANGED <<lock, files, telemetry, stop, blurred, signalled>>

Launch(p) ==
  /\ Spawn(p, "helper")
  /\ pc' = [pc EXCEPT ![p] = "lock"]

Goto(p, from, to) == pc[p] = from /\ pc' = [pc EXCEPT ![p] = to]

(* From its read of the pid file until it has pruned, or signals and reads
   again, a stop is checking the record. *)
Checking == {s \in Stops :
  stop[s].pc \in {"readStarted", "identify", "kill", "prunePid", "pruneStarted"}}

Tokens(where) == {proc[p].token : p \in {q \in Pids : pc[q] \in where}}

Lock(p) ==
  /\ ~Locked
  /\ Goto(p, "lock", "check")
  /\ lock' = proc[p].token
  /\ blurred' = IF Checking = {} THEN blurred ELSE blurred \cup {proc[p].token}
  /\ UNCHANGED <<proc, born, files, telemetry, stop, signalled, reborn>>

(* Only a stop may change the files meanwhile, and only by removing them. *)
Check(p) ==
  /\ Goto(p, "check",
          IF pidFile # None /\ ~Live(pidFile, startedFile) THEN "prunePid" ELSE "session")
  /\ UNCHANGED <<proc, born, lock, files, telemetry, stop, history>>

PrunePid(p) ==
  /\ Goto(p, "prunePid", "pruneStarted") \/ Goto(p, "undoPid", "undoStarted")
  /\ pidFile' = None
  /\ UNCHANGED <<proc, born, lock, startedFile, telemetry, stop, history>>

PruneStarted(p) ==
  /\ \/ Goto(p, "pruneStarted", "session") /\ UNCHANGED <<proc, blurred, signalled>>
     \/ Goto(p, "undoStarted", "off") /\ Ends(p)
  /\ startedFile' = 0
  /\ UNCHANGED <<born, lock, pidFile, telemetry, stop, reborn>>

WriteSession(p) ==
  /\ Goto(p, "session", "status")
  /\ session' = proc[p].token
  /\ UNCHANGED <<proc, born, lock, files, status, script, confirmed, stop, history>>

WriteStatus(p) ==
  /\ Goto(p, "status", "pid")
  /\ status' = [gen |-> proc[p].token, verified |-> FALSE, ever |-> FALSE]
  /\ UNCHANGED <<proc, born, lock, files, session, script, confirmed, stop, history>>

RecordPid(p) ==
  /\ Goto(p, "pid", "started")
  /\ pidFile' = p
  /\ UNCHANGED <<proc, born, lock, startedFile, telemetry, stop, history>>

RecordStarted(p) ==
  /\ Goto(p, "started", "exec")
  /\ startedFile' = proc[p].token
  /\ UNCHANGED <<proc, born, lock, pidFile, telemetry, stop, history>>

Exec(p) ==
  /\ Goto(p, "exec", "run")
  /\ proc' = [proc EXCEPT ![p].exe = "openconnect"]
  /\ UNCHANGED <<born, lock, files, telemetry, stop, history>>

ExecFails(p) ==
  /\ Goto(p, "exec", "undoPid")
  /\ UNCHANGED <<proc, born, lock, files, telemetry, stop, history>>

(* Mutant: every way out cleans up. *)
MutantQuitsClean(p) ==
  /\ pc[p] \in Connecting
  /\ pc' = [pc EXCEPT ![p] = "off"]
  /\ Ends(p)
  /\ pidFile' = None /\ startedFile' = 0
  /\ UNCHANGED <<born, lock, telemetry, stop, reborn>>

(* A busy lock, a step that fails, or a signal: nothing is undone. *)
Quits(p) ==
  /\ pc[p] \in Connecting
  /\ pc' = [pc EXCEPT ![p] = "off"]
  /\ Ends(p)
  /\ UNCHANGED <<born, lock, files, telemetry, stop, reborn>>

Connect(p) ==
  \/ Launch(p) \/ Lock(p) \/ Check(p) \/ PrunePid(p) \/ PruneStarted(p)
  \/ WriteSession(p) \/ WriteStatus(p) \/ RecordPid(p) \/ RecordStarted(p)
  \/ Exec(p) \/ ExecFails(p) \/ Quits(p)

----------------------------------------------------------------------------
(* OpenConnect, the wrapper it runs, and other programs *)

(* The tunnel ends, on SIGTERM or by itself; a script may survive it. *)
TunnelEnds(p) ==
  /\ Goto(p, "run", "off")
  /\ Ends(p)
  /\ UNCHANGED <<born, lock, files, telemetry, stop, reborn>>

(* reason is connect or reconnect, or else attempt-reconnect or disconnect *)
Invoke(p) ==
  /\ pc[p] = "run" /\ script = NoScript
  /\ \E why \in {"up", "down"} :
       script' = [gen |-> proc[p].token, reason |-> why, step |-> "before"]
  /\ UNCHANGED <<proc, born, lock, files, session, status, confirmed, pc, stop, history>>

(* Mutant: a downgrade starts a new record. *)
MutantForgets ==
  /\ script.step = "before"
  /\ script' = [script EXCEPT !.step = "real"]
  /\ \/ script.reason = "up" /\ UNCHANGED status
     \/ script.reason = "down" /\ status' =
          [gen |-> script.gen, verified |-> FALSE, ever |-> FALSE]
  /\ UNCHANGED <<proc, born, lock, files, session, confirmed, pc, stop, history>>

(* The downgrade comes before the real script, and keeps the epoch of a record
   of this generation. *)
Downgrade ==
  /\ script.step = "before"
  /\ script' = [script EXCEPT !.step = "real"]
  /\ \/ script.reason = "up" /\ UNCHANGED status
     \/ script.reason = "down" /\ status' =
          [gen |-> script.gen, verified |-> FALSE,
           ever |-> status.gen = script.gen /\ status.ever]
  /\ UNCHANGED <<proc, born, lock, files, session, confirmed, pc, stop, history>>

(* The real script succeeded. *)
Confirm ==
  /\ script.step = "real" /\ script.reason = "up"
  /\ status' = [gen |-> script.gen, verified |-> TRUE, ever |-> TRUE]
  /\ confirmed' = confirmed \cup {script.gen}
  /\ script' = NoScript
  /\ UNCHANGED <<proc, born, lock, files, session, pc, stop, history>>

(* It failed, had nothing to confirm, or was killed on the way. *)
ScriptEnds ==
  /\ script # NoScript
  /\ script' = NoScript
  /\ UNCHANGED <<proc, born, lock, files, session, status, confirmed, pc, stop, history>>

(* Another program, or the OpenConnect of another profile, gets the pid. *)
Stranger(p) ==
  /\ \E exe \in {"other", "openconnect"} : Spawn(p, exe)
  /\ UNCHANGED pc

StrangerEnds(p) ==
  /\ pc[p] = "off" /\ proc[p] # Nobody
  /\ Ends(p)
  /\ UNCHANGED <<born, lock, files, telemetry, pc, stop, reborn>>

----------------------------------------------------------------------------
(* stop *)

Becomes(s, t) == stop' = [stop EXCEPT ![s] = t]

(* What one check has read is not used after the next one begins. *)
Again(t) == [t EXCEPT !.pc = "readPid", !.pid = None, !.started = 0]
Pruning  == [Idle EXCEPT !.pc = "prunePid"]

StopBegins(s) ==
  /\ stop[s].pc = "off"
  /\ Becomes(s, [stop[s] EXCEPT !.pc = "readPid"])
  /\ UNCHANGED <<proc, born, lock, files, telemetry, pc, history>>

StopReadsPid(s) ==
  /\ stop[s].pc = "readPid"
  /\ \/ pidFile # None
        /\ Becomes(s, [stop[s] EXCEPT !.pc = "readStarted", !.pid = pidFile])
     \/ pidFile = None /\ stop[s].phase = "first"
        /\ Becomes(s, Idle)
     \/ pidFile = None /\ stop[s].phase # "first"
        /\ Becomes(s, Pruning)
  /\ blurred' = blurred \cup Tokens(Holding)
  /\ UNCHANGED <<proc, born, lock, files, telemetry, pc, signalled, reborn>>

(* The pid file cannot be read: an error at first, and "stopped" later. *)
CheckFails(s) ==
  /\ stop[s].pc = "readPid"
  /\ \/ stop[s].phase = "first" /\ Becomes(s, Idle) /\ UNCHANGED blurred
     \/ stop[s].phase # "first" /\ Becomes(s, Pruning)
        /\ blurred' = blurred \cup Tokens(Holding \cup {"run"})
  /\ UNCHANGED <<proc, born, lock, files, telemetry, pc, signalled, reborn>>

StopReadsStarted(s) ==
  /\ stop[s].pc = "readStarted"
  /\ Becomes(s, [stop[s] EXCEPT !.pc = "identify", !.started = startedFile])
  /\ UNCHANGED <<proc, born, lock, files, telemetry, pc, history>>

Polled(t) == [Again(t) EXCEPT !.polls = @ + 1]
Last(t)   == [Again(t) EXCEPT !.phase = "last"]

(* Mutant: no kill after the polls. *)
MutantNoKill(t) ==
  CASE t.phase = "first" -> [t EXCEPT !.pc = "term"]
    [] t.phase = "wait"  -> IF t.polls < MaxPolls THEN Polled(t) ELSE Last(t)
    [] t.phase = "last"  -> Pruning

(* What follows a check that says LIVE: the signal, the next poll, or, after
   the last poll, one more check and the kill. *)
AfterLive(t) ==
  CASE t.phase = "first" -> [t EXCEPT !.pc = "term"]
    [] t.phase = "wait"  -> IF t.polls < MaxPolls THEN Polled(t) ELSE Last(t)
    [] t.phase = "last"  -> [t EXCEPT !.pc = "kill"]

StopIdentifies(s) ==
  /\ stop[s].pc = "identify"
  /\ \/ /\ Live(stop[s].pid, stop[s].started)
        /\ Becomes(s, AfterLive(stop[s]))
     \/ /\ ~Live(stop[s].pid, stop[s].started)
        /\ Becomes(s, Pruning)
  /\ UNCHANGED <<proc, born, lock, files, telemetry, pc, history>>

(* SIGTERM: a tunnel may or may not end of it, which TunnelEnds allows anyway. *)
Terminate(s) ==
  /\ stop[s].pc = "term"
  /\ Becomes(s, [Again(stop[s]) EXCEPT !.phase = "wait", !.polls = 1])
  /\ signalled' = signalled \cup ({stop[s].started} \cap Tokens({"run"}))
  /\ reborn' = reborn \ {s}
  /\ UNCHANGED <<proc, born, lock, files, telemetry, pc, blurred>>

Kill(s) ==
  /\ stop[s].pc = "kill"
  /\ Becomes(s, Pruning)
  /\ Ends(stop[s].pid)
  /\ pc' = [pc EXCEPT ![stop[s].pid] = "off"]
  /\ reborn' = reborn \ {s}
  /\ UNCHANGED <<born, lock, files, telemetry>>

StopPrunesPid(s) ==
  /\ stop[s].pc = "prunePid"
  /\ pidFile' = None
  /\ Becomes(s, [stop[s] EXCEPT !.pc = "pruneStarted"])
  /\ UNCHANGED <<proc, born, lock, startedFile, telemetry, pc, history>>

StopPrunesStarted(s) ==
  /\ stop[s].pc = "pruneStarted"
  /\ startedFile' = 0
  /\ Becomes(s, Idle)
  /\ UNCHANGED <<proc, born, lock, pidFile, telemetry, pc, history>>

StopGoesOn(s) ==
  \/ StopReadsPid(s) \/ CheckFails(s) \/ StopReadsStarted(s) \/ StopIdentifies(s)
  \/ Terminate(s) \/ Kill(s) \/ StopPrunesPid(s) \/ StopPrunesStarted(s)

Next ==
  \/ \E p \in Pids : \/ Connect(p) \/ TunnelEnds(p) \/ Invoke(p)
                     \/ Stranger(p) \/ StrangerEnds(p)
  \/ Downgrade \/ Confirm \/ ScriptEnds
  \/ \E s \in Stops : StopBegins(s) \/ StopGoesOn(s)

Spec == Init /\ [][Next]_vars

(* A stop that has begun goes on. *)
FairSpec == Spec /\ \A s \in Stops : WF_vars(StopGoesOn(s))

----------------------------------------------------------------------------
(* Properties *)

(* vu_state.h:182-191: one tunnel per profile, and one writer of its records,
   without looking at the process table. *)
OneTunnel ==
  \A p, q \in Pids : pc[p] \in Holding \cup {"run"} /\ pc[q] \in Holding \cup {"run"} => p = q

(* helper_main.c:155-166: from execve on, the session and the status are those
   of the OpenConnect that runs; a wrapper of an earlier one never writes over
   them, because it still keeps the lock. *)
TelemetryIsCurrent ==
  \A p \in Pids : pc[p] \in Reported => session = proc[p].token /\ status.gen = proc[p].token

(* vu_state.h:61-71, wrapper 80-97: whatever stop prunes and however often the
   session goes down and up, the record says that its tunnel was confirmed
   exactly when it was. *)
EvidenceIsKept == status.ever <=> status.gen \in confirmed

(* helper_main.c:262-269, twophase.sh:643-647: the running tunnel is the one on
   record, so stop can find it, unless a stop checked the record during its
   connect, or in vain while it ran. *)
TunnelIsOnRecord ==
  \A p \in Pids : pc[p] = "run" /\ proc[p].token \notin blurred =>
    pidFile = p /\ startedFile = proc[p].token

(* helper_main.c:264-269, 299-300: root signals only the process that was
   recorded and is an OpenConnect of this profile, or is gone, or one that got
   its pid between the last check and the signal. *)
OnlyTunnelsSignalled ==
  [][\A s \in Stops : Terminate(s) \/ Kill(s) =>
       \/ pc[stop[s].pid] = "run" /\ proc[stop[s].pid].token = stop[s].started
       \/ proc[stop[s].pid] = Nobody \/ s \in reborn]_vars

(* helper_main.c:301-326: when stop says "stopped" no tunnel of the profile
   runs, with the same exceptions. *)
StoppedIsGone ==
  [][\A s \in Stops : StopPrunesStarted(s) =>
       \A p \in Pids : pc[p] = "run" => proc[p].token \in blurred]_vars

(* helper_main.c:262-269, as it is written there: the record is that of the
   tunnel, and a recycled pid is never touched. *)
TunnelIsAlwaysOnRecord ==
  \A p \in Pids : pc[p] = "run" => pidFile = p /\ startedFile = proc[p].token
RecycledPidIsLeft ==
  [][\A s \in Stops : Terminate(s) \/ Kill(s) =>
       proc[stop[s].pid] = Nobody \/ proc[stop[s].pid].token = stop[s].started]_vars

(* state.c:337-341, vu_state.h:185-187: the lock is free when no connect and no
   OpenConnect of the profile runs. *)
LockEndsWithTunnel == Locked => \E p \in Pids : pc[p] \in Holding \cup {"run"}

(* helper_main.c:293-326: a tunnel that was signalled is gone in the end, with
   the same exceptions, whether or not it minds SIGTERM. *)
SignalledTunnelRuns ==
  \E p \in Pids : pc[p] = "run" /\ proc[p].token \in signalled \ blurred
SignalledTunnelEnds == SignalledTunnelRuns ~> ~SignalledTunnelRuns

----------------------------------------------------------------------------
(* Inductive invariants *)

(* Tokens name one process each, and a pid's process is what its pc says. *)
TokensDiffer ==
  /\ lock <= born /\ startedFile <= born
  /\ \A p \in Pids : proc[p].token <= born /\ (proc[p].token = 0 <=> proc[p] = Nobody)
  /\ \A p, q \in Pids : p # q /\ proc[p].token = proc[q].token => proc[p] = Nobody
ProcessesMatch ==
  \A p \in Pids : /\ pc[p] \in Connecting => proc[p].exe = "helper"
                  /\ pc[p] = "run" => proc[p].exe = "openconnect"
                  /\ pc[p] = "off" => proc[p].exe # "helper"

(* Whoever is past the lock still has it, and so has its script. *)
HolderHasLock ==
  /\ \A p \in Pids : pc[p] \in Holding \cup {"run"} => lock = proc[p].token
  /\ script # NoScript => script.gen # 0 /\ script.gen = lock
  /\ script.gen = 0 <=> script = NoScript

(* A script belongs to a generation that got past its connect, and whose record
   is still the current one. *)
ScriptIsCurrent ==
  /\ script # NoScript => status.gen = script.gen /\ session = script.gen
  /\ \A p \in Pids : pc[p] \in Connecting =>
       proc[p].token # script.gen /\ proc[p].token \notin confirmed
ConfirmedWereBorn == \A g \in confirmed : g <= born
SessionComesFirst == \A p \in Pids : pc[p] = "status" => session = proc[p].token

IndInv ==
  /\ TypeOK /\ TokensDiffer /\ ProcessesMatch /\ HolderHasLock /\ ScriptIsCurrent
  /\ ConfirmedWereBorn /\ SessionComesFirst /\ TelemetryIsCurrent /\ EvidenceIsKept

(* A connect that no stop has blurred meets none that checks the record, and
   what a stop has read of the tunnel it becomes is the record of that tunnel. *)
Clear(p) == proc[p].token \notin blurred

ChecksAreApart == \A p \in Pids : pc[p] \in Holding /\ Clear(p) => Checking = {}
RecordGrows ==
  \A p \in Pids : Clear(p) =>
    /\ pc[p] \in {"started", "exec", "run"} => pidFile = p
    /\ pc[p] \in {"exec", "run"} => startedFile = proc[p].token
StopsSeeTheTunnel ==
  \A s \in Stops, p \in Pids : pc[p] = "run" /\ Clear(p) =>
    /\ stop[s].pc \notin {"prunePid", "pruneStarted"}
    /\ stop[s].pc \in {"readStarted", "identify", "kill"} => stop[s].pid = p
    /\ stop[s].pc \in {"identify", "kill"} => stop[s].started = proc[p].token
StrangersAreUnknown ==
  /\ \A s \in Stops : stop[s].started <= born
  /\ \A p \in Pids : pc[p] = "off" /\ proc[p] # Nobody =>
       proc[p].token # startedFile /\ \A s \in Stops : proc[p].token # stop[s].started

(* What stop is about to signal is the tunnel it has identified, unless its pid
   has been given away since. *)
SignalsAreFresh ==
  \A s \in Stops : stop[s].pc \in {"term", "kill"} =>
    /\ stop[s].pid # None
    /\ \/ s \in reborn \/ proc[stop[s].pid] = Nobody
       \/ pc[stop[s].pid] = "run" /\ proc[stop[s].pid].token = stop[s].started

RecordInv ==
  /\ ChecksAreApart /\ RecordGrows /\ StopsSeeTheTunnel
  /\ StrangersAreUnknown /\ SignalsAreFresh
=============================================================================
