------------------------- MODULE HelperSessionProofs -------------------------
(***************************************************************************)
(* Proofs about the helper's connect, wrapper and stop, for every set of   *)
(* pids and of stops.                                                      *)
(***************************************************************************)
EXTENDS HelperSession, TLAPS

USE DEF Connecting, BeforeLock, Holding, Reported

(* The initial state has the right types. *)
THEOREM InitType == Init => TypeOK
  BY Parameters DEF Init, TypeOK, Nobody, NoScript, Idle, Processes, Statuses, Scripts,
     StopRuns, StopSteps, Polls

(* Tokens are numbers. *)
LEMMA TokenTypes == TypeOK => \A where : Tokens(where) \subseteq Nat
  BY DEF TypeOK, Tokens, Processes

(* The states that a stop goes through. *)
LEMMA PollCounts ==
  0 \in Polls /\ 1 \in Polls /\ \A i \in Polls : i < MaxPolls => i + 1 \in Polls
  BY Parameters DEF Polls

LEMMA AgainType ==
  ASSUME NEW t \in StopRuns PROVE Again(t) \in StopRuns
  BY DEF Again, StopRuns, StopSteps

LEMMA TermRunType ==
  ASSUME NEW t \in StopRuns
  PROVE [Again(t) EXCEPT !.phase = "wait", !.polls = 1] \in StopRuns
  BY PollCounts, AgainType DEF StopRuns, StopSteps

LEMMA OtherRunTypes ==
  ASSUME NEW t \in StopRuns
  PROVE /\ Idle \in StopRuns /\ Pruning \in StopRuns
        /\ \A p \in Pids : [t EXCEPT !.pc = "readStarted", !.pid = p] \in StopRuns
        /\ \A g \in Nat : [t EXCEPT !.pc = "identify", !.started = g] \in StopRuns
<1>1. Idle \in StopRuns
  BY PollCounts DEF Idle, StopRuns, StopSteps
<1>2. QED BY <1>1 DEF StopRuns, StopSteps, Pruning

LEMMA LiveRunType ==
  ASSUME NEW t \in StopRuns PROVE AfterLive(t) \in StopRuns
<1>1. CASE t.phase = "first"
  BY <1>1 DEF AfterLive, StopRuns, StopSteps
<1>2. CASE t.phase = "wait"
  <2>1. t.polls < MaxPolls => t.polls + 1 \in Polls
    BY PollCounts DEF StopRuns
  <2>2. t.polls < MaxPolls => Polled(t) \in StopRuns
    BY <2>1, AgainType DEF Polled, StopRuns, StopSteps, Again
  <2>3. Last(t) \in StopRuns
    BY AgainType DEF Last, StopRuns, StopSteps
  <2>4. QED BY <1>2, <2>2, <2>3 DEF AfterLive
<1>3. CASE t.phase = "last"
  BY <1>3 DEF AfterLive, StopRuns, StopSteps
<1>4. QED BY <1>1, <1>2, <1>3 DEF StopRuns

LEMMA StepKeepsType == TypeOK /\ [Next]_vars => TypeOK'
<1> SUFFICES ASSUME TypeOK, [Next]_vars PROVE TypeOK'
  OBVIOUS
<1> USE Parameters DEF TypeOK, telemetry, files, history, Ends
<1>1. CASE UNCHANGED vars
  BY <1>1 DEF vars
<1>2. ASSUME NEW p \in Pids, Connect(p) PROVE TypeOK'
  <2>1. CASE Launch(p)
    BY <2>1 DEF Launch, Spawn, Processes, Signalling
  <2>2. CASE Lock(p)
    BY <2>2 DEF Lock, Goto, Processes
  <2>3. CASE Check(p)
    BY <2>3 DEF Check, Goto
  <2>4. CASE PrunePid(p)
    BY <2>4 DEF PrunePid, Goto
  <2>5. CASE PruneStarted(p)
    <3>1. CASE Goto(p, "pruneStarted", "session") /\ UNCHANGED <<proc, blurred, signalled>>
      BY <2>5, <3>1 DEF PruneStarted, Goto
    <3>2. CASE Goto(p, "undoStarted", "off") /\ Ends(p)
      BY <2>5, <3>2 DEF PruneStarted, Goto, Processes, Nobody
    <3>3. QED BY <2>5, <3>1, <3>2 DEF PruneStarted
  <2>6. CASE WriteSession(p)
    BY <2>6 DEF WriteSession, Goto, Processes
  <2>7. CASE WriteStatus(p)
    BY <2>7 DEF WriteStatus, Goto, Processes, Statuses
  <2>8. CASE RecordPid(p)
    BY <2>8 DEF RecordPid, Goto
  <2>9. CASE RecordStarted(p)
    BY <2>9 DEF RecordStarted, Goto, Processes
  <2>10. CASE Exec(p)
    BY <2>10 DEF Exec, Goto, Processes
  <2>11. CASE ExecFails(p)
    BY <2>11 DEF ExecFails, Goto
  <2>12. CASE Quits(p)
    BY <2>12 DEF Quits, Processes, Nobody
  <2>13. QED BY <1>2, <2>1, <2>2, <2>3, <2>4, <2>5, <2>6, <2>7, <2>8, <2>9, <2>10, <2>11,
     <2>12 DEF Connect
<1>3. ASSUME NEW p \in Pids, TunnelEnds(p) PROVE TypeOK'
  BY <1>3 DEF TunnelEnds, Goto, Processes, Nobody
<1>4. ASSUME NEW p \in Pids, Invoke(p) PROVE TypeOK'
  <2>1. ASSUME NEW why \in {"up", "down"}
        PROVE [gen |-> proc[p].token, reason |-> why, step |-> "before"] \in Scripts
    BY DEF Scripts, Processes
  <2>2. QED BY <1>4, <2>1 DEF Invoke
<1>5. ASSUME NEW p \in Pids, Stranger(p) PROVE TypeOK'
  BY <1>5 DEF Stranger, Spawn, Processes, Signalling
<1>6. ASSUME NEW p \in Pids, StrangerEnds(p) PROVE TypeOK'
  BY <1>6 DEF StrangerEnds, Processes, Nobody
<1>7. CASE Downgrade
  <2>1. [gen |-> script.gen, verified |-> FALSE, ever |-> status.gen = script.gen /\ status.ever]
        \in Statuses
    BY DEF Statuses, Scripts
  <2>2. [script EXCEPT !.step = "real"] \in Scripts
    BY DEF Scripts
  <2>3. QED BY <1>7, <2>1, <2>2 DEF Downgrade
<1>8. CASE Confirm
  BY <1>8 DEF Confirm, Statuses, Scripts, NoScript
<1>9. CASE ScriptEnds
  BY <1>9 DEF ScriptEnds, Scripts, NoScript
<1>10. ASSUME NEW s \in Stops, StopBegins(s) PROVE TypeOK'
  BY <1>10 DEF StopBegins, Becomes, StopRuns, StopSteps
<1>11. ASSUME NEW s \in Stops, StopGoesOn(s) PROVE TypeOK'
  <2>1. CASE StopReadsPid(s)
    <3>1. stop[s] \in StopRuns
      OBVIOUS
    <3>2. /\ Idle \in StopRuns /\ Pruning \in StopRuns
          /\ pidFile # None =>
               [stop[s] EXCEPT !.pc = "readStarted", !.pid = pidFile] \in StopRuns
      BY <3>1, OtherRunTypes
    <3>3. stop' \in [Stops -> StopRuns]
      BY <2>1, <3>2 DEF StopReadsPid, Becomes
    <3>4. blurred' \subseteq Nat
      BY <2>1, TokenTypes DEF StopReadsPid
    <3>5. QED BY <2>1, <3>3, <3>4 DEF StopReadsPid
  <2>2. CASE StopReadsStarted(s)
    <3>1. stop[s] \in StopRuns
      OBVIOUS
    <3>2. stop' \in [Stops -> StopRuns]
      BY <2>2, <3>1, OtherRunTypes DEF StopReadsStarted, Becomes
    <3>3. QED BY <2>2, <3>2 DEF StopReadsStarted
  <2>3. CASE StopIdentifies(s)
    <3>1. stop[s] \in StopRuns
      OBVIOUS
    <3>2. AfterLive(stop[s]) \in StopRuns /\ Pruning \in StopRuns
      BY <3>1, LiveRunType, OtherRunTypes
    <3>3. stop' \in [Stops -> StopRuns]
      BY <2>3, <3>2 DEF StopIdentifies, Becomes
    <3>4. QED BY <2>3, <3>3 DEF StopIdentifies
  <2>4. CASE Terminate(s)
    <3>1. stop[s] \in StopRuns
      OBVIOUS
    <3>2. stop' \in [Stops -> StopRuns]
      BY <2>4, <3>1, TermRunType DEF Terminate, Becomes
    <3>3. signalled' \subseteq Nat
      BY <2>4, TokenTypes DEF Terminate
    <3>4. QED BY <2>4, <3>2, <3>3 DEF Terminate
  <2>5. CASE Kill(s)
    <3>1. stop[s] \in StopRuns
      OBVIOUS
    <3>2. stop' \in [Stops -> StopRuns]
      BY <2>5, <3>1, OtherRunTypes DEF Kill, Becomes
    <3>3. QED BY <2>5, <3>2 DEF Kill, Processes, Nobody
  <2>6. CASE StopPrunesPid(s)
    BY <2>6 DEF StopPrunesPid, Becomes, StopRuns, StopSteps
  <2>7. CASE StopPrunesStarted(s)
    <3>1. stop[s] \in StopRuns
      OBVIOUS
    <3>2. stop' \in [Stops -> StopRuns]
      BY <2>7, <3>1, OtherRunTypes DEF StopPrunesStarted, Becomes
    <3>3. QED BY <2>7, <3>2 DEF StopPrunesStarted
  <2>8. CASE CheckFails(s)
    <3>1. stop[s] \in StopRuns
      OBVIOUS
    <3>2. stop' \in [Stops -> StopRuns]
      BY <2>8, <3>1, OtherRunTypes DEF CheckFails, Becomes
    <3>3. blurred' \subseteq Nat
      BY <2>8, TokenTypes DEF CheckFails
    <3>4. QED BY <2>8, <3>2, <3>3 DEF CheckFails
  <2>9. QED BY <1>11, <2>1, <2>2, <2>3, <2>4, <2>5, <2>6, <2>7, <2>8 DEF StopGoesOn
<1>12. QED BY <1>1, <1>2, <1>3, <1>4, <1>5, <1>6, <1>7, <1>8, <1>9, <1>10, <1>11 DEF Next

(* helper_main.c, wrapper: every file holds a value its readers can parse and
   every process is at a known step. *)
THEOREM TypeCorrect == Spec => []TypeOK
<1>1. QED BY InitType, StepKeepsType, PTL DEF Spec

----------------------------------------------------------------------------
(* The inductive invariant. *)

(* A token is given to one process. *)
LEMMA TokensStayDistinct ==
  TypeOK /\ TokensDiffer /\ ProcessesMatch /\ [Next]_vars => TokensDiffer'
<1> SUFFICES ASSUME TypeOK, TokensDiffer, ProcessesMatch, [Next]_vars PROVE TokensDiffer'
  OBVIOUS
<1> USE Parameters DEF TypeOK, telemetry, files, history, Ends
<1>1. CASE UNCHANGED vars
  BY <1>1 DEF vars, TokensDiffer
<1>2. ASSUME NEW p \in Pids, Connect(p) PROVE TokensDiffer'
  <2>1. CASE Launch(p)
    BY <2>1 DEF Launch, Spawn, TokensDiffer, Processes
  <2>2. CASE Lock(p)
    BY <2>2 DEF Lock, TokensDiffer
  <2>3. CASE Check(p)
    BY <2>3 DEF Check, TokensDiffer
  <2>4. CASE PrunePid(p)
    BY <2>4 DEF PrunePid, TokensDiffer
  <2>5. CASE PruneStarted(p)
    <3>1. CASE Goto(p, "pruneStarted", "session") /\ UNCHANGED proc
      BY <2>5, <3>1 DEF PruneStarted, TokensDiffer
    <3>2. CASE Goto(p, "undoStarted", "off") /\ Ends(p)
      BY <2>5, <3>2 DEF PruneStarted, TokensDiffer, Nobody
    <3>3. QED BY <2>5, <3>1, <3>2 DEF PruneStarted
  <2>6. CASE WriteSession(p)
    BY <2>6 DEF WriteSession, TokensDiffer
  <2>7. CASE WriteStatus(p)
    BY <2>7 DEF WriteStatus, TokensDiffer
  <2>8. CASE RecordPid(p)
    BY <2>8 DEF RecordPid, TokensDiffer
  <2>9. CASE RecordStarted(p)
    BY <2>9 DEF RecordStarted, TokensDiffer
  <2>10. CASE Exec(p)
    BY <2>10 DEF Exec, Goto, TokensDiffer, ProcessesMatch, Nobody
  <2>11. CASE ExecFails(p)
    BY <2>11 DEF ExecFails, TokensDiffer
  <2>12. CASE Quits(p)
    BY <2>12 DEF Quits, TokensDiffer, Nobody
  <2>13. QED BY <1>2, <2>1, <2>2, <2>3, <2>4, <2>5, <2>6, <2>7, <2>8, <2>9, <2>10, <2>11,
     <2>12 DEF Connect
<1>3. ASSUME NEW p \in Pids, TunnelEnds(p) PROVE TokensDiffer'
  BY <1>3 DEF TunnelEnds, TokensDiffer, Nobody
<1>4. ASSUME NEW p \in Pids, Invoke(p) PROVE TokensDiffer'
  BY <1>4 DEF Invoke, TokensDiffer
<1>5. ASSUME NEW p \in Pids, Stranger(p) PROVE TokensDiffer'
  BY <1>5 DEF Stranger, Spawn, TokensDiffer, Processes
<1>6. ASSUME NEW p \in Pids, StrangerEnds(p) PROVE TokensDiffer'
  BY <1>6 DEF StrangerEnds, TokensDiffer, Nobody
<1>7. CASE Downgrade
  BY <1>7 DEF Downgrade, TokensDiffer
<1>8. CASE Confirm
  BY <1>8 DEF Confirm, TokensDiffer
<1>9. CASE ScriptEnds
  BY <1>9 DEF ScriptEnds, TokensDiffer
<1>10. ASSUME NEW s \in Stops, StopBegins(s) PROVE TokensDiffer'
  BY <1>10 DEF StopBegins, TokensDiffer
<1>11. ASSUME NEW s \in Stops, StopGoesOn(s) PROVE TokensDiffer'
  <2>1. CASE StopReadsPid(s)
    BY <2>1 DEF StopReadsPid, TokensDiffer
  <2>2. CASE StopReadsStarted(s)
    BY <2>2 DEF StopReadsStarted, TokensDiffer
  <2>3. CASE StopIdentifies(s)
    BY <2>3 DEF StopIdentifies, TokensDiffer
  <2>4. CASE Terminate(s)
    BY <2>4 DEF Terminate, TokensDiffer
  <2>5. CASE Kill(s)
    BY <2>5 DEF Kill, TokensDiffer, Nobody
  <2>6. CASE StopPrunesPid(s)
    BY <2>6 DEF StopPrunesPid, TokensDiffer
  <2>7. CASE StopPrunesStarted(s)
    BY <2>7 DEF StopPrunesStarted, TokensDiffer
  <2>8. CASE CheckFails(s)
    BY <2>8 DEF CheckFails, TokensDiffer
  <2>9. QED BY <1>11, <2>1, <2>2, <2>3, <2>4, <2>5, <2>6, <2>7, <2>8 DEF StopGoesOn
<1>12. QED BY <1>1, <1>2, <1>3, <1>4, <1>5, <1>6, <1>7, <1>8, <1>9, <1>10, <1>11 DEF Next

(* A pid's process follows its pc. *)
LEMMA ProcessesStayMatched ==
  TypeOK /\ TokensDiffer /\ ProcessesMatch /\ [Next]_vars => ProcessesMatch'
<1> SUFFICES ASSUME TypeOK, TokensDiffer, ProcessesMatch, [Next]_vars PROVE ProcessesMatch'
  OBVIOUS
<1> USE Parameters DEF TypeOK, telemetry, files, history, Ends
<1>1. CASE UNCHANGED vars
  BY <1>1 DEF vars, ProcessesMatch
<1>2. ASSUME NEW p \in Pids, Connect(p) PROVE ProcessesMatch'
  <2>1. CASE Launch(p)
    BY <2>1 DEF Launch, Spawn, ProcessesMatch
  <2>2. CASE Lock(p)
    BY <2>2 DEF Lock, Goto, ProcessesMatch
  <2>3. CASE Check(p)
    BY <2>3 DEF Check, Goto, ProcessesMatch
  <2>4. CASE PrunePid(p)
    BY <2>4 DEF PrunePid, Goto, ProcessesMatch
  <2>5. CASE PruneStarted(p)
    BY <2>5 DEF PruneStarted, Goto, ProcessesMatch, Nobody
  <2>6. CASE WriteSession(p)
    BY <2>6 DEF WriteSession, Goto, ProcessesMatch
  <2>7. CASE WriteStatus(p)
    BY <2>7 DEF WriteStatus, Goto, ProcessesMatch
  <2>8. CASE RecordPid(p)
    BY <2>8 DEF RecordPid, Goto, ProcessesMatch
  <2>9. CASE RecordStarted(p)
    BY <2>9 DEF RecordStarted, Goto, ProcessesMatch
  <2>10. CASE Exec(p)
    BY <2>10 DEF Exec, Goto, ProcessesMatch
  <2>11. CASE ExecFails(p)
    BY <2>11 DEF ExecFails, Goto, ProcessesMatch
  <2>12. CASE Quits(p)
    BY <2>12 DEF Quits, ProcessesMatch, Nobody
  <2>13. QED BY <1>2, <2>1, <2>2, <2>3, <2>4, <2>5, <2>6, <2>7, <2>8, <2>9, <2>10, <2>11,
     <2>12 DEF Connect
<1>3. ASSUME NEW p \in Pids, TunnelEnds(p) PROVE ProcessesMatch'
  BY <1>3 DEF TunnelEnds, Goto, ProcessesMatch, Nobody
<1>4. ASSUME NEW p \in Pids, Invoke(p) PROVE ProcessesMatch'
  BY <1>4 DEF Invoke, ProcessesMatch
<1>5. ASSUME NEW p \in Pids, Stranger(p) PROVE ProcessesMatch'
  BY <1>5 DEF Stranger, Spawn, ProcessesMatch
<1>6. ASSUME NEW p \in Pids, StrangerEnds(p) PROVE ProcessesMatch'
  BY <1>6 DEF StrangerEnds, ProcessesMatch, Nobody
<1>7. CASE Downgrade
  BY <1>7 DEF Downgrade, ProcessesMatch
<1>8. CASE Confirm
  BY <1>8 DEF Confirm, ProcessesMatch
<1>9. CASE ScriptEnds
  BY <1>9 DEF ScriptEnds, ProcessesMatch
<1>10. ASSUME NEW s \in Stops, StopBegins(s) PROVE ProcessesMatch'
  BY <1>10 DEF StopBegins, ProcessesMatch
<1>11. ASSUME NEW s \in Stops, StopGoesOn(s) PROVE ProcessesMatch'
  <2>1. CASE StopReadsPid(s)
    BY <2>1 DEF StopReadsPid, ProcessesMatch
  <2>2. CASE StopReadsStarted(s)
    BY <2>2 DEF StopReadsStarted, ProcessesMatch
  <2>3. CASE StopIdentifies(s)
    BY <2>3 DEF StopIdentifies, ProcessesMatch
  <2>4. CASE Terminate(s)
    BY <2>4 DEF Terminate, ProcessesMatch
  <2>5. CASE Kill(s)
    BY <2>5 DEF Kill, ProcessesMatch, Nobody
  <2>6. CASE StopPrunesPid(s)
    BY <2>6 DEF StopPrunesPid, ProcessesMatch
  <2>7. CASE StopPrunesStarted(s)
    BY <2>7 DEF StopPrunesStarted, ProcessesMatch
  <2>8. CASE CheckFails(s)
    BY <2>8 DEF CheckFails, ProcessesMatch
  <2>9. QED BY <1>11, <2>1, <2>2, <2>3, <2>4, <2>5, <2>6, <2>7, <2>8 DEF StopGoesOn
<1>12. QED BY <1>1, <1>2, <1>3, <1>4, <1>5, <1>6, <1>7, <1>8, <1>9, <1>10, <1>11 DEF Next

(* Nobody locks what a tunnel or a script holds. *)
LEMMA HolderKeepsLock ==
  TypeOK /\ TokensDiffer /\ ProcessesMatch /\ HolderHasLock /\ [Next]_vars => HolderHasLock'
<1> SUFFICES ASSUME TypeOK, TokensDiffer, ProcessesMatch, HolderHasLock, [Next]_vars
             PROVE HolderHasLock'
  OBVIOUS
<1> USE Parameters DEF TypeOK, telemetry, files, history, Ends
<1>1. CASE UNCHANGED vars
  BY <1>1 DEF vars, HolderHasLock
<1>2. ASSUME NEW p \in Pids, Connect(p) PROVE HolderHasLock'
  <2>1. CASE Launch(p)
    BY <2>1 DEF Launch, Spawn, HolderHasLock
  <2>2. CASE Lock(p)
    BY <2>2 DEF Lock, Goto, TokensDiffer, ProcessesMatch, HolderHasLock, Locked, Nobody
  <2>3. CASE Check(p)
    BY <2>3 DEF Check, Goto, HolderHasLock
  <2>4. CASE PrunePid(p)
    BY <2>4 DEF PrunePid, Goto, HolderHasLock
  <2>5. CASE PruneStarted(p)
    BY <2>5 DEF PruneStarted, Goto, HolderHasLock
  <2>6. CASE WriteSession(p)
    BY <2>6 DEF WriteSession, Goto, HolderHasLock
  <2>7. CASE WriteStatus(p)
    BY <2>7 DEF WriteStatus, Goto, HolderHasLock
  <2>8. CASE RecordPid(p)
    BY <2>8 DEF RecordPid, Goto, HolderHasLock
  <2>9. CASE RecordStarted(p)
    BY <2>9 DEF RecordStarted, Goto, HolderHasLock
  <2>10. CASE Exec(p)
    BY <2>10 DEF Exec, Goto, HolderHasLock
  <2>11. CASE ExecFails(p)
    BY <2>11 DEF ExecFails, Goto, HolderHasLock
  <2>12. CASE Quits(p)
    BY <2>12 DEF Quits, HolderHasLock
  <2>13. QED BY <1>2, <2>1, <2>2, <2>3, <2>4, <2>5, <2>6, <2>7, <2>8, <2>9, <2>10, <2>11,
     <2>12 DEF Connect
<1>3. ASSUME NEW p \in Pids, TunnelEnds(p) PROVE HolderHasLock'
  BY <1>3 DEF TunnelEnds, Goto, HolderHasLock
<1>4. ASSUME NEW p \in Pids, Invoke(p) PROVE HolderHasLock'
  BY <1>4 DEF Invoke, TokensDiffer, ProcessesMatch, HolderHasLock, Nobody
<1>5. ASSUME NEW p \in Pids, Stranger(p) PROVE HolderHasLock'
  BY <1>5 DEF Stranger, Spawn, HolderHasLock
<1>6. ASSUME NEW p \in Pids, StrangerEnds(p) PROVE HolderHasLock'
  BY <1>6 DEF StrangerEnds, HolderHasLock
<1>7. CASE Downgrade
  BY <1>7 DEF Downgrade, HolderHasLock, NoScript
<1>8. CASE Confirm
  BY <1>8 DEF Confirm, HolderHasLock, NoScript
<1>9. CASE ScriptEnds
  BY <1>9 DEF ScriptEnds, HolderHasLock, NoScript
<1>10. ASSUME NEW s \in Stops, StopBegins(s) PROVE HolderHasLock'
  BY <1>10 DEF StopBegins, HolderHasLock
<1>11. ASSUME NEW s \in Stops, StopGoesOn(s) PROVE HolderHasLock'
  <2>1. CASE StopReadsPid(s)
    BY <2>1 DEF StopReadsPid, HolderHasLock
  <2>2. CASE StopReadsStarted(s)
    BY <2>2 DEF StopReadsStarted, HolderHasLock
  <2>3. CASE StopIdentifies(s)
    BY <2>3 DEF StopIdentifies, HolderHasLock
  <2>4. CASE Terminate(s)
    BY <2>4 DEF Terminate, HolderHasLock
  <2>5. CASE Kill(s)
    BY <2>5 DEF Kill, HolderHasLock
  <2>6. CASE StopPrunesPid(s)
    BY <2>6 DEF StopPrunesPid, HolderHasLock
  <2>7. CASE StopPrunesStarted(s)
    BY <2>7 DEF StopPrunesStarted, HolderHasLock
  <2>8. CASE CheckFails(s)
    BY <2>8 DEF CheckFails, HolderHasLock
  <2>9. QED BY <1>11, <2>1, <2>2, <2>3, <2>4, <2>5, <2>6, <2>7, <2>8 DEF StopGoesOn
<1>12. QED BY <1>1, <1>2, <1>3, <1>4, <1>5, <1>6, <1>7, <1>8, <1>9, <1>10, <1>11 DEF Next

(* A script goes on only while nobody else is past the lock. *)
LEMMA ScriptStaysCurrent ==
  TypeOK /\ TokensDiffer /\ ProcessesMatch /\ HolderHasLock /\ ScriptIsCurrent /\
    ConfirmedWereBorn /\ TelemetryIsCurrent /\ [Next]_vars => ScriptIsCurrent'
<1> SUFFICES ASSUME TypeOK, TokensDiffer, ProcessesMatch, HolderHasLock, ScriptIsCurrent,
                     ConfirmedWereBorn, TelemetryIsCurrent, [Next]_vars
             PROVE ScriptIsCurrent'
  OBVIOUS
<1> USE Parameters DEF TypeOK, telemetry, files, history, Ends
<1>1. CASE UNCHANGED vars
  BY <1>1 DEF vars, ScriptIsCurrent
<1>2. ASSUME NEW p \in Pids, Connect(p) PROVE ScriptIsCurrent'
  <2>1. CASE Launch(p)
    BY <2>1 DEF Launch, Spawn, TokensDiffer, HolderHasLock, ScriptIsCurrent, ConfirmedWereBorn
  <2>2. CASE Lock(p)
    BY <2>2 DEF Lock, Goto, ScriptIsCurrent
  <2>3. CASE Check(p)
    BY <2>3 DEF Check, Goto, ScriptIsCurrent
  <2>4. CASE PrunePid(p)
    BY <2>4 DEF PrunePid, Goto, ScriptIsCurrent
  <2>5. CASE PruneStarted(p)
    BY <2>5 DEF PruneStarted, Goto, ScriptIsCurrent
  <2>6. CASE WriteSession(p)
    BY <2>6 DEF WriteSession, Goto, HolderHasLock, ScriptIsCurrent
  <2>7. CASE WriteStatus(p)
    BY <2>7 DEF WriteStatus, Goto, HolderHasLock, ScriptIsCurrent
  <2>8. CASE RecordPid(p)
    BY <2>8 DEF RecordPid, Goto, ScriptIsCurrent
  <2>9. CASE RecordStarted(p)
    BY <2>9 DEF RecordStarted, Goto, ScriptIsCurrent
  <2>10. CASE Exec(p)
    BY <2>10 DEF Exec, Goto, ScriptIsCurrent
  <2>11. CASE ExecFails(p)
    BY <2>11 DEF ExecFails, Goto, ScriptIsCurrent
  <2>12. CASE Quits(p)
    BY <2>12 DEF Quits, ScriptIsCurrent
  <2>13. QED BY <1>2, <2>1, <2>2, <2>3, <2>4, <2>5, <2>6, <2>7, <2>8, <2>9, <2>10, <2>11,
     <2>12 DEF Connect
<1>3. ASSUME NEW p \in Pids, TunnelEnds(p) PROVE ScriptIsCurrent'
  BY <1>3 DEF TunnelEnds, Goto, ScriptIsCurrent
<1>4. ASSUME NEW p \in Pids, Invoke(p) PROVE ScriptIsCurrent'
  BY <1>4 DEF Invoke, TokensDiffer, ProcessesMatch, ScriptIsCurrent, TelemetryIsCurrent
<1>5. ASSUME NEW p \in Pids, Stranger(p) PROVE ScriptIsCurrent'
  BY <1>5 DEF Stranger, Spawn, ScriptIsCurrent
<1>6. ASSUME NEW p \in Pids, StrangerEnds(p) PROVE ScriptIsCurrent'
  BY <1>6 DEF StrangerEnds, ScriptIsCurrent
<1>7. CASE Downgrade
  BY <1>7 DEF Downgrade, ScriptIsCurrent, NoScript
<1>8. CASE Confirm
  BY <1>8 DEF Confirm, TokensDiffer, ProcessesMatch, ScriptIsCurrent, Nobody, NoScript
<1>9. CASE ScriptEnds
  BY <1>9 DEF ScriptEnds, TokensDiffer, ProcessesMatch, ScriptIsCurrent, Nobody, NoScript
<1>10. ASSUME NEW s \in Stops, StopBegins(s) PROVE ScriptIsCurrent'
  BY <1>10 DEF StopBegins, ScriptIsCurrent
<1>11. ASSUME NEW s \in Stops, StopGoesOn(s) PROVE ScriptIsCurrent'
  <2>1. CASE StopReadsPid(s)
    BY <2>1 DEF StopReadsPid, ScriptIsCurrent
  <2>2. CASE StopReadsStarted(s)
    BY <2>2 DEF StopReadsStarted, ScriptIsCurrent
  <2>3. CASE StopIdentifies(s)
    BY <2>3 DEF StopIdentifies, ScriptIsCurrent
  <2>4. CASE Terminate(s)
    BY <2>4 DEF Terminate, ScriptIsCurrent
  <2>5. CASE Kill(s)
    BY <2>5 DEF Kill, ScriptIsCurrent
  <2>6. CASE StopPrunesPid(s)
    BY <2>6 DEF StopPrunesPid, ScriptIsCurrent
  <2>7. CASE StopPrunesStarted(s)
    BY <2>7 DEF StopPrunesStarted, ScriptIsCurrent
  <2>8. CASE CheckFails(s)
    BY <2>8 DEF CheckFails, ScriptIsCurrent
  <2>9. QED BY <1>11, <2>1, <2>2, <2>3, <2>4, <2>5, <2>6, <2>7, <2>8 DEF StopGoesOn
<1>12. QED BY <1>1, <1>2, <1>3, <1>4, <1>5, <1>6, <1>7, <1>8, <1>9, <1>10, <1>11 DEF Next

(* A confirmed generation was given out. *)
LEMMA ConfirmedStayBorn ==
  TypeOK /\ TokensDiffer /\ HolderHasLock /\ ConfirmedWereBorn /\ [Next]_vars =>
    ConfirmedWereBorn'
<1> SUFFICES ASSUME TypeOK, TokensDiffer, HolderHasLock, ConfirmedWereBorn, [Next]_vars
             PROVE ConfirmedWereBorn'
  OBVIOUS
<1> USE Parameters DEF TypeOK, telemetry, files, history, Ends
<1>1. CASE UNCHANGED vars
  BY <1>1 DEF vars, ConfirmedWereBorn
<1>2. ASSUME NEW p \in Pids, Connect(p) PROVE ConfirmedWereBorn'
  <2>1. CASE Launch(p)
    BY <2>1 DEF Launch, Spawn, ConfirmedWereBorn
  <2>2. CASE Lock(p)
    BY <2>2 DEF Lock, ConfirmedWereBorn
  <2>3. CASE Check(p)
    BY <2>3 DEF Check, ConfirmedWereBorn
  <2>4. CASE PrunePid(p)
    BY <2>4 DEF PrunePid, ConfirmedWereBorn
  <2>5. CASE PruneStarted(p)
    BY <2>5 DEF PruneStarted, ConfirmedWereBorn
  <2>6. CASE WriteSession(p)
    BY <2>6 DEF WriteSession, ConfirmedWereBorn
  <2>7. CASE WriteStatus(p)
    BY <2>7 DEF WriteStatus, ConfirmedWereBorn
  <2>8. CASE RecordPid(p)
    BY <2>8 DEF RecordPid, ConfirmedWereBorn
  <2>9. CASE RecordStarted(p)
    BY <2>9 DEF RecordStarted, ConfirmedWereBorn
  <2>10. CASE Exec(p)
    BY <2>10 DEF Exec, ConfirmedWereBorn
  <2>11. CASE ExecFails(p)
    BY <2>11 DEF ExecFails, ConfirmedWereBorn
  <2>12. CASE Quits(p)
    BY <2>12 DEF Quits, ConfirmedWereBorn
  <2>13. QED BY <1>2, <2>1, <2>2, <2>3, <2>4, <2>5, <2>6, <2>7, <2>8, <2>9, <2>10, <2>11,
     <2>12 DEF Connect
<1>3. ASSUME NEW p \in Pids, TunnelEnds(p) PROVE ConfirmedWereBorn'
  BY <1>3 DEF TunnelEnds, ConfirmedWereBorn
<1>4. ASSUME NEW p \in Pids, Invoke(p) PROVE ConfirmedWereBorn'
  BY <1>4 DEF Invoke, ConfirmedWereBorn
<1>5. ASSUME NEW p \in Pids, Stranger(p) PROVE ConfirmedWereBorn'
  BY <1>5 DEF Stranger, Spawn, ConfirmedWereBorn
<1>6. ASSUME NEW p \in Pids, StrangerEnds(p) PROVE ConfirmedWereBorn'
  BY <1>6 DEF StrangerEnds, ConfirmedWereBorn
<1>7. CASE Downgrade
  BY <1>7 DEF Downgrade, ConfirmedWereBorn
<1>8. CASE Confirm
  BY <1>8 DEF Confirm, TokensDiffer, HolderHasLock, ConfirmedWereBorn
<1>9. CASE ScriptEnds
  BY <1>9 DEF ScriptEnds, ConfirmedWereBorn
<1>10. ASSUME NEW s \in Stops, StopBegins(s) PROVE ConfirmedWereBorn'
  BY <1>10 DEF StopBegins, ConfirmedWereBorn
<1>11. ASSUME NEW s \in Stops, StopGoesOn(s) PROVE ConfirmedWereBorn'
  <2>1. CASE StopReadsPid(s)
    BY <2>1 DEF StopReadsPid, ConfirmedWereBorn
  <2>2. CASE StopReadsStarted(s)
    BY <2>2 DEF StopReadsStarted, ConfirmedWereBorn
  <2>3. CASE StopIdentifies(s)
    BY <2>3 DEF StopIdentifies, ConfirmedWereBorn
  <2>4. CASE Terminate(s)
    BY <2>4 DEF Terminate, ConfirmedWereBorn
  <2>5. CASE Kill(s)
    BY <2>5 DEF Kill, ConfirmedWereBorn
  <2>6. CASE StopPrunesPid(s)
    BY <2>6 DEF StopPrunesPid, ConfirmedWereBorn
  <2>7. CASE StopPrunesStarted(s)
    BY <2>7 DEF StopPrunesStarted, ConfirmedWereBorn
  <2>8. CASE CheckFails(s)
    BY <2>8 DEF CheckFails, ConfirmedWereBorn
  <2>9. QED BY <1>11, <2>1, <2>2, <2>3, <2>4, <2>5, <2>6, <2>7, <2>8 DEF StopGoesOn
<1>12. QED BY <1>1, <1>2, <1>3, <1>4, <1>5, <1>6, <1>7, <1>8, <1>9, <1>10, <1>11 DEF Next

(* The session file is written under the lock. *)
LEMMA SessionStaysFirst ==
  TypeOK /\ TokensDiffer /\ HolderHasLock /\ SessionComesFirst /\ [Next]_vars =>
    SessionComesFirst'
<1> SUFFICES ASSUME TypeOK, TokensDiffer, HolderHasLock, SessionComesFirst, [Next]_vars
             PROVE SessionComesFirst'
  OBVIOUS
<1> USE Parameters DEF TypeOK, telemetry, files, history, Ends
<1>1. CASE UNCHANGED vars
  BY <1>1 DEF vars, SessionComesFirst
<1>2. ASSUME NEW p \in Pids, Connect(p) PROVE SessionComesFirst'
  <2>1. CASE Launch(p)
    BY <2>1 DEF Launch, Spawn, SessionComesFirst
  <2>2. CASE Lock(p)
    BY <2>2 DEF Lock, Goto, SessionComesFirst
  <2>3. CASE Check(p)
    BY <2>3 DEF Check, Goto, SessionComesFirst
  <2>4. CASE PrunePid(p)
    BY <2>4 DEF PrunePid, Goto, SessionComesFirst
  <2>5. CASE PruneStarted(p)
    BY <2>5 DEF PruneStarted, Goto, SessionComesFirst
  <2>6. CASE WriteSession(p)
    BY <2>6 DEF WriteSession, Goto, HolderHasLock, SessionComesFirst
  <2>7. CASE WriteStatus(p)
    BY <2>7 DEF WriteStatus, Goto, SessionComesFirst
  <2>8. CASE RecordPid(p)
    BY <2>8 DEF RecordPid, Goto, SessionComesFirst
  <2>9. CASE RecordStarted(p)
    BY <2>9 DEF RecordStarted, Goto, SessionComesFirst
  <2>10. CASE Exec(p)
    BY <2>10 DEF Exec, Goto, SessionComesFirst
  <2>11. CASE ExecFails(p)
    BY <2>11 DEF ExecFails, Goto, SessionComesFirst
  <2>12. CASE Quits(p)
    BY <2>12 DEF Quits, SessionComesFirst
  <2>13. QED BY <1>2, <2>1, <2>2, <2>3, <2>4, <2>5, <2>6, <2>7, <2>8, <2>9, <2>10, <2>11,
     <2>12 DEF Connect
<1>3. ASSUME NEW p \in Pids, TunnelEnds(p) PROVE SessionComesFirst'
  BY <1>3 DEF TunnelEnds, Goto, SessionComesFirst
<1>4. ASSUME NEW p \in Pids, Invoke(p) PROVE SessionComesFirst'
  BY <1>4 DEF Invoke, SessionComesFirst
<1>5. ASSUME NEW p \in Pids, Stranger(p) PROVE SessionComesFirst'
  BY <1>5 DEF Stranger, Spawn, SessionComesFirst
<1>6. ASSUME NEW p \in Pids, StrangerEnds(p) PROVE SessionComesFirst'
  BY <1>6 DEF StrangerEnds, SessionComesFirst
<1>7. CASE Downgrade
  BY <1>7 DEF Downgrade, SessionComesFirst
<1>8. CASE Confirm
  BY <1>8 DEF Confirm, SessionComesFirst
<1>9. CASE ScriptEnds
  BY <1>9 DEF ScriptEnds, SessionComesFirst
<1>10. ASSUME NEW s \in Stops, StopBegins(s) PROVE SessionComesFirst'
  BY <1>10 DEF StopBegins, SessionComesFirst
<1>11. ASSUME NEW s \in Stops, StopGoesOn(s) PROVE SessionComesFirst'
  <2>1. CASE StopReadsPid(s)
    BY <2>1 DEF StopReadsPid, SessionComesFirst
  <2>2. CASE StopReadsStarted(s)
    BY <2>2 DEF StopReadsStarted, SessionComesFirst
  <2>3. CASE StopIdentifies(s)
    BY <2>3 DEF StopIdentifies, SessionComesFirst
  <2>4. CASE Terminate(s)
    BY <2>4 DEF Terminate, SessionComesFirst
  <2>5. CASE Kill(s)
    BY <2>5 DEF Kill, SessionComesFirst
  <2>6. CASE StopPrunesPid(s)
    BY <2>6 DEF StopPrunesPid, SessionComesFirst
  <2>7. CASE StopPrunesStarted(s)
    BY <2>7 DEF StopPrunesStarted, SessionComesFirst
  <2>8. CASE CheckFails(s)
    BY <2>8 DEF CheckFails, SessionComesFirst
  <2>9. QED BY <1>11, <2>1, <2>2, <2>3, <2>4, <2>5, <2>6, <2>7, <2>8 DEF StopGoesOn
<1>12. QED BY <1>1, <1>2, <1>3, <1>4, <1>5, <1>6, <1>7, <1>8, <1>9, <1>10, <1>11 DEF Next

(* Only the one that is past the lock writes the telemetry. *)
LEMMA TelemetryStaysCurrent ==
  TypeOK /\ TokensDiffer /\ ProcessesMatch /\ HolderHasLock /\ ScriptIsCurrent /\
    SessionComesFirst /\ TelemetryIsCurrent /\ [Next]_vars => TelemetryIsCurrent'
<1> SUFFICES ASSUME TypeOK, TokensDiffer, ProcessesMatch, HolderHasLock, ScriptIsCurrent,
                     SessionComesFirst, TelemetryIsCurrent, [Next]_vars
             PROVE TelemetryIsCurrent'
  OBVIOUS
<1> USE Parameters DEF TypeOK, telemetry, files, history, Ends
<1>1. CASE UNCHANGED vars
  BY <1>1 DEF vars, TelemetryIsCurrent
<1>2. ASSUME NEW p \in Pids, Connect(p) PROVE TelemetryIsCurrent'
  <2>1. CASE Launch(p)
    BY <2>1 DEF Launch, Spawn, TelemetryIsCurrent
  <2>2. CASE Lock(p)
    BY <2>2 DEF Lock, Goto, TelemetryIsCurrent
  <2>3. CASE Check(p)
    BY <2>3 DEF Check, Goto, TelemetryIsCurrent
  <2>4. CASE PrunePid(p)
    BY <2>4 DEF PrunePid, Goto, TelemetryIsCurrent
  <2>5. CASE PruneStarted(p)
    BY <2>5 DEF PruneStarted, Goto, TelemetryIsCurrent
  <2>6. CASE WriteSession(p)
    BY <2>6 DEF WriteSession, Goto, HolderHasLock, TelemetryIsCurrent
  <2>7. CASE WriteStatus(p)
    BY <2>7 DEF WriteStatus, Goto, SessionComesFirst, TelemetryIsCurrent
  <2>8. CASE RecordPid(p)
    BY <2>8 DEF RecordPid, Goto, TelemetryIsCurrent
  <2>9. CASE RecordStarted(p)
    BY <2>9 DEF RecordStarted, Goto, TelemetryIsCurrent
  <2>10. CASE Exec(p)
    BY <2>10 DEF Exec, Goto, TelemetryIsCurrent
  <2>11. CASE ExecFails(p)
    BY <2>11 DEF ExecFails, Goto, TelemetryIsCurrent
  <2>12. CASE Quits(p)
    BY <2>12 DEF Quits, TelemetryIsCurrent
  <2>13. QED BY <1>2, <2>1, <2>2, <2>3, <2>4, <2>5, <2>6, <2>7, <2>8, <2>9, <2>10, <2>11,
     <2>12 DEF Connect
<1>3. ASSUME NEW p \in Pids, TunnelEnds(p) PROVE TelemetryIsCurrent'
  BY <1>3 DEF TunnelEnds, Goto, TelemetryIsCurrent
<1>4. ASSUME NEW p \in Pids, Invoke(p) PROVE TelemetryIsCurrent'
  BY <1>4 DEF Invoke, TelemetryIsCurrent
<1>5. ASSUME NEW p \in Pids, Stranger(p) PROVE TelemetryIsCurrent'
  BY <1>5 DEF Stranger, Spawn, TelemetryIsCurrent
<1>6. ASSUME NEW p \in Pids, StrangerEnds(p) PROVE TelemetryIsCurrent'
  BY <1>6 DEF StrangerEnds, TelemetryIsCurrent
<1>7. CASE Downgrade
  BY <1>7 DEF Downgrade, ScriptIsCurrent, TelemetryIsCurrent, NoScript
<1>8. CASE Confirm
  BY <1>8 DEF Confirm, ScriptIsCurrent, TelemetryIsCurrent, NoScript
<1>9. CASE ScriptEnds
  BY <1>9 DEF ScriptEnds, TelemetryIsCurrent
<1>10. ASSUME NEW s \in Stops, StopBegins(s) PROVE TelemetryIsCurrent'
  BY <1>10 DEF StopBegins, TelemetryIsCurrent
<1>11. ASSUME NEW s \in Stops, StopGoesOn(s) PROVE TelemetryIsCurrent'
  <2>1. CASE StopReadsPid(s)
    BY <2>1 DEF StopReadsPid, TelemetryIsCurrent
  <2>2. CASE StopReadsStarted(s)
    BY <2>2 DEF StopReadsStarted, TelemetryIsCurrent
  <2>3. CASE StopIdentifies(s)
    BY <2>3 DEF StopIdentifies, TelemetryIsCurrent
  <2>4. CASE Terminate(s)
    BY <2>4 DEF Terminate, TelemetryIsCurrent
  <2>5. CASE Kill(s)
    BY <2>5 DEF Kill, TelemetryIsCurrent
  <2>6. CASE StopPrunesPid(s)
    BY <2>6 DEF StopPrunesPid, TelemetryIsCurrent
  <2>7. CASE StopPrunesStarted(s)
    BY <2>7 DEF StopPrunesStarted, TelemetryIsCurrent
  <2>8. CASE CheckFails(s)
    BY <2>8 DEF CheckFails, TelemetryIsCurrent
  <2>9. QED BY <1>11, <2>1, <2>2, <2>3, <2>4, <2>5, <2>6, <2>7, <2>8 DEF StopGoesOn
<1>12. QED BY <1>1, <1>2, <1>3, <1>4, <1>5, <1>6, <1>7, <1>8, <1>9, <1>10, <1>11 DEF Next

(* The record follows what was confirmed. *)
LEMMA EvidenceStays ==
  TypeOK /\ TokensDiffer /\ ScriptIsCurrent /\ EvidenceIsKept /\ [Next]_vars => EvidenceIsKept'
<1> SUFFICES ASSUME TypeOK, TokensDiffer, ScriptIsCurrent, EvidenceIsKept, [Next]_vars
             PROVE EvidenceIsKept'
  OBVIOUS
<1> USE Parameters DEF TypeOK, telemetry, files, history, Ends
<1>1. CASE UNCHANGED vars
  BY <1>1 DEF vars, EvidenceIsKept
<1>2. ASSUME NEW p \in Pids, Connect(p) PROVE EvidenceIsKept'
  <2>1. CASE Launch(p)
    BY <2>1 DEF Launch, Spawn, EvidenceIsKept
  <2>2. CASE Lock(p)
    BY <2>2 DEF Lock, EvidenceIsKept
  <2>3. CASE Check(p)
    BY <2>3 DEF Check, EvidenceIsKept
  <2>4. CASE PrunePid(p)
    BY <2>4 DEF PrunePid, EvidenceIsKept
  <2>5. CASE PruneStarted(p)
    BY <2>5 DEF PruneStarted, EvidenceIsKept
  <2>6. CASE WriteSession(p)
    BY <2>6 DEF WriteSession, EvidenceIsKept
  <2>7. CASE WriteStatus(p)
    BY <2>7 DEF WriteStatus, Goto, ScriptIsCurrent, EvidenceIsKept
  <2>8. CASE RecordPid(p)
    BY <2>8 DEF RecordPid, EvidenceIsKept
  <2>9. CASE RecordStarted(p)
    BY <2>9 DEF RecordStarted, EvidenceIsKept
  <2>10. CASE Exec(p)
    BY <2>10 DEF Exec, EvidenceIsKept
  <2>11. CASE ExecFails(p)
    BY <2>11 DEF ExecFails, EvidenceIsKept
  <2>12. CASE Quits(p)
    BY <2>12 DEF Quits, EvidenceIsKept
  <2>13. QED BY <1>2, <2>1, <2>2, <2>3, <2>4, <2>5, <2>6, <2>7, <2>8, <2>9, <2>10, <2>11,
     <2>12 DEF Connect
<1>3. ASSUME NEW p \in Pids, TunnelEnds(p) PROVE EvidenceIsKept'
  BY <1>3 DEF TunnelEnds, EvidenceIsKept
<1>4. ASSUME NEW p \in Pids, Invoke(p) PROVE EvidenceIsKept'
  BY <1>4 DEF Invoke, EvidenceIsKept
<1>5. ASSUME NEW p \in Pids, Stranger(p) PROVE EvidenceIsKept'
  BY <1>5 DEF Stranger, Spawn, EvidenceIsKept
<1>6. ASSUME NEW p \in Pids, StrangerEnds(p) PROVE EvidenceIsKept'
  BY <1>6 DEF StrangerEnds, EvidenceIsKept
<1>7. CASE Downgrade
  BY <1>7 DEF Downgrade, ScriptIsCurrent, EvidenceIsKept, Statuses, NoScript
<1>8. CASE Confirm
  BY <1>8 DEF Confirm, EvidenceIsKept
<1>9. CASE ScriptEnds
  BY <1>9 DEF ScriptEnds, EvidenceIsKept
<1>10. ASSUME NEW s \in Stops, StopBegins(s) PROVE EvidenceIsKept'
  BY <1>10 DEF StopBegins, EvidenceIsKept
<1>11. ASSUME NEW s \in Stops, StopGoesOn(s) PROVE EvidenceIsKept'
  <2>1. CASE StopReadsPid(s)
    BY <2>1 DEF StopReadsPid, EvidenceIsKept
  <2>2. CASE StopReadsStarted(s)
    BY <2>2 DEF StopReadsStarted, EvidenceIsKept
  <2>3. CASE StopIdentifies(s)
    BY <2>3 DEF StopIdentifies, EvidenceIsKept
  <2>4. CASE Terminate(s)
    BY <2>4 DEF Terminate, EvidenceIsKept
  <2>5. CASE Kill(s)
    BY <2>5 DEF Kill, EvidenceIsKept
  <2>6. CASE StopPrunesPid(s)
    BY <2>6 DEF StopPrunesPid, EvidenceIsKept
  <2>7. CASE StopPrunesStarted(s)
    BY <2>7 DEF StopPrunesStarted, EvidenceIsKept
  <2>8. CASE CheckFails(s)
    BY <2>8 DEF CheckFails, EvidenceIsKept
  <2>9. QED BY <1>11, <2>1, <2>2, <2>3, <2>4, <2>5, <2>6, <2>7, <2>8 DEF StopGoesOn
<1>12. QED BY <1>1, <1>2, <1>3, <1>4, <1>5, <1>6, <1>7, <1>8, <1>9, <1>10, <1>11 DEF Next

(* The initial state satisfies the invariant. *)
THEOREM InitInv == Init => IndInv
<1> SUFFICES ASSUME Init PROVE IndInv
  OBVIOUS
<1>1. TypeOK
  BY InitType
<1>2. TokensDiffer /\ ProcessesMatch /\ HolderHasLock
  BY DEF Init, TokensDiffer, ProcessesMatch, HolderHasLock, Nobody, NoScript
<1>3. ScriptIsCurrent /\ ConfirmedWereBorn /\ SessionComesFirst /\ TelemetryIsCurrent
  BY DEF Init, ScriptIsCurrent, ConfirmedWereBorn, SessionComesFirst, TelemetryIsCurrent,
     NoScript
<1>4. EvidenceIsKept
  BY DEF Init, EvidenceIsKept
<1>5. QED BY <1>1, <1>2, <1>3, <1>4 DEF IndInv

(* The invariant is inductive. *)
THEOREM StepInv == IndInv /\ [Next]_vars => IndInv'
<1> SUFFICES ASSUME IndInv, [Next]_vars PROVE IndInv'
  OBVIOUS
<1>1. TypeOK' /\ TokensDiffer' /\ ProcessesMatch' /\ HolderHasLock'
  BY StepKeepsType, TokensStayDistinct, ProcessesStayMatched, HolderKeepsLock DEF IndInv
<1>2. ScriptIsCurrent' /\ ConfirmedWereBorn' /\ SessionComesFirst'
  BY ScriptStaysCurrent, ConfirmedStayBorn, SessionStaysFirst DEF IndInv
<1>3. TelemetryIsCurrent' /\ EvidenceIsKept'
  BY TelemetryStaysCurrent, EvidenceStays DEF IndInv
<1>4. QED BY <1>1, <1>2, <1>3 DEF IndInv

(* state.c, helper_main.c, wrapper: what holds between the lock, the processes,
   the script and the telemetry after every step. *)
THEOREM IndInvAlways == Spec => []IndInv
<1>1. QED BY InitInv, StepInv, PTL DEF Spec

(* vu_state.h:182-191: one tunnel per profile, and one connect that is past the
   lock. *)
THEOREM TunnelsExclude == Spec => []OneTunnel
<1>1. IndInv => OneTunnel
  BY DEF IndInv, TypeOK, TokensDiffer, ProcessesMatch, HolderHasLock, OneTunnel, Nobody
<1>2. QED BY <1>1, IndInvAlways, PTL

(* helper_main.c:155-166: the telemetry is the current generation's from execve
   on, whatever scripts of earlier tunnels still run. *)
THEOREM TelemetryFollowsTunnel == Spec => []TelemetryIsCurrent
<1>1. IndInv => TelemetryIsCurrent
  BY DEF IndInv
<1>2. QED BY <1>1, IndInvAlways, PTL

(* vu_state.h:61-71: the evidence of a tunnel that came up outlives every
   downgrade and every stop. *)
THEOREM EvidenceSurvives == Spec => []EvidenceIsKept
<1>1. IndInv => EvidenceIsKept
  BY DEF IndInv
<1>2. QED BY <1>1, IndInvAlways, PTL

----------------------------------------------------------------------------
(* What stops and connects know of each other. *)

(* Who ends takes nobody else's exceptions away. *)
LEMMA ClearStays ==
  ASSUME TypeOK, TokensDiffer, ProcessesMatch, NEW p \in Pids, Ends(p), NEW q \in Pids,
         q # p, pc[q] # "off", Clear(q)'
  PROVE Clear(q)
<1>1. proc[q] # Nobody /\ proc'[q] = proc[q]
  BY DEF Ends, TypeOK, ProcessesMatch, Nobody
<1>2. proc[q].token # proc[p].token
  BY <1>1 DEF TokensDiffer
<1>3. QED BY <1>1, <1>2 DEF Ends, Clear

(* What a check that says LIVE changes. *)
LEMMA LiveRunKeeps ==
  ASSUME NEW t \in StopRuns
  PROVE /\ AfterLive(t).pc \in {"term", "kill"} =>
             AfterLive(t).pid = t.pid /\ AfterLive(t).started = t.started
        /\ AfterLive(t).pc = "readPid" => AfterLive(t).pid = None /\ AfterLive(t).started = 0
        /\ AfterLive(t).pc \in {"term", "kill", "readPid"}
<1>1. t.phase \in {"first", "wait", "last"}
  BY DEF StopRuns
<1>2. Again(t) \in StopRuns /\ Again(t).pc = "readPid" /\ Again(t).pid = None
        /\ Again(t).started = 0
  BY AgainType DEF Again, StopRuns
<1>3. Polled(t).pc = "readPid" /\ Polled(t).pid = None /\ Polled(t).started = 0
  BY <1>2 DEF Polled, StopRuns
<1>4. Last(t).pc = "readPid" /\ Last(t).pid = None /\ Last(t).started = 0
  BY <1>2 DEF Last, StopRuns
<1>5. CASE t.phase = "first"
  BY <1>5 DEF AfterLive, StopRuns
<1>6. CASE t.phase = "wait"
  BY <1>3, <1>4, <1>6 DEF AfterLive
<1>7. CASE t.phase = "last"
  BY <1>7 DEF AfterLive, StopRuns
<1>8. QED BY <1>1, <1>5, <1>6, <1>7

(* A stop that checks the record of a connect, or a connect that locks during a
   check, blurs it. *)
LEMMA ChecksStayApart ==
  TypeOK /\ TokensDiffer /\ ProcessesMatch /\ SignalsAreFresh /\ ChecksAreApart /\ [Next]_vars
     => ChecksAreApart'
<1> SUFFICES ASSUME TypeOK, TokensDiffer, ProcessesMatch, SignalsAreFresh, ChecksAreApart,
   [Next]_vars
             PROVE ChecksAreApart'
  OBVIOUS
<1> USE Parameters DEF TypeOK, telemetry, files, history, Ends, ChecksAreApart, Checking, Clear
<1>1. CASE UNCHANGED vars
  BY <1>1 DEF vars
<1>2. ASSUME NEW p \in Pids, Connect(p) PROVE ChecksAreApart'
  <2>1. CASE Launch(p)
    BY <2>1 DEF Launch, Spawn, Signalling
  <2>2. CASE Lock(p)
    BY <2>2 DEF Lock, Goto
  <2>3. CASE Check(p)
    BY <2>3 DEF Check, Goto
  <2>4. CASE PrunePid(p)
    BY <2>4 DEF PrunePid, Goto
  <2>5. CASE PruneStarted(p)
    <3>1. CASE Goto(p, "pruneStarted", "session") /\ UNCHANGED <<proc, blurred, signalled>>
      BY <2>5, <3>1 DEF PruneStarted, Goto
    <3>2. CASE Goto(p, "undoStarted", "off") /\ Ends(p)
      BY <2>5, <3>2, ClearStays DEF PruneStarted, Goto
    <3>3. QED BY <2>5, <3>1, <3>2 DEF PruneStarted
  <2>6. CASE WriteSession(p)
    BY <2>6 DEF WriteSession, Goto
  <2>7. CASE WriteStatus(p)
    BY <2>7 DEF WriteStatus, Goto
  <2>8. CASE RecordPid(p)
    BY <2>8 DEF RecordPid, Goto
  <2>9. CASE RecordStarted(p)
    BY <2>9 DEF RecordStarted, Goto
  <2>10. CASE Exec(p)
    BY <2>10 DEF Exec, Goto
  <2>11. CASE ExecFails(p)
    BY <2>11 DEF ExecFails, Goto
  <2>12. CASE Quits(p)
    BY <2>12, ClearStays DEF Quits
  <2>13. QED BY <1>2, <2>1, <2>2, <2>3, <2>4, <2>5, <2>6, <2>7, <2>8, <2>9, <2>10, <2>11,
     <2>12 DEF Connect
<1>3. ASSUME NEW p \in Pids, TunnelEnds(p) PROVE ChecksAreApart'
  BY <1>3, ClearStays DEF TunnelEnds, Goto
<1>4. ASSUME NEW p \in Pids, Invoke(p) PROVE ChecksAreApart'
  BY <1>4 DEF Invoke
<1>5. ASSUME NEW p \in Pids, Stranger(p) PROVE ChecksAreApart'
  BY <1>5 DEF Stranger, Spawn, Signalling
<1>6. ASSUME NEW p \in Pids, StrangerEnds(p) PROVE ChecksAreApart'
  BY <1>6, ClearStays DEF StrangerEnds
<1>7. CASE Downgrade
  BY <1>7 DEF Downgrade
<1>8. CASE Confirm
  BY <1>8 DEF Confirm
<1>9. CASE ScriptEnds
  BY <1>9 DEF ScriptEnds
<1>10. ASSUME NEW s \in Stops, StopBegins(s) PROVE ChecksAreApart'
  BY <1>10 DEF StopBegins, Becomes
<1>11. ASSUME NEW s \in Stops, StopGoesOn(s) PROVE ChecksAreApart'
  <2>1. CASE StopReadsPid(s)
    <3>1. CASE pidFile # None /\ Becomes(s, [stop[s] EXCEPT !.pc = "readStarted", !.pid = pidFile])
      BY <2>1, <3>1 DEF StopReadsPid, Becomes, Tokens
    <3>2. CASE pidFile = None /\ Becomes(s, Idle)
      BY <2>1, <3>2 DEF StopReadsPid, Becomes, Idle, Tokens
    <3>3. CASE pidFile = None /\ Becomes(s, Pruning)
      BY <2>1, <3>3 DEF StopReadsPid, Becomes, Pruning, Idle, Tokens
    <3>4. QED BY <2>1, <3>1, <3>2, <3>3 DEF StopReadsPid
  <2>2. CASE StopReadsStarted(s)
    BY <2>2 DEF StopReadsStarted, Becomes
  <2>3. CASE StopIdentifies(s)
    <3>1. stop[s] \in StopRuns
      OBVIOUS
    <3>2. CASE Live(stop[s].pid, stop[s].started) /\ Becomes(s, AfterLive(stop[s]))
      BY <2>3, <3>1, <3>2, LiveRunType, LiveRunKeeps DEF StopIdentifies, Becomes
    <3>3. CASE ~Live(stop[s].pid, stop[s].started) /\ Becomes(s, Pruning)
      BY <2>3, <3>1, <3>3 DEF StopIdentifies, Becomes, Pruning, Idle
    <3>4. QED BY <2>3, <3>2, <3>3 DEF StopIdentifies
  <2>4. CASE Terminate(s)
    BY <2>4 DEF Terminate, Becomes, Again, StopRuns
  <2>5. CASE Kill(s)
    <3>1. stop[s].pid \in Pids
      BY <2>5 DEF Kill, StopRuns, SignalsAreFresh
    <3>2. \A q \in Pids : q # stop[s].pid /\ pc[q] # "off" /\ Clear(q)' => Clear(q)
      BY <2>5, <3>1, ClearStays DEF Kill
    <3>3. QED BY <2>5, <3>1, <3>2 DEF Kill, Becomes, Pruning, Idle
  <2>6. CASE StopPrunesPid(s)
    BY <2>6 DEF StopPrunesPid, Becomes
  <2>7. CASE StopPrunesStarted(s)
    BY <2>7 DEF StopPrunesStarted, Becomes
  <2>8. CASE CheckFails(s)
    <3>1. CASE stop[s].phase = "first" /\ Becomes(s, Idle) /\ UNCHANGED blurred
      BY <2>8, <3>1 DEF CheckFails, Becomes, Idle
    <3>2. CASE Becomes(s, Pruning) /\ blurred' = blurred \cup Tokens(Holding \cup {"run"})
      BY <2>8, <3>2 DEF CheckFails, Becomes, Pruning, Idle, Tokens
    <3>3. QED BY <2>8, <3>1, <3>2 DEF CheckFails
  <2>9. QED BY <1>11, <2>1, <2>2, <2>3, <2>4, <2>5, <2>6, <2>7, <2>8 DEF StopGoesOn
<1>12. QED BY <1>1, <1>2, <1>3, <1>4, <1>5, <1>6, <1>7, <1>8, <1>9, <1>10, <1>11 DEF Next

(* Nobody else writes or removes the record of a connect or of a tunnel. *)
LEMMA RecordKeepsGrowing ==
  TypeOK /\ TokensDiffer /\ ProcessesMatch /\ HolderHasLock /\ SignalsAreFresh /\ ChecksAreApart
     /\ StopsSeeTheTunnel /\ RecordGrows /\ [Next]_vars => RecordGrows'
<1> SUFFICES ASSUME TypeOK, TokensDiffer, ProcessesMatch, HolderHasLock, SignalsAreFresh,
   ChecksAreApart, StopsSeeTheTunnel, RecordGrows, [Next]_vars
             PROVE RecordGrows'
  OBVIOUS
<1> USE Parameters DEF TypeOK, telemetry, files, history, Ends, RecordGrows, Clear
<1>1. CASE UNCHANGED vars
  BY <1>1 DEF vars
<1>2. ASSUME NEW p \in Pids, Connect(p) PROVE RecordGrows'
  <2>1. CASE Launch(p)
    BY <2>1 DEF Launch, Spawn, TokensDiffer
  <2>2. CASE Lock(p)
    BY <2>2 DEF Lock, Goto
  <2>3. CASE Check(p)
    BY <2>3 DEF Check, Goto
  <2>4. CASE PrunePid(p)
    BY <2>4 DEF PrunePid, Goto, TokensDiffer, ProcessesMatch, HolderHasLock, Nobody
  <2>5. CASE PruneStarted(p)
    <3>1. CASE Goto(p, "pruneStarted", "session") /\ UNCHANGED <<proc, blurred, signalled>>
      BY <2>5, <3>1 DEF PruneStarted, Goto, TokensDiffer, HolderHasLock,
         ProcessesMatch, Nobody
    <3>2. CASE Goto(p, "undoStarted", "off") /\ Ends(p)
      BY <2>5, <3>2, ClearStays DEF PruneStarted, Goto, TokensDiffer, HolderHasLock,
         ProcessesMatch, Nobody
    <3>3. QED BY <2>5, <3>1, <3>2 DEF PruneStarted
  <2>6. CASE WriteSession(p)
    BY <2>6 DEF WriteSession, Goto
  <2>7. CASE WriteStatus(p)
    BY <2>7 DEF WriteStatus, Goto
  <2>8. CASE RecordPid(p)
    BY <2>8 DEF RecordPid, Goto, TokensDiffer, ProcessesMatch, HolderHasLock, Nobody
  <2>9. CASE RecordStarted(p)
    BY <2>9 DEF RecordStarted, Goto, TokensDiffer, ProcessesMatch, HolderHasLock, Nobody
  <2>10. CASE Exec(p)
    BY <2>10 DEF Exec, Goto
  <2>11. CASE ExecFails(p)
    BY <2>11 DEF ExecFails, Goto
  <2>12. CASE Quits(p)
    BY <2>12, ClearStays DEF Quits
  <2>13. QED BY <1>2, <2>1, <2>2, <2>3, <2>4, <2>5, <2>6, <2>7, <2>8, <2>9, <2>10, <2>11,
     <2>12 DEF Connect
<1>3. ASSUME NEW p \in Pids, TunnelEnds(p) PROVE RecordGrows'
  BY <1>3, ClearStays DEF TunnelEnds, Goto
<1>4. ASSUME NEW p \in Pids, Invoke(p) PROVE RecordGrows'
  BY <1>4 DEF Invoke
<1>5. ASSUME NEW p \in Pids, Stranger(p) PROVE RecordGrows'
  BY <1>5 DEF Stranger, Spawn
<1>6. ASSUME NEW p \in Pids, StrangerEnds(p) PROVE RecordGrows'
  BY <1>6, ClearStays DEF StrangerEnds
<1>7. CASE Downgrade
  BY <1>7 DEF Downgrade
<1>8. CASE Confirm
  BY <1>8 DEF Confirm
<1>9. CASE ScriptEnds
  BY <1>9 DEF ScriptEnds
<1>10. ASSUME NEW s \in Stops, StopBegins(s) PROVE RecordGrows'
  BY <1>10 DEF StopBegins, Becomes
<1>11. ASSUME NEW s \in Stops, StopGoesOn(s) PROVE RecordGrows'
  <2>1. CASE StopReadsPid(s)
    BY <2>1 DEF StopReadsPid, Becomes
  <2>2. CASE StopReadsStarted(s)
    BY <2>2 DEF StopReadsStarted, Becomes
  <2>3. CASE StopIdentifies(s)
    BY <2>3 DEF StopIdentifies, Becomes
  <2>4. CASE Terminate(s)
    BY <2>4 DEF Terminate, Becomes
  <2>5. CASE Kill(s)
    <3>1. stop[s].pid \in Pids
      BY <2>5 DEF Kill, StopRuns, SignalsAreFresh
    <3>2. \A q \in Pids : q # stop[s].pid /\ pc[q] # "off" /\ Clear(q)' => Clear(q)
      BY <2>5, <3>1, ClearStays DEF Kill
    <3>3. QED BY <2>5, <3>1, <3>2 DEF Kill, Becomes, Pruning, Idle
  <2>6. CASE StopPrunesPid(s)
    BY <2>6 DEF StopPrunesPid, Becomes, ChecksAreApart, Checking, StopsSeeTheTunnel
  <2>7. CASE StopPrunesStarted(s)
    BY <2>7 DEF StopPrunesStarted, Becomes, ChecksAreApart, Checking, StopsSeeTheTunnel
  <2>8. CASE CheckFails(s)
    BY <2>8 DEF CheckFails, Becomes
  <2>9. QED BY <1>11, <2>1, <2>2, <2>3, <2>4, <2>5, <2>6, <2>7, <2>8 DEF StopGoesOn
<1>12. QED BY <1>1, <1>2, <1>3, <1>4, <1>5, <1>6, <1>7, <1>8, <1>9, <1>10, <1>11 DEF Next

(* A stop goes on seeing the tunnel. *)
LEMMA StopsKeepSeeing ==
  TypeOK /\ TokensDiffer /\ ProcessesMatch /\ SignalsAreFresh /\ ChecksAreApart /\ RecordGrows
     /\ StopsSeeTheTunnel /\ [Next]_vars => StopsSeeTheTunnel'
<1> SUFFICES ASSUME TypeOK, TokensDiffer, ProcessesMatch, SignalsAreFresh, ChecksAreApart,
   RecordGrows, StopsSeeTheTunnel, [Next]_vars
             PROVE StopsSeeTheTunnel'
  OBVIOUS
<1> USE Parameters DEF TypeOK, telemetry, files, history, Ends, StopsSeeTheTunnel, Clear
<1>1. CASE UNCHANGED vars
  BY <1>1 DEF vars
<1>2. ASSUME NEW p \in Pids, Connect(p) PROVE StopsSeeTheTunnel'
  <2>1. CASE Launch(p)
    BY <2>1 DEF Launch, Spawn
  <2>2. CASE Lock(p)
    BY <2>2 DEF Lock, Goto
  <2>3. CASE Check(p)
    BY <2>3 DEF Check, Goto
  <2>4. CASE PrunePid(p)
    BY <2>4 DEF PrunePid, Goto
  <2>5. CASE PruneStarted(p)
    <3>1. CASE Goto(p, "pruneStarted", "session") /\ UNCHANGED <<proc, blurred, signalled>>
      BY <2>5, <3>1 DEF PruneStarted, Goto
    <3>2. CASE Goto(p, "undoStarted", "off") /\ Ends(p)
      BY <2>5, <3>2, ClearStays DEF PruneStarted, Goto
    <3>3. QED BY <2>5, <3>1, <3>2 DEF PruneStarted
  <2>6. CASE WriteSession(p)
    BY <2>6 DEF WriteSession, Goto
  <2>7. CASE WriteStatus(p)
    BY <2>7 DEF WriteStatus, Goto
  <2>8. CASE RecordPid(p)
    BY <2>8 DEF RecordPid, Goto
  <2>9. CASE RecordStarted(p)
    BY <2>9 DEF RecordStarted, Goto
  <2>10. CASE Exec(p)
    BY <2>10 DEF Exec, Goto, ChecksAreApart, Checking
  <2>11. CASE ExecFails(p)
    BY <2>11 DEF ExecFails, Goto
  <2>12. CASE Quits(p)
    BY <2>12, ClearStays DEF Quits
  <2>13. QED BY <1>2, <2>1, <2>2, <2>3, <2>4, <2>5, <2>6, <2>7, <2>8, <2>9, <2>10, <2>11,
     <2>12 DEF Connect
<1>3. ASSUME NEW p \in Pids, TunnelEnds(p) PROVE StopsSeeTheTunnel'
  BY <1>3, ClearStays DEF TunnelEnds, Goto
<1>4. ASSUME NEW p \in Pids, Invoke(p) PROVE StopsSeeTheTunnel'
  BY <1>4 DEF Invoke
<1>5. ASSUME NEW p \in Pids, Stranger(p) PROVE StopsSeeTheTunnel'
  BY <1>5 DEF Stranger, Spawn
<1>6. ASSUME NEW p \in Pids, StrangerEnds(p) PROVE StopsSeeTheTunnel'
  BY <1>6, ClearStays DEF StrangerEnds
<1>7. CASE Downgrade
  BY <1>7 DEF Downgrade
<1>8. CASE Confirm
  BY <1>8 DEF Confirm
<1>9. CASE ScriptEnds
  BY <1>9 DEF ScriptEnds
<1>10. ASSUME NEW s \in Stops, StopBegins(s) PROVE StopsSeeTheTunnel'
  BY <1>10 DEF StopBegins, Becomes
<1>11. ASSUME NEW s \in Stops, StopGoesOn(s) PROVE StopsSeeTheTunnel'
  <2>1. CASE StopReadsPid(s)
    <3>1. CASE pidFile # None /\ Becomes(s, [stop[s] EXCEPT !.pc = "readStarted", !.pid = pidFile])
      BY <2>1, <3>1 DEF StopReadsPid, Becomes, RecordGrows
    <3>2. CASE pidFile = None /\ Becomes(s, Idle)
      BY <2>1, <3>2 DEF StopReadsPid, Becomes, Idle, RecordGrows
    <3>3. CASE pidFile = None /\ Becomes(s, Pruning)
      BY <2>1, <3>3 DEF StopReadsPid, Becomes, Pruning, Idle, RecordGrows
    <3>4. QED BY <2>1, <3>1, <3>2, <3>3 DEF StopReadsPid
  <2>2. CASE StopReadsStarted(s)
    BY <2>2 DEF StopReadsStarted, Becomes, RecordGrows
  <2>3. CASE StopIdentifies(s)
    <3>1. stop[s] \in StopRuns
      OBVIOUS
    <3>2. CASE Live(stop[s].pid, stop[s].started) /\ Becomes(s, AfterLive(stop[s]))
      BY <2>3, <3>1, <3>2, LiveRunType, LiveRunKeeps DEF StopIdentifies, Becomes
    <3>3. CASE ~Live(stop[s].pid, stop[s].started) /\ Becomes(s, Pruning)
      BY <2>3, <3>1, <3>3 DEF StopIdentifies, Becomes, Pruning, Idle, Live, ProcessesMatch
    <3>4. QED BY <2>3, <3>2, <3>3 DEF StopIdentifies
  <2>4. CASE Terminate(s)
    BY <2>4 DEF Terminate, Becomes, Again, StopRuns
  <2>5. CASE Kill(s)
    <3>1. stop[s].pid \in Pids
      BY <2>5 DEF Kill, StopRuns, SignalsAreFresh
    <3>2. \A q \in Pids : q # stop[s].pid /\ pc[q] # "off" /\ Clear(q)' => Clear(q)
      BY <2>5, <3>1, ClearStays DEF Kill
    <3>3. QED BY <2>5, <3>1, <3>2 DEF Kill, Becomes, Pruning, Idle
  <2>6. CASE StopPrunesPid(s)
    BY <2>6 DEF StopPrunesPid, Becomes
  <2>7. CASE StopPrunesStarted(s)
    BY <2>7 DEF StopPrunesStarted, Becomes
  <2>8. CASE CheckFails(s)
    <3>1. CASE stop[s].phase = "first" /\ Becomes(s, Idle) /\ UNCHANGED blurred
      BY <2>8, <3>1 DEF CheckFails, Becomes, Idle
    <3>2. CASE Becomes(s, Pruning) /\ blurred' = blurred \cup Tokens(Holding \cup {"run"})
      BY <2>8, <3>2 DEF CheckFails, Becomes, Pruning, Idle, Tokens
    <3>3. QED BY <2>8, <3>1, <3>2 DEF CheckFails
  <2>9. QED BY <1>11, <2>1, <2>2, <2>3, <2>4, <2>5, <2>6, <2>7, <2>8 DEF StopGoesOn
<1>12. QED BY <1>1, <1>2, <1>3, <1>4, <1>5, <1>6, <1>7, <1>8, <1>9, <1>10, <1>11 DEF Next

(* A process that is no connect or tunnel of the profile is on no record. *)
LEMMA StrangersStayUnknown ==
  TypeOK /\ TokensDiffer /\ ProcessesMatch /\ SignalsAreFresh /\ StrangersAreUnknown /\
     [Next]_vars => StrangersAreUnknown'
<1> SUFFICES ASSUME TypeOK, TokensDiffer, ProcessesMatch, SignalsAreFresh, StrangersAreUnknown,
   [Next]_vars
             PROVE StrangersAreUnknown'
  OBVIOUS
<1> USE Parameters DEF TypeOK, telemetry, files, history, Ends, StrangersAreUnknown
<1>1. CASE UNCHANGED vars
  BY <1>1 DEF vars
<1>2. ASSUME NEW p \in Pids, Connect(p) PROVE StrangersAreUnknown'
  <2>1. CASE Launch(p)
    BY <2>1 DEF Launch, Spawn, StopRuns
  <2>2. CASE Lock(p)
    BY <2>2 DEF Lock, Goto
  <2>3. CASE Check(p)
    BY <2>3 DEF Check, Goto
  <2>4. CASE PrunePid(p)
    BY <2>4 DEF PrunePid, Goto
  <2>5. CASE PruneStarted(p)
    BY <2>5 DEF PruneStarted, Goto, TokensDiffer
  <2>6. CASE WriteSession(p)
    BY <2>6 DEF WriteSession, Goto
  <2>7. CASE WriteStatus(p)
    BY <2>7 DEF WriteStatus, Goto
  <2>8. CASE RecordPid(p)
    BY <2>8 DEF RecordPid, Goto
  <2>9. CASE RecordStarted(p)
    BY <2>9 DEF RecordStarted, Goto, TokensDiffer
  <2>10. CASE Exec(p)
    BY <2>10 DEF Exec, Goto
  <2>11. CASE ExecFails(p)
    BY <2>11 DEF ExecFails, Goto
  <2>12. CASE Quits(p)
    BY <2>12 DEF Quits
  <2>13. QED BY <1>2, <2>1, <2>2, <2>3, <2>4, <2>5, <2>6, <2>7, <2>8, <2>9, <2>10, <2>11,
     <2>12 DEF Connect
<1>3. ASSUME NEW p \in Pids, TunnelEnds(p) PROVE StrangersAreUnknown'
  BY <1>3 DEF TunnelEnds, Goto
<1>4. ASSUME NEW p \in Pids, Invoke(p) PROVE StrangersAreUnknown'
  BY <1>4 DEF Invoke
<1>5. ASSUME NEW p \in Pids, Stranger(p) PROVE StrangersAreUnknown'
  BY <1>5 DEF Stranger, Spawn, TokensDiffer, StopRuns
<1>6. ASSUME NEW p \in Pids, StrangerEnds(p) PROVE StrangersAreUnknown'
  BY <1>6 DEF StrangerEnds
<1>7. CASE Downgrade
  BY <1>7 DEF Downgrade
<1>8. CASE Confirm
  BY <1>8 DEF Confirm
<1>9. CASE ScriptEnds
  BY <1>9 DEF ScriptEnds
<1>10. ASSUME NEW s \in Stops, StopBegins(s) PROVE StrangersAreUnknown'
  BY <1>10 DEF StopBegins, Becomes
<1>11. ASSUME NEW s \in Stops, StopGoesOn(s) PROVE StrangersAreUnknown'
  <2>1. CASE StopReadsPid(s)
    <3>1. CASE pidFile # None /\ Becomes(s, [stop[s] EXCEPT !.pc = "readStarted", !.pid = pidFile])
      BY <2>1, <3>1 DEF StopReadsPid, Becomes, TokensDiffer
    <3>2. CASE pidFile = None /\ Becomes(s, Idle)
      BY <2>1, <3>2 DEF StopReadsPid, Becomes, Idle, TokensDiffer
    <3>3. CASE pidFile = None /\ Becomes(s, Pruning)
      BY <2>1, <3>3 DEF StopReadsPid, Becomes, Pruning, Idle, TokensDiffer
    <3>4. QED BY <2>1, <3>1, <3>2, <3>3 DEF StopReadsPid
  <2>2. CASE StopReadsStarted(s)
    BY <2>2 DEF StopReadsStarted, Becomes, TokensDiffer
  <2>3. CASE StopIdentifies(s)
    <3>1. stop[s] \in StopRuns
      OBVIOUS
    <3>2. CASE Live(stop[s].pid, stop[s].started) /\ Becomes(s, AfterLive(stop[s]))
      BY <2>3, <3>1, <3>2, LiveRunType, LiveRunKeeps DEF StopIdentifies, Becomes, TokensDiffer
    <3>3. CASE ~Live(stop[s].pid, stop[s].started) /\ Becomes(s, Pruning)
      BY <2>3, <3>1, <3>3 DEF StopIdentifies, Becomes, Pruning, Idle, TokensDiffer
    <3>4. QED BY <2>3, <3>2, <3>3 DEF StopIdentifies
  <2>4. CASE Terminate(s)
    BY <2>4 DEF Terminate, Becomes, Again, StopRuns, TokensDiffer
  <2>5. CASE Kill(s)
    <3>1. stop[s].pid \in Pids
      BY <2>5 DEF Kill, StopRuns, SignalsAreFresh
    <3>2. \A q \in Pids : q # stop[s].pid /\ pc[q] # "off" /\ Clear(q)' => Clear(q)
      BY <2>5, <3>1, ClearStays DEF Kill
    <3>3. QED BY <2>5, <3>1, <3>2 DEF Kill, Becomes, Pruning, Idle, TokensDiffer
  <2>6. CASE StopPrunesPid(s)
    BY <2>6 DEF StopPrunesPid, Becomes
  <2>7. CASE StopPrunesStarted(s)
    BY <2>7 DEF StopPrunesStarted, Becomes, Idle, TokensDiffer
  <2>8. CASE CheckFails(s)
    <3>1. CASE stop[s].phase = "first" /\ Becomes(s, Idle) /\ UNCHANGED blurred
      BY <2>8, <3>1 DEF CheckFails, Becomes, Idle, TokensDiffer
    <3>2. CASE Becomes(s, Pruning) /\ blurred' = blurred \cup Tokens(Holding \cup {"run"})
      BY <2>8, <3>2 DEF CheckFails, Becomes, Pruning, Idle, Tokens, TokensDiffer
    <3>3. QED BY <2>8, <3>1, <3>2 DEF CheckFails
  <2>9. QED BY <1>11, <2>1, <2>2, <2>3, <2>4, <2>5, <2>6, <2>7, <2>8 DEF StopGoesOn
<1>12. QED BY <1>1, <1>2, <1>3, <1>4, <1>5, <1>6, <1>7, <1>8, <1>9, <1>10, <1>11 DEF Next

(* What stop is about to signal stays the tunnel it has identified, or its pid is
   given away. *)
LEMMA SignalsStayFresh ==
  TypeOK /\ TokensDiffer /\ ProcessesMatch /\ StrangersAreUnknown /\ SignalsAreFresh /\
     [Next]_vars => SignalsAreFresh'
<1> SUFFICES ASSUME TypeOK, TokensDiffer, ProcessesMatch, StrangersAreUnknown, SignalsAreFresh,
   [Next]_vars
             PROVE SignalsAreFresh'
  OBVIOUS
<1> USE Parameters DEF TypeOK, telemetry, files, history, Ends, SignalsAreFresh
<1>1. CASE UNCHANGED vars
  BY <1>1 DEF vars
<1>2. ASSUME NEW p \in Pids, Connect(p) PROVE SignalsAreFresh'
  <2>1. CASE Launch(p)
    BY <2>1 DEF Launch, Spawn, Signalling, StopRuns
  <2>2. CASE Lock(p)
    BY <2>2 DEF Lock, Goto
  <2>3. CASE Check(p)
    BY <2>3 DEF Check, Goto
  <2>4. CASE PrunePid(p)
    <3>1. \A q \in Pids : pc[q] = "run" => pc'[q] = "run"
      BY <2>4 DEF PrunePid, Goto
    <3>2. QED BY <2>4, <3>1 DEF PrunePid, StopRuns
  <2>5. CASE PruneStarted(p)
    BY <2>5 DEF PruneStarted, Goto, ProcessesMatch, StopRuns
  <2>6. CASE WriteSession(p)
    BY <2>6 DEF WriteSession, Goto
  <2>7. CASE WriteStatus(p)
    BY <2>7 DEF WriteStatus, Goto
  <2>8. CASE RecordPid(p)
    BY <2>8 DEF RecordPid, Goto
  <2>9. CASE RecordStarted(p)
    BY <2>9 DEF RecordStarted, Goto
  <2>10. CASE Exec(p)
    BY <2>10 DEF Exec, Goto, ProcessesMatch, Nobody
  <2>11. CASE ExecFails(p)
    BY <2>11 DEF ExecFails, Goto
  <2>12. CASE Quits(p)
    BY <2>12 DEF Quits
  <2>13. QED BY <1>2, <2>1, <2>2, <2>3, <2>4, <2>5, <2>6, <2>7, <2>8, <2>9, <2>10, <2>11,
     <2>12 DEF Connect
<1>3. ASSUME NEW p \in Pids, TunnelEnds(p) PROVE SignalsAreFresh'
  BY <1>3 DEF TunnelEnds, Goto
<1>4. ASSUME NEW p \in Pids, Invoke(p) PROVE SignalsAreFresh'
  BY <1>4 DEF Invoke
<1>5. ASSUME NEW p \in Pids, Stranger(p) PROVE SignalsAreFresh'
  BY <1>5 DEF Stranger, Spawn, Signalling, StopRuns
<1>6. ASSUME NEW p \in Pids, StrangerEnds(p) PROVE SignalsAreFresh'
  BY <1>6 DEF StrangerEnds
<1>7. CASE Downgrade
  BY <1>7 DEF Downgrade
<1>8. CASE Confirm
  BY <1>8 DEF Confirm
<1>9. CASE ScriptEnds
  BY <1>9 DEF ScriptEnds
<1>10. ASSUME NEW s \in Stops, StopBegins(s) PROVE SignalsAreFresh'
  BY <1>10 DEF StopBegins, Becomes
<1>11. ASSUME NEW s \in Stops, StopGoesOn(s) PROVE SignalsAreFresh'
  <2>1. CASE StopReadsPid(s)
    <3>1. CASE pidFile # None /\ Becomes(s, [stop[s] EXCEPT !.pc = "readStarted", !.pid = pidFile])
      BY <2>1, <3>1 DEF StopReadsPid, Becomes
    <3>2. CASE pidFile = None /\ Becomes(s, Idle)
      BY <2>1, <3>2 DEF StopReadsPid, Becomes, Idle
    <3>3. CASE pidFile = None /\ Becomes(s, Pruning)
      BY <2>1, <3>3 DEF StopReadsPid, Becomes, Pruning, Idle
    <3>4. QED BY <2>1, <3>1, <3>2, <3>3 DEF StopReadsPid
  <2>2. CASE StopReadsStarted(s)
    BY <2>2 DEF StopReadsStarted, Becomes
  <2>3. CASE StopIdentifies(s)
    <3>1. stop[s] \in StopRuns
      OBVIOUS
    <3>2. CASE Live(stop[s].pid, stop[s].started) /\ Becomes(s, AfterLive(stop[s]))
      <4>1. pc[stop[s].pid] = "run" /\ proc[stop[s].pid].token = stop[s].started
        BY <3>1, <3>2 DEF Live, StopRuns, StrangersAreUnknown, ProcessesMatch, Nobody
      <4>2. stop[s].pid # None
        BY <3>2 DEF Live
      <4>3. QED BY <2>3, <3>1, <3>2, <4>1, <4>2, LiveRunKeeps DEF StopIdentifies, Becomes
    <3>3. CASE ~Live(stop[s].pid, stop[s].started) /\ Becomes(s, Pruning)
      BY <2>3, <3>1, <3>3 DEF StopIdentifies, Becomes, Pruning, Idle
    <3>4. QED BY <2>3, <3>2, <3>3 DEF StopIdentifies
  <2>4. CASE Terminate(s)
    BY <2>4 DEF Terminate, Becomes, Again, StopRuns
  <2>5. CASE Kill(s)
    BY <2>5 DEF Kill, Becomes, Pruning, Idle, StopRuns
  <2>6. CASE StopPrunesPid(s)
    BY <2>6 DEF StopPrunesPid, Becomes
  <2>7. CASE StopPrunesStarted(s)
    BY <2>7 DEF StopPrunesStarted, Becomes, Idle
  <2>8. CASE CheckFails(s)
    <3>1. CASE stop[s].phase = "first" /\ Becomes(s, Idle) /\ UNCHANGED blurred
      BY <2>8, <3>1 DEF CheckFails, Becomes, Idle
    <3>2. CASE Becomes(s, Pruning) /\ blurred' = blurred \cup Tokens(Holding \cup {"run"})
      BY <2>8, <3>2 DEF CheckFails, Becomes, Pruning, Idle, Tokens
    <3>3. QED BY <2>8, <3>1, <3>2 DEF CheckFails
  <2>9. QED BY <1>11, <2>1, <2>2, <2>3, <2>4, <2>5, <2>6, <2>7, <2>8 DEF StopGoesOn
<1>12. QED BY <1>1, <1>2, <1>3, <1>4, <1>5, <1>6, <1>7, <1>8, <1>9, <1>10, <1>11 DEF Next

(* helper_main.c:262-326, state.c: what a stop has read of a tunnel stays the record
   of that tunnel, whatever else runs, unless the exceptions that the history
   variables name have happened to it. *)
THEOREM RecordInvAlways == Spec => [](IndInv /\ RecordInv)
<1>1. Init => RecordInv
  BY DEF Init, RecordInv, ChecksAreApart, Checking, RecordGrows, StopsSeeTheTunnel,
     StrangersAreUnknown, SignalsAreFresh, Idle, Nobody
<1>2. IndInv /\ RecordInv /\ [Next]_vars => RecordInv'
  BY ChecksStayApart, RecordKeepsGrowing, StopsKeepSeeing, StrangersStayUnknown,
     SignalsStayFresh DEF IndInv, RecordInv
<1>3. QED BY <1>1, <1>2, InitInv, StepInv, PTL DEF Spec

(* helper_main.c:262-269: the running tunnel is the one on record, unless a stop
   checked the record during its connect, or in vain while it ran. *)
THEOREM TunnelStaysOnRecord == Spec => []TunnelIsOnRecord
<1>1. RecordInv => TunnelIsOnRecord
  BY DEF RecordInv, RecordGrows, TunnelIsOnRecord, Clear
<1>2. QED BY <1>1, RecordInvAlways, PTL

(* helper_main.c:301-326: with the same exceptions no tunnel of the profile runs
   when a stop says "stopped". *)
THEOREM StopTellsTheTruth == Spec => StoppedIsGone
<1>1. RecordInv =>
        \A s \in Stops : StopPrunesStarted(s) =>
          \A p \in Pids : pc[p] = "run" => proc[p].token \in blurred
  BY DEF RecordInv, StopsSeeTheTunnel, StopPrunesStarted, Clear
<1>2. QED BY <1>1, RecordInvAlways, PTL DEF StoppedIsGone

(* helper_main.c:264-269: root signals the recorded OpenConnect of this profile,
   or nobody, or a process that got its pid after the last check. *)
THEOREM SignalsHitTunnels == Spec => OnlyTunnelsSignalled
<1>1. RecordInv =>
        \A s \in Stops : Terminate(s) \/ Kill(s) =>
          \/ pc[stop[s].pid] = "run" /\ proc[stop[s].pid].token = stop[s].started
          \/ proc[stop[s].pid] = Nobody \/ s \in reborn
  BY DEF RecordInv, SignalsAreFresh, Terminate, Kill
<1>2. QED BY <1>1, RecordInvAlways, PTL DEF OnlyTunnelsSignalled
=============================================================================
