--------------------------- MODULE TwoPhaseProofs ---------------------------
(***************************************************************************)
(* The safety properties of TwoPhase, for every number of clients and of   *)
(* polls.  Two facts carry them.  Root side: whoever is past the lock has  *)
(* written the session, the status and the pid that are on disk.  Client   *)
(* side: a poller is alive only between the start and the join of its      *)
(* pipeline.  What holds as long as no client is killed needs in addition  *)
(* that one client at a time is at work; that is OneActive.               *)
(***************************************************************************)
EXTENDS TwoPhase, TLAPS

(* A poller that is to read the session has polls left. *)
Polls ==
  \A c \in Clients : /\ poller[c].pc = "off" => poller[c].attempt = 0
                     /\ poller[c].pc = "readSession" => poller[c].attempt < MaxAttempts

OneHeld == \A c, d \in Clients : helper[c] \in Held /\ helper[d] \in Held => c = d

(* Where a client is says where its helper and its poller are. *)
Stages ==
  \A c \in Clients :
    /\ client[c] \in {"off", "auth"} => helper[c] = "off" /\ poller[c].pc = "off"
    /\ client[c] \in {"join", "remove", "readSession", "readStatus", "conclude"} => helper[c] = "over"
    /\ client[c] = "done" => helper[c] \in {"off", "over"}
    /\ helper[c] \notin {"off", "over"} => client[c] \in {"pipe", "killed"}
    /\ poller[c].pc \notin {"off", "dead"} => client[c] \in {"pipe", "join", "killed"}
    /\ client[c] \in {"readSession", "readStatus"} => hasId[c]
    /\ verdict[c] # "" => helper[c] = "over"

(* Whoever was up ran. *)
Runs ==
  /\ \A c \in ran : helper[c] \in {"run", "over"}
  /\ confirmed \subseteq ran

(* What is on disk is of the one past the lock; evidence is genuine. *)
Telemetry ==
  /\ \A c \in Clients :
       /\ helper[c] \in {"status", "pid", "exec", "run"} => session = c
       /\ helper[c] \in {"pid", "exec", "run"} => status.session = c
       /\ helper[c] \in {"exec", "run"} => rootPid = c
       /\ helper[c] = "run" => c \in ran
  /\ status.request \in {None, status.session}
  /\ status.verified => status.ever
  /\ status.ever => status.session \in confirmed

(* Every announcement, made or to be made, rests on a confirmed tunnel. *)
Evidence ==
  \A c \in Clients :
    /\ poller[c].pc \in Commands => poller[c].mine
    /\ poller[c].mine \/ orphan[c] \in Commands \/ stateFile = c => c \in confirmed
    /\ Said("connected", c) => c \in confirmed

Concluded == \A c \in Clients : Said("disconnected", c) => client[c] = "done"

Active(c) == client[c] \notin {"off", "done"}

(* As long as no client was killed one at a time is at work, and what its
   tunnel has left on disk stays until it has concluded. *)
OneActive == NobodyKilled => \A c, d \in Clients : Active(c) /\ Active(d) => c = d

(* What the tunnel of a client has left on disk is there. *)
HasLeft(c) ==
  /\ session = c /\ status.session = c /\ status.ever
  /\ hasId[c] => status.request = c
  /\ rootPid \in {None, c}
  /\ client[c] = "readStatus" => final[c] = c

Left ==
  NobodyKilled =>
    \A c \in Clients : c \in confirmed /\ Active(c) => HasLeft(c)

OwnPid ==
  NobodyKilled => \A c \in Clients : poller[c].pc \in Commands => poller[c].pid \in {None, c}

Gone ==
  NobodyKilled /\ NoOrphan =>
    \A c \in Clients : c \in {pidFile, stateFile} => client[c] \in {"pipe", "join", "remove"}

IndInv ==
  /\ TypeOK /\ Polls /\ OneHeld /\ Stages /\ Runs /\ Telemetry /\ Evidence /\ Concluded
  /\ OneActive /\ Left /\ OwnPid /\ Gone /\ VerdictIsGenuine /\ VerdictIsComplete /\ DisconnectedIsLast
  /\ RunsAreReported

----------------------------------------------------------------------------
Actions(c) ==
  \/ Refuse(c) \/ Lock(c) \/ WriteSession(c) \/ WriteStatus(c) \/ RecordPid(c) \/ Exec(c)
  \/ ConnectFails(c) \/ TunnelUp(c) \/ TunnelDown(c) \/ TunnelEnds(c)
  \/ PollerReadsSession(c) \/ PollerReadsStatus(c) \/ PollerReadsPid(c) \/ PollerActs(c)
  \/ OrphanActs(c) \/ Start(c) \/ AuthFails(c) \/ Submit(c) \/ PipeEnds(c) \/ Join(c)
  \/ Remove(c) \/ FinalReadsSession(c) \/ FinalReadsStatus(c) \/ Conclude(c) \/ Killed(c)

(* A step is a stop, or a step of one client. *)
LEMMA StepCases ==
  ASSUME [Next]_vars PROVE UNCHANGED vars \/ Stop \/ \E c \in Clients : Actions(c)
BY DEF Next, Helper, Poller, ClientGoesOn, Actions

PollerPcs == {"off", "readSession", "readStatus", "readPid", "dead"} \cup Commands

(* A field of a poller changes, the others stay. *)
LEMMA PollerFields ==
  ASSUME NEW p \in Pollers
  PROVE /\ \A pc \in PollerPcs : LET q == [p EXCEPT !.pc = pc]
             IN /\ q \in Pollers /\ q.pc = pc /\ q.attempt = p.attempt /\ q.session = p.session
                /\ q.mine = p.mine /\ q.pid = p.pid
        /\ \A n \in 0..MaxAttempts : LET q == [p EXCEPT !.attempt = n]
             IN /\ q \in Pollers /\ q.pc = p.pc /\ q.attempt = n /\ q.session = p.session
                /\ q.mine = p.mine /\ q.pid = p.pid
        /\ \A s \in Someone : LET q == [p EXCEPT !.session = s]
             IN /\ q \in Pollers /\ q.pc = p.pc /\ q.attempt = p.attempt /\ q.session = s
                /\ q.mine = p.mine /\ q.pid = p.pid
        /\ \A b \in BOOLEAN : LET q == [p EXCEPT !.mine = b]
             IN /\ q \in Pollers /\ q.pc = p.pc /\ q.attempt = p.attempt /\ q.session = p.session
                /\ q.mine = b /\ q.pid = p.pid
        /\ \A s \in Someone : LET q == [p EXCEPT !.pid = s]
             IN /\ q \in Pollers /\ q.pc = p.pc /\ q.attempt = p.attempt /\ q.session = p.session
                /\ q.mine = p.mine /\ q.pid = s
BY DEF Pollers, PollerPcs

(* What a report says of a session. *)
LEMMA Reports ==
  ASSUME TypeOK, NEW s \in Someone
  PROVE Report(s) \in Statuses
BY DEF TypeOK, Report, NoRecord, Statuses, Someone

(* The poller of a client becomes p. *)
Becomes(c, p) ==
  /\ p \in Pollers /\ p.pc # "off" /\ (p.pc = "readSession" => p.attempt < MaxAttempts)
  /\ poller' = [poller EXCEPT ![c] = p]

LEMMA PollerTypes ==
  ASSUME TypeOK, NEW c \in Clients
  PROVE /\ poller[c] \in Pollers /\ poller[c].pc \in PollerPcs /\ poller[c].attempt \in 0..MaxAttempts
        /\ poller[c].session \in Someone /\ poller[c].pid \in Someone /\ poller[c].mine \in BOOLEAN
        /\ session \in Someone /\ rootPid \in Someone
        /\ {"readStatus", "readPid", "readSession", "dead", "writePid", "writeState", "announce"} \subseteq PollerPcs
BY DEF TypeOK, Pollers, PollerPcs, Commands

LEMMA ReadsSession ==
  ASSUME TypeOK, Polls, NEW c \in Clients, PollerReadsSession(c)
  PROVE \E p : Becomes(c, p) /\ p.pc = "readStatus" /\ p.mine = poller[c].mine
<1> DEFINE q == poller[c]
           q1 == [q EXCEPT !.pc = "readStatus"]
           q2 == [q1 EXCEPT !.attempt = q1.attempt + 1]
           q3 == [q2 EXCEPT !.session = session]
<1>1. poller[c].pc = "readSession" /\ poller' = [poller EXCEPT ![c] = q3]
  BY DEF PollerReadsSession, Reads
<1>2. q1 \in Pollers /\ q1.pc = "readStatus" /\ q1.attempt = poller[c].attempt /\ q1.mine = poller[c].mine
  BY PollerTypes, PollerFields
<1> HIDE DEF q1
<1>3. q2 \in Pollers /\ q2.pc = "readStatus" /\ q2.mine = poller[c].mine
  <2>1. q1.attempt + 1 \in 0..MaxAttempts
    BY <1>1, <1>2, PollerTypes, Parameters DEF Polls
  <2>2. QED BY <2>1, <1>2, PollerFields
<1> HIDE DEF q2
<1>4. q3 \in Pollers /\ q3.pc = "readStatus" /\ q3.mine = poller[c].mine
  BY <1>3, PollerFields, PollerTypes
<1>5. QED BY <1>1, <1>4 DEF Becomes

LEMMA ReadsStatus ==
  ASSUME TypeOK, NEW c \in Clients, PollerReadsStatus(c)
  PROVE \E p : /\ Becomes(c, p) /\ p.pc = "readPid"
               /\ p.mine <=> LET r == Report(poller[c].session) IN Granted /\ r.request = c /\ r.verified
<1> DEFINE q == poller[c]
           r == Report(poller[c].session)
           b == Granted /\ r.request = c /\ r.verified
           q1 == [q EXCEPT !.pc = "readPid"]
           q2 == [q1 EXCEPT !.mine = b]
<1>1. poller' = [poller EXCEPT ![c] = q2]
  BY DEF PollerReadsStatus, Reads
<1>2. b \in BOOLEAN
  BY Zenon
<1>3. q1 \in Pollers /\ q1.pc = "readPid"
  BY PollerTypes, PollerFields
<1> HIDE DEF b, q1
<1>4. q2 \in Pollers /\ q2.pc = "readPid" /\ q2.mine = b
  BY <1>2, <1>3, PollerFields
<1>5. QED BY <1>1, <1>4 DEF Becomes, b

LEMMA ReadsPid ==
  ASSUME TypeOK, Polls, NEW c \in Clients, PollerReadsPid(c)
  PROVE \E p : /\ Becomes(c, p) /\ p.mine = poller[c].mine
               /\ \/ p.pc \in {"writePid", "writeState"} /\ p.mine /\ p.pid = rootPid
                  \/ p.pc \in {"readSession", "dead"} /\ ~p.mine
<1> DEFINE q == poller[c]
           x == IF rootPid # None THEN "writePid" ELSE "writeState"
           y == IF q.attempt < MaxAttempts THEN "readSession" ELSE "dead"
           q1 == [q EXCEPT !.pc = x]
           q2 == [q1 EXCEPT !.pid = rootPid]
           q3 == [q EXCEPT !.pc = y]
<1>1. poller' = [poller EXCEPT ![c] = IF poller[c].mine THEN q2 ELSE q3]
  BY DEF PollerReadsPid, Reads
<1>2. x \in PollerPcs /\ y \in PollerPcs
  BY PollerTypes
<1> HIDE DEF x, y
<1>3. q1 \in Pollers /\ q1.pc = x /\ q1.mine = poller[c].mine
  BY <1>2, PollerTypes, PollerFields
<1> HIDE DEF q1
<1>4. q2 \in Pollers /\ q2.pc = x /\ q2.mine = poller[c].mine /\ q2.pid = rootPid
  BY <1>3, PollerTypes, PollerFields
<1>5. q3 \in Pollers /\ q3.pc = y /\ q3.mine = poller[c].mine /\ q3.attempt = poller[c].attempt
  BY <1>2, PollerTypes, PollerFields
<1> HIDE DEF q2, q3
<1>6. CASE poller[c].mine
  BY <1>6, <1>1, <1>4 DEF Becomes, x
<1>7. CASE ~poller[c].mine
  BY <1>7, <1>1, <1>5 DEF Becomes, y
<1>8. QED BY <1>6, <1>7

LEMMA Acts ==
  ASSUME TypeOK, NEW c \in Clients, PollerActs(c)
  PROVE \E p : /\ Becomes(c, p) /\ p.mine = poller[c].mine /\ p.pid = poller[c].pid
               /\ \/ p.pc = "writeState" /\ poller[c].pc = "writePid"
                  \/ p.pc = "announce" /\ poller[c].pc = "writeState"
                  \/ p.pc = "dead" /\ poller[c].pc = "announce"
<1> DEFINE q == poller[c]
           x == CASE q.pc = "writePid"   -> "writeState"
                  [] q.pc = "writeState" -> "announce"
                  [] q.pc = "announce"   -> "dead"
           q1 == [q EXCEPT !.pc = x]
<1>1. poller[c].pc \in Commands /\ poller' = [poller EXCEPT ![c] = q1]
  BY DEF PollerActs
<1>2. \/ poller[c].pc = "writePid" /\ x = "writeState"
      \/ poller[c].pc = "writeState" /\ x = "announce"
      \/ poller[c].pc = "announce" /\ x = "dead"
  BY <1>1 DEF Commands
<1> HIDE DEF x
<1>3. q1 \in Pollers /\ q1.pc = x /\ q1.mine = poller[c].mine /\ q1.pid = poller[c].pid
  BY <1>2, PollerTypes, PollerFields
<1> HIDE DEF q1
<1>4. QED BY <1>1, <1>2, <1>3 DEF Becomes

LEMMA Submits ==
  ASSUME TypeOK, Polls, NEW c \in Clients, Submit(c), poller[c].pc = "off"
  PROVE poller' = poller \/ \E p : Becomes(c, p) /\ p.pc = "readSession" /\ p.mine = poller[c].mine
<1> DEFINE q == poller[c]
           q1 == [q EXCEPT !.pc = "readSession"]
<1>1. poller' = poller \/ poller' = [poller EXCEPT ![c] = q1]
  BY DEF Submit
<1>2. q1 \in Pollers /\ q1.pc = "readSession" /\ q1.mine = poller[c].mine /\ q1.attempt = poller[c].attempt
  BY PollerTypes, PollerFields
<1>3. q1.attempt < MaxAttempts
  BY <1>2, Parameters DEF Polls
<1>4. QED BY <1>1, <1>2, <1>3 DEF Becomes

LEMMA Joins ==
  ASSUME TypeOK, NEW c \in Clients, Join(c)
  PROVE \E p : Becomes(c, p) /\ p.pc = "dead" /\ p.mine = poller[c].mine
<1> DEFINE q == poller[c]
           q1 == [q EXCEPT !.pc = "dead"]
<1>1. poller' = [poller EXCEPT ![c] = q1]
  BY DEF Join
<1>2. q1 \in Pollers /\ q1.pc = "dead" /\ q1.mine = poller[c].mine
  BY PollerTypes, PollerFields
<1>3. QED BY <1>1, <1>2 DEF Becomes

LEMMA RefusalLines ==
  ASSUME NEW why \in DOMAIN Refusal
  PROVE Refusal[why] \in {{"prefixed"}, {"prefixed", "other"}}
BY DEF Refusal

Events == {"connected", "disconnected"} \X Clients

(* One more announcement. *)
LEMMA Announced ==
  ASSUME said \in Seq(Events), NEW e \in Events
  PROVE /\ Append(said, e) \in Seq(Events) /\ Len(Append(said, e)) = Len(said) + 1
        /\ \A i \in 1..Len(said) : Append(said, e)[i] = said[i]
        /\ Append(said, e)[Len(said) + 1] = e
OBVIOUS

LEMMA EventTypes ==
  /\ TypeOK => said \in Seq(Events)
  /\ \A c \in Clients : <<"connected", c>> \in Events /\ <<"disconnected", c>> \in Events
BY DEF TypeOK, Events

LEMMA EffectTypes ==
  ASSUME TypeOK, NEW c \in Clients, NEW command \in Commands, Effect(c, command)
  PROVE /\ pidFile' \in Someone /\ stateFile' \in Someone
        /\ said' \in Seq(Events)
<1>1. pidFile' \in Someone /\ stateFile' \in Someone
  BY PollerTypes DEF Effect, TypeOK, Someone
<1>2. said' \in Seq(Events)
  BY EventTypes, Announced DEF Effect
<1>3. QED BY <1>1, <1>2

LEMMA Concludes ==
  ASSUME TypeOK, NEW c \in Clients, Conclude(c)
  PROVE \E o \in {"ended", "failed", "policy"} :
          /\ outcome' = [outcome EXCEPT ![c] = o]
          /\ o = "policy" => verdict[c] # "1" /\ ~LogHadTunnel(c)
<1> DEFINE had == verdict[c] = "1" \/ LogHadTunnel(c)
           o(rc) == CASE rc = 0 -> "ended" [] rc # 0 /\ had -> "failed" [] rc # 0 /\ ~had -> "policy"
<1>1. PICK rc \in {0, 1} : outcome' = [outcome EXCEPT ![c] = o(rc)]
  BY DEF Conclude
<1>2. had \in BOOLEAN
  BY DEF LogHadTunnel
<1> HIDE DEF had
<1>3. o(rc) \in {"ended", "failed", "policy"} /\ (o(rc) = "policy" => ~had)
  BY <1>2
<1>4. QED BY <1>1, <1>3 DEF had

LEMMA TypesKept ==
  ASSUME TypeOK, Polls, Stages, [Next]_vars
  PROVE TypeOK' /\ Polls'
<1> USE DEF Someone, Held
<1>1. CASE UNCHANGED vars
  BY <1>1 DEF TypeOK, Polls, vars, local, root, user
<1>2. CASE Stop
  BY <1>2 DEF TypeOK, Polls, Stop, local, user
<1>3. ASSUME NEW c \in Clients, Actions(c) PROVE TypeOK' /\ Polls'
  <2>0. ASSUME NEW p, Becomes(c, p)
        PROVE poller' \in [Clients -> Pollers] /\ Polls'
    BY <2>0 DEF TypeOK, Polls, Becomes
  <2>1. CASE Refuse(c)
    <3>1. PICK why \in DOMAIN Refusal : lines' = [lines EXCEPT ![c] = Refusal[why]]
      BY <2>1 DEF Refuse
    <3>2. QED BY <2>1, <3>1, RefusalLines DEF TypeOK, Polls, Refuse, local, root, user
  <2>2. CASE Lock(c)
    BY <2>2 DEF TypeOK, Polls, Lock, GoesOn, local, root, user
  <2>3. CASE WriteSession(c)
    BY <2>3 DEF TypeOK, Polls, WriteSession, GoesOn, local, root, user
  <2>4. CASE WriteStatus(c)
    BY <2>4 DEF TypeOK, Polls, WriteStatus, GoesOn, Statuses, local, root, user
  <2>5. CASE RecordPid(c)
    BY <2>5 DEF TypeOK, Polls, RecordPid, GoesOn, local, root, user
  <2>6. CASE Exec(c)
    <3>1. PICK printed \in SUBSET {"prefixed", "other"} : lines' = [lines EXCEPT ![c] = printed]
      BY <2>6 DEF Exec
    <3>2. lines' \in [Clients -> SUBSET {"prefixed", "other"}]
      BY <3>1 DEF TypeOK
    <3>3. QED BY <2>6, <3>2 DEF TypeOK, Polls, Exec, GoesOn, local, root, user
  <2>7. CASE ConnectFails(c)
    BY <2>7 DEF TypeOK, Polls, ConnectFails, Step, ClientPcs, local, root, user
  <2>8. CASE TunnelUp(c)
    BY <2>8 DEF TypeOK, Polls, TunnelUp, Record, Statuses, local, root, user
  <2>9. CASE TunnelDown(c)
    BY <2>9 DEF TypeOK, Polls, TunnelDown, Record, Statuses, local, root, user
  <2>10. CASE TunnelEnds(c)
    BY <2>10 DEF TypeOK, Polls, TunnelEnds, GoesOn, local, root, user
  <2>11. CASE PollerReadsSession(c)
    <3>1. poller' \in [Clients -> Pollers] /\ Polls'
      BY <2>11, <2>0, ReadsSession
    <3>2. QED BY <2>11, <3>1 DEF TypeOK, PollerReadsSession, Reads, local, root, user
  <2>12. CASE PollerReadsStatus(c)
    <3>1. poller' \in [Clients -> Pollers] /\ Polls'
      BY <2>12, <2>0, ReadsStatus
    <3>2. QED BY <2>12, <3>1 DEF TypeOK, PollerReadsStatus, Reads, local, root, user
  <2>13. CASE PollerReadsPid(c)
    <3>1. poller' \in [Clients -> Pollers] /\ Polls'
      BY <2>13, <2>0, ReadsPid
    <3>2. QED BY <2>13, <3>1 DEF TypeOK, PollerReadsPid, Reads, local, root, user
  <2>14. CASE PollerActs(c)
    <3>1. poller' \in [Clients -> Pollers] /\ Polls'
      BY <2>14, <2>0, Acts
    <3>2. QED BY <2>14, <3>1, EffectTypes DEF TypeOK, Events, PollerActs, local, root
  <2>15. CASE OrphanActs(c)
    BY <2>15, EffectTypes DEF TypeOK, Events, Polls, OrphanActs, local, root
  <2>16. CASE Start(c)
    <3>1. hasId' \in [Clients -> BOOLEAN]
      BY <2>16 DEF Start, TypeOK
    <3>2. QED BY <2>16, <3>1 DEF TypeOK, Polls, Start, Step, ClientPcs, root, user
  <2>17. CASE AuthFails(c)
    BY <2>17 DEF TypeOK, Polls, AuthFails, Step, ClientPcs, local, root, user
  <2>18. CASE Submit(c)
    <3>1. poller[c].pc = "off"
      BY <2>18 DEF Submit, Step, Stages
    <3>2. poller' \in [Clients -> Pollers] /\ Polls'
      <4>1. CASE poller' = poller
        BY <4>1 DEF TypeOK, Polls
      <4>2. QED BY <4>1, <2>0, <3>1, <2>18, Submits
    <3>3. QED BY <2>18, <3>2 DEF TypeOK, Submit, Step, ClientPcs, local, root, user
  <2>19. CASE PipeEnds(c)
    BY <2>19 DEF TypeOK, Polls, PipeEnds, Step, ClientPcs, local, root, user
  <2>20. CASE Join(c)
    <3>1. poller' \in [Clients -> Pollers] /\ Polls'
      BY <2>20, <2>0, Joins
    <3>2. QED BY <2>20, <3>1 DEF TypeOK, Join, Step, ClientPcs, local, root, user
  <2>21. CASE Remove(c)
    BY <2>21 DEF TypeOK, Polls, Remove, Step, ClientPcs, local, root, user
  <2>22. CASE FinalReadsSession(c)
    BY <2>22 DEF TypeOK, Polls, FinalReadsSession, Step, ClientPcs, local, root, user
  <2>23. CASE FinalReadsStatus(c)
    BY <2>23 DEF TypeOK, Polls, FinalReadsStatus, Step, ClientPcs, local, root, user
  <2>24. CASE Conclude(c)
    <3>1. outcome' \in [Clients -> {"", "preauth", "ended", "policy", "failed"}]
      BY <2>24, Concludes DEF TypeOK
    <3>2. said' \in Seq(Events)
      BY <2>24, EventTypes, Announced DEF Conclude
    <3>3. QED BY <2>24, <3>1, <3>2 DEF TypeOK, Events, Polls, Conclude, Step, ClientPcs,
      root, user
  <2>25. CASE Killed(c)
    BY <2>25 DEF TypeOK, Polls, Killed, Step, ClientPcs, local, root, user
  <2> QED BY <1>3, <2>1, <2>2, <2>3, <2>4, <2>5, <2>6, <2>7, <2>8, <2>9, <2>10, <2>11,
      <2>12, <2>13, <2>14, <2>15, <2>16, <2>17, <2>18, <2>19, <2>20, <2>21, <2>22, <2>23,
      <2>24, <2>25 DEF Actions
<1> QED BY <1>1, <1>2, <1>3, StepCases

(* Whoever gets the lock finds it free. *)
LEMMA OneHeldKept ==
  ASSUME TypeOK, OneHeld, [Next]_vars
  PROVE OneHeld'
<1> USE DEF Held
<1>0. /\ helper \in [Clients -> Held \cup {"off", "asked", "over"}]
  BY DEF TypeOK
<1>1. CASE UNCHANGED vars
  BY <1>1 DEF vars, local, root, user, OneHeld, LockFree
<1>2. CASE Stop
  BY <1>2 DEF Stop, OneHeld, LockFree
<1>3. ASSUME NEW c \in Clients, Actions(c) PROVE OneHeld'
  <2>1. CASE \/ TunnelUp(c) \/ TunnelDown(c) \/ PollerReadsSession(c)
            \/ PollerReadsStatus(c) \/ PollerReadsPid(c) \/ PollerActs(c) \/ OrphanActs(c)
            \/ Start(c) \/ AuthFails(c) \/ PipeEnds(c) \/ Join(c) \/ Remove(c)
            \/ FinalReadsSession(c) \/ FinalReadsStatus(c) \/ Conclude(c) \/ Killed(c)
    BY <2>1, <1>0 DEF TunnelUp, Record, TunnelDown, PollerReadsSession, Reads,
      PollerReadsStatus, PollerReadsPid, PollerActs, OrphanActs, Start, Step, AuthFails,
      PipeEnds, Join, Remove, FinalReadsSession, FinalReadsStatus, Conclude, Killed,
      OneHeld, LockFree
  <2>2. CASE Refuse(c)
    BY <2>2, <1>0 DEF Refuse, OneHeld, LockFree
  <2>3. CASE Lock(c)
    BY <2>3, <1>0 DEF Lock, GoesOn, OneHeld, LockFree
  <2>4. CASE WriteSession(c)
    BY <2>4, <1>0 DEF WriteSession, GoesOn, OneHeld, LockFree
  <2>5. CASE WriteStatus(c)
    BY <2>5, <1>0 DEF WriteStatus, GoesOn, OneHeld, LockFree
  <2>6. CASE RecordPid(c)
    BY <2>6, <1>0 DEF RecordPid, GoesOn, OneHeld, LockFree
  <2>7. CASE Exec(c)
    BY <2>7, <1>0 DEF Exec, GoesOn, OneHeld, LockFree
  <2>8. CASE ConnectFails(c)
    BY <2>8, <1>0 DEF ConnectFails, OneHeld, LockFree
  <2>9. CASE TunnelEnds(c)
    BY <2>9, <1>0 DEF TunnelEnds, GoesOn, OneHeld, LockFree
  <2>10. CASE Submit(c)
    BY <2>10, <1>0 DEF Submit, Step, OneHeld, LockFree
  <2> QED BY <1>3, <2>1, <2>2, <2>3, <2>4, <2>5, <2>6, <2>7, <2>8, <2>9, <2>10 DEF Actions
<1> QED BY <1>1, <1>2, <1>3, StepCases

(* Each step takes a client, its helper and its poller to stages that go together. *)
LEMMA StagesKept ==
  ASSUME TypeOK, Polls, Stages, [Next]_vars
  PROVE Stages'
<1> USE DEF Held, Commands
<1>0. /\ client \in [Clients -> ClientPcs]
      /\ helper \in [Clients -> Held \cup {"off", "asked", "over"}]
      /\ poller \in [Clients -> Pollers]
      /\ hasId \in [Clients -> BOOLEAN]
      /\ verdict \in [Clients -> {"", "0", "1"}]
  BY DEF TypeOK
<1>1. CASE UNCHANGED vars
  BY <1>1 DEF vars, local, root, user, Stages
<1>2. CASE Stop
  BY <1>2 DEF Stop, Stages, local
<1>3. ASSUME NEW c \in Clients, Actions(c) PROVE Stages'
  <2>1. CASE \/ TunnelUp(c) \/ TunnelDown(c) \/ OrphanActs(c)
    BY <2>1, <1>0 DEF TunnelUp, Record, TunnelDown, OrphanActs, Stages, local
  <2>2. CASE Refuse(c)
    BY <2>2, <1>0 DEF Refuse, Stages, local
  <2>3. CASE Lock(c)
    BY <2>3, <1>0 DEF Lock, GoesOn, Stages, local
  <2>4. CASE WriteSession(c)
    BY <2>4, <1>0 DEF WriteSession, GoesOn, Stages, local
  <2>5. CASE WriteStatus(c)
    BY <2>5, <1>0 DEF WriteStatus, GoesOn, Stages, local
  <2>6. CASE RecordPid(c)
    BY <2>6, <1>0 DEF RecordPid, GoesOn, Stages, local
  <2>7. CASE Exec(c)
    BY <2>7, <1>0 DEF Exec, GoesOn, Stages, local
  <2>8. CASE ConnectFails(c)
    BY <2>8, <1>0 DEF ConnectFails, Stages, local
  <2>9. CASE TunnelEnds(c)
    BY <2>9, <1>0 DEF TunnelEnds, GoesOn, Stages, local
  <2>10. CASE PollerReadsSession(c)
    BY <2>10, <1>0, ReadsSession DEF PollerReadsSession, Reads, Becomes, Stages, local
  <2>11. CASE PollerReadsStatus(c)
    <3>1. PICK p : Becomes(c, p) /\ p.pc = "readPid"
      BY <2>11, ReadsStatus
    <3>2. QED BY <2>11, <1>0, <3>1 DEF PollerReadsStatus, Reads, Becomes, Stages, local
  <2>12. CASE PollerReadsPid(c)
    BY <2>12, <1>0, ReadsPid DEF PollerReadsPid, Reads, Becomes, Stages, local
  <2>13. CASE PollerActs(c)
    BY <2>13, <1>0, Acts DEF PollerActs, Becomes, Stages, local
  <2>14. CASE Start(c)
    BY <2>14, <1>0 DEF Start, Step, Stages, local
  <2>15. CASE AuthFails(c)
    BY <2>15, <1>0 DEF AuthFails, Step, Stages, local
  <2>16. CASE Submit(c)
    <3>1. poller[c].pc = "off"
      BY <2>16, <1>0 DEF Submit, Step, Stages
    <3>2. QED BY <2>16, <1>0, <3>1, Submits DEF Submit, Step, Becomes, Stages, local
  <2>17. CASE PipeEnds(c)
    BY <2>17, <1>0 DEF PipeEnds, Step, Stages, local
  <2>18. CASE Join(c)
    <3>1. PICK p : Becomes(c, p) /\ p.pc = "dead"
      BY <2>18, Joins
    <3>2. QED BY <2>18, <1>0, <3>1 DEF Join, Step, Becomes, Stages, local
  <2>19. CASE Remove(c)
    BY <2>19, <1>0 DEF Remove, Step, Stages, local
  <2>20. CASE FinalReadsSession(c)
    BY <2>20, <1>0 DEF FinalReadsSession, Step, Stages, local
  <2>21. CASE FinalReadsStatus(c)
    BY <2>21, <1>0 DEF FinalReadsStatus, Step, Stages, local
  <2>22. CASE Conclude(c)
    BY <2>22, <1>0 DEF Conclude, Step, Stages, local
  <2>23. CASE Killed(c)
    BY <2>23, <1>0 DEF Killed, Stages, local
  <2> QED BY <1>3, <2>1, <2>2, <2>3, <2>4, <2>5, <2>6, <2>7, <2>8, <2>9, <2>10, <2>11,
      <2>12, <2>13, <2>14, <2>15, <2>16, <2>17, <2>18, <2>19, <2>20, <2>21, <2>22, <2>23 DEF
      Actions
<1> QED BY <1>1, <1>2, <1>3, StepCases

(* Nothing is refused to whoever runs OpenConnect. *)
LEMMA RunsKept ==
  ASSUME TypeOK, Stages, Telemetry, Runs, [Next]_vars
  PROVE Runs'
<1> USE DEF Held
<1>0. /\ helper \in [Clients -> Held \cup {"off", "asked", "over"}]
      /\ lines \in [Clients -> SUBSET {"prefixed", "other"}]
      /\ confirmed \in SUBSET Clients
      /\ ran \in SUBSET Clients
  BY DEF TypeOK
<1>1. CASE UNCHANGED vars
  BY <1>1 DEF vars, local, root, user, Runs
<1>2. CASE Stop
  BY <1>2 DEF Stop, Runs
<1>3. ASSUME NEW c \in Clients, Actions(c) PROVE Runs'
  <2>1. CASE \/ TunnelDown(c) \/ PollerReadsSession(c) \/ PollerReadsStatus(c)
            \/ PollerReadsPid(c) \/ PollerActs(c) \/ OrphanActs(c) \/ Start(c)
            \/ AuthFails(c) \/ PipeEnds(c) \/ Join(c) \/ Remove(c) \/ FinalReadsSession(c)
            \/ FinalReadsStatus(c) \/ Conclude(c) \/ Killed(c)
    BY <2>1, <1>0 DEF TunnelDown, Record, PollerReadsSession, Reads, PollerReadsStatus,
      PollerReadsPid, PollerActs, OrphanActs, Start, Step, AuthFails, PipeEnds, Join,
      Remove, FinalReadsSession, FinalReadsStatus, Conclude, Killed, Runs
  <2>2. CASE Refuse(c)
    BY <2>2, <1>0 DEF Refuse, Runs
  <2>3. CASE Lock(c)
    BY <2>3, <1>0 DEF Lock, GoesOn, Runs
  <2>4. CASE WriteSession(c)
    BY <2>4, <1>0 DEF WriteSession, GoesOn, Runs
  <2>5. CASE WriteStatus(c)
    BY <2>5, <1>0 DEF WriteStatus, GoesOn, Runs
  <2>6. CASE RecordPid(c)
    BY <2>6, <1>0 DEF RecordPid, GoesOn, Runs
  <2>7. CASE Exec(c)
    BY <2>7, <1>0 DEF Exec, GoesOn, Runs
  <2>8. CASE ConnectFails(c)
    BY <2>8, <1>0 DEF ConnectFails, Runs
  <2>9. CASE TunnelUp(c)
    BY <2>9, <1>0 DEF TunnelUp, Record, Runs, Telemetry
  <2>10. CASE TunnelEnds(c)
    BY <2>10, <1>0 DEF TunnelEnds, GoesOn, Runs
  <2>11. CASE Submit(c)
    BY <2>11, <1>0 DEF Submit, Step, Runs, Stages
  <2> QED BY <1>3, <2>1, <2>2, <2>3, <2>4, <2>5, <2>6, <2>7, <2>8, <2>9, <2>10, <2>11 DEF
      Actions
<1> QED BY <1>1, <1>2, <1>3, StepCases

(* Whoever writes the telemetry is past the lock. *)
LEMMA TelemetryKept ==
  ASSUME TypeOK, OneHeld, Telemetry, [Next]_vars
  PROVE Telemetry'
<1> USE DEF Held
<1>0. /\ helper \in [Clients -> Held \cup {"off", "asked", "over"}]
      /\ session \in Someone
      /\ status \in Statuses
      /\ rootPid \in Someone
      /\ confirmed \in SUBSET Clients
      /\ ran \in SUBSET Clients
  BY DEF TypeOK
<1>1. CASE UNCHANGED vars
  BY <1>1 DEF vars, local, root, user, Telemetry, LockFree, OneHeld, Statuses, Someone
<1>2. CASE Stop
  BY <1>2, Parameters DEF Stop, Telemetry, LockFree, OneHeld, Statuses, Someone, root
<1>3. ASSUME NEW c \in Clients, Actions(c) PROVE Telemetry'
  <2>1. CASE \/ PollerReadsSession(c) \/ PollerReadsStatus(c) \/ PollerReadsPid(c)
            \/ PollerActs(c) \/ OrphanActs(c) \/ Start(c) \/ AuthFails(c) \/ PipeEnds(c)
            \/ Join(c) \/ Remove(c) \/ FinalReadsSession(c) \/ FinalReadsStatus(c)
            \/ Conclude(c) \/ Killed(c)
    BY <2>1, <1>0 DEF PollerReadsSession, Reads, PollerReadsStatus, PollerReadsPid,
      PollerActs, OrphanActs, Start, Step, AuthFails, PipeEnds, Join, Remove,
      FinalReadsSession, FinalReadsStatus, Conclude, Killed, Telemetry, LockFree, OneHeld,
      Statuses, Someone, root
  <2>2. CASE Refuse(c)
    BY <2>2, <1>0, Parameters DEF Refuse, Telemetry, LockFree, OneHeld, Statuses, Someone,
      root
  <2>3. CASE Lock(c)
    BY <2>3, <1>0, Parameters DEF Lock, GoesOn, Telemetry, LockFree, OneHeld, Statuses,
      Someone, root
  <2>4. CASE WriteSession(c)
    BY <2>4, <1>0, Parameters DEF WriteSession, GoesOn, Telemetry, LockFree, OneHeld,
      Statuses, Someone, root
  <2>5. CASE WriteStatus(c)
    BY <2>5, <1>0, Parameters DEF WriteStatus, GoesOn, Telemetry, LockFree, OneHeld,
      Statuses, Someone, root
  <2>6. CASE RecordPid(c)
    BY <2>6, <1>0, Parameters DEF RecordPid, GoesOn, Telemetry, LockFree, OneHeld, Statuses,
      Someone, root
  <2>7. CASE Exec(c)
    BY <2>7, <1>0, Parameters DEF Exec, GoesOn, Telemetry, LockFree, OneHeld, Statuses,
      Someone, root
  <2>8. CASE ConnectFails(c)
    BY <2>8, <1>0, Parameters DEF ConnectFails, Telemetry, LockFree, OneHeld, Statuses,
      Someone, root
  <2>9. CASE TunnelUp(c)
    BY <2>9, <1>0, Parameters DEF TunnelUp, Record, Telemetry, LockFree, OneHeld, Statuses,
      Someone, root
  <2>10. CASE TunnelDown(c)
    BY <2>10, <1>0, Parameters DEF TunnelDown, Record, Telemetry, LockFree, OneHeld,
      Statuses, Someone, root
  <2>11. CASE TunnelEnds(c)
    BY <2>11, <1>0, Parameters DEF TunnelEnds, GoesOn, Telemetry, LockFree, OneHeld,
      Statuses, Someone, root
  <2>12. CASE Submit(c)
    BY <2>12, <1>0, Parameters DEF Submit, Step, Telemetry, LockFree, OneHeld, Statuses,
      Someone, root
  <2> QED BY <1>3, <2>1, <2>2, <2>3, <2>4, <2>5, <2>6, <2>7, <2>8, <2>9, <2>10, <2>11, <2>12
      DEF Actions
<1> QED BY <1>1, <1>2, <1>3, StepCases

LEMMA SaidStays ==
  ASSUME said' = said
  PROVE \A what, d : Said(what, d)' <=> Said(what, d)
BY DEF Said

(* An announcement is made, all others are what they were. *)
LEMMA SaidNow ==
  ASSUME TypeOK, NEW e \in Events, said' = Append(said, e)
  PROVE \A what, d : Said(what, d)' <=> Said(what, d) \/ e = <<what, d>>
<1>1. /\ Len(said) \in Nat /\ Len(said') = Len(said) + 1
      /\ \A i \in 1..Len(said) : said'[i] = said[i]
      /\ said'[Len(said) + 1] = e
  BY EventTypes, Announced
<1>2. ASSUME NEW what, NEW d, Said(what, d)' PROVE Said(what, d) \/ e = <<what, d>>
  <2>1. PICK i \in 1..Len(said') : said'[i] = <<what, d>>
    BY <1>2 DEF Said
  <2>2. i \in 1..Len(said) \/ i = Len(said) + 1
    BY <1>1
  <2>3. QED BY <2>1, <2>2, <1>1 DEF Said
<1>3. ASSUME NEW what, NEW d, Said(what, d) PROVE Said(what, d)'
  <2>1. PICK i \in 1..Len(said) : said[i] = <<what, d>>
    BY <1>3 DEF Said
  <2>2. i \in 1..Len(said')
    BY <1>1
  <2>3. QED BY <2>1, <2>2, <1>1 DEF Said
<1>4. ASSUME NEW what, NEW d, e = <<what, d>> PROVE Said(what, d)'
  <2>1. Len(said) + 1 \in 1..Len(said')
    BY <1>1
  <2>2. QED BY <2>1, <1>1, <1>4 DEF Said
<1>5. QED BY <1>2, <1>3, <1>4

LEMMA SaidByCommand ==
  ASSUME TypeOK, NEW c \in Clients, NEW command \in Commands, Effect(c, command)
  PROVE \A d : /\ Said("connected", d)' <=> Said("connected", d) \/ (command = "announce" /\ d = c)
               /\ Said("disconnected", d)' <=> Said("disconnected", d)
<1>1. CASE command = "announce"
  <2>1. said' = Append(said, <<"connected", c>>) /\ <<"connected", c>> \in Events
    BY <1>1, EventTypes DEF Effect
  <2>2. \A what, d : Said(what, d)' <=> Said(what, d) \/ <<"connected", c>> = <<what, d>>
    BY <2>1, SaidNow
  <2>3. /\ \A d : Said("connected", d)' <=> Said("connected", d) \/ <<"connected", c>> = <<"connected", d>>
        /\ \A d : Said("disconnected", d)' <=> Said("disconnected", d) \/ <<"connected", c>> = <<"disconnected", d>>
    BY <2>2, Zenon
  <2>4. QED BY <1>1, <2>3
<1>2. CASE command # "announce"
  <2>1. said' = said
    BY <1>2 DEF Effect
  <2>2. QED BY <1>2, <2>1, SaidStays, Zenon
<1>3. QED BY <1>1, <1>2

LEMMA SaidAtTheEnd ==
  ASSUME TypeOK, NEW c \in Clients, Conclude(c)
  PROVE \A d : /\ Said("connected", d)' <=> Said("connected", d)
               /\ Said("disconnected", d)' => Said("disconnected", d) \/ d = c
               /\ Said("disconnected", d) => Said("disconnected", d)'
               /\ verdict[c] = "1" \/ LogHadTunnel(c) => Said("disconnected", c)'
<1>1. CASE verdict[c] = "1" \/ LogHadTunnel(c)
  BY <1>1, SaidNow, EventTypes DEF Conclude
<1>2. CASE ~(verdict[c] = "1" \/ LogHadTunnel(c))
  BY <1>2, SaidStays DEF Conclude
<1>3. QED BY <1>1, <1>2

(* A verdict is read from the telemetry of the session. *)
LEMMA VerdictIsGenuineKept ==
  ASSUME TypeOK, Telemetry, VerdictIsGenuine, [Next]_vars
  PROVE VerdictIsGenuine'
<1>0. /\ verdict \in [Clients -> {"", "0", "1"}]
      /\ confirmed \in SUBSET Clients
  BY DEF TypeOK
<1>1. CASE UNCHANGED vars
  BY <1>1 DEF vars, local, root, user, VerdictIsGenuine
<1>2. CASE Stop
  BY <1>2, Parameters DEF Stop, VerdictIsGenuine, local
<1>3. ASSUME NEW c \in Clients, Actions(c) PROVE VerdictIsGenuine'
  <2>1. CASE \/ Refuse(c) \/ Lock(c) \/ WriteSession(c) \/ WriteStatus(c) \/ RecordPid(c)
            \/ Exec(c) \/ ConnectFails(c) \/ TunnelDown(c) \/ TunnelEnds(c)
            \/ PollerReadsSession(c) \/ PollerReadsStatus(c) \/ PollerReadsPid(c)
            \/ PollerActs(c) \/ OrphanActs(c) \/ Start(c) \/ AuthFails(c) \/ Submit(c)
            \/ PipeEnds(c) \/ Join(c) \/ Remove(c) \/ FinalReadsSession(c) \/ Conclude(c)
            \/ Killed(c)
    BY <2>1, <1>0 DEF Refuse, Lock, GoesOn, WriteSession, WriteStatus, RecordPid, Exec,
      ConnectFails, TunnelDown, Record, TunnelEnds, PollerReadsSession, Reads,
      PollerReadsStatus, PollerReadsPid, PollerActs, OrphanActs, Start, Step, AuthFails,
      Submit, PipeEnds, Join, Remove, FinalReadsSession, Conclude, Killed, VerdictIsGenuine,
      local
  <2>2. CASE TunnelUp(c)
    BY <2>2, <1>0, Parameters DEF TunnelUp, Record, VerdictIsGenuine, local
  <2>3. CASE FinalReadsStatus(c)
    BY <2>3, <1>0, Parameters DEF FinalReadsStatus, Step, VerdictIsGenuine, local, Verified,
      Report, NoRecord, Telemetry
  <2> QED BY <1>3, <2>1, <2>2, <2>3 DEF Actions
<1> QED BY <1>1, <1>2, <1>3, StepCases

(* Nobody is admitted while another is at work. *)
LEMMA OneActiveKept ==
  ASSUME TypeOK, OneActive, [Next]_vars
  PROVE OneActive'
<1>0. /\ client \in [Clients -> ClientPcs]
  BY DEF TypeOK
<1>1. CASE UNCHANGED vars
  BY <1>1 DEF vars, local, root, user, OneActive, NobodyKilled, Active, ClientPcs
<1>2. CASE Stop
  BY <1>2 DEF Stop, OneActive, NobodyKilled, Active, ClientPcs
<1>3. ASSUME NEW c \in Clients, Actions(c) PROVE OneActive'
  <2>1. CASE \/ Refuse(c) \/ Lock(c) \/ WriteSession(c) \/ WriteStatus(c) \/ RecordPid(c)
            \/ Exec(c) \/ ConnectFails(c) \/ TunnelUp(c) \/ TunnelDown(c) \/ TunnelEnds(c)
            \/ PollerReadsSession(c) \/ PollerReadsStatus(c) \/ PollerReadsPid(c)
            \/ PollerActs(c) \/ OrphanActs(c)
    BY <2>1, <1>0 DEF Refuse, Lock, GoesOn, WriteSession, WriteStatus, RecordPid, Exec,
      ConnectFails, TunnelUp, Record, TunnelDown, TunnelEnds, PollerReadsSession, Reads,
      PollerReadsStatus, PollerReadsPid, PollerActs, OrphanActs, OneActive, NobodyKilled,
      Active, ClientPcs
  <2>2. CASE Start(c)
    BY <2>2, <1>0 DEF Start, Step, OneActive, NobodyKilled, Active, ClientPcs
  <2>3. CASE AuthFails(c)
    BY <2>3, <1>0 DEF AuthFails, Step, OneActive, NobodyKilled, Active, ClientPcs
  <2>4. CASE Submit(c)
    BY <2>4, <1>0 DEF Submit, Step, OneActive, NobodyKilled, Active, ClientPcs
  <2>5. CASE PipeEnds(c)
    BY <2>5, <1>0 DEF PipeEnds, Step, OneActive, NobodyKilled, Active, ClientPcs
  <2>6. CASE Join(c)
    BY <2>6, <1>0 DEF Join, Step, OneActive, NobodyKilled, Active, ClientPcs
  <2>7. CASE Remove(c)
    BY <2>7, <1>0 DEF Remove, Step, OneActive, NobodyKilled, Active, ClientPcs
  <2>8. CASE FinalReadsSession(c)
    BY <2>8, <1>0 DEF FinalReadsSession, Step, OneActive, NobodyKilled, Active, ClientPcs
  <2>9. CASE FinalReadsStatus(c)
    BY <2>9, <1>0 DEF FinalReadsStatus, Step, OneActive, NobodyKilled, Active, ClientPcs
  <2>10. CASE Conclude(c)
    BY <2>10, <1>0 DEF Conclude, Step, OneActive, NobodyKilled, Active, ClientPcs
  <2>11. CASE Killed(c)
    BY <2>11, <1>0 DEF Killed, OneActive, NobodyKilled, Active, ClientPcs
  <2> QED BY <1>3, <2>1, <2>2, <2>3, <2>4, <2>5, <2>6, <2>7, <2>8, <2>9, <2>10, <2>11 DEF
      Actions
<1> QED BY <1>1, <1>2, <1>3, StepCases

(* The last read finds what the tunnel has left. *)
LEMMA CompleteKept ==
  ASSUME TypeOK, Stages, Left, VerdictIsComplete, [Next]_vars
  PROVE VerdictIsComplete'
<1>0. /\ client \in [Clients -> ClientPcs]
      /\ verdict \in [Clients -> {"", "0", "1"}]
      /\ confirmed \in SUBSET Clients
  BY DEF TypeOK
<1>1. CASE UNCHANGED vars
  BY <1>1 DEF vars, local, root, user, VerdictIsComplete, NobodyKilled
<1>2. CASE Stop
  BY <1>2, Parameters DEF Stop, VerdictIsComplete, NobodyKilled, local
<1>3. ASSUME NEW c \in Clients, Actions(c) PROVE VerdictIsComplete'
  <2>1. CASE \/ Refuse(c) \/ Lock(c) \/ WriteSession(c) \/ WriteStatus(c) \/ RecordPid(c)
            \/ Exec(c) \/ ConnectFails(c) \/ TunnelDown(c) \/ TunnelEnds(c)
            \/ PollerReadsSession(c) \/ PollerReadsStatus(c) \/ PollerReadsPid(c)
            \/ PollerActs(c) \/ OrphanActs(c)
    BY <2>1, <1>0 DEF Refuse, Lock, GoesOn, WriteSession, WriteStatus, RecordPid, Exec,
      ConnectFails, TunnelDown, Record, TunnelEnds, PollerReadsSession, Reads,
      PollerReadsStatus, PollerReadsPid, PollerActs, OrphanActs, VerdictIsComplete,
      NobodyKilled, local
  <2>2. CASE TunnelUp(c)
    BY <2>2, <1>0, Parameters DEF TunnelUp, Record, VerdictIsComplete, NobodyKilled, local,
      Stages
  <2>3. CASE Start(c)
    BY <2>3, <1>0, Parameters DEF Start, Step, VerdictIsComplete, NobodyKilled, local
  <2>4. CASE AuthFails(c)
    BY <2>4, <1>0, Parameters DEF AuthFails, Step, VerdictIsComplete, NobodyKilled, local
  <2>5. CASE Submit(c)
    BY <2>5, <1>0, Parameters DEF Submit, Step, VerdictIsComplete, NobodyKilled, local
  <2>6. CASE PipeEnds(c)
    BY <2>6, <1>0, Parameters DEF PipeEnds, Step, VerdictIsComplete, NobodyKilled, local
  <2>7. CASE Join(c)
    BY <2>7, <1>0, Parameters DEF Join, Step, VerdictIsComplete, NobodyKilled, local
  <2>8. CASE Remove(c)
    BY <2>8, <1>0, Parameters DEF Remove, Step, VerdictIsComplete, NobodyKilled, local
  <2>9. CASE FinalReadsSession(c)
    BY <2>9, <1>0, Parameters DEF FinalReadsSession, Step, VerdictIsComplete, NobodyKilled,
      local
  <2>10. CASE FinalReadsStatus(c)
    <3>1. ASSUME Granted, NobodyKilled, c \in confirmed PROVE Verified(c)
      <4>1. client[c] = "readStatus" /\ hasId[c] /\ Active(c) /\ c # None
        BY <2>10, Parameters DEF FinalReadsStatus, Step, Stages, Active
      <4>2. final[c] = c /\ status.session = c /\ status.ever /\ status.request = c
        BY <4>1, <3>1 DEF Left, HasLeft
      <4>3. QED BY <4>1, <4>2, <3>1 DEF Verified, Report
    <3>2. NobodyKilled' => NobodyKilled
      BY <2>10, <1>0 DEF FinalReadsStatus, Step, NobodyKilled
    <3>3. QED BY <2>10, <1>0, <3>1, <3>2 DEF FinalReadsStatus, VerdictIsComplete
  <2>11. CASE Conclude(c)
    BY <2>11, <1>0, Parameters DEF Conclude, Step, VerdictIsComplete, NobodyKilled, local
  <2>12. CASE Killed(c)
    BY <2>12, <1>0, Parameters DEF Killed, VerdictIsComplete, NobodyKilled, local
  <2> QED BY <1>3, <2>1, <2>2, <2>3, <2>4, <2>5, <2>6, <2>7, <2>8, <2>9, <2>10, <2>11, <2>12
      DEF Actions
<1> QED BY <1>1, <1>2, <1>3, StepCases

(* Nothing is announced before it was read, and nothing read that was not confirmed. *)
LEMMA EvidenceKept ==
  ASSUME TypeOK, Polls, Stages, Telemetry, Evidence, [Next]_vars
  PROVE Evidence'
<1> USE DEF Commands
<1>0. /\ poller \in [Clients -> Pollers]
      /\ orphan \in [Clients -> Commands \cup {"none", "over"}]
      /\ stateFile \in Someone
      /\ confirmed \in SUBSET Clients
  BY DEF TypeOK
<1>s. said' = said => \A what, d : Said(what, d)' <=> Said(what, d)
  BY SaidStays
<1>1. CASE UNCHANGED vars
  BY <1>1, <1>s DEF vars, local, root, user, Evidence
<1>2. CASE Stop
  BY <1>2, <1>s DEF Stop, Evidence, user
<1>3. ASSUME NEW c \in Clients, Actions(c) PROVE Evidence'
  <2>1. CASE \/ Refuse(c) \/ Lock(c) \/ WriteSession(c) \/ WriteStatus(c) \/ RecordPid(c)
            \/ Exec(c) \/ ConnectFails(c) \/ TunnelDown(c) \/ TunnelEnds(c) \/ Start(c)
            \/ AuthFails(c) \/ PipeEnds(c) \/ FinalReadsSession(c) \/ FinalReadsStatus(c)
            \/ Killed(c)
    BY <2>1, <1>0, <1>s DEF Refuse, Lock, GoesOn, WriteSession, WriteStatus, RecordPid, Exec,
      ConnectFails, TunnelDown, Record, TunnelEnds, Start, Step, AuthFails, PipeEnds,
      FinalReadsSession, FinalReadsStatus, Killed, Evidence, user
  <2>2. CASE TunnelUp(c)
    BY <2>2, <1>0, <1>s DEF TunnelUp, Record, Evidence, user
  <2>3. CASE PollerReadsSession(c)
    <3>1. PICK p : Becomes(c, p) /\ p.pc = "readStatus" /\ p.mine = poller[c].mine
      BY <2>3, ReadsSession
    <3>2. QED BY <2>3, <1>0, <3>1, <1>s DEF PollerReadsSession, Reads, Becomes, Evidence, user
  <2>4. CASE PollerReadsStatus(c)
    <3>1. PICK p : /\ Becomes(c, p) /\ p.pc = "readPid"
                   /\ p.mine <=> LET r == Report(poller[c].session) IN Granted /\ r.request = c /\ r.verified
      BY <2>4, ReadsStatus
    <3>2. p.mine => c \in confirmed
      BY <3>1, Parameters DEF Report, NoRecord, Telemetry
    <3>3. QED BY <2>4, <1>0, <3>1, <3>2, <1>s DEF PollerReadsStatus, Reads, Becomes,
      Evidence, user
  <2>5. CASE PollerReadsPid(c)
    <3>1. PICK p : Becomes(c, p) /\ p.mine = poller[c].mine /\ (p.pc \in Commands => p.mine)
      BY <2>5, ReadsPid
    <3>2. QED BY <2>5, <1>0, <3>1, <1>s DEF PollerReadsPid, Reads, Becomes, Evidence, user
  <2>6. CASE PollerActs(c)
    <3>1. PICK p : Becomes(c, p) /\ p.mine = poller[c].mine
      BY <2>6, Acts
    <3>2. c \in confirmed /\ poller[c].mine
      BY <2>6 DEF PollerActs, Evidence
    <3>3. stateFile' \in {stateFile, c}
      BY <2>6 DEF PollerActs, Effect
    <3>4. \A d : Said("connected", d)' => Said("connected", d) \/ d = c
      BY <2>6, SaidByCommand DEF PollerActs
    <3>5. QED BY <1>0, <3>1, <3>2, <3>3, <3>4, <2>6 DEF PollerActs, Becomes, Evidence
  <2>7. CASE OrphanActs(c)
    <3>1. c \in confirmed
      BY <2>7 DEF OrphanActs, Evidence
    <3>2. stateFile' \in {stateFile, c}
      BY <2>7 DEF OrphanActs, Effect
    <3>3. \A d : Said("connected", d)' => Said("connected", d) \/ d = c
      BY <2>7, SaidByCommand DEF OrphanActs
    <3>4. QED BY <1>0, <3>1, <3>2, <3>3, <2>7 DEF OrphanActs, Evidence
  <2>8. CASE Submit(c)
    <3>1. poller[c].pc = "off"
      BY <2>8, <1>0 DEF Submit, Step, Stages
    <3>2. poller' = poller \/ \E p : Becomes(c, p) /\ p.pc = "readSession" /\ p.mine = poller[c].mine
      BY <2>8, <3>1, Submits
    <3>3. QED BY <2>8, <1>0, <3>2, <1>s DEF Submit, Becomes, Evidence, user
  <2>9. CASE Join(c)
    <3>1. PICK p : Becomes(c, p) /\ p.pc = "dead" /\ p.mine = poller[c].mine
      BY <2>9, Joins
    <3>2. QED BY <2>9, <1>0, <3>1, <1>s DEF Join, Becomes, Evidence, user
  <2>10. CASE Remove(c)
    BY <2>10, <1>0, <1>s, Parameters DEF Remove, Step, Evidence
  <2>11. CASE Conclude(c)
    <3>1. \A d : Said("connected", d)' <=> Said("connected", d)
      BY <2>11, SaidAtTheEnd
    <3>2. QED BY <2>11, <3>1 DEF Conclude, Evidence, user
  <2> QED BY <1>3, <2>1, <2>2, <2>3, <2>4, <2>5, <2>6, <2>7, <2>8, <2>9, <2>10, <2>11 DEF
      Actions
<1> QED BY <1>1, <1>2, <1>3, StepCases

(* Only the last step of a client says disconnected. *)
LEMMA ConcludedKept ==
  ASSUME TypeOK, Concluded, [Next]_vars
  PROVE Concluded'
<1>0. /\ client \in [Clients -> ClientPcs]
  BY DEF TypeOK
<1>s. said' = said => \A what, d : Said(what, d)' <=> Said(what, d)
  BY SaidStays
<1>1. CASE UNCHANGED vars
  BY <1>1, <1>s DEF vars, local, root, user, Concluded
<1>2. CASE Stop
  BY <1>2, <1>s DEF Stop, Concluded
<1>3. ASSUME NEW c \in Clients, Actions(c) PROVE Concluded'
  <2>1. CASE \/ Refuse(c) \/ Lock(c) \/ WriteSession(c) \/ WriteStatus(c) \/ RecordPid(c)
            \/ Exec(c) \/ ConnectFails(c) \/ TunnelUp(c) \/ TunnelDown(c) \/ TunnelEnds(c)
            \/ PollerReadsSession(c) \/ PollerReadsStatus(c) \/ PollerReadsPid(c)
    BY <2>1, <1>0, <1>s DEF Refuse, Lock, GoesOn, WriteSession, WriteStatus, RecordPid, Exec,
      ConnectFails, TunnelUp, Record, TunnelDown, TunnelEnds, PollerReadsSession, Reads,
      PollerReadsStatus, PollerReadsPid, Concluded
  <2>2. CASE PollerActs(c)
    <3>1. \A d : Said("disconnected", d)' <=> Said("disconnected", d)
      BY <2>2, SaidByCommand DEF PollerActs
    <3>2. QED BY <2>2, <3>1 DEF PollerActs, Concluded
  <2>3. CASE OrphanActs(c)
    <3>1. \A d : Said("disconnected", d)' <=> Said("disconnected", d)
      BY <2>3, SaidByCommand DEF OrphanActs
    <3>2. QED BY <2>3, <3>1 DEF OrphanActs, Concluded
  <2>4. CASE Start(c)
    BY <2>4, <1>0, <1>s DEF Start, Step, Concluded
  <2>5. CASE AuthFails(c)
    BY <2>5, <1>0, <1>s DEF AuthFails, Step, Concluded
  <2>6. CASE Submit(c)
    BY <2>6, <1>0, <1>s DEF Submit, Step, Concluded
  <2>7. CASE PipeEnds(c)
    BY <2>7, <1>0, <1>s DEF PipeEnds, Step, Concluded
  <2>8. CASE Join(c)
    BY <2>8, <1>0, <1>s DEF Join, Step, Concluded
  <2>9. CASE Remove(c)
    BY <2>9, <1>0, <1>s DEF Remove, Step, Concluded
  <2>10. CASE FinalReadsSession(c)
    BY <2>10, <1>0, <1>s DEF FinalReadsSession, Step, Concluded
  <2>11. CASE FinalReadsStatus(c)
    BY <2>11, <1>0, <1>s DEF FinalReadsStatus, Step, Concluded
  <2>12. CASE Conclude(c)
    <3>1. \A d : Said("disconnected", d)' => Said("disconnected", d) \/ d = c
      BY <2>12, SaidAtTheEnd
    <3>2. QED BY <2>12, <1>0, <3>1 DEF Conclude, Step, Concluded
  <2>13. CASE Killed(c)
    BY <2>13, <1>0, <1>s DEF Killed, Concluded
  <2> QED BY <1>3, <2>1, <2>2, <2>3, <2>4, <2>5, <2>6, <2>7, <2>8, <2>9, <2>10, <2>11,
      <2>12, <2>13 DEF Actions
<1> QED BY <1>1, <1>2, <1>3, StepCases

(* A client that was killed stays so. *)
LEMMA KilledStays ==
  ASSUME TypeOK, NobodyKilled', [Next]_vars
  PROVE NobodyKilled
<1>0. /\ client \in [Clients -> ClientPcs]
  BY DEF TypeOK
<1>1. CASE UNCHANGED vars
  BY <1>1 DEF vars, local, root, user, NobodyKilled, ClientPcs
<1>2. CASE Stop
  BY <1>2 DEF Stop, NobodyKilled, ClientPcs
<1>3. ASSUME NEW c \in Clients, Actions(c) PROVE NobodyKilled
  <2>1. CASE \/ Refuse(c) \/ Lock(c) \/ WriteSession(c) \/ WriteStatus(c) \/ RecordPid(c)
            \/ Exec(c) \/ ConnectFails(c) \/ TunnelUp(c) \/ TunnelDown(c) \/ TunnelEnds(c)
            \/ PollerReadsSession(c) \/ PollerReadsStatus(c) \/ PollerReadsPid(c)
            \/ PollerActs(c) \/ OrphanActs(c)
    BY <2>1, <1>0 DEF Refuse, Lock, GoesOn, WriteSession, WriteStatus, RecordPid, Exec,
      ConnectFails, TunnelUp, Record, TunnelDown, TunnelEnds, PollerReadsSession, Reads,
      PollerReadsStatus, PollerReadsPid, PollerActs, OrphanActs, NobodyKilled, ClientPcs
  <2>2. CASE Start(c)
    BY <2>2, <1>0 DEF Start, Step, NobodyKilled, ClientPcs
  <2>3. CASE AuthFails(c)
    BY <2>3, <1>0 DEF AuthFails, Step, NobodyKilled, ClientPcs
  <2>4. CASE Submit(c)
    BY <2>4, <1>0 DEF Submit, Step, NobodyKilled, ClientPcs
  <2>5. CASE PipeEnds(c)
    BY <2>5, <1>0 DEF PipeEnds, Step, NobodyKilled, ClientPcs
  <2>6. CASE Join(c)
    BY <2>6, <1>0 DEF Join, Step, NobodyKilled, ClientPcs
  <2>7. CASE Remove(c)
    BY <2>7, <1>0 DEF Remove, Step, NobodyKilled, ClientPcs
  <2>8. CASE FinalReadsSession(c)
    BY <2>8, <1>0 DEF FinalReadsSession, Step, NobodyKilled, ClientPcs
  <2>9. CASE FinalReadsStatus(c)
    BY <2>9, <1>0 DEF FinalReadsStatus, Step, NobodyKilled, ClientPcs
  <2>10. CASE Conclude(c)
    BY <2>10, <1>0 DEF Conclude, Step, NobodyKilled, ClientPcs
  <2>11. CASE Killed(c)
    BY <2>11, <1>0 DEF Killed, NobodyKilled, ClientPcs
  <2> QED BY <1>3, <2>1, <2>2, <2>3, <2>4, <2>5, <2>6, <2>7, <2>8, <2>9, <2>10, <2>11 DEF
      Actions
<1> QED BY <1>1, <1>2, <1>3, StepCases

(* The only client at work is the only one that writes. *)
LEMMA LeftKept ==
  ASSUME TypeOK, OneHeld, Stages, Runs, Telemetry, OneActive, Left, [Next]_vars
  PROVE Left'
<1> SUFFICES ASSUME NobodyKilled', NEW d \in Clients, d \in confirmed', Active(d)' PROVE HasLeft(d)'
  BY DEF Left
<1> USE DEF Held
<1>0. /\ client \in [Clients -> ClientPcs]
      /\ helper \in [Clients -> Held \cup {"off", "asked", "over"}]
      /\ hasId \in [Clients -> BOOLEAN]
      /\ final \in [Clients -> Someone]
      /\ session \in Someone
      /\ status \in Statuses
      /\ rootPid \in Someone
      /\ confirmed \in SUBSET Clients
  BY DEF TypeOK
<1>a. NobodyKilled /\ (d \in confirmed /\ Active(d) => HasLeft(d))
  BY KilledStays DEF Left
<1>1. CASE UNCHANGED vars
  BY <1>1, <1>a DEF vars, local, root, user, HasLeft, Active
<1>2. CASE Stop
  BY <1>2, <1>a, Parameters DEF Stop, HasLeft, Active, local
<1>3. ASSUME NEW c \in Clients, Actions(c) PROVE HasLeft(d)'
  <2>1. CASE \/ PollerReadsSession(c) \/ PollerReadsStatus(c) \/ PollerReadsPid(c)
            \/ PollerActs(c) \/ OrphanActs(c)
    BY <2>1, <1>0, <1>a DEF PollerReadsSession, Reads, PollerReadsStatus, PollerReadsPid,
      PollerActs, OrphanActs, HasLeft, Active, local, root
  <2>2. CASE Refuse(c)
    BY <2>2, <1>0, <1>a, Parameters DEF Refuse, HasLeft, Active, local, root
  <2>3. CASE Lock(c)
    BY <2>3, <1>0, <1>a, Parameters DEF Lock, GoesOn, HasLeft, Active, local, root
  <2>4. CASE WriteSession(c)
    BY <2>4, <1>0, <1>a, Parameters DEF WriteSession, GoesOn, HasLeft, Active, local, root,
      Stages, Runs, Telemetry, OneActive
  <2>5. CASE WriteStatus(c)
    BY <2>5, <1>0, <1>a, Parameters DEF WriteStatus, GoesOn, HasLeft, Active, local, root,
      Stages, Runs, Telemetry, OneActive
  <2>6. CASE RecordPid(c)
    BY <2>6, <1>0, <1>a, Parameters DEF RecordPid, GoesOn, HasLeft, Active, local, root,
      Stages, Runs, Telemetry, OneActive
  <2>7. CASE Exec(c)
    BY <2>7, <1>0, <1>a, Parameters DEF Exec, GoesOn, HasLeft, Active, local, root
  <2>8. CASE ConnectFails(c)
    BY <2>8, <1>0, <1>a, Parameters DEF ConnectFails, HasLeft, Active, local, root, Stages
  <2>9. CASE TunnelUp(c)
    <3>1. d = c
      BY <2>9, <1>0, <1>a DEF TunnelUp, Active, Stages, OneActive, local
    <3>2. session = c /\ rootPid = c /\ client[c] # "readStatus"
      BY <2>9 DEF TunnelUp, Telemetry, Stages
    <3>3. QED BY <2>9, <1>a, <3>1, <3>2 DEF TunnelUp, Record, HasLeft, Active, local
  <2>10. CASE TunnelDown(c)
    <3>1. d = c
      BY <2>10, <1>0, <1>a DEF TunnelDown, Active, Stages, OneActive, local
    <3>2. session = c /\ rootPid = c /\ client[c] # "readStatus"
      BY <2>10 DEF TunnelDown, Telemetry, Stages
    <3>3. QED BY <2>10, <1>a, <3>1, <3>2 DEF TunnelDown, Record, HasLeft, Active, local
  <2>11. CASE TunnelEnds(c)
    BY <2>11, <1>0, <1>a, Parameters DEF TunnelEnds, GoesOn, HasLeft, Active, local, root
  <2>12. CASE Start(c)
    BY <2>12, <1>0, <1>a DEF Start, Step, HasLeft, Active, Stages, Runs, Telemetry,
      root, ClientPcs
  <2>13. CASE AuthFails(c)
    BY <2>13, <1>0, <1>a, Parameters DEF AuthFails, Step, HasLeft, Active, local, root
  <2>14. CASE Submit(c)
    BY <2>14, <1>0, <1>a, Parameters DEF Submit, Step, HasLeft, Active, local, root
  <2>15. CASE PipeEnds(c)
    BY <2>15, <1>0, <1>a, Parameters DEF PipeEnds, Step, HasLeft, Active, local, root
  <2>16. CASE Join(c)
    BY <2>16, <1>0, <1>a, Parameters DEF Join, Step, HasLeft, Active, local, root
  <2>17. CASE Remove(c)
    BY <2>17, <1>0, <1>a, Parameters DEF Remove, Step, HasLeft, Active, local, root
  <2>18. CASE FinalReadsSession(c)
    BY <2>18, <1>0, <1>a, Parameters DEF FinalReadsSession, Step, HasLeft, Active, local,
      root
  <2>19. CASE FinalReadsStatus(c)
    BY <2>19, <1>0, <1>a, Parameters DEF FinalReadsStatus, Step, HasLeft, Active, local,
      root
  <2>20. CASE Conclude(c)
    BY <2>20, <1>0, <1>a, Parameters DEF Conclude, Step, HasLeft, Active, local, root
  <2>21. CASE Killed(c)
    BY <2>21, <1>0, <1>a, Parameters DEF Killed, HasLeft, Active, local, root
  <2> QED BY <1>3, <2>1, <2>2, <2>3, <2>4, <2>5, <2>6, <2>7, <2>8, <2>9, <2>10, <2>11,
      <2>12, <2>13, <2>14, <2>15, <2>16, <2>17, <2>18, <2>19, <2>20, <2>21 DEF Actions
<1> QED BY <1>1, <1>2, <1>3, StepCases

(* The pid that is read is that of the tunnel that was found verified. *)
LEMMA OwnPidKept ==
  ASSUME TypeOK, Polls, Stages, Evidence, OneActive, Left, OwnPid, [Next]_vars
  PROVE OwnPid'
<1> USE DEF Commands
<1>0. /\ client \in [Clients -> ClientPcs]
      /\ poller \in [Clients -> Pollers]
  BY DEF TypeOK
<1>1. CASE UNCHANGED vars
  BY <1>1 DEF vars, local, root, user, OwnPid, NobodyKilled
<1>2. CASE Stop
  BY <1>2 DEF Stop, OwnPid, NobodyKilled
<1>3. ASSUME NEW c \in Clients, Actions(c) PROVE OwnPid'
  <2>1. CASE \/ Refuse(c) \/ Lock(c) \/ WriteSession(c) \/ WriteStatus(c) \/ RecordPid(c)
            \/ Exec(c) \/ ConnectFails(c) \/ TunnelUp(c) \/ TunnelDown(c) \/ TunnelEnds(c)
            \/ OrphanActs(c)
    BY <2>1, <1>0 DEF Refuse, Lock, GoesOn, WriteSession, WriteStatus, RecordPid, Exec,
      ConnectFails, TunnelUp, Record, TunnelDown, TunnelEnds, OrphanActs, OwnPid,
      NobodyKilled
  <2>2. CASE PollerReadsSession(c)
    BY <2>2, <1>0, ReadsSession DEF PollerReadsSession, Reads, Becomes, OwnPid, NobodyKilled
  <2>3. CASE PollerReadsStatus(c)
    <3>1. PICK p : Becomes(c, p) /\ p.pc = "readPid"
      BY <2>3, ReadsStatus
    <3>2. QED BY <2>3, <1>0, <3>1 DEF PollerReadsStatus, Reads, Becomes, OwnPid, NobodyKilled
  <2>4. CASE PollerReadsPid(c)
    <3>1. PICK p : /\ Becomes(c, p) /\ p.mine = poller[c].mine
                   /\ \/ p.pc \in {"writePid", "writeState"} /\ p.mine /\ p.pid = rootPid
                      \/ p.pc \in {"readSession", "dead"} /\ ~p.mine
      BY <2>4, ReadsPid
    <3>2. NobodyKilled /\ poller[c].mine => rootPid \in {None, c}
      BY <2>4, <1>0 DEF PollerReadsPid, Reads, Evidence, Stages, Active, Left, HasLeft
    <3>3. QED BY <2>4, <1>0, <3>1, <3>2 DEF PollerReadsPid, Reads, Becomes, OwnPid, NobodyKilled
  <2>5. CASE PollerActs(c)
    BY <2>5, <1>0, Acts DEF PollerActs, Becomes, OwnPid, NobodyKilled
  <2>6. CASE Start(c)
    BY <2>6, <1>0 DEF Start, Step, OwnPid, NobodyKilled
  <2>7. CASE AuthFails(c)
    BY <2>7, <1>0 DEF AuthFails, Step, OwnPid, NobodyKilled
  <2>8. CASE Submit(c)
    <3>1. poller[c].pc = "off"
      BY <2>8, <1>0 DEF Submit, Step, Stages
    <3>2. QED BY <2>8, <1>0, <3>1, Submits DEF Submit, Step, Becomes, OwnPid, NobodyKilled
  <2>9. CASE PipeEnds(c)
    BY <2>9, <1>0 DEF PipeEnds, Step, OwnPid, NobodyKilled
  <2>10. CASE Join(c)
    BY <2>10, <1>0, Joins DEF Join, Step, Becomes, OwnPid, NobodyKilled
  <2>11. CASE Remove(c)
    BY <2>11, <1>0 DEF Remove, Step, OwnPid, NobodyKilled
  <2>12. CASE FinalReadsSession(c)
    BY <2>12, <1>0 DEF FinalReadsSession, Step, OwnPid, NobodyKilled
  <2>13. CASE FinalReadsStatus(c)
    BY <2>13, <1>0 DEF FinalReadsStatus, Step, OwnPid, NobodyKilled
  <2>14. CASE Conclude(c)
    BY <2>14, <1>0 DEF Conclude, Step, OwnPid, NobodyKilled
  <2>15. CASE Killed(c)
    BY <2>15, <1>0 DEF Killed, OwnPid, NobodyKilled
  <2> QED BY <1>3, <2>1, <2>2, <2>3, <2>4, <2>5, <2>6, <2>7, <2>8, <2>9, <2>10, <2>11,
      <2>12, <2>13, <2>14, <2>15 DEF Actions
<1> QED BY <1>1, <1>2, <1>3, StepCases

(* What a poller has written is removed once the poller is dead. *)
LEMMA GoneKept ==
  ASSUME TypeOK, Stages, OwnPid, Gone, [Next]_vars
  PROVE Gone'
<1> USE DEF Commands
<1>0. /\ client \in [Clients -> ClientPcs]
      /\ orphan \in [Clients -> Commands \cup {"none", "over"}]
      /\ pidFile \in Someone
      /\ stateFile \in Someone
  BY DEF TypeOK
<1>1. CASE UNCHANGED vars
  BY <1>1 DEF vars, local, root, user, Gone, NobodyKilled, NoOrphan
<1>2. CASE Stop
  BY <1>2, Parameters DEF Stop, Gone, NobodyKilled, NoOrphan, user
<1>3. ASSUME NEW c \in Clients, Actions(c) PROVE Gone'
  <2>1. CASE \/ Refuse(c) \/ Lock(c) \/ WriteSession(c) \/ WriteStatus(c) \/ RecordPid(c)
            \/ Exec(c) \/ ConnectFails(c) \/ TunnelUp(c) \/ TunnelDown(c) \/ TunnelEnds(c)
            \/ PollerReadsSession(c) \/ PollerReadsStatus(c) \/ PollerReadsPid(c)
    BY <2>1, <1>0 DEF Refuse, Lock, GoesOn, WriteSession, WriteStatus, RecordPid, Exec,
      ConnectFails, TunnelUp, Record, TunnelDown, TunnelEnds, PollerReadsSession, Reads,
      PollerReadsStatus, PollerReadsPid, Gone, NobodyKilled, NoOrphan, user
  <2>2. CASE PollerActs(c)
    <3>1. NobodyKilled' => NobodyKilled /\ client[c] \in {"pipe", "join"} /\ poller[c].pid \in {None, c}
      BY <2>2, <1>0 DEF PollerActs, NobodyKilled, Stages, OwnPid
    <3>2. pidFile' \in {pidFile, poller[c].pid} /\ stateFile' \in {stateFile, c}
      BY <2>2 DEF PollerActs, Effect
    <3>3. client' = client /\ orphan' = orphan
      BY <2>2 DEF PollerActs
    <3>4. QED BY <3>1, <3>2, <3>3, Parameters DEF Gone, NobodyKilled, NoOrphan
  <2>3. CASE OrphanActs(c)
    BY <2>3, <1>0, Parameters DEF OrphanActs, Gone, NobodyKilled, NoOrphan, user, Effect
  <2>4. CASE Start(c)
    BY <2>4, <1>0, Parameters DEF Start, Step, Gone, NobodyKilled, NoOrphan, user
  <2>5. CASE AuthFails(c)
    BY <2>5, <1>0, Parameters DEF AuthFails, Step, Gone, NobodyKilled, NoOrphan, user
  <2>6. CASE Submit(c)
    BY <2>6, <1>0, Parameters DEF Submit, Step, Gone, NobodyKilled, NoOrphan, user
  <2>7. CASE PipeEnds(c)
    BY <2>7, <1>0, Parameters DEF PipeEnds, Step, Gone, NobodyKilled, NoOrphan, user
  <2>8. CASE Join(c)
    BY <2>8, <1>0, Parameters DEF Join, Step, Gone, NobodyKilled, NoOrphan, user
  <2>9. CASE Remove(c)
    BY <2>9, <1>0, Parameters DEF Remove, Step, Gone, NobodyKilled, NoOrphan, user
  <2>10. CASE FinalReadsSession(c)
    BY <2>10, <1>0, Parameters DEF FinalReadsSession, Step, Gone, NobodyKilled, NoOrphan,
      user
  <2>11. CASE FinalReadsStatus(c)
    BY <2>11, <1>0, Parameters DEF FinalReadsStatus, Step, Gone, NobodyKilled, NoOrphan,
      user
  <2>12. CASE Conclude(c)
    BY <2>12, <1>0, Parameters DEF Conclude, Step, Gone, NobodyKilled, NoOrphan, user
  <2>13. CASE Killed(c)
    BY <2>13, <1>0, Parameters DEF Killed, Gone, NobodyKilled, NoOrphan, user
  <2> QED BY <1>3, <2>1, <2>2, <2>3, <2>4, <2>5, <2>6, <2>7, <2>8, <2>9, <2>10, <2>11,
      <2>12, <2>13 DEF Actions
<1> QED BY <1>1, <1>2, <1>3, StepCases

(* Who ran has printed no refusal, and who printed none is reported. *)
LEMMA RunsAreReportedKept ==
  ASSUME TypeOK, TypeOK', Stages, Runs, VerdictIsComplete, RunsAreReported, [Next]_vars
  PROVE RunsAreReported'
<1> USE DEF Held
<1>0. /\ client \in [Clients -> ClientPcs]
      /\ verdict \in [Clients -> {"", "0", "1"}]
      /\ outcome \in [Clients -> {"", "preauth", "ended", "policy", "failed"}]
      /\ lines \in [Clients -> SUBSET {"prefixed", "other"}]
      /\ ran \in SUBSET Clients
  BY DEF TypeOK
<1>s. said' = said => \A what, d : Said(what, d)' <=> Said(what, d)
  BY SaidStays
<1> DEFINE Through(d) ==
      d \in ran' /\ client'[d] = "done" =>
        /\ d \in ran /\ client[d] = "done" /\ outcome'[d] = outcome[d]
        /\ lines'[d] = lines[d] /\ verdict'[d] = verdict[d]
        /\ d \in confirmed' => d \in confirmed
<1>k. ASSUME \A d \in Clients : Through(d), NobodyKilled' => NobodyKilled,
             \A d \in Clients : Said("disconnected", d) => Said("disconnected", d)',
             ran' \subseteq Clients
      PROVE RunsAreReported'
  BY <1>0, <1>k DEF RunsAreReported, Reported
<1>t. ran' \subseteq Clients
  BY DEF TypeOK
<1>1. CASE UNCHANGED vars
  BY <1>1, <1>s, <1>k, <1>t DEF vars, local, root, user, NobodyKilled
<1>2. CASE Stop
  BY <1>2, <1>s, <1>k, <1>t DEF Stop, local, NobodyKilled
<1>3. ASSUME NEW c \in Clients, Actions(c) PROVE RunsAreReported'
  <2>1. CASE \/ Lock(c) \/ WriteSession(c) \/ WriteStatus(c) \/ RecordPid(c)
             \/ TunnelDown(c) \/ TunnelEnds(c)
             \/ PollerReadsSession(c) \/ PollerReadsStatus(c) \/ PollerReadsPid(c)
    BY <2>1, <1>s, <1>k, <1>t DEF Lock, GoesOn, WriteSession, WriteStatus, RecordPid,
      TunnelDown, Record, TunnelEnds, PollerReadsSession, Reads,
      PollerReadsStatus, PollerReadsPid, local, NobodyKilled
  <2>2. CASE Refuse(c) \/ ConnectFails(c)
    <3>1. client[c] # "done"
      BY <2>2 DEF Refuse, ConnectFails, Stages
    <3>2. \A d \in Clients : d # c => lines'[d] = lines[d]
      BY <2>2, <1>0 DEF Refuse, ConnectFails
    <3>3. QED BY <2>2, <3>1, <3>2, <1>0, <1>s, <1>k, <1>t DEF Refuse, ConnectFails, local, NobodyKilled
  <2>3. CASE Exec(c)
    <3>1. client[c] # "done"
      BY <2>3 DEF Exec, GoesOn, Stages
    <3>2. \A d \in Clients : d # c => lines'[d] = lines[d]
      BY <2>3, <1>0 DEF Exec
    <3>3. QED BY <2>3, <3>1, <3>2, <1>0, <1>s, <1>k, <1>t DEF Exec, GoesOn, local, NobodyKilled
  <2>4. CASE TunnelUp(c)
    <3>1. client[c] # "done"
      BY <2>4 DEF TunnelUp, Stages
    <3>2. QED BY <2>4, <3>1, <1>s, <1>k, <1>t DEF TunnelUp, local, NobodyKilled
  <2>5. CASE PollerActs(c) \/ OrphanActs(c)
    <3>1. PICK command \in Commands : Effect(c, command)
      BY <2>5 DEF PollerActs, OrphanActs
    <3>2. \A d \in Clients : Said("disconnected", d) => Said("disconnected", d)'
      BY <3>1, SaidByCommand
    <3>3. UNCHANGED <<client, verdict, outcome, lines, confirmed, ran>>
      BY <2>5 DEF PollerActs, OrphanActs, local
    <3>4. QED BY <3>2, <3>3, <1>k, <1>t DEF NobodyKilled
  <2>6. CASE AuthFails(c)
    <3>1. c \notin ran
      BY <2>6 DEF AuthFails, Step, Stages, Runs
    <3>2. \A d \in Clients : d # c => client'[d] = client[d] /\ outcome'[d] = outcome[d]
      BY <2>6, <1>0 DEF AuthFails, Step
    <3>3. client[c] = "auth"
      BY <2>6 DEF AuthFails, Step
    <3>4. NobodyKilled' => NobodyKilled
      BY <3>2, <3>3 DEF NobodyKilled
    <3>5. QED BY <2>6, <3>1, <3>2, <3>4, <1>s, <1>k, <1>t DEF AuthFails
  <2>7. ASSUME NEW from \in ClientPcs \ {"done", "killed"}, NEW to \in ClientPcs \ {"done"},
               Step(c, from, to), UNCHANGED <<outcome, lines, confirmed, ran, said>>,
               \A d \in Clients : d # c => verdict'[d] = verdict[d]
        PROVE RunsAreReported'
    <3>1. \A d \in Clients : d # c => client'[d] = client[d]
      BY <2>7, <1>0 DEF Step
    <3>2. client[c] = from /\ client'[c] = to
      BY <2>7, <1>0 DEF Step
    <3>3. NobodyKilled' => NobodyKilled
      BY <3>1, <3>2, <2>7 DEF NobodyKilled
    <3>4. QED BY <2>7, <3>1, <3>2, <3>3, <1>s, <1>k, <1>t
  <2>8. CASE \/ Start(c) \/ Submit(c) \/ PipeEnds(c) \/ Join(c) \/ Remove(c)
             \/ FinalReadsSession(c)
    <3>1. UNCHANGED <<verdict, outcome, lines, confirmed, ran, said>>
      BY <2>8 DEF Start, Submit, PipeEnds, Join, Remove, FinalReadsSession, local
    <3>2. \E from \in ClientPcs \ {"done", "killed"}, to \in ClientPcs \ {"done"} : Step(c, from, to)
      BY <2>8 DEF Start, Submit, PipeEnds, Join, Remove, FinalReadsSession, ClientPcs
    <3>3. QED BY <2>7, <3>1, <3>2
  <2>9. CASE FinalReadsStatus(c)
    <3>1. UNCHANGED <<outcome, lines, confirmed, ran, said>>
      BY <2>9 DEF FinalReadsStatus
    <3>2. \A d \in Clients : d # c => verdict'[d] = verdict[d]
      BY <2>9, <1>0 DEF FinalReadsStatus
    <3>3. Step(c, "readStatus", "conclude") /\ {"readStatus", "conclude"} \subseteq ClientPcs
      BY <2>9 DEF FinalReadsStatus, ClientPcs
    <3>4. QED BY <2>7, <3>1, <3>2, <3>3
  <2>10. CASE Conclude(c)
    <3>1. PICK o \in {"ended", "failed", "policy"} :
            /\ outcome' = [outcome EXCEPT ![c] = o]
            /\ o = "policy" => verdict[c] # "1" /\ ~LogHadTunnel(c)
      BY <2>10, Concludes
    <3>2. /\ LogHadTunnel(c) \/ verdict[c] = "1" => Said("disconnected", c)'
          /\ \A d : Said("disconnected", d) => Said("disconnected", d)'
      BY <2>10, SaidAtTheEnd
    <3>3. /\ client[c] = "conclude" /\ client' = [client EXCEPT ![c] = "done"]
          /\ UNCHANGED <<verdict, lines, confirmed, ran>>
      BY <2>10 DEF Conclude, Step
    <3>4. NobodyKilled' => NobodyKilled
      BY <3>3, <1>0 DEF NobodyKilled
    (* The run being concluded: what was printed, or the final read, speaks for it. *)
    <3>5. ASSUME \/ lines[c] # {"prefixed"}
                 \/ Granted /\ NobodyKilled /\ verdict[c] # "" /\ c \in confirmed
          PROVE LogHadTunnel(c) \/ verdict[c] = "1"
      BY <3>5, <1>0 DEF LogHadTunnel, VerdictIsComplete
    <3>6. ASSUME NEW d \in ran', client'[d] = "done",
                 \/ lines'[d] # {"prefixed"}
                 \/ Granted /\ NobodyKilled' /\ verdict'[d] # "" /\ d \in confirmed'
          PROVE Said("disconnected", d)' /\ outcome'[d] # "policy"
      <4>1. CASE d = c
        BY <4>1, <3>1, <3>2, <3>3, <3>4, <3>5, <3>6, <1>0
      <4>2. CASE d # c
        <5>1. d \in ran /\ client[d] = "done" /\ outcome'[d] = outcome[d]
          BY <4>2, <3>1, <3>3, <3>6, <1>0
        <5>2. QED BY <5>1, <3>2, <3>3, <3>4, <3>6 DEF RunsAreReported, Reported
      <4>3. QED BY <4>1, <4>2
    <3>7. QED BY <3>6 DEF RunsAreReported, Reported
  <2>11. CASE Killed(c)
    <3>1. ~NobodyKilled'
      BY <2>11, <1>0 DEF Killed, NobodyKilled
    <3>2. \A d \in Clients : client'[d] = "done" => client[d] = "done"
      BY <2>11, <1>0 DEF Killed
    <3>3. QED BY <2>11, <3>1, <3>2, <1>s, <1>k, <1>t DEF Killed, local
  <2> QED BY <1>3, <2>1, <2>2, <2>3, <2>4, <2>5, <2>6, <2>8, <2>9, <2>10, <2>11 DEF Actions
<1> QED BY <1>1, <1>2, <1>3, StepCases

(* An announcement of "connected" is none of a client that has concluded, and
   the announcement of "disconnected" comes after all others. *)
LEMMA DisconnectedIsLastKept ==
  ASSUME TypeOK, Stages, Concluded, DisconnectedIsLast, [Next]_vars
  PROVE DisconnectedIsLast'
<1>0. /\ orphan \in [Clients -> Commands \cup {"none", "over"}]
      /\ said \in Seq(Events)
  BY EventTypes DEF TypeOK
<1>1. ASSUME said' = said, \A d \in Clients : orphan'[d] = "none" => orphan[d] = "none"
      PROVE DisconnectedIsLast'
  BY <1>1 DEF DisconnectedIsLast
<1>2. ASSUME NEW e \in Events, said' = Append(said, e),
             \A d \in Clients : orphan'[d] = "none" => orphan[d] = "none",
             \A d \in Clients : e = <<"connected", d>> /\ orphan'[d] = "none" => ~Said("disconnected", d)
      PROVE DisconnectedIsLast'
  <2> SUFFICES ASSUME NEW i \in 1..Len(said'), NEW j \in 1..Len(said'), NEW d \in Clients,
                      orphan'[d] = "none", said'[i] = <<"disconnected", d>>, said'[j] = <<"connected", d>>
               PROVE j < i
    BY DEF DisconnectedIsLast
  <2>1. /\ Len(said) \in Nat /\ Len(said') = Len(said) + 1 /\ said'[Len(said) + 1] = e
        /\ \A k \in 1..Len(said) : said'[k] = said[k]
    BY <1>0, <1>2, Announced
  <2>2. i \in 1..Len(said) \/ i = Len(said) + 1
    BY <2>1
  <2>3. j \in 1..Len(said) \/ j = Len(said) + 1
    BY <2>1
  <2>4. CASE i = Len(said) + 1
    <3>1. j # Len(said) + 1
      BY <2>4
    <3>2. QED BY <2>1, <2>3, <2>4, <3>1
  <2>5. CASE i \in 1..Len(said) /\ j = Len(said) + 1
    <3>1. Said("disconnected", d)
      BY <2>1, <2>5 DEF Said
    <3>2. e = <<"connected", d>>
      BY <2>1, <2>5
    <3>3. QED BY <1>2, <3>1, <3>2
  <2>6. CASE i \in 1..Len(said) /\ j \in 1..Len(said)
    <3>1. orphan[d] = "none" /\ said[i] = <<"disconnected", d>> /\ said[j] = <<"connected", d>>
      BY <1>2, <2>1, <2>6
    <3>2. QED BY <3>1, <2>6 DEF DisconnectedIsLast
  <2>7. QED BY <2>2, <2>3, <2>4, <2>5, <2>6
<1>3. CASE UNCHANGED vars
  BY <1>1, <1>3 DEF vars
<1>4. CASE Stop
  BY <1>1, <1>4 DEF Stop
<1>5. ASSUME NEW c \in Clients, Actions(c) PROVE DisconnectedIsLast'
  <2>1. ASSUME NEW command \in Commands, Effect(c, command),
               \A d \in Clients : orphan'[d] = "none" => orphan[d] = "none",
               orphan'[c] = "none" => ~Said("disconnected", c)
        PROVE DisconnectedIsLast'
    <3>1. CASE command = "announce"
      <4>1. said' = Append(said, <<"connected", c>>) /\ <<"connected", c>> \in Events
        BY <2>1, <3>1, EventTypes DEF Effect
      <4>2. \A d \in Clients : <<"connected", c>> = <<"connected", d>> /\ orphan'[d] = "none" => ~Said("disconnected", d)
        BY <2>1
      <4>3. QED BY <1>2, <2>1, <4>1, <4>2
    <3>2. CASE command # "announce"
      BY <1>1, <2>1, <3>2 DEF Effect
    <3>3. QED BY <3>1, <3>2
  <2>2. CASE PollerActs(c)
    <3>1. poller[c].pc \in Commands /\ Effect(c, poller[c].pc) /\ orphan' = orphan
      BY <2>2 DEF PollerActs
    <3>2. client[c] # "done"
      BY <3>1 DEF Stages, Commands
    <3>3. QED BY <2>1, <3>1, <3>2 DEF Concluded
  <2>3. CASE OrphanActs(c)
    <3>1. orphan[c] \in Commands /\ Effect(c, orphan[c]) /\ orphan' = [orphan EXCEPT ![c] = "over"]
      BY <2>3 DEF OrphanActs
    <3>2. QED BY <1>0, <2>1, <3>1
  <2>4. CASE Conclude(c)
    <3>1. orphan' = orphan
      BY <2>4 DEF Conclude
    <3>2. CASE verdict[c] = "1" \/ LogHadTunnel(c)
      <4>1. said' = Append(said, <<"disconnected", c>>) /\ <<"disconnected", c>> \in Events
        BY <2>4, <3>2, EventTypes DEF Conclude
      <4>2. \A d \in Clients : <<"disconnected", c>> # <<"connected", d>>
        OBVIOUS
      <4>3. QED BY <1>2, <3>1, <4>1, <4>2
    <3>3. CASE ~(verdict[c] = "1" \/ LogHadTunnel(c))
      BY <1>1, <2>4, <3>1, <3>3 DEF Conclude
    <3>4. QED BY <3>2, <3>3
  <2>5. CASE Join(c)
    BY <1>0, <1>1, <2>5 DEF Join, Commands
  <2>6. CASE \/ Refuse(c) \/ Lock(c) \/ WriteSession(c) \/ WriteStatus(c) \/ RecordPid(c)
             \/ Exec(c) \/ ConnectFails(c) \/ TunnelUp(c) \/ TunnelDown(c) \/ TunnelEnds(c)
             \/ PollerReadsSession(c) \/ PollerReadsStatus(c) \/ PollerReadsPid(c)
             \/ Start(c) \/ AuthFails(c) \/ Submit(c) \/ PipeEnds(c) \/ Remove(c)
             \/ FinalReadsSession(c) \/ FinalReadsStatus(c) \/ Killed(c)
    BY <1>1, <2>6 DEF Refuse, Lock, GoesOn, WriteSession, WriteStatus, RecordPid, Exec,
      ConnectFails, TunnelUp, Record, TunnelDown, TunnelEnds, PollerReadsSession, Reads,
      PollerReadsStatus, PollerReadsPid, Start, Step, AuthFails, Submit, PipeEnds, Remove,
      FinalReadsSession, FinalReadsStatus, Killed
  <2>7. QED BY <1>5, <2>2, <2>3, <2>4, <2>5, <2>6 DEF Actions
<1>6. QED BY <1>3, <1>4, <1>5, StepCases

LEMMA Initially == Init => IndInv
<1> SUFFICES ASSUME Init PROVE IndInv
  OBVIOUS
<1>0. /\ said \in Seq({"connected", "disconnected"} \X Clients)
      /\ 1..Len(said) = {} /\ \A what, d : ~Said(what, d)
  <2>1. said = <<>>
    BY DEF Init
  <2>2. 1..Len(said) = {}
    BY <2>1
  <2>3. QED BY <2>1, <2>2 DEF Said
<1>1. TypeOK /\ Polls
  <2>1. NoPoller \in Pollers /\ NoPoller.pc = "off" /\ NoPoller.attempt = 0
    BY Parameters DEF NoPoller, Pollers, Someone
  <2>2. Polls
    BY <2>1 DEF Init, Polls
  <2>3. poller \in [Clients -> Pollers] /\ status \in Statuses
    BY <2>1 DEF Init, NoRecord, Statuses, Someone
  <2>4. QED BY <1>0, <2>2, <2>3 DEF Init, TypeOK, ClientPcs, Someone
<1>2. OneHeld /\ Stages /\ Runs
  BY DEF Init, OneHeld, Stages, Runs, Held, NoPoller
<1>3. Telemetry
  BY DEF Init, Telemetry, NoRecord
<1>4. Evidence /\ Concluded
  BY <1>0, Parameters DEF Init, Evidence, Concluded, NoPoller, Commands
<1>5. OneActive /\ Left /\ OwnPid
  BY DEF Init, OneActive, Left, OwnPid, Active, NoPoller, Commands
<1>6. Gone /\ VerdictIsGenuine /\ VerdictIsComplete
  BY Parameters DEF Init, Gone, VerdictIsGenuine, VerdictIsComplete
<1>7. DisconnectedIsLast /\ RunsAreReported
  BY <1>0 DEF Init, DisconnectedIsLast, RunsAreReported
<1>8. QED BY <1>1, <1>2, <1>3, <1>4, <1>5, <1>6, <1>7 DEF IndInv

LEMMA IndInvKept ==
  ASSUME IndInv, [Next]_vars
  PROVE IndInv'
BY TypesKept, OneHeldKept, StagesKept, RunsKept, TelemetryKept, EvidenceKept, ConcludedKept,
  OneActiveKept, LeftKept, OwnPidKept, GoneKept, VerdictIsGenuineKept, CompleteKept,
  DisconnectedIsLastKept, RunsAreReportedKept DEF IndInv

(* Of any number of clients and polls the invariant holds. *)
THEOREM IndInvAlways == Spec => []IndInv
<1>1. IndInv /\ [Next]_vars => IndInv'
  BY IndInvKept
<1>2. QED BY Initially, <1>1, PTL DEF Spec

THEOREM TypeCorrect == Spec => []TypeOK
<1>1. IndInv => TypeOK
  BY DEF IndInv
<1>2. QED BY <1>1, IndInvAlways, PTL

(* twophase.sh:533-542, outcome.sh:16-26: the verdict says 1 only for a tunnel of
   this very attempt. *)
THEOREM VerdictsAreGenuine == Spec => []VerdictIsGenuine
<1>1. IndInv => VerdictIsGenuine
  BY DEF IndInv
<1>2. QED BY <1>1, IndInvAlways, PTL

(* twophase.sh:162-169: with telemetry, and with no client killed, it says 1 for
   every attempt whose tunnel came up. *)
THEOREM VerdictsAreComplete == Spec => []VerdictIsComplete
<1>1. IndInv => VerdictIsComplete
  BY DEF IndInv
<1>2. QED BY <1>1, IndInvAlways, PTL

(* twophase.sh:122-130: connected is announced, and the state file written, only
   for a session its own wrapper has confirmed; the pid published with it is its
   own as long as no client was killed. *)
THEOREM OwnSessionsOnly == Spec => []OnlyOwnSession
<1>1. IndInv => OnlyOwnSession
  BY DEF IndInv, OnlyOwnSession, Evidence, OwnPid
<1>2. QED BY <1>1, IndInvAlways, PTL

(* twophase.sh:514-522: unless a client was killed or a command of its poller has
   outlived it, nothing announces a session that is over and nothing names it. *)
THEOREM OverStaysOver == Spec => []OverIsOver
<1>1. IndInv => OverIsOver
  BY DEF IndInv, OverIsOver, RecordIsRemoved, Gone
<1>2. QED BY <1>1, IndInvAlways, PTL

(* twophase.sh:533-557: an attempt whose OpenConnect ran is reported as a session
   that ended, and never as a refusal, if it printed a line of its own or nothing,
   or if its tunnel came up and its client, none being killed, read telemetry. *)
THEOREM RunsReported == Spec => []RunsAreReported
<1>1. IndInv => RunsAreReported
  BY DEF IndInv
<1>2. QED BY <1>1, IndInvAlways, PTL
=============================================================================
