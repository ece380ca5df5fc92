------------------------------ MODULE TwoPhase ------------------------------
(***************************************************************************)
(* A helper-mode session as vpn-up sees it: phase one, the pipeline through *)
(* sudo into vpn-up-helper, the poller of event-status beside it, and what *)
(* the client concludes and announces when the pipeline has ended.         *)
(*                                                                         *)
(* The root side is HelperSession in short: a connect that gets past the   *)
(* lock writes session, status and pid in this order and becomes           *)
(* OpenConnect, whose wrapper is the only writer of status from then on.   *)
(* Each client makes one attempt; its name stands for its request id, and  *)
(* for the session id and the pid of its OpenConnect.                      *)
(***************************************************************************)
EXTENDS Naturals, Sequences

CONSTANTS
  Clients,      \* runs of vpn-up start, one attempt each
  None,
  MaxAttempts,  \* max_attempts of poll_helper_event
  Granted       \* sudo -k -n event-status is allowed

ASSUME Parameters ==
  /\ None \notin Clients /\ MaxAttempts \in Nat \ {0}
  /\ Granted \in BOOLEAN

VARIABLES
  client,             \* where a client is
  hasId,              \* it has a request id: the helper knows event-status
  final,              \* the session its final read has found
  verdict, outcome,   \* _VPN_LAST_ATTEMPT_VERIFIED and the outcome code
  poller, orphan,     \* the poller, and a command of it that goes on (or went on) alone
  helper,             \* where its sudo, helper and OpenConnect are
  lines,              \* what they have printed
  session, status, rootPid,     \* the files of the root side
  pidFile, stateFile,           \* those of the user
  said,               \* history: what was announced, in order
  confirmed, ran      \* history: tunnels that came up, OpenConnects that ran

local == <<hasId, final, verdict, outcome>>
root  == <<session, status, rootPid>>
user  == <<pidFile, stateFile>>
vars  == <<client, local, poller, orphan, helper, lines, root, user, said, confirmed, ran>>

Someone   == Clients \cup {None}
Held      == {"session", "status", "pid", "exec", "run"}
Commands  == {"writePid", "writeState", "announce"}
ClientPcs == {"off", "auth", "pipe", "join", "remove", "readSession", "readStatus",
              "conclude", "done", "killed"}
Pollers   == [pc : {"off", "readSession", "readStatus", "readPid", "dead"} \cup Commands,
              attempt : 0..MaxAttempts, session : Someone, mine : BOOLEAN, pid : Someone]
Statuses  == [session : Someone, request : Someone, verified : BOOLEAN, ever : BOOLEAN]

TypeOK ==
  /\ client \in [Clients -> ClientPcs] /\ hasId \in [Clients -> BOOLEAN]
  /\ final \in [Clients -> Someone]
  /\ verdict \in [Clients -> {"", "0", "1"}]
  /\ outcome \in [Clients -> {"", "preauth", "ended", "policy", "failed"}]
  /\ poller \in [Clients -> Pollers] /\ orphan \in [Clients -> Commands \cup {"none", "over"}]
  /\ helper \in [Clients -> Held \cup {"off", "asked", "over"}]
  /\ lines \in [Clients -> SUBSET {"prefixed", "other"}]
  /\ session \in Someone /\ status \in Statuses /\ rootPid \in Someone
  /\ pidFile \in Someone /\ stateFile \in Someone
  /\ said \in Seq({"connected", "disconnected"} \X Clients)
  /\ confirmed \subseteq Clients /\ ran \subseteq Clients

NoPoller == [pc |-> "off", attempt |-> 0, session |-> None, mine |-> FALSE, pid |-> None]
NoRecord == [session |-> None, request |-> None, verified |-> FALSE, ever |-> FALSE]

Init ==
  /\ client = [c \in Clients |-> "off"] /\ hasId = [c \in Clients |-> FALSE]
  /\ final = [c \in Clients |-> None]
  /\ verdict = [c \in Clients |-> ""] /\ outcome = [c \in Clients |-> ""]
  /\ poller = [c \in Clients |-> NoPoller] /\ orphan = [c \in Clients |-> "none"]
  /\ helper = [c \in Clients |-> "off"] /\ lines = [c \in Clients |-> {}]
  /\ session = None /\ status = NoRecord /\ rootPid = None
  /\ pidFile = None /\ stateFile = None
  /\ said = <<>> /\ confirmed = {} /\ ran = {}

----------------------------------------------------------------------------
(* sudo, vpn-up-helper and OpenConnect *)

LockFree == \A c \in Clients : helper[c] \notin Held

(* What a refusal prints: lines with the prefix "sudo: " or "vpn-up-helper: ",
   and others; the hint to approve the profile and the rows of a closure report
   have no prefix. *)
Refusal == [ password   |-> {"prefixed"},
             unapproved |-> {"prefixed", "other"},
             policy     |-> {"prefixed"},
             closure    |-> {"prefixed", "other"},
             busy       |-> {"prefixed"} ]

Refuse(c) ==
  /\ helper[c] = "asked"
  /\ \E why \in DOMAIN Refusal :
       /\ why = "busy" => ~LockFree
       /\ lines' = [lines EXCEPT ![c] = Refusal[why]]
  /\ helper' = [helper EXCEPT ![c] = "over"]
  /\ UNCHANGED <<client, local, poller, orphan, root, user, said, confirmed, ran>>

GoesOn(c, from, to) == helper[c] = from /\ helper' = [helper EXCEPT ![c] = to]

Lock(c) ==
  /\ LockFree /\ GoesOn(c, "asked", "session")
  /\ UNCHANGED <<client, local, poller, orphan, lines, root, user, said, confirmed, ran>>

WriteSession(c) ==
  /\ GoesOn(c, "session", "status") /\ session' = c
  /\ UNCHANGED <<client, local, poller, orphan, lines, status, rootPid, user, said,
                 confirmed, ran>>

(* Without a request id of the client the helper makes one up. *)
WriteStatus(c) ==
  /\ GoesOn(c, "status", "pid")
  /\ status' = [session |-> c, request |-> IF hasId[c] THEN c ELSE None,
                verified |-> FALSE, ever |-> FALSE]
  /\ UNCHANGED <<client, local, poller, orphan, lines, session, rootPid, user, said,
                 confirmed, ran>>

RecordPid(c) ==
  /\ GoesOn(c, "pid", "exec") /\ rootPid' = c
  /\ UNCHANGED <<client, local, poller, orphan, lines, session, status, user, said,
                 confirmed, ran>>

(* OpenConnect prints lines of its own, or none with --quiet; sudo may have
   warned before it ("sudo: unable to resolve host"). *)
Exec(c) ==
  /\ GoesOn(c, "exec", "run") /\ ran' = ran \cup {c}
  /\ \E printed \in SUBSET {"prefixed", "other"} : lines' = [lines EXCEPT ![c] = printed]
  /\ UNCHANGED <<client, local, poller, orphan, root, user, said, confirmed>>

(* A step before execve fails, or execve, after which the record is pruned. *)
ConnectFails(c) ==
  /\ helper[c] \in Held \ {"run"}
  /\ helper' = [helper EXCEPT ![c] = "over"]
  /\ lines' = [lines EXCEPT ![c] = {"prefixed"}]
  /\ rootPid' = IF helper[c] = "exec" THEN None ELSE rootPid
  /\ UNCHANGED <<client, local, poller, orphan, session, status, user, said, confirmed, ran>>

Record(c, verified, ever) ==
  status' = [session |-> c, request |-> IF hasId[c] THEN c ELSE None,
             verified |-> verified, ever |-> ever]

TunnelUp(c) ==
  /\ helper[c] = "run" /\ Record(c, TRUE, TRUE)
  /\ confirmed' = confirmed \cup {c}
  /\ UNCHANGED <<client, local, poller, orphan, helper, lines, session, rootPid, user,
                 said, ran>>

TunnelDown(c) ==
  /\ helper[c] = "run" /\ Record(c, FALSE, status.ever)
  /\ UNCHANGED <<client, local, poller, orphan, helper, lines, session, rootPid, user,
                 said, confirmed, ran>>

(* OpenConnect ends, with or without its wrapper having said so. *)
TunnelEnds(c) ==
  /\ GoesOn(c, "run", "over")
  /\ UNCHANGED <<client, local, poller, orphan, lines, root, user, said, confirmed, ran>>

(* vpn-up stop, from another terminal, when the tunnel has ended of it. *)
Stop ==
  /\ LockFree /\ rootPid # None /\ rootPid' = None
  /\ UNCHANGED <<client, local, poller, orphan, helper, lines, session, status, user, said,
                 confirmed, ran>>

Helper(c) ==
  \/ Refuse(c) \/ Lock(c) \/ WriteSession(c) \/ WriteStatus(c) \/ RecordPid(c)
  \/ Exec(c) \/ ConnectFails(c) \/ TunnelUp(c) \/ TunnelDown(c) \/ TunnelEnds(c)

----------------------------------------------------------------------------
(* poll_helper_event *)

(* event-status: a status of another session than the one in the session file
   is no telemetry. *)
Report(s) == IF s # None /\ status.session = s THEN status ELSE NoRecord

Reads(c, from, p) ==
  /\ poller[c].pc = from /\ poller' = [poller EXCEPT ![c] = p]
  /\ UNCHANGED <<client, local, orphan, helper, lines, root, user, said, confirmed, ran>>

PollerReadsSession(c) ==
  Reads(c, "readSession", [poller[c] EXCEPT !.pc = "readStatus", !.attempt = @ + 1,
                                            !.session = session])

(* Mutant: any verified session will do. *)
MutantAnyReport(c) ==
  Reads(c, "readStatus", [poller[c] EXCEPT !.pc = "readPid",
    !.mine = Granted /\ Report(poller[c].session).verified])

PollerReadsStatus(c) ==
  LET r == Report(poller[c].session) IN
  Reads(c, "readStatus", [poller[c] EXCEPT !.pc = "readPid",
    !.mine = Granted /\ r.request = c /\ r.verified])

(* Mutant: the attempts are not counted. *)
MutantPollForEver(c) ==
  Reads(c, "readPid",
    IF poller[c].mine
      THEN [poller[c] EXCEPT !.pc = IF rootPid # None THEN "writePid" ELSE "writeState",
                             !.pid = rootPid]
      ELSE [poller[c] EXCEPT !.pc = "readSession"])

PollerReadsPid(c) ==
  Reads(c, "readPid",
    IF poller[c].mine
      THEN [poller[c] EXCEPT !.pc = IF rootPid # None THEN "writePid" ELSE "writeState",
                             !.pid = rootPid]
      ELSE [poller[c] EXCEPT !.pc = IF poller[c].attempt < MaxAttempts THEN "readSession"
                                                                       ELSE "dead"])

(* What the commands of the poller do; each runs in a child. *)
Effect(c, command) ==
  /\ pidFile' = IF command = "writePid" THEN poller[c].pid ELSE pidFile
  /\ stateFile' = IF command = "writeState" THEN c ELSE stateFile
  /\ said' = IF command = "announce" THEN Append(said, <<"connected", c>>) ELSE said

PollerActs(c) ==
  /\ poller[c].pc \in Commands /\ Effect(c, poller[c].pc)
  /\ poller' = [poller EXCEPT ![c].pc = CASE @ = "writePid"   -> "writeState"
                                          [] @ = "writeState" -> "announce"
                                          [] @ = "announce"   -> "dead"]
  /\ UNCHANGED <<client, local, orphan, helper, lines, root, confirmed, ran>>

OrphanActs(c) ==
  /\ orphan[c] \in Commands /\ Effect(c, orphan[c])
  /\ orphan' = [orphan EXCEPT ![c] = "over"]
  /\ UNCHANGED <<client, local, poller, helper, lines, root, confirmed, ran>>

Poller(c) ==
  \/ PollerReadsSession(c) \/ PollerReadsStatus(c) \/ PollerReadsPid(c) \/ PollerActs(c)
  \/ OrphanActs(c)

----------------------------------------------------------------------------
(* connect_via_helper and run_openconnect_helper *)

Step(c, from, to) == client[c] = from /\ client' = [client EXCEPT ![c] = to]

(* Admission: nobody else attempts, and no recorded tunnel runs. *)
Start(c) ==
  /\ \A d \in Clients : client[d] \in {"off", "done", "killed"}
  /\ pidFile # None => helper[pidFile] # "run"
  /\ Step(c, "off", "auth")
  /\ \E id \in BOOLEAN : hasId' = [hasId EXCEPT ![c] = id]
  /\ UNCHANGED <<final, verdict, outcome, poller, orphan, helper, lines, root, user, said,
                 confirmed, ran>>

AuthFails(c) ==
  /\ Step(c, "auth", "done") /\ outcome' = [outcome EXCEPT ![c] = "preauth"]
  /\ UNCHANGED <<hasId, final, verdict, poller, orphan, helper, lines, root, user, said,
                 confirmed, ran>>

Submit(c) ==
  /\ Step(c, "auth", "pipe") /\ helper' = [helper EXCEPT ![c] = "asked"]
  /\ poller' = IF hasId[c] THEN [poller EXCEPT ![c].pc = "readSession"] ELSE poller
  /\ UNCHANGED <<local, orphan, lines, root, user, said, confirmed, ran>>

(* Mutant: the poller is left alone. *)
MutantNoJoin(c) ==
  /\ helper[c] = "over" /\ Step(c, "pipe", "remove")
  /\ UNCHANGED <<local, poller, orphan, helper, lines, root, user, said, confirmed, ran>>

PipeEnds(c) ==
  /\ helper[c] = "over" /\ Step(c, "pipe", "join")
  /\ UNCHANGED <<local, poller, orphan, helper, lines, root, user, said, confirmed, ran>>

(* SIGTERM ends the poller's shell; a command it waits for goes on. *)
Join(c) ==
  /\ Step(c, "join", "remove")
  /\ poller' = [poller EXCEPT ![c].pc = "dead"]
  /\ \/ UNCHANGED orphan
     \/ /\ poller[c].pc \in Commands
        /\ orphan' = [orphan EXCEPT ![c] = poller[c].pc]
  /\ UNCHANGED <<local, helper, lines, root, user, said, confirmed, ran>>

Remove(c) ==
  /\ Step(c, "remove", IF hasId[c] THEN "readSession" ELSE "conclude")
  /\ pidFile' = None /\ stateFile' = None
  /\ UNCHANGED <<local, poller, orphan, helper, lines, root, said, confirmed, ran>>

FinalReadsSession(c) ==
  /\ Step(c, "readSession", "readStatus") /\ final' = [final EXCEPT ![c] = session]
  /\ UNCHANGED <<hasId, verdict, outcome, poller, orphan, helper, lines, root, user, said,
                 confirmed, ran>>

(* Mutants: anybody's session counts; the session has to be up now. *)
MutantFinalAny(c) == Granted /\ Report(final[c]).ever
MutantFinalNow(c) ==
  Granted /\ Report(final[c]).request = c /\ Report(final[c]).verified

(* _helper_final_event_had_tunnel *)
Verified(c) == Granted /\ Report(final[c]).request = c /\ Report(final[c]).ever

FinalReadsStatus(c) ==
  /\ Step(c, "readStatus", "conclude")
  /\ verdict' = [verdict EXCEPT ![c] = IF Verified(c) THEN "1" ELSE "0"]
  /\ UNCHANGED <<hasId, final, outcome, poller, orphan, helper, lines, root, user, said,
                 confirmed, ran>>

(* Mutant: silence is a refusal. *)
MutantSilence(c) == "other" \in lines[c]

(* _helper_run_had_tunnel *)
LogHadTunnel(c) == lines[c] # {"prefixed"}

Conclude(c) ==
  LET had == verdict[c] = "1" \/ LogHadTunnel(c) IN
  /\ Step(c, "conclude", "done")
  /\ said' = IF had THEN Append(said, <<"disconnected", c>>) ELSE said
  /\ \E rc \in IF c \in ran THEN {0, 1} ELSE {1} :
       outcome' = [outcome EXCEPT ![c] = CASE rc = 0 -> "ended"
                                            [] rc # 0 /\ had -> "failed"
                                            [] rc # 0 /\ ~had -> "policy"]
  /\ UNCHANGED <<hasId, final, verdict, poller, orphan, helper, lines, root, user,
                 confirmed, ran>>

(* SIGKILL of the client; its poller and its pipeline go on. *)
Killed(c) ==
  /\ client[c] \notin {"off", "done", "killed"}
  /\ client' = [client EXCEPT ![c] = "killed"]
  /\ UNCHANGED <<local, poller, orphan, helper, lines, root, user, said, confirmed, ran>>

ClientGoesOn(c) ==
  \/ AuthFails(c) \/ Submit(c) \/ PipeEnds(c) \/ Join(c) \/ Remove(c)
  \/ FinalReadsSession(c) \/ FinalReadsStatus(c) \/ Conclude(c)

Next ==
  \/ \E c \in Clients : Helper(c) \/ Poller(c) \/ Start(c) \/ ClientGoesOn(c) \/ Killed(c)
  \/ Stop

Spec == Init /\ [][Next]_vars

(* Every shell goes on; tunnels come and go as they like. *)
FairSpec ==
  Spec /\ \A c \in Clients : WF_vars(Poller(c)) /\ WF_vars(ClientGoesOn(c))

----------------------------------------------------------------------------
(* Properties *)

Said(what, c) == \E i \in 1..Len(said) : said[i] = <<what, c>>

(* twophase.sh:533-542, outcome.sh:16-26: the verdict that feeds the streak
   says 1 only for a tunnel of this very attempt, whatever other generations
   left in the telemetry or are writing to it. *)
VerdictIsGenuine == \A c \in Clients : verdict[c] = "1" => c \in confirmed

NobodyKilled == \A c \in Clients : client[c] # "killed"
NoOrphan     == \A c \in Clients : orphan[c] = "none"

(* twophase.sh:162-169: and it does say 1 when that tunnel came up, however the
   session ended, as long as telemetry can be read and no client was killed. *)
VerdictIsComplete ==
  Granted /\ NobodyKilled => \A c \in Clients : verdict[c] = "0" => c \notin confirmed

(* twophase.sh:122-130: connected is announced only for a session that its own
   wrapper has confirmed; and as long as no client was killed, the pid file
   that is published with it names the OpenConnect of that session. *)
OnlyOwnSession ==
  /\ \A c \in Clients : Said("connected", c) => c \in confirmed
  /\ \A c \in Clients : stateFile = c => c \in confirmed
  /\ NobodyKilled => \A c \in Clients : poller[c].pc \in Commands => poller[c].pid \in {None, c}

(* twophase.sh:514-516: a late "connected" never follows "disconnected", unless
   a command of the poller outlived it. *)
DisconnectedIsLast ==
  \A i, j \in 1..Len(said), c \in Clients :
    orphan[c] = "none" /\ said[i] = <<"disconnected", c>> /\ said[j] = <<"connected", c>>
      => j < i

(* twophase.sh:522: a session that is over leaves no record of itself, unless a
   client was killed or a command of a poller outlived it. *)
RecordIsRemoved ==
  NobodyKilled /\ NoOrphan =>
    \A c \in Clients : client[c] = "done" => c \notin {pidFile, stateFile}

(* A session that is over stays so: nothing announces it any more, and nothing
   on disk names it. *)
OverIsOver == DisconnectedIsLast /\ RecordIsRemoved

Reported(c) == Said("disconnected", c) /\ outcome[c] # "policy"

(* twophase.sh:565-570, as its comment has it: a session in which OpenConnect
   ran is reported as one that ended, and never as a refusal that tells the
   supervisor to stop.  A warning of sudo before a silent run refutes it. *)
NoRunIsRefused == \A c \in ran : client[c] = "done" => Reported(c)

(* twophase.sh:533-557: it is so when the run printed a line of its own or
   nothing at all; and, whatever was printed, when the tunnel came up and the
   client asked for telemetry that it may read, with no client killed. *)
RunsAreReported ==
  \A c \in ran :
    /\ client[c] = "done"
    /\ \/ lines[c] # {"prefixed"}
       \/ Granted /\ NobodyKilled /\ verdict[c] # "" /\ c \in confirmed
    => Reported(c)

(* twophase.sh:524-525: a refusal is not a disconnection. *)
RefusalIsNotDisconnection == \A c \in Clients : Said("disconnected", c) => c \in ran

(* README.md:309: hooks run when a tunnel comes up. *)
UpIsAnnounced ==
  \A c \in Clients :
    helper[c] = "run" /\ status.request = c /\ status.verified ~>
      Said("connected", c) \/ helper[c] # "run" \/ ~status.verified
=============================================================================
