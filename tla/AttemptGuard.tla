---------------------------- MODULE AttemptGuard ----------------------------
(***************************************************************************)
(* Admission of authentication attempts for one profile: the state file of *)
(* outcome.sh, admit_attempt and the other locked operations on it, and    *)
(* the callers in core.sh (start, run_admitted_connection) and             *)
(* encryption.sh (secrets_set) that decide in which order they run.        *)
(*                                                                         *)
(* StateLock shows that _state_lock serialises the transactions, so each   *)
(* one is a single step here, except admit_attempt's: it reads facts that  *)
(* the lock does not protect (the running tunnel, the clock, whether the   *)
(* owner is alive) one after the other, so taking the lock, looking for a  *)
(* tunnel and deciding are separate steps and the world moves between them.*)
(*                                                                         *)
(* profile_vpn_running, `status` and `stop` all read the pid file, ask ps  *)
(* about the pid and, when that is no OpenConnect, remove the file: three  *)
(* commands that no lock protects, on a file that other processes write.   *)
(*                                                                         *)
(* The attempts field is a set: admit_attempt drops entries of the future, *)
(* and with one entry left waits at least Curve[1] > 0 after the latest,   *)
(* so no time is ever entered twice and the file lists them in order.      *)
(***************************************************************************)
EXTENDS Integers, Sequences, FiniteSets, FiniteSetsExt

CONSTANTS
  Services,          \* pids of vpn-up under launchd or systemd
  Interactives,      \* pids of vpn-up at a terminal
  Viewers,           \* processes that run vpn-up status or vpn-up stop
  None,              \* no pid
  Gone,              \* the pid of a process that has ended
  Window, Threshold, Breaker, Clamp,   \* _ATTEMPT_WINDOW, _ATTEMPT_THRESHOLD, ...
  Curve,             \* _ATTEMPT_CURVE
  StreakLimit,       \* _UNVERIFIED_STREAK_LIMIT
  StepSecs,          \* length of a TOTP step
  UseTotp,           \* does the profile use TOTP?
  Outcomes,          \* what dispatching a connection may lead to
  CrashPoints,       \* where a process may be killed
  ReusePids,         \* may a new process get the pid of a dead owner?
  WritesMayFail,     \* may _state_persist fail?
  ClockMayJumpBack,  \* may the clock be set back?
  CodeIsImmediate,   \* does the clock stand still between reserving a TOTP
                     \* step and generating the code?
  MaxTime, MaxEdits  \* bounds: the clock and the number of secret changes

Pids  == Services \cup Interactives
Steps == {"start", "admit", "check", "decide", "prep", "reserve", "code",
          "dispatch", "up", "epilogue", "release"}

ASSUME Processes ==
  /\ Services \cap Interactives = {} /\ Viewers \cap Pids = {} /\ IsFiniteSet(Services)
  /\ None \notin Pids /\ Gone \notin Pids \cup {None}
  /\ CrashPoints \subseteq Steps
ASSUME Limits ==
  /\ {Window, Threshold, Breaker, Clamp, StreakLimit, StepSecs} \subseteq Nat \ {0}
  /\ {MaxTime, MaxEdits} \subseteq Nat
ASSUME CurveGrows ==
  /\ Curve \in [0..Threshold - 1 -> Nat]
  /\ \A i \in 1..Threshold - 1 : Curve[i] > 0 /\ Curve[i] >= Curve[i - 1]
ASSUME KnownOutcomes ==
  Outcomes \subseteq {"rejected", "unverified", "verified", "unknown"}
ASSUME Switches ==
  {UseTotp, ReusePids, WritesMayFail, ClockMayJumpBack, CodeIsImmediate} \subseteq BOOLEAN

VARIABLES
  now,       \* date +%s
  seed,      \* generation of the stored token_secret
  st,        \* the state file
  inside,    \* the process in a transaction of admit_attempt, or None
  view,      \* what that process has loaded: the file, and whether a tunnel runs
  pc, my,    \* the processes and their shell variables
  tunnels,   \* starters of the openconnect processes that run
  pidfile,   \* the starter of the process in the profile's pid file
  seen,      \* the pid that a process which looks for a tunnel read there
  setter,    \* where a running set-secret is
  edits,     \* how many there have been
  held,      \* history: when admit_attempt first read a breaker that was open at
             \* every read since, or 0
  grants,    \* history: times of the latest SERVICE admissions
  reserved,  \* history: TOTP steps reserved since the last clear
  spent,     \* history: codes submitted to the gateway
  barren,    \* history: SERVICE dispatches since the last SERVICE tunnel
  strays     \* history: running tunnels whose pid file was taken away or
             \* overwritten, or whose starter was killed

vars == <<now, seed, st, inside, view, pc, my, tunnels, pidfile, seen, setter,
          edits, held, grants, reserved, spent, barren, strays>>
locals   == <<pc, my>>
records  == <<pidfile, seen, strays>>
history  == <<held, grants, reserved, spent, barren>>
outside  == <<now, seed, tunnels, setter, edits>>

Files ==
  [attempts : SUBSET Nat, openUntil : Nat, totpStep : Nat, owner : Pids \cup {None},
   paused : BOOLEAN, streak : Nat]
NewFile == [attempts |-> {}, openUntil |-> 0, totpStep |-> 0, owner |-> None,
            paused |-> FALSE, streak |-> 0]
Codes   == [seed : Nat, step : Nat]
Locals  == [fails : 0..2, code : Codes, verdict : {"none", "0", "1"}]
NoView  == [file |-> NewFile, up |-> FALSE]
NoCode  == [seed |-> 0, step |-> 0]
Blank   == [fails |-> 0, code |-> NoCode, verdict |-> "none"]

TypeOK ==
  /\ now \in Nat /\ seed \in Nat /\ edits \in Nat /\ barren \in Nat /\ held \in Nat
  /\ st \in Files
  /\ inside \in Pids \cup {None}
  /\ view \in [file : Files, up : BOOLEAN]
  /\ pc \in [Pids -> Steps \cup {"off"}]
  /\ my \in [Pids -> Locals]
  /\ tunnels \subseteq Pids
  /\ pidfile \in Pids \cup {None, Gone}
  /\ seen \in [Pids \cup Viewers -> Pids \cup {None, Gone}]
  /\ strays \subseteq tunnels
  /\ setter \in {"idle", "history", "both", "totp"}
  /\ grants \in Seq(Nat)
  /\ reserved \subseteq Nat
  /\ spent \subseteq Codes

Alive(p) == pc[p] # "off"                                     \* kill -0
Step     == now \div StepSecs

Init ==
  /\ now = 1 /\ seed = 1 /\ st = NewFile /\ inside = None /\ view = NoView
  /\ pc = [p \in Pids |-> "off"] /\ my = [p \in Pids |-> Blank]
  /\ tunnels = {} /\ pidfile = None /\ setter = "idle" /\ edits = 0
  /\ seen = [c \in Pids \cup Viewers |-> None] /\ strays = {}
  /\ held = 0 /\ grants = <<>> /\ reserved = {} /\ spent = {} /\ barren = 0

----------------------------------------------------------------------------
(* The state file *)

(* Mutant: every read moves an open breaker to the clamp. *)
MutantReadRebases == [st EXCEPT !.openUntil = IF @ > now THEN now + Clamp ELSE @]

(* _state_read: a far-future open_until is clamped, and the clamped value is
   written back by the same transaction. *)
Read == [st EXCEPT !.openUntil = IF @ > now + Clamp THEN now + Clamp ELSE @]

(* A write that fails leaves the old file, or the one _state_read wrote back. *)
WriteFails == WritesMayFail /\ st' \in {st, Read}

Write(file) == st' = file \/ WriteFails                       \* result unchecked

(* The ring, without what lies outside the window in either direction. *)
Recent(times) == {a \in times : a <= now /\ now - a <= Window}

(* The cap on the ring: the Threshold latest entries. *)
Latest(times) == {a \in times : Cardinality({b \in times : b > a}) < Threshold}

LastOf(times) == IF times = {} THEN 0 ELSE Max(times)

----------------------------------------------------------------------------
(* profile_vpn_running, status and stop *)

(* Whatever pid the file names from now on, a tunnel it named is on no record. *)
PutPid(x) ==
  /\ pidfile' = x
  /\ strays' = (strays \cup ({pidfile} \cap tunnels)) \ {x}

(* test -f, and the cat of what is there *)
Look(c) == seen' = [seen EXCEPT ![c] = pidfile] /\ UNCHANGED <<pidfile, strays>>

Forget(c) == seen' = [seen EXCEPT ![c] = None]

(* The cat comes after the test: a file removed in between reads as no pid. *)
Vanish(c) ==
  /\ seen[c] \in tunnels /\ pidfile = None
  /\ seen' = [seen EXCEPT ![c] = Gone]
  /\ UNCHANGED <<pidfile, strays, st, inside, view, locals, outside, history>>

(* ps knows the pid. *)
SeesTunnel(c) == seen[c] \in tunnels /\ Forget(c) /\ UNCHANGED <<pidfile, strays>>

(* ps does not know it: rm of the file, whichever pid it names by now. *)
CleansUp(c) == seen[c] = Gone /\ Forget(c) /\ PutPid(None)

(* status for every pid file, and stop, which signals the process and polls
   until ps no longer knows it, or gives up *)
ViewPid(c) ==
  /\ \/ seen[c] = None /\ pidfile # None /\ Look(c)
     \/ SeesTunnel(c)
     \/ CleansUp(c)
  /\ UNCHANGED <<st, inside, view, locals, outside, history>>

----------------------------------------------------------------------------
(* start: refuse at once when the tunnel is up, otherwise wait for admission *)

Start(p) ==
  /\ pc[p] = "off" /\ p \notin tunnels
  /\ ReusePids \/ st.owner # p
  /\ Look(p)
  /\ pc' = [pc EXCEPT ![p] = IF pidfile = None THEN "admit" ELSE "start"]
  /\ UNCHANGED <<st, inside, view, my, outside, history>>

StartLooks(p) ==
  /\ pc[p] = "start"
  /\ \/ SeesTunnel(p) /\ pc' = [pc EXCEPT ![p] = "off"]
     \/ CleansUp(p) /\ pc' = [pc EXCEPT ![p] = "admit"]
  /\ UNCHANGED <<st, inside, view, my, outside, history>>

(* Mutant: the clamped time is not written back. *)
MutantClampInMemory(p) ==
  /\ pc[p] = "admit" /\ inside = None
  /\ inside' = p
  /\ view' = [file |-> Read, up |-> FALSE]
  /\ UNCHANGED st
  /\ Look(p)
  /\ held' = IF Read.openUntil <= now THEN 0
             ELSE IF held \in 1..now THEN held ELSE now
  /\ pc' = [pc EXCEPT ![p] = IF pidfile = None THEN "decide" ELSE "check"]
  /\ UNCHANGED <<my, outside, grants, reserved, spent, barren>>

(* admit_attempt: lock, _state_read, and profile_vpn_running's first look *)
AdmitBegin(p) ==
  /\ pc[p] = "admit" /\ inside = None
  /\ inside' = p
  /\ view' = [file |-> Read, up |-> FALSE]
  /\ Write(Read)
  /\ Look(p)
  /\ held' = IF Read.openUntil <= now THEN 0
             ELSE IF held \in 1..now THEN held ELSE now
  /\ pc' = [pc EXCEPT ![p] = IF pidfile = None THEN "decide" ELSE "check"]
  /\ UNCHANGED <<my, outside, grants, reserved, spent, barren>>

AdmitLooks(p) ==
  /\ pc[p] = "check"
  /\ \/ SeesTunnel(p) /\ view' = [view EXCEPT !.up = TRUE]
     \/ CleansUp(p) /\ UNCHANGED view
  /\ pc' = [pc EXCEPT ![p] = "decide"]
  /\ UNCHANGED <<st, inside, my, outside, history>>

Decide(p, next) ==
  /\ pc[p] = "decide"
  /\ inside' = None /\ view' = NoView
  /\ pc' = [pc EXCEPT ![p] = next]
  /\ UNCHANGED <<records, outside, held, reserved, spent, barren>>

Poll(p) == Decide(p, "admit") /\ UNCHANGED <<my, grants>>

TunnelIsUp(p) ==
  /\ view.up
  /\ Decide(p, IF p \in Services THEN "admit" ELSE "off")
  /\ my' = [my EXCEPT ![p] = IF p \in Services THEN @ ELSE Blank]
  /\ UNCHANGED <<st, grants>>

(* Mutant: no owner is ever stale. *)
MutantOwnerForEver == view.file.owner # None

HasLiveOwner == view.file.owner # None /\ Alive(view.file.owner)

OwnerIsAlive(p) == ~view.up /\ HasLiveOwner /\ Poll(p) /\ UNCHANGED st

IsPaused(p) ==
  ~view.up /\ ~HasLiveOwner /\ view.file.paused /\ Poll(p) /\ UNCHANGED st

(* Mutant: an attempt without an owner is taken for no tunnel. *)
MutantNoTunnelTest == ~HasLiveOwner /\ ~view.file.paused

Unblocked == ~view.up /\ ~HasLiveOwner /\ ~view.file.paused

(* From here on a dead owner has been dropped from the loaded fields. *)
Unowned   == [view.file EXCEPT !.owner = None]
Pruned    == [Unowned EXCEPT !.attempts = Recent(@)]

BreakerIsOpen(p) ==
  /\ p \in Services /\ Unblocked /\ Pruned.openUntil > now
  /\ Poll(p) /\ UNCHANGED st

BreakerExpired(p) ==
  p \in Services /\ Unblocked /\ Pruned.openUntil \in 1..now

(* Mutant: the streak is retired with the window. *)
MutantRetireAll == [Pruned EXCEPT !.attempts = {}, !.openUntil = 0, !.streak = 0]

Retired == [Pruned EXCEPT !.attempts = {}, !.openUntil = 0]

RetireWindow(p) ==
  /\ BreakerExpired(p) /\ Pruned.streak < StreakLimit
  /\ Write(Retired)
  /\ Poll(p)

(* Mutant: one attempt too early. *)
MutantEarly(p) ==
  /\ BreakerExpired(p) /\ Pruned.streak >= StreakLimit - 1
  /\ Write([Retired EXCEPT !.paused = TRUE, !.streak = 0])
  /\ Poll(p)

Escalate(p) ==
  /\ BreakerExpired(p) /\ Pruned.streak >= StreakLimit
  /\ Write([Retired EXCEPT !.paused = TRUE, !.streak = 0])
  /\ Poll(p)

Throttled(p) == p \in Services /\ Unblocked /\ Pruned.openUntil = 0

OpenBreaker(p) ==
  /\ Throttled(p) /\ Cardinality(Pruned.attempts) >= Threshold
  /\ Write([Pruned EXCEPT !.openUntil = now + Breaker])
  /\ Poll(p)

(* Mutant: the curve never gets past its first delay. *)
MutantFlatCurve ==
  LastOf(Pruned.attempts) + Curve[IF Pruned.attempts = {} THEN 0 ELSE 1]

Due == LastOf(Pruned.attempts) + Curve[Cardinality(Pruned.attempts)]

TooSoon(p) ==
  /\ Throttled(p) /\ Cardinality(Pruned.attempts) < Threshold /\ now < Due
  /\ Poll(p) /\ UNCHANGED st

Admissible(p) ==
  /\ pc[p] = "decide" /\ Unblocked
  /\ p \in Services =>
       /\ Pruned.openUntil = 0
       /\ Cardinality(Pruned.attempts) < Threshold
       /\ now >= Due

Owned(p) == [Unowned EXCEPT !.owner = p]
Charged(p) ==
  [Pruned EXCEPT !.owner = p, !.attempts = Latest(@ \cup {now})]

KeepLast(s, n) == IF Len(s) <= n THEN s ELSE SubSeq(s, Len(s) - n + 1, Len(s))

(* Mutant: the result of the write is not looked at. *)
MutantGrantUnchecked(p) ==
  /\ Admissible(p)
  /\ Decide(p, "prep")
  /\ Write(IF p \in Services THEN Charged(p) ELSE Owned(p))
  /\ my' = [my EXCEPT ![p] = Blank]
  /\ grants' = IF p \in Services THEN KeepLast(Append(grants, now), Threshold + 1)
                                 ELSE grants

Grant(p) ==
  /\ Admissible(p)
  /\ Decide(p, "prep")
  /\ st' = IF p \in Services THEN Charged(p) ELSE Owned(p)
  /\ my' = [my EXCEPT ![p] = Blank]
  /\ grants' = IF p \in Services THEN KeepLast(Append(grants, now), Threshold + 1)
                                 ELSE grants

OneMoreFailure(p) == [my[p] EXCEPT !.fails = @ + 1]

(* The admission could not be written: try again, a terminal thrice only. *)
GrantFails(p) ==
  /\ Admissible(p) /\ WriteFails
  /\ \/ p \in Services /\ Poll(p)
     \/ /\ p \in Interactives /\ my[p].fails < 2
        /\ Decide(p, "admit")
        /\ my' = [my EXCEPT ![p] = OneMoreFailure(p)]
        /\ UNCHANGED grants
     \/ /\ p \in Interactives /\ my[p].fails = 2
        /\ Decide(p, "off")
        /\ my' = [my EXCEPT ![p] = Blank]
        /\ UNCHANGED grants

Admission(p) ==
  \/ TunnelIsUp(p) \/ OwnerIsAlive(p) \/ IsPaused(p) \/ BreakerIsOpen(p)
  \/ RetireWindow(p) \/ Escalate(p) \/ OpenBreaker(p) \/ TooSoon(p)
  \/ Grant(p) \/ GrantFails(p)

----------------------------------------------------------------------------
(* run_admitted_connection *)

Go(p, from, to, mine) ==
  /\ pc[p] = from
  /\ pc' = [pc EXCEPT ![p] = to]
  /\ my' = [my EXCEPT ![p] = mine]

(* sudo, the password, the PKCS#11 PIN and the TOTP seed, in that order *)
Prepare(p) ==
  /\ Go(p, "prep", IF UseTotp THEN "reserve" ELSE "dispatch",
        [Blank EXCEPT !.code.seed = IF UseTotp THEN seed ELSE 0])
  /\ UNCHANGED <<st, inside, view, records, outside, history>>

PrepareFails(p) ==
  /\ Go(p, "prep", "epilogue", Blank)
  /\ UNCHANGED <<st, inside, view, records, outside, history>>

(* Mutant: the step reserved last is fresh. *)
MutantReserveSame(p) ==
  /\ inside = None /\ Step >= Read.totpStep
  /\ Go(p, "reserve", "code", my[p])
  /\ st' = [Read EXCEPT !.totpStep = Step]
  /\ reserved' = reserved \cup {Step}
  /\ UNCHANGED <<inside, view, records, outside, held, grants, spent, barren>>

(* totp_wait_for_fresh_step: until the step is ahead of the reserved one this
   is a poll, which changes nothing. *)
Reserve(p) ==
  /\ inside = None /\ Step > Read.totpStep
  /\ Go(p, "reserve", "code", my[p])
  /\ st' = [Read EXCEPT !.totpStep = Step]
  /\ reserved' = reserved \cup {Step}
  /\ UNCHANGED <<inside, view, records, outside, held, grants, spent, barren>>

ReserveFails(p) ==
  /\ inside = None /\ Step > Read.totpStep /\ WriteFails
  /\ \/ my[p].fails < 2 /\ Go(p, "reserve", "reserve", OneMoreFailure(p))
     \/ my[p].fails = 2 /\ Go(p, "reserve", "epilogue", Blank)
  /\ UNCHANGED <<inside, view, records, outside, history>>

(* oathtool fails, or the seed is no base32 *)
GenerateFails(p) ==
  /\ Go(p, "code", "epilogue", Blank)
  /\ UNCHANGED <<st, inside, view, records, outside, history>>

(* generate_totp: oathtool reads the clock again. *)
Generate(p) ==
  /\ Go(p, "code", "dispatch", [my[p] EXCEPT !.fails = 0, !.code.step = Step])
  /\ UNCHANGED <<st, inside, view, records, outside, history>>

Submit(p) ==
  spent' = IF UseTotp THEN spent \cup {my[p].code} ELSE spent

(* connect_via_helper and run_openconnect without a tunnel.  "rejected": phase
   one or a prompt-mode run failed, and there is no verdict; "unverified": the
   helper ran and its telemetry never confirmed a tunnel.  A run in the
   foreground removes the pid file when it is over. *)
Fruitless(p) ==
  \E o \in Outcomes \cap {"rejected", "unverified"} :
    /\ Go(p, "dispatch", "epilogue",
          [Blank EXCEPT !.verdict = IF o = "rejected" THEN "none" ELSE "0"])
    /\ Submit(p)
    /\ barren' = IF p \in Services THEN barren + 1 ELSE barren
    /\ PutPid(None) \/ (o = "rejected" /\ UNCHANGED <<pidfile, strays>>)
    /\ UNCHANGED <<st, inside, view, seen, outside, held, grants, reserved>>

(* A foreground session.  "verified": helper mode with telemetry; "unknown":
   prompt mode, or a helper without telemetry. *)
Connect(p) ==
  \E o \in Outcomes \cap {"verified", "unknown"} :
    /\ Go(p, "dispatch", "up",
          [Blank EXCEPT !.verdict = IF o = "verified" THEN "1" ELSE "none"])
    /\ Submit(p)
    /\ barren' = IF p \in Services THEN 0 ELSE barren
    /\ tunnels' = tunnels \cup {p}
    /\ UNCHANGED <<now, seed, setter, edits, st, inside, view, records, held, grants, reserved>>

(* BACKGROUND=TRUE in prompt mode: openconnect writes the pid file, daemonizes
   and outlives the command that started it. *)
Daemonize(p) ==
  /\ p \in Interactives /\ "unknown" \in Outcomes
  /\ Go(p, "dispatch", "epilogue", Blank)
  /\ Submit(p)
  /\ tunnels' = tunnels \cup {p}
  /\ PutPid(p)
  /\ UNCHANGED <<now, seed, setter, edits, st, inside, view, seen, held, grants, reserved, barren>>

(* _record_foreground_openconnect_pid, or the helper-mode poller.  A tunnel
   whose starter is gone stays a stray: nobody's waiting protects it. *)
RecordPid(p) ==
  /\ p \in tunnels /\ pidfile # p
  /\ pidfile' = p
  /\ strays' = IF pc[p] = "up" THEN (strays \cup ({pidfile} \cap tunnels)) \ {p}
                               ELSE strays \cup ({pidfile} \cap tunnels)
  /\ UNCHANGED <<seen, st, inside, view, locals, outside, history>>

(* The session ends by itself or is stopped: its pid means nothing any more. *)
TunnelEnds(p) ==
  /\ p \in tunnels
  /\ tunnels' = tunnels \ {p}
  /\ pidfile' = IF pidfile = p THEN Gone ELSE pidfile
  /\ seen' = [c \in DOMAIN seen |-> IF seen[c] = p THEN Gone ELSE seen[c]]
  /\ strays' = strays \ {p}
  /\ UNCHANGED <<now, seed, setter, edits, st, inside, view, locals, history>>

(* The command that waits for it removes the pid file. *)
SessionOver(p) ==
  /\ p \notin tunnels
  /\ Go(p, "up", "epilogue", my[p])
  /\ PutPid(None)
  /\ UNCHANGED <<seen, st, inside, view, outside, history>>

(* record_attempt_verification *)
RecordVerdict(p) ==
  /\ IF p \in Services /\ my[p].verdict # "none"
       THEN /\ inside = None
            /\ Write([Read EXCEPT !.streak = IF my[p].verdict = "1" THEN 0 ELSE @ + 1])
       ELSE UNCHANGED st
  /\ Go(p, "epilogue", "release", Blank)
  /\ UNCHANGED <<inside, view, records, outside, history>>

(* release_attempt_owner, and the end of the command *)
Release(p) ==
  /\ inside = None
  /\ Go(p, "release", "off", Blank)
  /\ Write(IF Read.owner = p THEN [Read EXCEPT !.owner = None] ELSE Read)
  /\ UNCHANGED <<inside, view, records, outside, history>>

Attempt(p) ==
  \/ Prepare(p) \/ PrepareFails(p) \/ Reserve(p) \/ ReserveFails(p) \/ Generate(p)
  \/ GenerateFails(p) \/ Fruitless(p) \/ Connect(p) \/ Daemonize(p) \/ SessionOver(p)
  \/ RecordVerdict(p) \/ Release(p)

----------------------------------------------------------------------------
(* secrets_set: store the secret, then clear what depended on the old one *)

Store(next) ==
  /\ setter = "idle" /\ edits < MaxEdits
  /\ setter' = next /\ edits' = edits + 1
  /\ UNCHANGED <<now, tunnels, st, inside, view, locals, records, history>>

StorePassword == Store("history") /\ UNCHANGED seed
StoreToken    == Store("both") /\ seed' = seed + 1

(* Mutant: a generic "clear everything". *)
MutantClearAll ==
  /\ setter \in {"history", "both"} /\ inside = None
  /\ Write([NewFile EXCEPT !.owner = st.owner, !.paused = st.paused])
  /\ setter' = IF setter = "both" THEN "totp" ELSE "idle"
  /\ grants' = <<>> /\ barren' = 0
  /\ UNCHANGED <<now, seed, tunnels, edits, inside, view, locals, records, held, reserved, spent>>

(* attempt_history_clear *)
ClearHistory ==
  /\ setter \in {"history", "both"} /\ inside = None
  /\ Write([Read EXCEPT !.attempts = {}, !.openUntil = 0, !.streak = 0])
  /\ setter' = IF setter = "both" THEN "totp" ELSE "idle"
  /\ grants' = <<>>
  /\ barren' = Cardinality({p \in Services : my[p].verdict = "0"})   \* still to be recorded
  /\ UNCHANGED <<now, seed, tunnels, edits, inside, view, locals, records, held, reserved, spent>>

(* totp_step_reservation_clear *)
ClearReservation ==
  /\ setter = "totp" /\ inside = None
  /\ Write([Read EXCEPT !.totpStep = 0])
  /\ setter' = "idle"
  /\ reserved' = {}
  /\ UNCHANGED <<now, seed, tunnels, edits, inside, view, locals, records, held, grants, spent, barren>>

SetSecret == StorePassword \/ StoreToken \/ ClearHistory \/ ClearReservation

----------------------------------------------------------------------------
(* The machine *)

(* SIGKILL, power loss, or a signal with no handler: nothing is released; a
   lock the process held is reclaimed. *)
Kill(p) ==
  /\ pc[p] \in CrashPoints
  /\ pc' = [pc EXCEPT ![p] = "off"]
  /\ my' = [my EXCEPT ![p] = Blank]
  /\ inside' = IF inside = p THEN None ELSE inside
  /\ view' = IF inside = p THEN NoView ELSE view
  /\ Forget(p)
  /\ strays' = strays \cup ({p} \cap tunnels)
  /\ UNCHANGED <<pidfile, st, outside, history>>

ClockMayMove == CodeIsImmediate => \A p \in Pids : pc[p] # "code"

SetClock(t) ==
  /\ ClockMayMove
  /\ now' = t
  /\ UNCHANGED <<seed, tunnels, setter, edits, st, inside, view, locals, records, history>>

Tick     == now < MaxTime /\ SetClock(now + 1)
JumpBack == ClockMayJumpBack /\ now > 1 /\ SetClock(now - 1)

Looking ==
  \/ \E p \in Pids : StartLooks(p) \/ AdmitLooks(p)
  \/ \E c \in Viewers : ViewPid(c)
  \/ \E c \in Pids \cup Viewers : Vanish(c)

Next ==
  \/ Tick \/ JumpBack \/ SetSecret \/ Looking
  \/ \E p \in Pids : \/ Start(p) \/ AdmitBegin(p) \/ Admission(p) \/ Attempt(p)
                     \/ RecordPid(p) \/ TunnelEnds(p) \/ Kill(p)

Spec == Init /\ [][Next]_vars

(* Who waits at a terminal goes on: polling gets the lock again and again while
   others only hold it for a transaction, and a write that can succeed does not
   fail for ever.  Nothing is asked of services, sessions or attempts. *)
FairSpec ==
  /\ Spec
  /\ \A p \in Interactives : /\ SF_vars(AdmitBegin(p)) /\ WF_vars(AdmitLooks(p))
                             /\ WF_vars(Admission(p)) /\ SF_vars(Grant(p))

----------------------------------------------------------------------------
(* Properties *)

Waits      == {"start", "admit", "check", "decide"}
Attempting == {p \in Pids : pc[p] \in Steps \ Waits}

(* outcome.sh:570-574, 587-592: from its admission to its release an attempt
   owns the profile on disk, so no other one is under way. *)
AttemptOwnsProfile == \A p \in Attempting : st.owner = p
OneAttempt         == \A p, q \in Attempting : p = q

(* What the transactions rely on, as an inductive invariant: one process decides
   at a time, on an owner and a reserved step that are still on disk and on a
   breaker no later than the one on disk; no reservation is ahead of the file. *)
DeciderIsInside == \A p \in Pids : pc[p] \in {"check", "decide"} <=> inside = p
ViewIsCurrent ==
  inside # None =>
    /\ view.file.owner = st.owner /\ view.file.totpStep = st.totpStep
    /\ view.file.openUntil <= st.openUntil
ReservedIsOnDisk == \A step \in reserved : step <= st.totpStep
IndInv ==
  TypeOK /\ DeciderIsInside /\ ViewIsCurrent /\ ReservedIsOnDisk /\ AttemptOwnsProfile

(* outcome.sh:384-407, 470-568: whatever is written, retired, pruned or lost
   in between, the gateway never sees SERVICE attempts closer together than
   the curve, the window and the breaker promise: k+1 admissions in a row take
   at least the k first delays of the curve, a breaker, or a whole window. *)
CurveSum[k \in 0..Threshold - 1] == IF k = 0 THEN 0 ELSE CurveSum[k - 1] + Curve[k]

LeastSpan(k) ==
  Min({Window + 1, Breaker} \cup (IF k < Threshold THEN {CurveSum[k]} ELSE {}))

AttemptRate ==
  \A i, j \in 1..Len(grants) : i < j => grants[j] - grants[i] >= LeastSpan(j - i)

(* outcome.sh:271-276, 301-307: an open breaker keeps attempts waiting for at
   most the clamp, however far ahead a clock that is set back leaves it. *)
BreakerEnds == held > 0 => st.openUntil <= held + Clamp

(* outcome.sh:271-276: only admit_attempt's decision moves the end of a breaker
   ahead; no write-back of a clamped time does. *)
BreakerStandsStill ==
  [][st.openUntil > 0 /\ st'.openUntil > st.openUntil
       => \E p \in Services : OpenBreaker(p)]_vars

(* outcome.sh:743-754: between two clears no TOTP step is reserved twice, even
   by a clock that is set back. *)
FreshReservation ==
  [][\A p \in Pids : pc[p] = "reserve" /\ pc'[p] = "code" => Step \notin reserved]_vars

(* outcome.sh:716-724: no one-time code is submitted twice. *)
NoReplay ==
  [][\A p \in Pids : pc[p] = "dispatch" /\ pc'[p] \in {"up", "epilogue"} /\ UseTotp
       => my[p].code \notin spent]_vars

(* outcome.sh:434-441, logging.sh:85-95: an attempt is admitted while a tunnel of
   the profile runs only if, while that tunnel ran, its pid file was taken away
   or overwritten or its starter was killed. *)
AdmissionSeesTunnels ==
  [][\A p \in Pids : pc[p] = "decide" /\ pc'[p] = "prep" => tunnels \subseteq strays]_vars

(* outcome.sh:434-441, as it is written there: no attempt is admitted while a
   tunnel of the profile runs. *)
NoAdmissionUnderTunnel ==
  [][\A p \in Pids : pc[p] = "decide" /\ pc'[p] = "prep" => tunnels = {}]_vars

(* outcome.sh:409-421, 513-517: an attempt history is paused only after
   StreakLimit SERVICE attempts in a row that brought no tunnel up. *)
PauseIsEarned == [][~st.paused /\ st'.paused => barren >= StreakLimit]_vars

(* outcome.sh:409-421: attempts that bring no tunnel up end in a pause; they do
   not go on for ever. *)
BarrenAttemptsEnd == barren < StreakLimit + Threshold

(* outcome.sh:504-509: fixing the credential lifts the pause. *)
FixLiftsPause == [][ClearHistory => st'.paused = FALSE]_vars

(* outcome.sh:393-396: at a terminal, only a live owner or a running tunnel
   makes an attempt wait. *)
OnlyOwnersBlockTerminals ==
  [][\A p \in Interactives :
       pc[p] = "decide" /\ pc'[p] = "admit" => HasLiveOwner]_vars

(* core.sh:571-573: the next admit_attempt reclaims the ownership of a killed
   process, so a dead owner stays no longer than somebody waits at a terminal. *)
SomebodyWaits == \E q \in Interactives : pc[q] \in Waits \ {"start"}

OwnerIsDead   == st.owner # None /\ ~Alive(st.owner)

DeadOwnerReplaced == OwnerIsDead /\ SomebodyWaits ~> ~OwnerIsDead \/ ~SomebodyWaits
=============================================================================
