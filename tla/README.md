# VPN Up for OpenConnect: a TLA+ verification project

VPN Up is a set of bash scripts around OpenConnect and a small privileged helper
in C. The modules in this directory model the parts of it that are hard to get
right: the rate limiter of authentication attempts and its lock, the privileged
helper's sessions, the client that watches them, what the helper is asked for and
on what authority it acts, the registry of approvals, the closure of files it
trusts, and the installation of the helper. TLC checks every module on small instances; TLAPS proves what matters
most for every instance.

`M.tla` is a model, `MCM.tla` gives its constants values for TLC, `M_x.cfg` is a
run, `MProofs.tla` holds the theorems. Where a definition names a file, it is a
file of the repository.

## 1. The system

| Component | Source | State | Operations | Hard behaviour |
|---|---|---|---|---|
| State lock | `outcome.sh` 140-260 | the directory `<state>.lock` with its `owner` file, the directory `<state>.lock.reclaiming` | `_state_lock`, `_state_unlock` | shells that die at any command, recycled pids, a reclaimer acting on stale facts, an `rm` that outlives its shell |
| Attempt guard | `outcome.sh` 260-770 | `<profile>.state`: attempts, breaker, streak, pause, owner, last TOTP step | `admit_attempt`, `record_attempt_verification`, `release_attempt_owner`, `attempt_history_clear`, `totp_wait_for_fresh_step`, `totp_step_reservation_clear` | services and terminals polling one profile, crashes between admission and release, failing writes, a clock that is set back, secrets changed meanwhile |
| start and dispatch | `core.sh`, `vpn-up.command` | shell variables of the attempt | `start`, `run_admitted_connection`, `run_openconnect` | which of the transactions run in which order, and what an abort skips |
| Session record | `core.sh`, `logging.sh` | `<profile>.pid`, `<profile>.state` of the session | record, `status`, `stop`, `profile_vpn_running` | a recorder beside the session it records; pid files judged stale |
| Two-phase client | `twophase.sh` | request id, poller, log, verdict | `connect_via_helper`, `poll_helper_event`, the final read | an asynchronous poller, a report read file by file, hooks in the wrong order |
| Helper: connect, stop | `helper/src/helper_main.c`, `state.c` | `lock`, `pid`, `started`, `session`, `status` of a profile, root-owned | `connect`, `stop`, `event-status` | a lock carried through `execve`, pids recycled between check and signal, two commands on one record |
| vpnc-script wrapper | `helper/vpn-up-vpnc-wrapper.sh.in` | `status`, `endpoint` | connect, reconnect, disconnect | a script of an earlier generation, a script that outlives OpenConnect |
| Helper installation | `helperinstall.sh` | binaries, manifest, three sudoers files | `install-helper`, `uninstall-helper` | a sequence of privileged commands each of which may fail; several users |
| Approval registry | `helper/src/registry.c` | one record per profile, root-owned, and `<record>.tmp` | put, get, delete, list | several processes without a lock, kills between write and rename, power loss, names that change under a listing |
| Requests and policy | `helper/src/validate.c`, `request.c`, `policy.c`, `exec.c` (argv), `admin_main.c`; `twophase.sh` 318-365, 452-471, 658-680 | none | the validators, the argument schemas, `vu_policy_check`, `vu_build_argv` | many spellings of one value; what was approved must be what is executed |
| Authentication parser | `helper/src/authparse.c`, `twophase.sh` 236-290 | the shell's `AUTH_*` | two decoders of phase one's output | input in any order; two implementations of one format |
| Execution closure | `helper/src/closure.c`, `elf.c`, `macho.c`, `state.c` 237-296 and 745-876 | the report, the stack of visited libraries | `vu_closure_check`, `vu_wrapper_precheck`, `verify-closure` | a walk over a graph with cycles, links and limits |
| Process hygiene | `helper/src/proc.c` | none | environment, descriptors, identity of a process | little |
| Secrets | `encryption.sh` | keychain, vault, plain file | `secrets_set`, `secrets_get`, `secrets_set_file` | two changes of one vault, failing pipelines |
| Profiles, setup, certificates, services, doctor, user interface | `profiles.sh`, `setup.sh`, `network.sh`, `service.sh`, `dependencies.sh`, `ui.sh`, `logging.sh` | XML profiles, units | dialogues, text generation, reports | little |

How they interact: `start` asks the attempt guard for admission; every transaction
of the guard runs under the state lock. An admitted attempt resolves secrets,
reserves a TOTP step in the same state file and dispatches either to OpenConnect
under sudo (prompt mode) or to the two-phase client (helper mode). The client
authenticates as the user, pipes a cookie through sudo into `vpn-up-helper
connect`, which takes the helper's lock, writes telemetry and becomes OpenConnect;
OpenConnect runs the wrapper, which writes what it knows into the telemetry. The
client's poller reads it back with `event-status`, announces the tunnel and writes
the session record; the final read yields the verdict that the guard's release
counts as an attempt with or without a tunnel. `stop` signals the recorded
process. Before its `execve`, `connect` looks up the approval of the profile, holds the
request against it, and walks the closure of what root is about to execute; the
approval was put by `vpn-up-admin approve`, to which `approve_profile` hands what
OpenConnect reported. `secrets_set` clears the guard's history and its TOTP reservation.
`install-helper` puts the helper where all of this finds it.

What makes each part correct:

* *State lock*: at most one shell inside a transaction; a live holder is never
  robbed; a dead holder is replaced; there is one reclaimer at a time.
* *Attempt guard*: one attempt of a profile at a time, and none beside a tunnel whose
  pid file is there; attempts are never closer than the curve, the breaker and the window
  allow; a breaker ends, however the clock is set; no one-time code is submitted
  twice; attempts without a tunnel end in a pause, and only they do; a killed
  owner is replaced.
* *Helper session*: one OpenConnect of a profile; telemetry belongs to the running
  one; evidence of a tunnel is not lost; the running tunnel is on record; only the
  recorded process is signalled; "stopped" is true, but for what overlaps stop.
* *Two-phase client*: the verdict is 1 exactly when this attempt's tunnel came up;
  "connected" is said of this attempt's session, before "disconnected", and when the
  tunnel is up; a refusal is not a disconnection; nothing stays on record.
* *Registry*: a record is whole or absent, whatever is killed or loses power;
  approve and revoke answer truly; what `connect` accepts is current; a listing
  without an error is complete.
* *Requests*: two spellings of one value are one value, in the registry and on the
  command line; what is executed is what was approved, and what was approved is
  executed; the two decoders agree.
* *Closure*: an accepted closure has nothing an unprivileged user can write, a refusal
  names a reason, the walk ends.
* *Installation*: no rule names a missing helper; the helper is complete; what is
  live has been checked; foreign files are left alone; the legacy rule is retired.

## 2. Plan

Each step is a module with its runs, then its theorems; they are in the order of
what matters most.

1. `Mutex`, `StateLock`: done, proved.
2. `AttemptGuard`: done, proved but for liveness.
3. `HelperSession`: done, proved.
4. `TwoPhase`: done, proved.
5. `Inputs`, `Requests`, `Capability`: done, proved, and model-checked against what the
   spellings mean.
6. `Images`, `Closure`: done, proved against what root reaches.
7. `Registry`: done, proved.
8. `HelperInstall`: done, proved.

What the plan leaves out, and why, is in section 7.

Abstract specifications: `Mutex` for the lock, as a refinement. For the validators and
the closure the abstraction is a reference definition: the meaning of each spelling
(`means` of an approval), and the set `Reached` of what root takes, by what the
loader, the kernel, the shell and vpnc-script take from each object (`means` of an
object); the code computes neither.

Which module uses which: `StateLock` implements `Mutex`, which is why a transaction
of `AttemptGuard` is one step; `Requests` extends `Inputs`; `Capability` composes
shell, `vpn-up-admin` and `vpn-up-helper` over `Requests`, one command at a time;
`Registry` lets the same commands overlap and knows of a record only its size;
`Closure` extends `Images`; `TwoPhase` holds the root side of `HelperSession` in
short.

## 3. Modules

### Mutex, StateLock

`StateLock` is `_state_lock` and `_state_unlock` command by command: `mkdir` of the
lock, the owner file written under another name and renamed, reading the owner,
`kill -0`, `mkdir` of the meta-lock, the two checks again, `mv`, and the two
unlinks of `rm -rf`. Every command may be the last: a shell may be killed at every step of
`CrashPoints`, it may end between another's read of its pid and that one's `kill -0`, the
`rm` of a killed shell may go on without it (`CrashLeavingRm`), and the pids in
`Recycled` are given away again. Nothing of this is assumed away. `scars` remembers
which mishaps have happened; after two of them (`Disturbed`: a probe that was answered
after the lock had been given up, and an orphaned `rm`) the code protects nobody, and
the properties that say so name them. `Mutex` is what the callers rely on: a holder or
nobody, until it is broken. Owner files hold one pid; `Bare` is a lock without one,
which no waiter may reclaim.

### AttemptGuard

The state file of one profile and the processes that use it: services (under
launchd or systemd) and terminals. Because `StateLock` serialises transactions,
each is one step, but for `admit_attempt`: taking the lock and loading the file
(`AdmitBegin`) and the decision (`Decide`) are two, since the tunnel, the clock
and the owner's life change without the lock. `profile_vpn_running` is two steps
wherever it is called: the test and the `cat` (`Look`), and the `ps` with what
follows it (`SeesTunnel`, `CleansUp`). Between them a tunnel may end, and another put its pid
there, which the `rm` then takes. `status` and `stop` (`Viewers`) do the same
without any lock, and so does `start` before it asks for admission. `strays` is the
history of this: the running tunnels whose pid file was taken away or overwritten, or whose
starter was killed before it was written. `Decide` follows the order of the
code: a tunnel, a live owner, a pause, then, for services, breaker and curve.
The attempt itself goes through `Prepare`, `Reserve`, `Generate`, dispatch
(`Submit`, `Fruitless`, `Connect`, `Daemonize`), the verdict and the release.
`SetClock`, `Tick` and `JumpBack` move the clock; `Store`, `ClearHistory` and
`ClearReservation` are `secrets_set` on a new password or seed. `held`, `grants`,
`reserved`, `spent` and `barren` are history: since when a breaker has been seen, the
times of the services' admissions, the steps reserved, the codes submitted, and the
services' dispatches since the last one that brought a tunnel up or since the history
was cleared. `CurveSum` is a recursive function and `"none"` stands for the empty
verdict, both for the sake of the proofs.
Delays are scaled down and keep their order (curve < breaker < window).

### HelperSession

One profile's root-owned directory. A process is a pid and a token, its start
time; the token also names the session id that its connect makes up. Start times
are taken as unique, as the code does. `Locked` is what a flock is: the
descriptor is open in the helper, in the OpenConnect it became, and in the scripts
that OpenConnect started. A connect goes `lock`, `check`, prune, `session`,
`status`, `pid`, `started`, `exec`; a stop reads pid and start time, identifies,
signals, polls and prunes, without the lock. The wrapper is `Invoke` and one or
two records. A stop's check of the record may fail too (`CheckFails`), which is an error at
first and "stopped" later. Stops and connects overlap in every way and pids are
given away at any time: `blurred` are the tunnels during whose connect, or in vain
while they ran, a stop checked the record, and `reborn` the stops between whose check and
signal the pid was given away. `endpoint` is written and read by nobody but the user's `status`,
and is left out.

### TwoPhase

A client's `connect_via_helper` from phase one to its outcome, its poller, and the
root side of `HelperSession` in short. The poller reads session, status and pid
in three steps, as `event-status` does. A command of the poller (a hook, a
write) may outlive it, and a client may be killed while its pipeline and its poller
go on; `NoOrphan` and `NobodyKilled` name the properties' conditions. OpenConnect may
print nothing, lines of its own, lines that carry one of the two prefixes (a warning of
sudo or of the helper before a silent session), or both. `Granted` is the event-status rule. Each client makes one attempt, so its name can
stand for its request id and its session. `Refusal` lists what each
refusal of the helper prints, as far as the prefix goes.

### Inputs, Requests, Capability

`Inputs` has the validators of `validate.c`, one operator each, over texts of tokens. A
character of base64, and so every letter and digit, is a token of its own (`Alphabet`, in
the order of `b64_val`, from which ranges, lower case and decimal digits are taken); a word
that the code compares as a whole is one token; `l63`, `l64`, `path` and `ua128`
stand for longer runs (`Width`), so that limits on length are reached, and `ctl` for a
control character. A validator returns the canonical text, or `Refused`. `Requests`
builds on them what the helper is asked for (`RequestFromArgv`), what an approval
says (`ApprovalFromArgv`, `Serialise`, `ParseApproval`), the policy that compares the
two (`PolicyAllows`), the command line that is executed (`BuildArgv`, `Command`) and
the parser of phase one's output (`ParseAuth`). A scan of an argument list goes argument by
argument: `flag` is the flag that waits for its value, `none` or `refused`, and `got` has the
values so far. `Word`, in `Capability`, goes over `extraArgs` in the same way.

`Capability` is one user's machine: approve, `approve_profile`, revoke, authenticate and
connect run one after the other on the records. The shell's decoder and its
translation of `extraArgs` are here, next to the helper they feed. `last` is the last
command with its answer. The values of the run are chosen such that every comparison of
the code with a number has both outcomes; the theorems are about all texts.

### Images, Closure

`Images` reads ELF and Mach-O images as records of their tables: program headers,
dynamic entries and string table, or slices and load commands. Byte order, word
size and the arithmetic on offsets are left out. Paths are sequences of
components. `Closure` walks a machine: `Binary`, then `Libraries` (ELF: one step, with
`/etc/ld.so.preload`, `ld.so.conf` and `ld.so.conf.d`) or the walk of the dylibs (`Skip`,
`Enter`, `Walk`, `Return`: Mach-O, depth first, with the limit on names), then
`Files`: shell, script, their interpreters, hooks, `PATH`, and the ACLs of the fixed
objects. `Judge` gives the verdict, `Wrapper` the second report. An object has an owner, a
mode, an ACL, a content that the code reads (`holds`) and a meaning that it does not
(`means`): what ld.so, dyld, `execve`, a search in `PATH` or vpnc-script takes from it,
whether or not the check finds it; only the properties use `means` and `fit`. `Blind` lists
what the check does not look for in an object: relative names, a hook directory that is a link, what
`$ORIGIN` stands for when openconnect is a link, and the files in a directory that is only
searched. `ReadAsMeant` is where content and meaning meet: apart from `Blind`, what root takes
from an object in sight is found by the check. `PathEntries` is the loop over `PATH`, which ends
before an empty last entry.

### Registry

Processes that approve, revoke, read and list. An approve goes `open`, `write`,
`flush`, `rename`; each may fail, after which it unlinks the `.tmp`, and a process may be
killed anywhere (`Exit`). Files are inodes: `record` and `tmp` say which inode a name
has, `data` what it contains, `synced` which inodes are whole on disk, `kept` what the
directory on the disk says, which nobody syncs. `PowerLoss` starts from `kept`. A
content is a text, a text cut in its last line (which still parses when that line is
the proxy's), or torn. A listing takes names one by one; names that change meanwhile
may be returned or not, and `readdir` may fail (`ListBreaks`), which the loop takes for the
end of the directory. `current` and `shared` are history: the texts put since
the last revocation ended, and the profiles that two approves have written at once.
That each step of `write_record` is a system call is as fine as the races need: the
loop around `write` appears as one write, in full or short.

### HelperInstall

Every privileged command of `install_helper`'s phase B and of `uninstall_helper`
is a step; phase A, which only reads, is one. `live` and `staged` are the three
pieces (wrapper, `vpn-up-admin`, `vpn-up-helper`), `rule` and `status` the sudoers
files of each user, `other` what other files grant, `overridden` the users for
whom a later rule asks for a password: with them `HelperPasswordless` and its
siblings answer what the probes answer. `kept` remembers a removal that failed
and was passed over. An administrator edits rules while no run
is under way.

## 4. Runs

The last three runs are violations: each checks what a comment of the program says, and
shows how the code departs from it.

| Run | Shows |
|---|---|
| `lock` | three shells, every timing, crash and recycled pid: one reclaimer at a time; no live holder is robbed and `Mutex` is implemented until one of two named mishaps; somebody always enters, so that a dead holder is replaced, unless a crash has left a directory without owner or a meta-lock behind |
| `attempt_owners` | an attempt owns its profile on disk, an admission beside a tunnel needs a pid file that was taken away or overwritten or a watcher that was killed, a killed owner is replaced, with failing writes and a clock that is set back; no code is submitted twice while no tick falls between reservation and generation |
| `attempt_escalation` | the distance of any k+1 admissions, by a curve of 0, 1 and 2; a pause is earned, and comes |
| `helper` | stops and connects in any order: one tunnel, current telemetry, signals that hit, the tunnel on record, "stopped" is true, a signalled tunnel ends |
| `twophase_sessions` | the verdict is genuine and complete, announcements are a session's own and in order, its record is removed, a run is taken for a refusal only if all it printed looks like one and no telemetry says otherwise |
| `capability` | one record per meaning, the command that runs is the approved one, approved is enough, the decoders agree |
| `closure` | but for its blind spots the check covers what root takes, a refusal is deserved, a yes overlooks nothing else, the walk ends |
| `registry` | records are whole, answers true, accepted approvals current, listings complete unless `readdir` failed |
| `install_one_user` | grants name a helper, the helper is complete and proven, old rules stay, foreign ones are not touched, the legacy rule goes |
| `twophase_refusal` | violation: a refusal of two lines is announced as a disconnection |
| `closure_outside` | violation: a `PATH` that ends in a colon is accepted, although an empty entry means the current directory |
| `registry_list_cut` | violation: a listing that broke off leaves an approval out and reports success |

Further configurations beside the modules are not part of the list above. Some reproduce the
departures of section 6.
`OneAttempt`, `FreshReservation`, `BreakerEnds`, `BreakerStandsStill`, `EvidenceIsKept` and the inductive invariants were
checked by TLC before they were proved, and are now left to their theorems.

### Bounds

* Three shells are needed for the lock's races (a holder, a reclaimer, a third
  that takes the lock in between).
* One service and one terminal: an owner and somebody who waits and takes over, in
  either role; the theorems cover any number. Rates and breakers concern
  services, of which a profile has one; a viewer (`status`, `stop`) is one more process that
looks at the pid file. `attempt_escalation` has a curve of three delays, 0, 1 and 2, so that two
and three admissions in a row are bounded by the curve and four by the breaker. `BarrenAttemptsEnd` is checked where writes succeed
  and the clock is not set back, and `NoReplay` where no seed changes: departures 3
  to 5 show why. `MaxTime` lets a breaker open, end and
  open again; a full escalation fits into `attempt_escalation`, whose window is
  long enough for no attempt to fall out of it. `MaxEdits` bounds secret changes.
* Two pids and two process starts with two stops: a tunnel and its successor, or a tunnel and
  a stranger that gets its pid, while two stops check, signal and prune. `MaxPolls` 1 keeps the
  first, the waiting and the last check apart.
* `lock`: one of the three shells may start again under its pid (`OnePid`), once.
* Two clients: a session and its predecessor or successor. Two polls: a
  report that comes too early and one that finds the tunnel. `VIEW` forgets what no
  later step and no property reads: fields of a poller past their use, the request
  id and the final read of a client that is through with them, how much was printed,
  and the order of announcements of different clients. Clients are symmetric. The
  theorems hold for any number of both.
* `capability`: every spelling of each field (32 of profile ids, endpoints, fingerprints,
  proxies and so on, good and bad) next to good values of the others, and every kind of
  malformed argument list. Fields are validated one by one, so a pair of bad values shows
  nothing new; what relates two fields (host and `--resolve`, approval and request) has
  its own combinations.
* `closure`: one trustworthy machine for each loader and all that differ from it in
  one object, one link or one thing the check is told. A fault is found or missed where
  it is, so one at a time is enough, apart from limits; among them are those which only
`Blind` explains (`closure_outside` has the trustworthy machines with other values of `PATH`); these are small enough to be
  reached (`ClosureMax` 24 rows, `VisitedMax` 3, `NeededMax` 3, `RpathMax` 2).
* `registry`: two processes, two profiles, a short and a long text (what overwrites
  the longer one leaves a tail) and six inodes, which is as many as can be in use at
  once. `ListMax` 1 makes a listing full. `OneCollision`: after two commands have shared
  a `.tmp`, no third begins. `VIEW` forgets the names of inodes and what is in free
  ones, of which nobody learns anything; `SYMMETRY` exchanges the two processes, which
  no property names.
* Two builds: a first install and an upgrade; two edits of the administrator: one
  before and one between runs. One user: the rules of a user concern only that
  user, and what two users do to each other is in section 6.

TLC runs that may stop say `CHECK_DEADLOCK FALSE`: attempts end, clocks reach
their bound, clients are done, shells are killed for good, a closure check has its
answer. `capability`, `registry` and `install_one_user` check deadlock.

### Fairness

* `lock`: waiting shells poll, and the holder's commands go on (`WF`); the
  write of the owner file is strongly fair: it may fail, but not for ever.
* `attempt_owners`: `admit_attempt` polls every few seconds, so entering it is
  strongly fair (another process may hold the lock at any single moment, not for
  ever), and so is an admission whose write can succeed; an attempt goes on, a
  tunnel ends.
* `helper`: only that a stop goes on.
* `closure`: the check, a sequential program, goes on (`WF_vars(Next)`).

Nothing is assumed of users, administrators, gateways or the clock.

## 5. Theorems

All are proved for every value of the constants that the modules' `ASSUME`s allow.

* `StateLockProofs`. No theorem assumes anything of timing. `TypeCorrect` and
  `ReclaimIsSerialised` hold without exception. `LockExcludes`, `UnlockFindsItsLock` and
  `LockRefinesMutex` hold in every behaviour until it is `Disturbed`, that is until one of two
  past steps of that behaviour: a process that had given its lock up was probed all the same, or
  the `rm` of a killed shell went on; departures 1 and 2 below show that neither exception
  can be left out. The invariant `IndInv` adds to exclusion what a reclaimer knows: from its
  second read of the owner to its `mv`, that pid is alive, or the lock is still that of the dead
  owner, since nobody but the reclaimer can remove that. (The holder of `Mutex` is the shell between
  publication and unlink.)
* `AttemptGuardProofs`. `OwnershipIsDurable` is the invariant that carries
  `AttemptsExclude`: an admitted attempt is the owner on disk *and* in every copy
  that a transaction has loaded, since a transaction writes back the whole file.
  Mutual exclusion alone is not inductive: a loaded copy without the owner could be
  written back. `StepsAreReservedOnce` and `BreakersDoNotDrift` are action
  properties; `BreakersEndInTime` bounds the wait under every setting of the clock,
  when writes succeed. `TunnelsAreSeen` rests on `TunnelsAreKnown`:
  a tunnel that is no stray is watched by its process, whose pid then owns the profile, or
  named by the pid file; who has judged the file stale removes it in the very step that puts
  the tunnel it names by then among the strays; and a poll that read another pid sees
  the owner alive. Nothing about the order of the commands is assumed, so the admission beside
  a tunnel that the code allows is in the model (departure 29), and the theorem says
  what it takes.
  `CodesAreSubmittedOnce` rests on `CodesAreFresh`: a code
  under way is of a later step than every submitted code of its seed and not ahead of the
  reservation. It assumes `CodeIsImmediate` and `[]SeedsSettle`; departures 3 and 4 show
  that both are needed, while the clock may be set as it likes.
  What the state file remembers is the second half. What is written back was loaded (`ViewIsFaithful`), verdicts are
  held from dispatch to recording and by one attempt at most (`VerdictsArePending`).
  `StreakIsEarned` says that the streak on disk is at most the number of barren dispatches,
  less one while an unverified verdict waits: hence `PausesAreEarned`, which needs that
  verdicts are written and that a profile does not mix sessions with and without telemetry
  (an unconfirmed session resets nothing, so the streak would go on from before it).
  The ring never outgrows its cap (`AttemptsAreFew`, from no assumption at all), and an
  admission adds one entry to what the window has left. `BarrenIsCounted` weighs barren
  dispatches against streak and ring; `BarrenAttemptsAreFew` follows when failures are
  held (`FailuresAreHeld`, departure 5) and no admission finds that the window has
  forgotten attempts (`Brisk`): a service that fails slower than the window turns never
  reaches the threshold, and is never escalated (departure 28).
  `AttemptsKeepTheirDistance` has the invariant `AttemptsAreSpaced`: each admission is
  past (as long ago as a window or a breaker), or waits behind an open breaker, or is still listed
  together with all later ones, so that the delay of the curve is chosen by as many
  entries as there are admissions that count. It needs that the clock is not
  set back and that a breaker is no longer than the clamp, which holds as both are 3600 s;
  crashes and failing writes do no harm, since an admission whose write fails is refused.
* `HelperSessionProofs`. `IndInv` says that tokens differ, that a process at a step
  of connect is a helper, that whoever is past the lock has it, and that running
  scripts, session and status belong to the one who has it; the order in which
  connect writes session, status and pid appears as `SessionComesFirst`. From it:
  `TunnelsExclude`, `TelemetryFollowsTunnel`, `EvidenceSurvives`. `RecordInv`, which assumes
  nothing about when stops come, says what stops have read: a connect that no stop checked
  meanwhile meets none (`ChecksAreApart`), so its record grows as written (`RecordGrows`), and a
  stop that checks the record of such a tunnel knows the token it has read or will find the tunnel
  alive (`StopsSeeTheTunnel`); a pid given away after a check is known to be (`SignalsAreFresh`).
  From it `TunnelStaysOnRecord`, `StopTellsTheTruth` and `SignalsHitTunnels`. Departures 9 and
  10 below are the exceptions they name.

* `RegistryProofs`. An inode is never a file of two profiles, nor a `.tmp` and a record,
  nor read under one profile and written under another (`NamesApart`, `WritersApart`,
  `ReadersApart`, `Labelled`); a put without a collision is alone (`OneWriter`) and holds at
  every system call what it should (`PutGoesWell`); so what is renamed is whole, on the
  disk too (`RecordsWhole`), and what was opened stays whole although its name may go
  (`ReadersWhole`). From them `RecordsAreWhole` and `ReadsAreCurrent`; `AnswersAreTrue` is an
  action property; `ListingsAreComplete` has an invariant of its own, `ListInv`; it excepts listings
  whose `readdir` failed (departure 31).
* `TwoPhaseProofs`. Whoever is past the helper's lock wrote the session, the status and the
  pid on disk, and "ever verified" is said only of a tunnel that came up (`Telemetry`): hence
  `VerdictsAreGenuine`, whoever was killed. A poller lives only beside its pipeline
  (`Stages`), and writes only what it has read of a confirmed session (`Evidence`): hence
  `OwnSessionsOnly`, and with `Concluded` and `Gone` also `OverStaysOver`. That a verdict finds
  what the tunnel left needs that nobody else is at work (`OneActive`, `Left`), which
  holds as long as no client was killed: `VerdictsAreComplete`. `RunsReported` rests on
  what became of a run's lines and on completeness of the verdict; the case it leaves
  open is departure 30.
* `HelperInstallProofs`. Any number of users, builds and edits. `TypeCorrect` and
  `OldRuleStaysAlways` hold under every constant. When runs do not overlap, what is about to be
  activated has passed its check (`Proven`) and the pieces before it are installed, while
  a removal that has gone past the helper has taken it or knows that it could not
  (`Ordered`): `LiveIsProvenAlways`, `HelperIsCompleteAlways`. When `sudo cat` answers, what phase A
  has read stays true until it is used, since only its own run writes a user's rules and
  a legacy rule only ever goes (`ReadRight`): `LegacyIsRetiredAlways` and
  `ForeignIsLeftAloneAlways`, even beside other users' runs. With one user, rules are written
  beside a helper and gone before it goes (`Named`): `GrantsNameTheHelperAlways`. Departures
  17, 20 and 22 show that the assumptions are needed.

* `ClosureProofs`. Both theorems are about every file system, every graph of libraries and
  all limits (`ClosureNumbers` says that they are numbers), and about machines that are
  `WellMade`: names lead to names that exist, directories and tables
  hold lists, a library known only to the loader's cache is no file. `WhatIsWalkedIsHarmless` asks
  for nothing else: everything that the check follows from the pinned names (`Walked`) is harmless
  when root has got a yes. `TheVerdictIsSound` says the same of what root takes, and has
  `ReadAsMeant` as its hypothesis: from an object
  in sight root takes no path but those the check finds there (`Followed`) and those in `Blind`.
  That this is so for what loaders and shells really take is what `NothingElseIsOverlooked`
  checks at every accepted state of the run, whose machines are labelled by what those
  programs do; what the check is blind to is listed as departure 32. The check
  does not compute `Reached`, so the proof has to show that its sections, one list each, add up
  to that closure. `ClosureInv` says of each point of the walk what the rows so far show as
  long as none is a refusal: of the sections that are through (`SeenInv`), and of the libraries
  that are on the stack, visited or still to come (`WalkInv`). At a yes, what was looked
  at is closed under what the check follows (`ClosedVetted`), by induction on the steps of
  `Closed`, and each name of it had its path walked to the end (`VettedHarmless`).

* `CapabilityProofs`. `CommandIsApprovedHolds`, `ApprovedIsEnoughHolds` and
  `DecodersAgreeHolds` are about every approval, every output of phase one and every profile, of
  any length; the one assumption is that they are texts (`TextsAreTexts`). Two invariants carry
  them: `Answered` (the session is what the shell read of some output, and the answer was
  computed from the records still there) and `RecordsReadBack` (every record on disk is taken by
  the parser, belongs to the profile it is kept under and is what that approval is written
  as: registry.c's "a malformed approval cannot exist on disk at all"). `CommandIsApproved` alone is not inductive: it speaks of a
  command line and of a record that another command wrote.
  The rest is about the parsers, from the bottom. They are recursive functions over sequences, so
  each is named by the equations it solves (`Solves`, `Sums`, `Counts`, `Scans`), a solution is
  shown to exist by induction over its domain, and the definition is that solution. On them rest
  the lemmas that something reads back as it was written: a number in decimal, a host in lower
  case, an endpoint as host and port, a URL that is put together again from its
  parts, `host:ip`; then the scan of the argument lists that the shell builds, pair by pair,
  which finds each value under its flag unless a value looks like a flag or the settings
  are too many. `ApprovedIsEnough` follows since good and distinct settings are at most seven
  (the table of tunables) and `TunableMax` is eight. `CommandIsApproved` goes over the items of
  the command line: each has a name, the names of the options and of the tunables are
  disjoint, so an option is given once and its value is what the policy compared.
  `DecodersAgree` shows that both decoders find the same line for a key, as neither takes a key twice.
  `ReadBackNeverRefuses` says of all arguments what `Approve` leaves open, as it stores what it has
  read back: that this is the approval it made of them. Each canonical form is a fixed point of
  its validator (`DashedStays`, `OriginBack`, `ProxyStays`, `IsPinned`; for a pin, base64 of 32 bytes
  reads back as the bytes, `Base64Back`), and the six lines are well formed.

Induction over the natural numbers appears in four places (the sums of the curve, the steps
of a walk over links or libraries, the entries of a list, the tokens of a text). The
library's induction theorems take an operator as parameter, which no installed prover
can instantiate; `NatMin` and `NatInduct`, in the modules that need them, say the same of sets, and
follow from the well-foundedness of inclusion among finite sets.

Model-checked only: liveness (fairness and `ENABLED` are out of the prover's reach);
`OneSpelling` and `RefusalIsDeserved`, which compare what the code computes with labels of the
instance (`means` of an approval, `means` and `fit` of an object) that nothing relates to it
for all values; and `NothingElseIsOverlooked`, which is about the machines of the instance and
is the hypothesis `ReadAsMeant` of `TheVerdictIsSound`.

## 6. What the code does and its documents do not say

Numbers 16, 31 and 32 are runs of the project; their lines are in `PROJECT.json`. The others were met
on the way: a configuration beside the modules reproduces each one as a violated
property, the property's condition excludes it, or it was read off the code.

| # | Departure | Reproduced by |
|---|---|---|
| 1 | The reclaimer of the state lock may move away a lock that was released and retaken between its second read of the owner and its `kill -0` (`outcome.sh:223`) | `StateLock_exit_race.cfg`, `MutualExclusion` |
| 2 | An `rm -rf` whose shell was killed may remove the next holder's lock (`outcome.sh:252`) | `StateLock_orphan_rm.cfg`, `MutualExclusion` |
| 3 | A TOTP step that ends between reservation and generation: the code submitted is of a step that is not reserved (`core.sh:685`) | `AttemptGuard_clock_tick_replay.cfg`, `NoReplay` |
| 4 | A new seed is usable before its reservation is cleared (`encryption.sh:302`) | `AttemptGuard_late_clear_replay.cfg`, `NoReplay` |
| 5 | Credentials rejected in phase one give no verdict and are never escalated (`twophase.sh:616`) | `AttemptGuard_rejected_storm.cfg`, `BarrenAttemptsEnd` |
| 6 | A pause survives the fix of the credential, which `outcome.sh:508` says lifts it (`outcome.sh:671`) | `AttemptGuard_fix_keeps_pause.cfg`, `FixLiftsPause` |
| 7 | A pause makes callers at a terminal wait, although `outcome.sh:394` names owners and tunnels only (`outcome.sh:464`) | `AttemptGuard_pause_blocks_terminal.cfg`, `OnlyOwnersBlockTerminals` |
| 8 | A dead owner whose pid is in use again keeps the profile (`outcome.sh:452`) | `AttemptGuard_recycled_pid.cfg`, `DeadOwnerReplaced` |
| 9 | `stop` prunes without the lock, and may prune the record a connect has just written (`helper_main.c:287`) | `HelperSession_stop_race.cfg`, `TunnelIsAlwaysOnRecord` |
| 10 | A pid that is recycled between check and signal is signalled (`helper_main.c:295`) | `HelperSession_late_signal.cfg`, `RecycledPidIsLeft` |
| 11 | A script that outlives OpenConnect keeps the profile's lock (`state.c:338`) | `HelperSession_script_lock.cfg`, `LockEndsWithTunnel` |
| 12 | A hook that outlives the poller says "connected" after "disconnected" (`twophase.sh:518`) | condition of `DisconnectedIsLast` |
| 13 | The poller of a killed client may join its session to the next one's pid (`helper_main.c:433`) | condition of `OnlyOwnSession` |
| 14 | A tunnel that comes up after the last poll is never announced (`twophase.sh:136`) | `TwoPhase_slow_up.cfg`, `UpIsAnnounced` |
| 15 | A crash between `mkdir` and the owner file leaves a lock nobody reclaims, as `doctor` knows (`outcome.sh:188`) | condition `Abandoned` |
| 16 | Refusals of more than one line count as tunnels (`helper_main.c:83`) | run `twophase_refusal` |
| 17 | Removing the helper leaves another user's rule on a vacant path (`helperinstall.sh:1082`) | `HelperInstall_other_user.cfg`, `GrantsNameTheHelper` |
| 18 | A removal that fails is reported as done (`helperinstall.sh:1093`) | `HelperInstall_not_gone.cfg`, `RemovedIsGone` |
| 19 | An install without its manifest is taken for foreign (`helperinstall.sh:530`) | `HelperInstall_not_gone.cfg` with `StepsFail = TRUE` and the invariant `OwnInstallIsRecognised` in place of its property |
| 20 | A failed read in phase A leaves the legacy rule (`helperinstall.sh:749`) | `HelperInstall_not_gone.cfg` with `ReadsFail = TRUE` and `LegacyIsRetired` in place of its property |
| 21 | An interrupted upgrade leaves the old helper with the new wrapper (`helperinstall.sh:865`) | `HelperInstall_old_helper.cfg`, `HelperKeepsItsWrapper` |
| 22 | Two installs share staged names: one may put the other's unchecked file in place (`helperinstall.sh:545`) | `HelperInstall_same_name.cfg`, `LiveIsProven` |
| 23 | Two approves of one profile write one `<record>.tmp`: one may install what the other has just truncated, although `vu_registry.h:21` calls approve an atomic rename (`registry.c:260`) | `Registry_shared_tmp.cfg`, `MalformedNeverExists` |
| 24 | The directory of the records is not synced: a power loss may undo an approve or a revoke that was reported as done (`registry.c:290`, `registry.c:410`) | `PowerLoss`, after which a text that the disk has kept counts as current |
| 25 | `authparse.c` describes a decoder that runs before sudo; the shell's own decoder runs there, which does not validate `CONNECT_URL` and `RESOLVE` (`twophase.sh:236`); `vpn-up-helper` does | `DecodersAgree` compares them where both accept |
| 26 | Values that the helper refuses (tunables out of range, given twice) are refused only after phase one has authenticated (`twophase.sh:318`) | read off the code |
| 27 | A closure is accepted although a directory below the hook root cannot be opened, a link there is skipped, or an include line of `ld.so.conf` was not followed, while `vu_closure.h:163` says that every object checked out (`closure.c:166`) | `CheckHooks`, `CheckLdsoList` in `Closure` |
| 28 | Attempts that fail slower than the window turns are forgotten before the ring fills, so they never open a breaker and, as escalation is part of retiring one, are never paused, however long their streak (`outcome.sh:493`, `outcome.sh:510`) | condition `Brisk` of `BarrenAttemptsAreFew` |
| 29 | A pid file that is judged stale is removed after the judgement: the `rm` may take the pid file that a new session has just written, in admission, `start`, `status` and `stop` (`logging.sh:93`, `core.sh:789`, `core.sh:805`), after which an attempt is admitted beside that tunnel, although `outcome.sh:434` says that a running tunnel is seen | exception of `AdmissionSeesTunnels`; `AttemptGuard_owners.cfg` with `CrashPoints <- BeforeTunnel` and `NoAdmissionUnderTunnel` in place of its properties |
| 30 | A run whose only output is a prefixed line, such as a warning of sudo before a silent session, is reported as a refusal, although `twophase.sh:565` takes the prefix for a dependable marker (`twophase.sh:578`) | `TwoPhase_silent_run.cfg`, `NoRunIsRefused` |
| 31 | A `readdir` that fails ends the listing of approvals as the end of the directory would, and the listing says that it is complete, although `registry.c:449` never truncates one in silence (`registry.c:438`) | run `registry_list_cut` |
| 32 | `vu_closure.h:6` requires every sourced hook and search path to be outside the caller's control. A `PATH` that ends in a colon is accepted (`closure.c:194`). Not looked at either: a hook directory that is a link, which vpnc-script sources (`closure.c:166`); a search directory that does not exist and whose parent may be the caller's (`closure.c:429`); an empty item of a RUNPATH (`elf.c:194`) and a relative interpreter (`closure.c:115`); `$ORIGIN` where openconnect is a link, which ld.so takes at the real path (`elf.c:207`); files in directories that are only searched; the owner of a link (`state.c:843`) | run `closure_outside`; `Blind` |

Each configuration is run with `tlc -config X_y.cfg MCX.tla`.

## 7. Not modelled

OpenConnect, sudo, launchd, systemd, oathtool, keychains, name resolution of addresses and
the file system are external: their actions and functions are marked so in
`PROJECT.json`.

* *Session record.* What `start`, admission, `status` and `stop` do to the pid file is in
  `AttemptGuard`; what the two-phase client does to it, in `TwoPhase`. What they print, and the
  state file beside it, are left out. The recorder of a
  prompt-mode session is one action (`RecordPid`): it watches the output of OpenConnect, which
  is external, and its race with the announcements (`core.sh:1172`) is of the kind that
  `OverIsOver` states for the two-phase client.
* *Preflight.* A chain of tests with one outcome code and no state. Every code is an
  outcome of the attempt in `AttemptGuard`.
* *Vault.* Decrypting, editing and encrypting are external programs on one temporary
  file; two changes at once (`encryption.sh:225`) are a hazard without a property.
* *Phase one.* Prompts, PINs and single sign-on are dialogues. What phase one prints, and
  what becomes of it, is in `Capability`.
* *Installation.* Toolchain, build, directories, `--purge` and the reports of other grants. An
  administrator who edits foreign rules while a run is between phase A and its writes
  (`helperinstall.sh:918`); a `sudo cat` that fails, outside departure 20; two users at once, outside
  departures 17 and 22.
* *Closure.* The run paths and interpreters of libraries that libraries name, include lines of `ld.so.conf`, overflow in
  the arithmetic on offsets and the byte formats; the report without root, which sees
  less; `vu_closure_check`'s refusal of the user 0, which no caller reaches.
* *Helper processes.* Environment, descriptors and limits (`proc.c`): single calls of the
  kernel.
* *Profiles, certificates, units, doctor, user interface.* Dialogues, generated text, XML
  edited by external programs, reports.
