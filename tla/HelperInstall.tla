---------------------------- MODULE HelperInstall ----------------------------
(***************************************************************************)
(* install-helper and uninstall-helper: the binaries and the manifest in   *)
(* helper_dir, the sudoers files that name them, and the runs of several   *)
(* users that change both one privileged command at a time.                *)
(*                                                                         *)
(* Phase A only reads and is one step: nothing that it reads for one user  *)
(* is written by another, but for the directory.  A rule is staged under a *)
(* name that sudo skips and comes into force by a rename: one step.  The   *)
(* directories are made when they are missing and removed when empty, and  *)
(* nothing here depends on them.                                           *)
(***************************************************************************)
EXTENDS Naturals

CONSTANTS
  Users,
  None,           \* no file
  Foreign,        \* a file that is not VPN Up's
  MaxBuilds,      \* bound: installs that get past phase A
  MaxEdits,       \* bound: changes by the administrator
  Interruptible,  \* "install", "uninstall": may be interrupted
  StepsFail,      \* may a privileged command of an install fail?
  ReadsFail,      \* may sudo cat fail although the file is there?
  RemovalsFail,   \* may a removal of uninstall's loop fail?
  OneAtATime      \* assume that runs do not overlap

ASSUME Parameters ==
  /\ None \notin Users \cup Nat /\ Foreign \notin Users \cup Nat /\ None # Foreign
  /\ {MaxBuilds, MaxEdits} \subseteq Nat
  /\ Interruptible \subseteq {"install", "uninstall"}
  /\ {StepsFail, ReadsFail, RemovalsFail, OneAtATime} \subseteq BOOLEAN

VARIABLES
  live, staged,    \* which build each piece is, and that of its .new file
  manifest,        \* is there one?
  legacy,          \* whose openconnect rule /etc/sudoers.d/vpn-up holds
  rule, status,    \* vpn-up-<uid> and vpn-up-<uid>-status
  other,           \* what other sudoers files grant each user without a password
  overridden,      \* users for whom a later rule asks for a password
  run,             \* where the run of each user is
  builds, edits,   \* how many there have been
  passed, sound,   \* history: has what is staged, what is live passed its check?
  kept             \* history: pieces that a removal was meant to take and did not

sudoers == <<legacy, rule, status>>
policy  == <<other, overridden>>
checks  == <<passed, sound, kept>>
vars    == <<live, staged, manifest, sudoers, policy, run, builds, edits, checks>>

Pieces   == {"wrapper", "admin", "helper"}
Builds   == 1..MaxBuilds
Contents == {"absent", "ours", "foreign"}
Grants   == {"helper", "status", "admin"}
InstallSteps   == {"stage", "prove", "activate", "manifest", "selfcheck", "retire",
                   "status", "rule", "verify", "rollback"}
UninstallSteps == {"removeRule", "removeStatus", "probe", "remove"}
Runs == [pc : {"off"} \cup InstallSteps \cup UninstallSteps, piece : Pieces \cup {"manifest"},
         build : Builds \cup {0}, want : BOOLEAN, created : BOOLEAN, knows : BOOLEAN,
         legacy : Contents, rule : Contents, status : Contents]

TypeOK ==
  /\ live \in [Pieces -> Builds \cup {None, Foreign}] /\ staged \in [Pieces -> Builds \cup {None}]
  /\ manifest \in BOOLEAN
  /\ legacy \in Users \cup {None, Foreign}
  /\ rule \in [Users -> Contents] /\ status \in [Users -> Contents]
  /\ other \in [Users -> SUBSET Grants] /\ overridden \subseteq Users
  /\ run \in [Users -> Runs] /\ builds \in 0..MaxBuilds /\ edits \in 0..MaxEdits
  /\ passed \in [Pieces -> BOOLEAN] /\ sound \in [Pieces -> BOOLEAN]
  /\ kept \subseteq Pieces

Idle == [pc |-> "off", piece |-> "wrapper", build |-> 0, want |-> FALSE, created |-> FALSE,
         knows |-> FALSE, legacy |-> "absent", rule |-> "absent", status |-> "absent"]

Init ==
  /\ \E there \in {None, Foreign} :
       live = [p \in Pieces |-> IF p = "wrapper" THEN None ELSE there]
  /\ staged = [p \in Pieces |-> None] /\ manifest = FALSE
  /\ legacy \in Users \cup {None, Foreign}
  /\ rule \in [Users -> {"absent", "foreign"}] /\ status \in [Users -> {"absent", "foreign"}]
  /\ other = [u \in Users |-> {}] /\ overridden = {}
  /\ run = [u \in Users |-> Idle] /\ builds = 0 /\ edits = 0
  /\ passed = [p \in Pieces |-> FALSE] /\ sound = [p \in Pieces |-> FALSE] /\ kept = {}

----------------------------------------------------------------------------
(* What is in force *)

Installed(p) == live[p] \in Builds

(* sudo -k -n: the binary is there, some rule names it, no later one asks. *)
HelperPasswordless(u) ==
  live["helper"] # None /\ u \notin overridden /\ (rule[u] = "ours" \/ "helper" \in other[u])
StatusPasswordless(u) ==
  \/ HelperPasswordless(u)
  \/ live["helper"] # None /\ u \notin overridden /\ (status[u] = "ours" \/ "status" \in other[u])
AdminPasswordless(u) == live["admin"] # None /\ "admin" \in other[u]

Goes(u, pc) == run' = [run EXCEPT ![u].pc = pc]
Ends(u)     == run' = [run EXCEPT ![u] = Idle]

(* Mutant: a file that cannot be read is kept as an answer of its own. *)
MutantUnreadable(content) == {content, "unreadable"}

(* What reading a sudoers file may answer: a failed sudo cat reads as absent. *)
Answers(content) == {content} \cup (IF ReadsFail THEN {"absent"} ELSE {})

(* Mutant: what is not VPN Up's rule for this user is passed over. *)
MutantLegacyFor(u) == IF legacy = u THEN "ours" ELSE "absent"

LegacyFor(u) == IF legacy = None THEN "absent" ELSE IF legacy = u THEN "ours" ELSE "foreign"

Reusable == manifest \/ (live["helper"] = None /\ live["admin"] = None)

Starts(u) == run[u].pc = "off" /\ (OneAtATime => \A v \in Users : run[v].pc = "off")

----------------------------------------------------------------------------
(* install-helper *)

(* Phase A.  A refusal changes nothing and is no step. *)
Decide(u) ==
  /\ Starts(u) /\ builds < MaxBuilds /\ Reusable
  /\ \E want \in BOOLEAN, l \in Answers(LegacyFor(u)), r \in Answers(rule[u]),
        s \in Answers(status[u]) :
       /\ l # "foreign"
       /\ run' = [run EXCEPT ![u] = [Idle EXCEPT !.pc = "stage", !.build = builds + 1,
                    !.want = want, !.legacy = l, !.rule = r, !.status = s]]
  /\ builds' = builds + 1
  /\ UNCHANGED <<live, staged, manifest, sudoers, policy, edits, checks>>

Stage(u) ==
  /\ run[u].pc = "stage"
  /\ staged' = [staged EXCEPT ![run[u].piece] = run[u].build]
  /\ passed' = [passed EXCEPT ![run[u].piece] = FALSE]
  /\ Goes(u, "prove")
  /\ UNCHANGED <<live, manifest, sudoers, policy, builds, edits, sound, kept>>

(* Mutant: the staged file is renamed whatever its check says. *)
MutantProveLater(u) ==
  /\ run[u].pc = "prove"
  /\ Goes(u, "activate")
  /\ UNCHANGED <<live, staged, manifest, sudoers, policy, builds, edits, checks>>

(* The check runs on whatever lies under the staged name. *)
Prove(u) ==
  /\ run[u].pc = "prove"
  /\ \/ /\ staged[run[u].piece] # None
        /\ passed' = [passed EXCEPT ![run[u].piece] = TRUE]
        /\ Goes(u, "activate") /\ UNCHANGED staged
     \/ /\ staged[run[u].piece] = None \/ StepsFail
        /\ staged' = [staged EXCEPT ![run[u].piece] = None]
        /\ Ends(u) /\ UNCHANGED passed
  /\ UNCHANGED <<live, manifest, sudoers, policy, builds, edits, sound, kept>>

(* Mutant: vpn-up-admin goes last. *)
MutantAdminLast(p) ==
  IF p = "wrapper" THEN [pc |-> "stage", piece |-> "helper"]
  ELSE IF p = "helper" THEN [pc |-> "stage", piece |-> "admin"]
  ELSE [pc |-> "manifest", piece |-> "admin"]

(* The wrapper, vpn-up-admin, vpn-up-helper. *)
Following(p) ==
  IF p = "wrapper" THEN [pc |-> "stage", piece |-> "admin"]
  ELSE IF p = "admin" THEN [pc |-> "stage", piece |-> "helper"]
  ELSE [pc |-> "manifest", piece |-> "helper"]

Activate(u) ==
  LET p == run[u].piece IN
  /\ run[u].pc = "activate"
  /\ \/ /\ staged[p] # None
        /\ live' = [live EXCEPT ![p] = staged[p]]
        /\ staged' = [staged EXCEPT ![p] = None]
        /\ sound' = [sound EXCEPT ![p] = passed[p]] /\ kept' = kept \ {p}
        /\ run' = [run EXCEPT ![u].pc = Following(p).pc, ![u].piece = Following(p).piece]
     \/ /\ staged[p] = None \/ StepsFail
        /\ staged' = IF p = "wrapper" THEN [staged EXCEPT ![p] = None] ELSE staged
        /\ Ends(u) /\ UNCHANGED <<live, sound, kept>>
  /\ UNCHANGED <<manifest, sudoers, policy, builds, edits, passed>>

(* A failure is only a warning. *)
WriteManifest(u) ==
  /\ run[u].pc = "manifest"
  /\ manifest' = TRUE \/ (StepsFail /\ UNCHANGED manifest)
  /\ Goes(u, "selfcheck")
  /\ UNCHANGED <<live, staged, sudoers, policy, builds, edits, checks>>

SelfCheck(u) ==
  /\ run[u].pc = "selfcheck"
  /\ IF live["admin"] # None THEN Goes(u, "retire") ELSE Ends(u)
  /\ UNCHANGED <<live, staged, manifest, sudoers, policy, builds, edits, checks>>

Retire(u) ==
  /\ run[u].pc = "retire"
  /\ legacy' = IF run[u].legacy = "ours" THEN None ELSE legacy
  /\ Goes(u, "status")
  /\ UNCHANGED <<live, staged, manifest, rule, status, policy, builds, edits, checks>>

GrantStatus(u) ==
  /\ run[u].pc = "status"
  /\ status' = IF run[u].status = "absent" THEN [status EXCEPT ![u] = "ours"] ELSE status
  /\ Goes(u, "rule")
  /\ UNCHANGED <<live, staged, manifest, legacy, rule, policy, builds, edits, checks>>

(* Mutants: the rule is written whatever is there; every rule counts as created. *)
MutantOverwrites(u) == run[u].want

MutantWantIsCreated(u) == run[u].want /\ run[u].rule # "foreign"

Writes(u) == run[u].want /\ run[u].rule = "absent"

Creates(u) == run[u].want /\ run[u].rule = "absent"

GrantHelper(u) ==
  /\ run[u].pc = "rule"
  /\ rule' = IF Writes(u) THEN [rule EXCEPT ![u] = "ours"] ELSE rule
  /\ run' = [run EXCEPT ![u].pc = "verify", ![u].created = Creates(u)]
  /\ UNCHANGED <<live, staged, manifest, legacy, status, policy, builds, edits, checks>>

Fails(u) ==
  \/ run[u].want /\ run[u].rule # "foreign" /\ ~HelperPasswordless(u)
  \/ AdminPasswordless(u)

Verify(u) ==
  /\ run[u].pc = "verify"
  /\ IF Fails(u) /\ run[u].created THEN Goes(u, "rollback") ELSE Ends(u)
  /\ UNCHANGED <<live, staged, manifest, sudoers, policy, builds, edits, checks>>

Rollback(u) ==
  /\ run[u].pc = "rollback"
  /\ rule' = [rule EXCEPT ![u] = "absent"] \/ (StepsFail /\ UNCHANGED rule)
  /\ Ends(u)
  /\ UNCHANGED <<live, staged, manifest, legacy, status, policy, builds, edits, checks>>

(* The other commands end the run when they fail; a step that has none to run
   does not fail. *)
StepFails(u) ==
  /\ StepsFail
  /\ \/ run[u].pc \in {"stage", "selfcheck"}
     \/ run[u].pc = "retire" /\ run[u].legacy = "ours"
     \/ run[u].pc = "status" /\ run[u].status # "foreign"
     \/ run[u].pc = "rule" /\ run[u].want /\ run[u].rule # "foreign"
     \/ run[u].pc = "removeRule" /\ rule[u] = "ours"
     \/ run[u].pc = "removeStatus" /\ status[u] = "ours"
  /\ Ends(u)
  /\ UNCHANGED <<live, staged, manifest, sudoers, policy, builds, edits, checks>>

----------------------------------------------------------------------------
(* uninstall-helper *)

(* The path of the wrapper is asked of vpn-up-admin. *)
Uninstall(u) ==
  /\ Starts(u)
  /\ run' = [run EXCEPT ![u] = [Idle EXCEPT !.pc = "removeRule", !.knows = live["admin"] # None]]
  /\ UNCHANGED <<live, staged, manifest, sudoers, policy, builds, edits, checks>>

(* Mutant: a removal that fails is only a warning. *)
MutantRuleKept(u) ==
  /\ run[u].pc = "removeRule"
  /\ rule' = [rule EXCEPT ![u] = IF @ = "ours" THEN "absent" ELSE @] \/ UNCHANGED rule
  /\ Goes(u, "removeStatus")
  /\ UNCHANGED <<live, staged, manifest, legacy, status, policy, builds, edits, checks>>

RemoveRule(u) ==
  /\ run[u].pc = "removeRule"
  /\ \E seen \in Answers(rule[u]) :
       rule' = IF seen = "ours" THEN [rule EXCEPT ![u] = "absent"] ELSE rule
  /\ Goes(u, "removeStatus")
  /\ UNCHANGED <<live, staged, manifest, legacy, status, policy, builds, edits, checks>>

RemoveStatus(u) ==
  /\ run[u].pc = "removeStatus"
  /\ \E seen \in Answers(status[u]) :
       status' = IF seen = "ours" THEN [status EXCEPT ![u] = "absent"] ELSE status
  /\ Goes(u, "probe")
  /\ UNCHANGED <<live, staged, manifest, legacy, rule, policy, builds, edits, checks>>

Probe(u) ==
  /\ run[u].pc = "probe"
  /\ IF HelperPasswordless(u) \/ StatusPasswordless(u) THEN Ends(u)
     ELSE run' = [run EXCEPT ![u].pc = "remove", ![u].piece = "helper"]
  /\ UNCHANGED <<live, staged, manifest, sudoers, policy, builds, edits, checks>>

(* A failed removal is passed over. *)
Remove(u) ==
  LET p == run[u].piece IN
  /\ run[u].pc = "remove" /\ p # "manifest"
  /\ \/ /\ live' = IF p = "wrapper" /\ ~run[u].knows THEN live ELSE [live EXCEPT ![p] = None]
        /\ kept' = kept \ {p}
     \/ RemovalsFail /\ UNCHANGED live /\ kept' = kept \cup {p}
  /\ run' = [run EXCEPT ![u].piece = IF p = "helper" THEN "admin"
                                     ELSE IF p = "admin" THEN "wrapper" ELSE "manifest"]
  /\ UNCHANGED <<staged, manifest, sudoers, policy, builds, edits, passed, sound>>

(* The last one, after which the run says that helper mode is removed. *)
RemoveManifest(u) ==
  /\ run[u].pc = "remove" /\ run[u].piece = "manifest"
  /\ manifest' = FALSE \/ (RemovalsFail /\ UNCHANGED manifest)
  /\ Ends(u)
  /\ UNCHANGED <<live, staged, sudoers, policy, builds, edits, checks>>

----------------------------------------------------------------------------

(* Ctrl-C, a closed terminal, a power cut. *)
Interrupted(u) ==
  /\ \/ run[u].pc \in InstallSteps /\ "install" \in Interruptible
     \/ run[u].pc \in UninstallSteps /\ "uninstall" \in Interruptible
  /\ Ends(u)
  /\ UNCHANGED <<live, staged, manifest, sudoers, policy, builds, edits, checks>>

(* The administrator edits sudoers files while no run is under way. *)
Administrator ==
  /\ edits < MaxEdits /\ edits' = edits + 1
  /\ \A u \in Users : run[u].pc = "off"
  /\ \/ legacy' \in Users \cup {None, Foreign} /\ UNCHANGED <<rule, status, policy>>
     \/ /\ \E u \in Users, c \in {"absent", "foreign"} :
             \/ rule' = [rule EXCEPT ![u] = c] /\ UNCHANGED status
             \/ status' = [status EXCEPT ![u] = c] /\ UNCHANGED rule
        /\ UNCHANGED <<legacy, policy>>
     \/ /\ \E u \in Users, grants \in SUBSET Grants : other' = [other EXCEPT ![u] = grants]
        /\ overridden' \in SUBSET Users
        /\ UNCHANGED sudoers
  /\ UNCHANGED <<live, staged, manifest, run, builds, checks>>

Install(u) ==
  \/ Decide(u) \/ Stage(u) \/ Prove(u) \/ Activate(u) \/ WriteManifest(u) \/ SelfCheck(u)
  \/ Retire(u) \/ GrantStatus(u) \/ GrantHelper(u) \/ Verify(u) \/ Rollback(u)

Removal(u) ==
  \/ Uninstall(u) \/ RemoveRule(u) \/ RemoveStatus(u) \/ Probe(u) \/ Remove(u)
  \/ RemoveManifest(u)

Next ==
  \/ \E u \in Users : Install(u) \/ Removal(u) \/ StepFails(u) \/ Interrupted(u)
  \/ Administrator

Spec == Init /\ [][Next]_vars

----------------------------------------------------------------------------
(* Properties *)

(* helperinstall.sh:1045-1048: no passwordless rule that VPN Up has written
   names a path where the helper is missing, at any step of any run. *)
GrantsNameTheHelper ==
  \A u \in Users : rule[u] = "ours" \/ status[u] = "ours" => live["helper"] # None

(* helperinstall.sh:860-864 and 1090: a helper that VPN Up has installed has
   its wrapper and vpn-up-admin beside it, whatever was interrupted or failed,
   unless a removal tried to take it away and could not. *)
HelperIsComplete ==
  Installed("helper") /\ "helper" \notin kept => Installed("wrapper") /\ Installed("admin")

(* helperinstall.sh:541-553, 566-571: what is live under its final name has
   passed its check. *)
LiveIsProven == \A p \in Pieces : Installed(p) => sound[p]

(* helperinstall.sh:526-537, 801-803, 1067: rules that VPN Up has not written
   are never changed, and binaries that it has not installed never replaced. *)
ForeignIsLeftAlone ==
  [][/\ edits' = edits => \A u \in Users :
          /\ rule[u] = "foreign" => rule'[u] = "foreign"
          /\ status[u] = "foreign" => status'[u] = "foreign"
     /\ \A p \in Pieces : live[p] = Foreign => live'[p] \in {Foreign, None}]_vars

(* helperinstall.sh:785-788, 965-975: only uninstall-helper takes away a rule
   that was there before the run. *)
OldRuleStays ==
  [][\A u \in Users :
       rule[u] = "ours" /\ rule'[u] # "ours" /\ edits' = edits =>
         \/ run[u].pc = "removeRule"
         \/ run[u].created /\ run[u].rule = "absent"]_vars

(* helperinstall.sh:18-20, 892-899: when an install is through, VPN Up's legacy
   rule is gone. *)
LegacyIsRetired == [][\A u \in Users : Verify(u) => legacy = None]_vars

(* helperinstall.sh:526-537: only a directory with somebody else's binaries is
   refused. *)
OwnInstallIsRecognised ==
  (\A u \in Users : run[u].pc = "off") => Reusable \/ \E p \in Pieces : live[p] = Foreign

(* helperinstall.sh:860-864: the installed helper depends on nothing that an
   install has changed before it. *)
HelperKeepsItsWrapper == Installed("helper") => live["wrapper"] = live["helper"]

(* When uninstall-helper says that helper mode is removed, both binaries are
   gone (helperinstall.sh:1090-1095, 1130). *)
RemovedIsGone ==
  [][\A u \in Users : RemoveManifest(u) => live["helper"] = None /\ live["admin"] = None]_vars
=============================================================================
