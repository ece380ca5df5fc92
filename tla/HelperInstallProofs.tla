------------------------ MODULE HelperInstallProofs ------------------------
(***************************************************************************)
(* Proofs about HelperInstall, for any number of users and of builds.      *)
(*                                                                         *)
(* IndInv is the inductive invariant.  Each of its parts carries the       *)
(* assumptions it needs: Proven and Ordered that runs do not overlap,      *)
(* Named that there is one user and that sudo cat answers, ReadRight that  *)
(* sudo cat answers; the others need none.  Edges says once where a step   *)
(* takes the run of its user, LiveStays, SudoersStay and RulesStay which   *)
(* steps write what; the proof that a part is kept looks only at those.    *)
(***************************************************************************)
EXTENDS HelperInstall, TLAPS

(* Where a run can be. *)
RunPcs == {"off"} \cup InstallSteps \cup UninstallSteps

(* Two runs read the same in phase A. *)
SameRead(r, q) ==
  /\ r.build = q.build /\ r.want = q.want /\ r.knows = q.knows
  /\ r.legacy = q.legacy /\ r.rule = q.rule /\ r.status = q.status

(* They are at the same place. *)
SamePlace(r, q) == r.pc = q.pc /\ r.piece = q.piece /\ r.created = q.created

(* The run of a user becomes r. *)
Becomes(u, r) == r \in Runs /\ run' = [run EXCEPT ![u] = r]

(* Changing one field of a run leaves the others. *)
LEMMA RunFields ==
  ASSUME NEW q \in Runs
  PROVE /\ \A pc \in RunPcs : LET r == [q EXCEPT !.pc = pc]
             IN /\ r \in Runs /\ r.pc = pc /\ r.piece = q.piece /\ r.created = q.created
                /\ SameRead(r, q)
        /\ \A p \in Pieces \cup {"manifest"} : LET r == [q EXCEPT !.piece = p]
             IN r \in Runs /\ r.pc = q.pc /\ r.piece = p /\ r.created = q.created /\ SameRead(r, q)
        /\ \A b \in BOOLEAN : LET r == [q EXCEPT !.created = b]
             IN r \in Runs /\ r.pc = q.pc /\ r.piece = q.piece /\ r.created = b /\ SameRead(r, q)
BY DEF Runs, RunPcs, SameRead

(* The fields of a run that the proofs look at. *)
LEMMA RunTypes ==
  ASSUME TypeOK, NEW u \in Users
  PROVE /\ run[u] \in Runs /\ run[u].pc \in RunPcs /\ run[u].piece \in Pieces \cup {"manifest"}
        /\ run[u].build \in Builds \cup {0} /\ run[u].created \in BOOLEAN /\ run[u].want \in BOOLEAN
BY DEF TypeOK, Runs, RunPcs

(* The run of a user who runs nothing. *)
LEMMA IdleRun == Idle \in Runs /\ Idle.pc = "off" /\ Idle.piece = "wrapper" /\ ~Idle.created
BY DEF Idle, Runs, Pieces, Contents

(* What each way of changing a run makes of it. *)
LEMMA GoesOn ==
  ASSUME TypeOK, NEW u \in Users, NEW pc \in RunPcs, Goes(u, pc)
  PROVE \E r : /\ Becomes(u, r) /\ SameRead(r, run[u])
               /\ r.pc = pc /\ r.piece = run[u].piece /\ r.created = run[u].created
<1> DEFINE q == run[u]
           r1 == [q EXCEPT !.pc = pc]
<1>1. run' = [run EXCEPT ![u] = r1]
  BY DEF Goes
<1>2. r1 \in Runs /\ r1.pc = pc /\ r1.piece = q.piece /\ r1.created = q.created /\ SameRead(r1, q)
  BY RunTypes, RunFields
<1> HIDE DEF r1
<1>3. QED BY <1>1, <1>2 DEF Becomes

(* The same for the fields that phase A fills. *)
LEMMA ReadFields ==
  ASSUME NEW q \in Runs
  PROVE /\ \A x \in Contents : LET r == [q EXCEPT !.legacy = x]
             IN r \in Runs /\ r.legacy = x /\ SamePlace(r, q) /\ r.build = q.build
        /\ \A x \in Contents : LET r == [q EXCEPT !.rule = x]
             IN /\ r \in Runs /\ r.rule = x /\ SamePlace(r, q) /\ r.build = q.build
                /\ r.legacy = q.legacy
        /\ \A x \in Contents : LET r == [q EXCEPT !.status = x]
             IN /\ r \in Runs /\ r.status = x /\ SamePlace(r, q) /\ r.build = q.build
                /\ r.legacy = q.legacy /\ r.rule = q.rule
        /\ \A x \in Builds : LET r == [q EXCEPT !.build = x]
             IN r \in Runs /\ r.build = x /\ SamePlace(r, q)
        /\ \A x \in BOOLEAN : LET r == [q EXCEPT !.want = x]
             IN r \in Runs /\ SamePlace(r, q) /\ r.build = q.build
        /\ \A x \in BOOLEAN : LET r == [q EXCEPT !.knows = x]
             IN r \in Runs /\ SamePlace(r, q)
BY DEF Runs, SamePlace

(* Phase A. *)
LEMMA Decides ==
  ASSUME TypeOK, NEW u \in Users, Decide(u)
  PROVE \E r : /\ Becomes(u, r) /\ r.pc = "stage" /\ r.piece = "wrapper" /\ ~r.created
               /\ r.build = builds + 1 /\ r.build \in Builds
               /\ r.legacy \in Answers(LegacyFor(u)) /\ r.legacy # "foreign"
               /\ r.rule \in Answers(rule[u]) /\ r.status \in Answers(status[u])
<1>1. PICK want \in BOOLEAN, l \in Answers(LegacyFor(u)), a \in Answers(rule[u]),
           s \in Answers(status[u]) :
        /\ l # "foreign"
        /\ run' = [run EXCEPT ![u] = [Idle EXCEPT !.pc = "stage", !.build = builds + 1,
                     !.want = want, !.legacy = l, !.rule = a, !.status = s]]
  BY DEF Decide
<1> DEFINE r1 == [Idle EXCEPT !.pc = "stage"]
           r2 == [r1 EXCEPT !.build = builds + 1]
           r3 == [r2 EXCEPT !.want = want]
           r4 == [r3 EXCEPT !.legacy = l]
           r5 == [r4 EXCEPT !.rule = a]
           r6 == [r5 EXCEPT !.status = s]
<1>2. run' = [run EXCEPT ![u] = r6]
  BY <1>1
<1>3. builds + 1 \in Builds /\ "stage" \in RunPcs
  BY Parameters DEF Decide, TypeOK, Builds, RunPcs, InstallSteps
<1>4. l \in Contents /\ a \in Contents /\ s \in Contents
  BY DEF Answers, LegacyFor, TypeOK, Contents
<1>5. r1 \in Runs /\ r1.pc = "stage" /\ r1.piece = "wrapper" /\ ~r1.created
  BY <1>3, IdleRun, RunFields
<1> HIDE DEF r1
<1>6. r2 \in Runs /\ r2.build = builds + 1 /\ SamePlace(r2, r1)
  BY <1>3, <1>5, ReadFields
<1> HIDE DEF r2
<1>7. r3 \in Runs /\ r3.build = r2.build /\ SamePlace(r3, r2)
  BY <1>6, ReadFields
<1> HIDE DEF r3
<1>8. r4 \in Runs /\ r4.build = r3.build /\ r4.legacy = l /\ SamePlace(r4, r3)
  BY <1>4, <1>7, ReadFields
<1> HIDE DEF r4
<1>9. /\ r5 \in Runs /\ r5.build = r4.build /\ r5.legacy = r4.legacy /\ r5.rule = a
      /\ SamePlace(r5, r4)
  BY <1>4, <1>8, ReadFields
<1> HIDE DEF r5
<1>10. /\ r6 \in Runs /\ r6.build = r5.build /\ r6.legacy = r5.legacy /\ r6.rule = r5.rule
       /\ r6.status = s /\ SamePlace(r6, r5)
  BY <1>4, <1>9, ReadFields
<1> HIDE DEF r6
<1>11. r6.pc = "stage" /\ r6.piece = "wrapper" /\ ~r6.created
  BY <1>5, <1>6, <1>7, <1>8, <1>9, <1>10 DEF SamePlace
<1>12. r6.build = builds + 1 /\ r6.legacy = l /\ r6.rule = a /\ r6.status = s
  BY <1>6, <1>7, <1>8, <1>9, <1>10
<1>13. Becomes(u, r6)
  BY <1>2, <1>10 DEF Becomes
<1>14. QED BY <1>1, <1>3, <1>11, <1>12, <1>13

(* The start of a removal. *)
LEMMA Uninstalls ==
  ASSUME TypeOK, NEW u \in Users, Uninstall(u)
  PROVE \E r : Becomes(u, r) /\ r.pc = "removeRule" /\ ~r.created
<1> DEFINE k == live["admin"] # None
           r1 == [Idle EXCEPT !.pc = "removeRule"]
           r2 == [r1 EXCEPT !.knows = k]
<1>1. run' = [run EXCEPT ![u] = r2]
  BY DEF Uninstall
<1>2. k \in BOOLEAN /\ "removeRule" \in RunPcs
  BY DEF RunPcs, UninstallSteps
<1> HIDE DEF k
<1>3. r1 \in Runs /\ r1.pc = "removeRule" /\ ~r1.created
  BY <1>2, IdleRun, RunFields
<1> HIDE DEF r1
<1>4. r2 \in Runs /\ SamePlace(r2, r1)
  BY <1>2, <1>3, ReadFields
<1> HIDE DEF r2
<1>5. QED BY <1>1, <1>3, <1>4 DEF Becomes, SamePlace

(* The order of the pieces. *)
LEMMA Followings ==
  ASSUME NEW p \in Pieces
  PROVE /\ Following(p).pc \in {"stage", "manifest"} /\ Following(p).piece \in Pieces
        /\ Following(p).pc = "stage" <=> p # "helper"
        /\ p = "wrapper" => Following(p).piece = "admin"
        /\ p \in {"admin", "helper"} => Following(p).piece = "helper"
BY DEF Following, Pieces

(* A piece is in place. *)
LEMMA Activates ==
  ASSUME TypeOK, NEW u \in Users, run[u].piece \in Pieces, NEW p, p = run[u].piece,
         run' = [run EXCEPT ![u].pc = Following(p).pc, ![u].piece = Following(p).piece]
  PROVE \E r : /\ Becomes(u, r) /\ SameRead(r, run[u]) /\ r.created = run[u].created
               /\ r.pc = Following(p).pc /\ r.piece = Following(p).piece
<1> DEFINE q == run[u]
           x == Following(p).pc
           y == Following(p).piece
           r1 == [q EXCEPT !.pc = x]
           r2 == [r1 EXCEPT !.piece = y]
<1>1. run' = [run EXCEPT ![u] = r2]
  OBVIOUS
<1>2. x \in RunPcs /\ y \in Pieces
  BY Followings DEF RunPcs, InstallSteps
<1> HIDE DEF x, y
<1>3. r1 \in Runs /\ r1.pc = x /\ r1.created = q.created /\ SameRead(r1, q)
  BY <1>2, RunTypes, RunFields
<1> HIDE DEF r1
<1>4. r2 \in Runs /\ r2.pc = x /\ r2.piece = y /\ r2.created = q.created /\ SameRead(r2, r1)
  BY <1>2, <1>3, RunFields
<1> HIDE DEF r2
<1>5. QED BY <1>1, <1>3, <1>4 DEF Becomes, SameRead, x, y

(* The rule is written. *)
LEMMA Grantings ==
  ASSUME TypeOK, NEW u \in Users, GrantHelper(u)
  PROVE \E r : /\ Becomes(u, r) /\ SameRead(r, run[u]) /\ r.created = Creates(u)
               /\ r.pc = "verify" /\ r.piece = run[u].piece
<1> DEFINE q == run[u]
           b == Creates(u)
           r1 == [q EXCEPT !.pc = "verify"]
           r2 == [r1 EXCEPT !.created = b]
<1>1. run' = [run EXCEPT ![u] = r2]
  BY DEF GrantHelper
<1>2. b \in BOOLEAN /\ "verify" \in RunPcs
  BY RunTypes DEF Creates, RunPcs, InstallSteps
<1> HIDE DEF b
<1>3. r1 \in Runs /\ r1.pc = "verify" /\ r1.piece = q.piece /\ SameRead(r1, q)
  BY <1>2, RunTypes, RunFields
<1> HIDE DEF r1
<1>4. r2 \in Runs /\ r2.pc = "verify" /\ r2.piece = q.piece /\ r2.created = b /\ SameRead(r2, r1)
  BY <1>2, <1>3, RunFields
<1> HIDE DEF r2
<1>5. QED BY <1>1, <1>3, <1>4 DEF Becomes, SameRead, b

(* Nothing is passwordless any more. *)
LEMMA Probes ==
  ASSUME TypeOK, NEW u \in Users, run' = [run EXCEPT ![u].pc = "remove", ![u].piece = "helper"]
  PROVE \E r : /\ Becomes(u, r) /\ SameRead(r, run[u]) /\ r.created = run[u].created
               /\ r.pc = "remove" /\ r.piece = "helper"
<1> DEFINE q == run[u]
           r1 == [q EXCEPT !.pc = "remove"]
           r2 == [r1 EXCEPT !.piece = "helper"]
<1>1. run' = [run EXCEPT ![u] = r2]
  OBVIOUS
<1>2. "remove" \in RunPcs /\ "helper" \in Pieces
  BY DEF RunPcs, UninstallSteps, Pieces
<1>3. r1 \in Runs /\ r1.pc = "remove" /\ r1.created = q.created /\ SameRead(r1, q)
  BY <1>2, RunTypes, RunFields
<1> HIDE DEF r1
<1>4. /\ r2 \in Runs /\ r2.pc = "remove" /\ r2.piece = "helper" /\ r2.created = q.created
      /\ SameRead(r2, r1)
  BY <1>2, <1>3, RunFields
<1> HIDE DEF r2
<1>5. QED BY <1>1, <1>3, <1>4 DEF Becomes, SameRead

(* The next piece to remove. *)
LEMMA Removes ==
  ASSUME TypeOK, NEW u \in Users, Remove(u)
  PROVE \E r : /\ Becomes(u, r) /\ SameRead(r, run[u]) /\ r.created = run[u].created
               /\ r.pc = "remove" /\ r.piece \in {"admin", "wrapper", "manifest"}
<1> DEFINE q == run[u]
           y == IF q.piece = "helper" THEN "admin"
                ELSE IF q.piece = "admin" THEN "wrapper" ELSE "manifest"
           r1 == [q EXCEPT !.piece = y]
<1>1. run' = [run EXCEPT ![u] = r1] /\ q.pc = "remove"
  BY DEF Remove
<1>2. y \in {"admin", "wrapper", "manifest"} /\ y \in Pieces \cup {"manifest"}
  BY DEF Pieces
<1> HIDE DEF y
<1>3. r1 \in Runs /\ r1.pc = q.pc /\ r1.piece = y /\ r1.created = q.created /\ SameRead(r1, q)
  BY <1>2, RunTypes, RunFields
<1> HIDE DEF r1
<1>4. QED BY <1>1, <1>2, <1>3 DEF Becomes

(* A step of u leaves the other runs alone; it takes its own to pc; it ends, begins
   or leaves. *)
OthersStay(u) == run' \in [Users -> Runs] /\ \A v \in Users \ {u} : run'[v] = run[v]

To(u, pc) ==
  /\ run'[u].pc = pc /\ run'[u].piece = run[u].piece /\ run'[u].created = run[u].created
  /\ SameRead(run'[u], run[u])

Ended(u) == run'[u].pc = "off" /\ ~run'[u].created

Begun(u) ==
  /\ run'[u].pc = "stage" /\ run'[u].piece = "wrapper" /\ ~run'[u].created
  /\ run'[u].build \in Builds
  /\ run'[u].legacy \in Answers(LegacyFor(u)) /\ run'[u].legacy # "foreign"
  /\ run'[u].rule \in Answers(rule[u]) /\ run'[u].status \in Answers(status[u])

Leaving(u) == run'[u].pc = "removeRule" /\ ~run'[u].created

(* Where a step takes the run of its user. *)
Edge(u) ==
  \/ Ended(u)
  \/ run[u].pc = "off" /\ Decide(u) /\ Begun(u)
  \/ run[u].pc = "off" /\ Uninstall(u) /\ Leaving(u)
  \/ run[u].pc = "stage" /\ To(u, "prove")
  \/ run[u].pc = "prove" /\ To(u, "activate")
  \/ /\ run[u].pc = "activate" /\ staged[run[u].piece] # None
     /\ run'[u].pc = Following(run[u].piece).pc /\ run'[u].piece = Following(run[u].piece).piece
     /\ run'[u].created = run[u].created /\ SameRead(run'[u], run[u])
  \/ run[u].pc = "manifest" /\ To(u, "selfcheck")
  \/ run[u].pc = "selfcheck" /\ To(u, "retire")
  \/ run[u].pc = "retire" /\ To(u, "status")
  \/ run[u].pc = "status" /\ To(u, "rule")
  \/ /\ run[u].pc = "rule" /\ run'[u].pc = "verify" /\ run'[u].created = Creates(u)
     /\ SameRead(run'[u], run[u])
  \/ run[u].pc = "verify" /\ run[u].created /\ To(u, "rollback")
  \/ run[u].pc = "removeRule" /\ To(u, "removeStatus")
  \/ run[u].pc = "removeStatus" /\ To(u, "probe")
  \/ /\ run[u].pc = "probe" /\ ~HelperPasswordless(u) /\ ~StatusPasswordless(u)
     /\ run'[u].pc = "remove" /\ run'[u].piece = "helper" /\ run'[u].created = run[u].created
     /\ SameRead(run'[u], run[u])
  \/ /\ run[u].pc = "remove" /\ run'[u].pc = "remove"
     /\ run'[u].piece \in {"admin", "wrapper", "manifest"}
     /\ run'[u].created = run[u].created /\ SameRead(run'[u], run[u])

UserStep(u) == Install(u) \/ Removal(u) \/ StepFails(u) \/ Interrupted(u)

Building == {"stage", "prove", "activate"}
Granting == {"manifest", "selfcheck", "retire", "status", "rule", "verify", "rollback"}

(* A run that stages, proves or activates is at a piece of a build. *)
Placed ==
  \A u \in Users : run[u].pc \in Building => run[u].piece \in Pieces /\ run[u].build \in Builds

(* The other runs stay. *)
LEMMA BecomesIs ==
  ASSUME TypeOK, NEW u \in Users, NEW r, Becomes(u, r)
  PROVE OthersStay(u) /\ run'[u] = r
BY DEF TypeOK, Becomes, OthersStay

(* Goes and Ends in those words. *)
LEMMA GoesTo ==
  ASSUME TypeOK, NEW u \in Users, NEW pc \in RunPcs, Goes(u, pc)
  PROVE OthersStay(u) /\ To(u, pc)
BY GoesOn, BecomesIs DEF To

(* A run that ends is idle again. *)
LEMMA EndsRun ==
  ASSUME TypeOK, NEW u \in Users, Ends(u)
  PROVE OthersStay(u) /\ Ended(u)
<1>1. Becomes(u, Idle)
  BY IdleRun DEF Ends, Becomes
<1>2. QED BY <1>1, BecomesIs, IdleRun DEF Ended

(* Every step of a user is an edge. *)
LEMMA Edges ==
  ASSUME TypeOK, Placed, NEW u \in Users, UserStep(u)
  PROVE OthersStay(u) /\ Edge(u)
<1>0. {"prove", "activate", "selfcheck", "retire", "status", "rule", "rollback",
       "removeStatus", "probe"} \subseteq RunPcs
  BY DEF RunPcs, InstallSteps, UninstallSteps
<1>1. CASE Ends(u)
  BY <1>1, EndsRun DEF Edge
<1>2. CASE Decide(u)
  <2>1. run[u].pc = "off"
    BY <1>2 DEF Decide, Starts
  <2>2. OthersStay(u) /\ Begun(u)
    BY <1>2, Decides, BecomesIs DEF Begun
  <2>3. QED BY <1>2, <2>1, <2>2 DEF Edge
<1>3. CASE Uninstall(u)
  <2>1. run[u].pc = "off"
    BY <1>3 DEF Uninstall, Starts
  <2>2. OthersStay(u) /\ Leaving(u)
    BY <1>3, Uninstalls, BecomesIs DEF Leaving
  <2>3. QED BY <1>3, <2>1, <2>2 DEF Edge
<1>4. CASE Stage(u)
  BY <1>4, <1>0, GoesTo DEF Edge, Stage
<1>5. CASE Prove(u) /\ ~Ends(u)
  BY <1>5, <1>0, GoesTo DEF Edge, Prove
<1>6. CASE Activate(u) /\ ~Ends(u)
  <2>1. /\ run[u].pc = "activate" /\ staged[run[u].piece] # None
        /\ run' = [run EXCEPT ![u].pc = Following(run[u].piece).pc,
                              ![u].piece = Following(run[u].piece).piece]
    BY <1>6 DEF Activate
  <2>2. run[u].piece \in Pieces
    BY <2>1 DEF Placed, Building
  <2>3. PICK r : /\ Becomes(u, r) /\ SameRead(r, run[u]) /\ r.created = run[u].created
                 /\ r.pc = Following(run[u].piece).pc /\ r.piece = Following(run[u].piece).piece
    BY <2>1, <2>2, Activates
  <2>4. OthersStay(u) /\ run'[u] = r
    BY <2>3, BecomesIs
  <2>5. QED BY <2>1, <2>3, <2>4 DEF Edge
<1>7. CASE WriteManifest(u)
  BY <1>7, <1>0, GoesTo DEF Edge, WriteManifest
<1>8. CASE SelfCheck(u) /\ ~Ends(u)
  BY <1>8, <1>0, GoesTo DEF Edge, SelfCheck
<1>9. CASE Retire(u)
  BY <1>9, <1>0, GoesTo DEF Edge, Retire
<1>10. CASE GrantStatus(u)
  BY <1>10, <1>0, GoesTo DEF Edge, GrantStatus
<1>11. CASE GrantHelper(u)
  <2>1. run[u].pc = "rule"
    BY <1>11 DEF GrantHelper
  <2>2. QED BY <1>11, <2>1, Grantings, BecomesIs DEF Edge
<1>12. CASE Verify(u) /\ ~Ends(u)
  BY <1>12, <1>0, GoesTo DEF Edge, Verify
<1>13. CASE RemoveRule(u)
  BY <1>13, <1>0, GoesTo DEF Edge, RemoveRule
<1>14. CASE RemoveStatus(u)
  BY <1>14, <1>0, GoesTo DEF Edge, RemoveStatus
<1>15. CASE Probe(u) /\ ~Ends(u)
  <2>1. /\ run[u].pc = "probe" /\ ~HelperPasswordless(u) /\ ~StatusPasswordless(u)
        /\ run' = [run EXCEPT ![u].pc = "remove", ![u].piece = "helper"]
    BY <1>15 DEF Probe
  <2>2. QED BY <2>1, Probes, BecomesIs DEF Edge
<1>16. CASE Remove(u)
  <2>1. run[u].pc = "remove"
    BY <1>16 DEF Remove
  <2>2. QED BY <1>16, <2>1, Removes, BecomesIs DEF Edge
<1>17. CASE Rollback(u) \/ StepFails(u) \/ RemoveManifest(u) \/ Interrupted(u)
  BY <1>17, <1>1 DEF Rollback, StepFails, RemoveManifest, Interrupted
<1>18. QED
  BY <1>1, <1>2, <1>3, <1>4, <1>5, <1>6, <1>7, <1>8, <1>9, <1>10, <1>11, <1>12, <1>13, <1>14,
     <1>15, <1>16, <1>17 DEF UserStep, Install, Removal

----------------------------------------------------------------------------
(* Building happens at a piece. *)
LEMMA PlacedKept ==
  ASSUME TypeOK, Placed, NEW u \in Users, UserStep(u)
  PROVE Placed'
<1>0. OthersStay(u) /\ Edge(u)
  BY Edges
<1>1. run[u].piece \in Pieces \cup {"manifest"}
  BY RunTypes
<1>2. run[u].pc = "activate" => run[u].piece \in Pieces /\ run[u].build \in Builds
  BY DEF Placed, Building
<1>3. run'[u].pc \in Building =>
        run'[u].piece \in Pieces /\ run'[u].build \in Builds
  BY <1>0, <1>2, Followings DEF Edge, Placed, Ended, Begun, Leaving, To, SameRead, Pieces,
     Building
<1>4. QED BY <1>0, <1>3 DEF OthersStay, Placed

(* Only a rule that was not there counts as created. *)
Shapes ==
  /\ Placed
  /\ \A u \in Users :
       run[u].created => run[u].pc \in {"verify", "rollback"} /\ run[u].rule = "absent"
  /\ \A u \in Users : run[u].pc = "rollback" => run[u].created

Alone == OneAtATime => \A u, v \in Users : run[u].pc # "off" /\ run[v].pc # "off" => u = v

(* What is about to be activated has passed its check. *)
Proven ==
  OneAtATime =>
    /\ \A u \in Users : run[u].pc = "activate" => passed[run[u].piece]
    /\ LiveIsProven

(* The pieces before the one that is built are installed; a removal that has
   gone past the helper has taken it or failed to. *)
Ordered ==
  OneAtATime =>
    /\ \A u \in Users : run[u].pc \in Building =>
         /\ run[u].piece \in {"admin", "helper"} => Installed("wrapper")
         /\ run[u].piece = "helper" => Installed("admin")
    /\ \A u \in Users : run[u].pc = "remove" /\ run[u].piece # "helper" =>
         (Installed("helper") => "helper" \in kept)
    /\ HelperIsComplete

OneUser == \A u, v \in Users : u = v

(* Rules are written beside a helper, and the helper goes after the rules. *)
Named ==
  OneUser /\ ~ReadsFail =>
    /\ \A u \in Users : run[u].pc \in Granting => live["helper"] # None
    /\ \A u \in Users : run[u].pc \in {"removeStatus", "probe", "remove"} => rule[u] # "ours"
    /\ \A u \in Users : run[u].pc \in {"probe", "remove"} => status[u] # "ours"
    /\ GrantsNameTheHelper

(* What phase A has read stays true until it is used. *)
ReadRight ==
  ~ReadsFail =>
    \A u \in Users :
      /\ run[u].pc \in Building \cup (Granting \ {"verify", "rollback"}) => run[u].rule = rule[u]
      /\ run[u].pc \in Building \cup {"manifest", "selfcheck", "retire", "status"} =>
           run[u].status = status[u]
      /\ run[u].created => rule[u] = "ours"
      /\ run[u].pc \in Building \cup {"manifest", "selfcheck", "retire"} =>
           \/ run[u].legacy = "ours" /\ legacy \in {u, None}
           \/ run[u].legacy = "absent" /\ legacy = None
      /\ run[u].pc \in {"status", "rule", "verify"} => legacy = None

(* Nobody installs beside somebody else's binaries. *)
Apart ==
  /\ live["wrapper"] # Foreign
  /\ (\E p \in Pieces : live[p] = Foreign) =>
       ~manifest /\ \A u \in Users : run[u].pc \notin Building \cup {"manifest"}

IndInv ==
  TypeOK /\ Shapes /\ Alone /\ Proven /\ Ordered /\ Named /\ ReadRight /\ Apart

----------------------------------------------------------------------------
(* Shapes *)

(* Only a rule that was not there is created. *)
LEMMA ShapesKept ==
  ASSUME TypeOK, Shapes, NEW u \in Users, UserStep(u)
  PROVE Shapes'
<1>0. OthersStay(u) /\ Edge(u) /\ Placed
  BY Edges DEF Shapes
<1>1. Placed'
  BY <1>0, PlacedKept
<1>2. /\ run[u].created => run[u].pc \in {"verify", "rollback"} /\ run[u].rule = "absent"
      /\ run[u].pc = "rollback" => run[u].created
  BY DEF Shapes
<1>3. Following(run[u].piece).pc \in {"stage", "manifest"}
  BY DEF Following
<1>4. /\ run'[u].created => run'[u].pc \in {"verify", "rollback"} /\ run'[u].rule = "absent"
      /\ run'[u].pc = "rollback" => run'[u].created
  BY <1>0, <1>2, <1>3 DEF Edge, Ended, Begun, Leaving, To, SameRead, Creates
<1>5. \A v \in Users :
        /\ run'[v].created => run'[v].pc \in {"verify", "rollback"} /\ run'[v].rule = "absent"
        /\ run'[v].pc = "rollback" => run'[v].created
  BY <1>0, <1>4 DEF OthersStay, Shapes
<1>6. QED BY <1>1, <1>5 DEF Shapes

(* Runs do not overlap when they are assumed not to start beside one. *)
LEMMA AloneKept ==
  ASSUME TypeOK, Placed, Alone, NEW u \in Users, UserStep(u)
  PROVE Alone'
<1> SUFFICES ASSUME OneAtATime, NEW v \in Users, NEW w \in Users,
                    run'[v].pc # "off", run'[w].pc # "off"
             PROVE  v = w
  BY DEF Alone
<1>0. OthersStay(u) /\ Edge(u)
  BY Edges
<1>1. CASE run[u].pc # "off"
  BY <1>0, <1>1 DEF Alone, OthersStay
<1>2. CASE Decide(u) \/ Uninstall(u)
  <2>1. \A x \in Users : run[x].pc = "off"
    BY <1>2 DEF Decide, Uninstall, Starts
  <2>2. QED BY <1>0, <2>1 DEF OthersStay
<1>3. CASE Ended(u)
  BY <1>0, <1>3 DEF Alone, OthersStay, Ended
<1>4. QED BY <1>0, <1>1, <1>2, <1>3 DEF Edge

----------------------------------------------------------------------------
(* Proven *)

(* Only one step writes each of what the pieces are. *)
LEMMA LiveStays ==
  ASSUME NEW u \in Users, UserStep(u)
  PROVE /\ ~Activate(u) /\ ~Remove(u) => live' = live /\ kept' = kept
        /\ ~Activate(u) => sound' = sound
        /\ ~Stage(u) /\ ~Prove(u) => passed' = passed
<1>1. CASE Decide(u) \/ Stage(u) \/ Prove(u) \/ WriteManifest(u) \/ SelfCheck(u)
  BY <1>1 DEF Decide, Stage, Prove, WriteManifest, SelfCheck, checks
<1>2. CASE Retire(u) \/ GrantStatus(u) \/ GrantHelper(u) \/ Verify(u) \/ Rollback(u)
  BY <1>2 DEF Retire, GrantStatus, GrantHelper, Verify, Rollback, checks
<1>3. CASE Uninstall(u) \/ RemoveRule(u) \/ RemoveStatus(u) \/ Probe(u) \/ RemoveManifest(u)
  BY <1>3 DEF Uninstall, RemoveRule, RemoveStatus, Probe, RemoveManifest, checks
<1>4. CASE StepFails(u) \/ Interrupted(u)
  BY <1>4 DEF StepFails, Interrupted, checks
<1>5. CASE Activate(u) \/ Remove(u)
  BY <1>5 DEF Activate, Remove
<1>6. QED
  BY <1>1, <1>2, <1>3, <1>4, <1>5 DEF UserStep, Install, Removal

(* The check comes before the rename. *)
LEMMA ProvenKept ==
  ASSUME TypeOK, Placed, Alone, Proven, NEW u \in Users, UserStep(u)
  PROVE Proven'
<1> SUFFICES ASSUME OneAtATime
             PROVE  /\ \A v \in Users : run'[v].pc = "activate" => passed'[run'[v].piece]
                    /\ LiveIsProven'
  BY DEF Proven
<1>0. OthersStay(u) /\ Edge(u) /\ LiveIsProven
  BY Edges DEF Proven
<1>1. \A v \in Users : run[v].pc = "activate" => passed[run[v].piece] /\ run[v].piece \in Pieces
  BY DEF Proven, Placed, Building
<1>2. /\ live \in [Pieces -> Builds \cup {None, Foreign}]
      /\ passed \in [Pieces -> BOOLEAN] /\ sound \in [Pieces -> BOOLEAN]
  BY DEF TypeOK
<1>3. run[u].pc # "off" => \A v \in Users \ {u} : run'[v].pc = "off"
  BY <1>0 DEF Alone, OthersStay
<1>4. CASE Stage(u)
  <2>1. run'[u].pc = "prove" \/ run'[u].pc = "off"
    BY <1>0, <1>4 DEF Stage, Edge, Ended, To
  <2>2. live' = live /\ sound' = sound
    BY <1>4 DEF Stage
  <2>3. run[u].pc = "stage"
    BY <1>4 DEF Stage
  <2>4. QED BY <1>0, <1>3, <2>1, <2>2, <2>3 DEF LiveIsProven, Installed, Builds
<1>5. CASE Prove(u)
  <2>1. run[u].pc = "prove" /\ run[u].piece \in Pieces /\ live' = live /\ sound' = sound
    BY <1>5 DEF Prove, Placed, Building
  <2>2. \/ passed' = [passed EXCEPT ![run[u].piece] = TRUE] /\ run'[u].piece = run[u].piece
        \/ run'[u].pc = "off"
    BY <1>0, <1>5, GoesTo, EndsRun DEF Prove, RunPcs, InstallSteps, To, Ended
  <2>3. run'[u].pc = "activate" => passed'[run'[u].piece]
    BY <1>2, <2>1, <2>2
  <2>4. QED BY <1>0, <1>3, <2>1, <2>3 DEF LiveIsProven, Installed, Builds
<1>6. CASE Activate(u)
  <2>1. run[u].pc = "activate" /\ passed' = passed
    BY <1>6 DEF Activate
  <2>2. passed[run[u].piece] /\ run[u].piece \in Pieces
    BY <1>1, <2>1
  <2>3. run'[u].pc # "activate"
    BY <1>0, <2>1, <2>2, Followings DEF Edge, Ended
  <2>4. \/ /\ live' = [live EXCEPT ![run[u].piece] = staged[run[u].piece]]
           /\ sound' = [sound EXCEPT ![run[u].piece] = passed[run[u].piece]]
        \/ live' = live /\ sound' = sound
    BY <1>6 DEF Activate
  <2>5. LiveIsProven'
    BY <1>0, <1>2, <2>2, <2>4 DEF LiveIsProven, Installed, Builds
  <2>6. QED BY <1>3, <2>1, <2>3, <2>5
<1>7. CASE Remove(u)
  <2>1. run[u].pc = "remove" /\ passed' = passed /\ sound' = sound
    BY <1>7 DEF Remove
  <2>2. \A p \in Pieces : live'[p] = live[p] \/ live'[p] = None
    BY <1>2, <1>7 DEF Remove
  <2>3. None \notin Builds
    BY Parameters DEF Builds
  <2>4. LiveIsProven'
    BY <1>0, <2>1, <2>2, <2>3 DEF LiveIsProven, Installed, Builds
  <2>5. run'[u].pc # "activate"
    BY <1>0, <2>1 DEF Edge, Ended
  <2>6. QED BY <1>3, <2>1, <2>4, <2>5
<1>8. CASE ~Stage(u) /\ ~Prove(u) /\ ~Activate(u) /\ ~Remove(u)
  <2>1. live' = live /\ sound' = sound /\ passed' = passed
    BY <1>8, LiveStays
  <2>2. run'[u].pc # "activate"
    <3>1. run'[u].pc = "activate" => run[u].pc = "prove"
      BY <1>0, <1>1, Followings DEF Edge, Ended, Begun, Leaving, To
    <3>2. run[u].pc = "prove" => Interrupted(u) \/ StepFails(u)
      BY <1>8 DEF UserStep, Install, Removal, Decide, Uninstall, Starts, Stage, Prove, Activate,
                  WriteManifest, SelfCheck, Retire, GrantStatus, GrantHelper, Verify, Rollback,
                  RemoveRule, RemoveStatus, Probe, Remove, RemoveManifest
    <3>3. QED BY <3>1, <3>2, EndsRun DEF Interrupted, StepFails, Ended
  <2>3. \A v \in Users : run'[v].pc = "activate" => passed'[run'[v].piece]
    BY <1>0, <1>1, <2>1, <2>2 DEF OthersStay
  <2>4. QED BY <1>0, <2>1, <2>3 DEF LiveIsProven, Installed, Builds
<1>9. QED BY <1>4, <1>5, <1>6, <1>7, <1>8

(* Who writes the sudoers files. *)
LEMMA SudoersStay ==
  ASSUME NEW u \in Users, UserStep(u)
  PROVE /\ ~GrantHelper(u) /\ ~Rollback(u) /\ ~RemoveRule(u) => rule' = rule
        /\ ~GrantStatus(u) /\ ~RemoveStatus(u) => status' = status
        /\ ~Retire(u) => legacy' = legacy
        /\ Retire(u) \/ legacy' = legacy
        /\ ~WriteManifest(u) /\ ~RemoveManifest(u) => manifest' = manifest
<1>1. CASE Decide(u) \/ Stage(u) \/ Prove(u) \/ Activate(u) \/ WriteManifest(u) \/ SelfCheck(u)
  BY <1>1 DEF Decide, Stage, Prove, Activate, WriteManifest, SelfCheck, sudoers
<1>2. CASE Retire(u) \/ GrantStatus(u) \/ GrantHelper(u) \/ Verify(u) \/ Rollback(u)
  BY <1>2 DEF Retire, GrantStatus, GrantHelper, Verify, Rollback, sudoers
<1>3. CASE \/ Uninstall(u) \/ RemoveRule(u) \/ RemoveStatus(u) \/ Probe(u) \/ Remove(u)
           \/ RemoveManifest(u)
  BY <1>3 DEF Uninstall, RemoveRule, RemoveStatus, Probe, Remove, RemoveManifest, sudoers
<1>4. CASE StepFails(u) \/ Interrupted(u)
  BY <1>4 DEF StepFails, Interrupted, sudoers
<1>5. QED
  BY <1>1, <1>2, <1>3, <1>4 DEF UserStep, Install, Removal

(* A rule is written for one user only. *)
LEMMA RulesStay ==
  ASSUME TypeOK, NEW u \in Users, UserStep(u)
  PROVE /\ rule' \in [Users -> Contents] /\ status' \in [Users -> Contents]
        /\ \A v \in Users \ {u} : rule'[v] = rule[v] /\ status'[v] = status[v]
        /\ legacy' \in {legacy, None}
<1>1. rule \in [Users -> Contents] /\ status \in [Users -> Contents]
  BY DEF TypeOK
<1>2. "absent" \in Contents /\ "ours" \in Contents
  BY DEF Contents
<1>3. CASE GrantHelper(u) \/ Rollback(u) \/ RemoveRule(u)
  <2>1. /\ \/ rule' = rule \/ rule' = [rule EXCEPT ![u] = "ours"]
           \/ rule' = [rule EXCEPT ![u] = "absent"]
        /\ status' = status /\ legacy' = legacy
    BY <1>3 DEF GrantHelper, Rollback, RemoveRule
  <2>2. QED BY <1>1, <1>2, <2>1
<1>4. CASE GrantStatus(u) \/ RemoveStatus(u)
  <2>1. /\ \/ status' = status \/ status' = [status EXCEPT ![u] = "ours"]
           \/ status' = [status EXCEPT ![u] = "absent"]
        /\ rule' = rule /\ legacy' = legacy
    BY <1>4 DEF GrantStatus, RemoveStatus
  <2>2. QED BY <1>1, <1>2, <2>1
<1>5. CASE Retire(u)
  BY <1>1, <1>5 DEF Retire
<1>6. QED BY <1>1, <1>3, <1>4, <1>5, SudoersStay

----------------------------------------------------------------------------
(* Ordered *)

(* The helper is the last to come and the first to go. *)
LEMMA OrderedKept ==
  ASSUME TypeOK, Placed, Alone, Ordered, NEW u \in Users, UserStep(u)
  PROVE Ordered'
<1> SUFFICES ASSUME OneAtATime PROVE Ordered'
  BY DEF Ordered
<1> DEFINE Built(v) == run[v].pc \in Building =>
             /\ run[v].piece \in {"admin", "helper"} => Installed("wrapper")
             /\ run[v].piece = "helper" => Installed("admin")
           Gone(v) == run[v].pc = "remove" /\ run[v].piece # "helper" =>
             (Installed("helper") => "helper" \in kept)
<1>0. OthersStay(u) /\ Edge(u) /\ HelperIsComplete
  BY Edges DEF Ordered
<1>1. Built(u) /\ Gone(u)
  BY DEF Ordered
<1>2. run[u].pc # "off" => \A v \in Users \ {u} : run'[v].pc = "off"
  BY <1>0 DEF Alone, OthersStay
<1>3. run[u].pc = "off" => \A v \in Users \ {u} : run'[v].pc = "off"
  <2>1. run[u].pc = "off" => \A v \in Users : run[v].pc = "off"
    BY DEF UserStep, Install, Removal, Decide, Uninstall, Starts, Stage, Prove, Activate,
           WriteManifest, SelfCheck, Retire, GrantStatus, GrantHelper, Verify, Rollback,
           RemoveRule, RemoveStatus, Probe, Remove, RemoveManifest, StepFails, Interrupted,
           InstallSteps, UninstallSteps
  <2>2. QED BY <1>0, <2>1 DEF OthersStay
<1>4. live \in [Pieces -> Builds \cup {None, Foreign}] /\ staged \in [Pieces -> Builds \cup {None}]
  BY DEF TypeOK
<1>5. None \notin Builds /\ Foreign \notin Builds
  BY Parameters DEF Builds
<1>6. CASE Activate(u)
  <2>1. run[u].pc = "activate" /\ run[u].piece \in Pieces
    BY <1>6 DEF Activate, Placed, Building
  <2>2. CASE live' = live /\ kept' = kept /\ Ends(u)
    <3>1. run'[u].pc = "off"
      BY <2>2, EndsRun DEF Ended
    <3>2. HelperIsComplete'
      BY <1>0, <2>2 DEF HelperIsComplete, Installed, Builds
    <3>3. QED BY <1>2, <2>1, <3>1, <3>2 DEF Ordered, Building
  <2>3. CASE /\ staged[run[u].piece] # None
             /\ live' = [live EXCEPT ![run[u].piece] = staged[run[u].piece]]
             /\ kept' = kept \ {run[u].piece}
    <3>1. staged[run[u].piece] \in Builds
      BY <1>4, <2>1, <2>3
    <3>2. \A p \in Pieces : live'[p] = IF p = run[u].piece THEN staged[run[u].piece] ELSE live[p]
      BY <1>4, <2>3
    <3>3. \A p \in Pieces : Installed(p)' <=> p = run[u].piece \/ Installed(p)
      BY <3>1, <3>2 DEF Installed, Builds
    <3>4. HelperIsComplete'
      BY <1>0, <1>1, <2>1, <2>3, <3>3 DEF HelperIsComplete, Pieces, Building
    <3>5. Built(u)' /\ Gone(u)'
      <4>1. \/ run'[u].pc = "off"
            \/ /\ run'[u].pc = Following(run[u].piece).pc
               /\ run'[u].piece = Following(run[u].piece).piece
        BY <1>0, <2>1 DEF Edge, Ended
      <4>2. QED
        BY <1>1, <2>1, <3>3, <4>1, Followings DEF Following, Pieces, Building
    <3>6. QED BY <1>2, <2>1, <3>4, <3>5 DEF Ordered, Building
  <2>4. QED BY <1>6, <2>2, <2>3 DEF Activate
<1>7. CASE Remove(u)
  <2>1. run[u].pc = "remove" /\ run[u].piece # "manifest" /\ run[u].piece \in Pieces
    BY <1>7, RunTypes DEF Remove
  <2>2. \/ /\ live' = IF run[u].piece = "wrapper" /\ ~run[u].knows THEN live
                      ELSE [live EXCEPT ![run[u].piece] = None]
           /\ kept' = kept \ {run[u].piece}
        \/ live' = live /\ kept' = kept \cup {run[u].piece}
    BY <1>7 DEF Remove
  <2>3. /\ "helper" \in Pieces
        /\ Installed("helper")' => Installed("helper") /\ "helper" \in kept'
    <3>1. CASE run[u].piece = "helper"
      BY <1>4, <1>5, <2>2, <3>1 DEF Installed, Pieces, Builds
    <3>2. CASE run[u].piece # "helper"
      BY <1>1, <1>4, <2>1, <2>2, <3>2 DEF Installed, Pieces, Builds
    <3>3. QED BY <3>1, <3>2 DEF Pieces
  <2>4. HelperIsComplete' /\ Gone(u)'
    BY <2>3 DEF HelperIsComplete
  <2>5. run'[u].pc \notin Building
    BY <1>0, <2>1 DEF Edge, Ended, Building
  <2>6. QED BY <1>2, <2>1, <2>4, <2>5 DEF Ordered, Building
<1>8. CASE ~Activate(u) /\ ~Remove(u)
  <2>1. live' = live /\ kept' = kept
    BY <1>8, LiveStays
  <2>2. \A p \in Pieces : Installed(p)' <=> Installed(p)
    BY <2>1 DEF Installed, Builds
  <2>3. HelperIsComplete'
    BY <1>0, <2>1, <2>2 DEF HelperIsComplete, Pieces
  <2>4. run[u].pc \in {"activate", "remove"} => run'[u].pc = "off"
    <3>1. CASE StepFails(u) \/ Interrupted(u) \/ RemoveManifest(u)
      BY <3>1, EndsRun DEF StepFails, Interrupted, RemoveManifest, Ended
    <3>2. CASE ~(StepFails(u) \/ Interrupted(u) \/ RemoveManifest(u))
      BY <1>8, <3>2 DEF UserStep, Install, Removal, Decide, Uninstall, Starts, Stage, Prove,
           WriteManifest, SelfCheck, Retire, GrantStatus, GrantHelper, Verify, Rollback,
           RemoveRule, RemoveStatus, Probe
    <3>3. QED BY <3>1, <3>2
  <2>5. Built(u)' /\ Gone(u)'
    BY <1>0, <1>1, <2>1, <2>2, <2>4 DEF Edge, Ended, Begun, Leaving, To, Building, Pieces
  <2>6. QED BY <1>2, <1>3, <2>3, <2>5 DEF Ordered, Building
<1>9. QED BY <1>6, <1>7, <1>8

----------------------------------------------------------------------------
(* Apart *)

(* Somebody else's binaries keep the installer away. *)
LEMMA ApartKept ==
  ASSUME TypeOK, Placed, Apart, NEW u \in Users, UserStep(u)
  PROVE Apart'
<1> SUFFICES ASSUME NEW p \in Pieces, live'[p] = Foreign
             PROVE  /\ p # "wrapper" /\ ~manifest'
                    /\ \A v \in Users : run'[v].pc \notin Building \cup {"manifest"}
  BY DEF Apart, Pieces
<1>0. OthersStay(u) /\ Edge(u)
  BY Edges
<1>1. live \in [Pieces -> Builds \cup {None, Foreign}] /\ staged \in [Pieces -> Builds \cup {None}]
  BY DEF TypeOK
<1>2. None # Foreign /\ Foreign \notin Builds
  BY Parameters DEF Builds
<1>3. live[p] = Foreign
  <2>1. CASE Activate(u)
    <3>1. run[u].piece \in Pieces
      BY <2>1 DEF Activate, Placed, Building
    <3>2. \/ live' = live
          \/ /\ staged[run[u].piece] # None
             /\ live' = [live EXCEPT ![run[u].piece] = staged[run[u].piece]]
      BY <2>1 DEF Activate
    <3>3. QED BY <1>1, <1>2, <3>1, <3>2
  <2>2. CASE Remove(u)
    BY <1>1, <1>2, <2>2 DEF Remove
  <2>3. CASE ~Activate(u) /\ ~Remove(u)
    BY <2>3, LiveStays
  <2>4. QED BY <2>1, <2>2, <2>3
<1>4. p # "wrapper" /\ ~manifest /\ \A v \in Users : run[v].pc \notin Building \cup {"manifest"}
  BY <1>3 DEF Apart
<1>5. ~WriteManifest(u)
  BY <1>4 DEF WriteManifest
<1>6. ~manifest'
  BY <1>4, <1>5, SudoersStay DEF RemoveManifest
<1>7. ~Decide(u)
  BY <1>2, <1>3, <1>4 DEF Decide, Reusable, Pieces
<1>8. run'[u].pc \notin Building \cup {"manifest"}
  BY <1>0, <1>4, <1>7 DEF Edge, Ended, Leaving, To, Building
<1>9. QED BY <1>0, <1>4, <1>6, <1>8 DEF OthersStay

(* Rules come after the helper and go before it. *)
LEMMA NamedKept ==
  ASSUME TypeOK, Placed, Ordered, Named, NEW u \in Users, UserStep(u)
  PROVE Named'
<1> SUFFICES ASSUME OneUser, ~ReadsFail PROVE Named'
  BY DEF Named, OneUser
<1> DEFINE P == run[u].pc \in Granting => live["helper"] # None
           Q == run[u].pc \in {"removeStatus", "probe", "remove"} => rule[u] # "ours"
           R == run[u].pc \in {"probe", "remove"} => status[u] # "ours"
           G == rule[u] = "ours" \/ status[u] = "ours" => live["helper"] # None
<1>0. OthersStay(u) /\ Edge(u)
  BY Edges
<1>1. P /\ Q /\ R /\ G
  BY DEF Named, GrantsNameTheHelper
<1>2. SUFFICES P' /\ Q' /\ R' /\ G'
  BY DEF Named, OneUser, GrantsNameTheHelper
<1>3. /\ live \in [Pieces -> Builds \cup {None, Foreign}] /\ "helper" \in Pieces
      /\ staged \in [Pieces -> Builds \cup {None}]
      /\ rule \in [Users -> Contents] /\ status \in [Users -> Contents]
  BY DEF TypeOK, Pieces
<1>4. ~Activate(u) /\ ~Remove(u) => live'["helper"] = live["helper"]
  BY LiveStays
<1>5. CASE GrantStatus(u) \/ GrantHelper(u)
  <2>1. live["helper"] # None /\ live'["helper"] # None
    BY <1>1, <1>5 DEF GrantStatus, GrantHelper, Granting
  <2>2. run[u].pc \in {"status", "rule"}
    BY <1>5 DEF GrantStatus, GrantHelper
  <2>3. run'[u].pc \notin {"removeStatus", "probe", "remove"}
    BY <1>0, <2>2 DEF Edge, Ended, To
  <2>4. QED BY <2>1, <2>3
<1>6. CASE RemoveRule(u)
  <2>1. rule'[u] # "ours" /\ status' = status /\ live' = live /\ run[u].pc = "removeRule"
    BY <1>3, <1>6 DEF RemoveRule, Answers
  <2>2. run'[u].pc \notin {"probe", "remove"} /\ run'[u].pc \notin Granting
    BY <1>0, <2>1 DEF Edge, Ended, To, Granting
  <2>3. QED BY <1>1, <2>1, <2>2
<1>7. CASE RemoveStatus(u)
  <2>1. /\ status'[u] # "ours" /\ rule' = rule /\ live' = live /\ run[u].pc = "removeStatus"
    BY <1>3, <1>7 DEF RemoveStatus, Answers
  <2>2. run'[u].pc \notin Granting
    BY <1>0, <2>1 DEF Edge, Ended, To, Granting
  <2>3. QED BY <1>1, <2>1, <2>2
<1>8. CASE Activate(u)
  <2>1. /\ rule' = rule /\ status' = status /\ run[u].pc = "activate" /\ run[u].piece \in Pieces
    BY <1>8 DEF Activate, sudoers, Placed, Building
  <2>2. \/ /\ staged[run[u].piece] # None
           /\ live' = [live EXCEPT ![run[u].piece] = staged[run[u].piece]]
        \/ live' = live /\ Ends(u)
    BY <1>8 DEF Activate
  <2>3. live["helper"] # None => live'["helper"] # None
    BY <1>3, <2>1, <2>2
  <2>4. run'[u].pc \in Granting => live'["helper"] # None
    <3>1. ~Ends(u) => /\ staged[run[u].piece] # None
                      /\ live' = [live EXCEPT ![run[u].piece] = staged[run[u].piece]]
      BY <2>2
    <3>2. run'[u].pc \in Granting => run[u].piece = "helper"
      BY <1>0, <2>1, Followings DEF Edge, Ended, Granting
    <3>3. Ends(u) => run'[u].pc \notin Granting
      BY EndsRun DEF Ended, Granting
    <3>4. QED BY <1>3, <3>1, <3>2, <3>3
  <2>5. run'[u].pc \notin {"removeStatus", "probe", "remove"}
    BY <1>0, <2>1, Followings DEF Edge, Ended
  <2>6. QED BY <1>1, <2>1, <2>3, <2>4, <2>5
<1>9. CASE Remove(u)
  <2>1. rule' = rule /\ status' = status /\ run[u].pc = "remove"
    BY <1>9 DEF Remove, sudoers
  <2>2. rule[u] # "ours" /\ status[u] # "ours"
    BY <1>1, <2>1
  <2>3. run'[u].pc \notin Granting
    BY <1>0, <2>1 DEF Edge, Ended, Granting
  <2>4. QED BY <2>1, <2>2, <2>3
<1>10. CASE Rollback(u)
  <2>1. run[u].pc = "rollback" /\ live' = live
    BY <1>10 DEF Rollback
  <2>2. live'["helper"] # None
    BY <1>1, <2>1 DEF Granting
  <2>3. run'[u].pc = "off"
    BY <1>10, EndsRun DEF Rollback, Ended
  <2>4. QED BY <2>2, <2>3 DEF Granting
<1>11. CASE ~(GrantStatus(u) \/ GrantHelper(u) \/ RemoveRule(u) \/ RemoveStatus(u) \/ Activate(u)
              \/ Remove(u) \/ Rollback(u))
  <2>1. rule' = rule /\ status' = status /\ live'["helper"] = live["helper"]
    BY <1>4, <1>11, SudoersStay
  <2>2. /\ run'[u].pc \in Granting => run[u].pc \in Granting
        /\ run'[u].pc \in {"removeStatus", "probe", "remove"} =>
             run[u].pc \in {"probe", "remove"}
    <3>1. CASE Ends(u)
      BY <3>1, EndsRun DEF Ended, Granting
    <3>2. CASE ~Ends(u)
      <4>1. run[u].pc \notin {"activate", "removeRule", "removeStatus"}
        BY <1>11, <3>2 DEF UserStep, Install, Removal, Decide, Uninstall, Starts, Stage, Prove,
             WriteManifest, SelfCheck, Retire, Verify, Probe, RemoveManifest, StepFails, Interrupted
      <4>2. QED BY <1>0, <4>1 DEF Edge, Ended, Begun, Leaving, To, Granting
    <3>3. QED BY <3>1, <3>2
  <2>3. QED BY <1>1, <2>1, <2>2
<1>12. QED BY <1>5, <1>6, <1>7, <1>8, <1>9, <1>10, <1>11

----------------------------------------------------------------------------
(* ReadRight *)

(* Nobody else writes what phase A has read for a user. *)
LEMMA ReadRightKept ==
  ASSUME TypeOK, Shapes, ReadRight, NEW u \in Users, UserStep(u)
  PROVE ReadRight'
<1> SUFFICES ASSUME ~ReadsFail PROVE ReadRight'
  BY DEF ReadRight
<1> DEFINE A(v) == run[v].pc \in Building \cup (Granting \ {"verify", "rollback"}) =>
                     run[v].rule = rule[v]
           B(v) == run[v].pc \in Building \cup {"manifest", "selfcheck", "retire", "status"} =>
                     run[v].status = status[v]
           C(v) == run[v].created => rule[v] = "ours"
           D(v) == run[v].pc \in Building \cup {"manifest", "selfcheck", "retire"} =>
                     \/ run[v].legacy = "ours" /\ legacy \in {v, None}
                     \/ run[v].legacy = "absent" /\ legacy = None
           E(v) == run[v].pc \in {"status", "rule", "verify"} => legacy = None
<1>0. OthersStay(u) /\ Edge(u) /\ Placed
  BY Edges DEF Shapes
<1>1. \A v \in Users : A(v) /\ B(v) /\ C(v) /\ D(v) /\ E(v)
  BY DEF ReadRight
<1>2. \A v \in Users \ {u} : A(v)' /\ B(v)' /\ C(v)' /\ D(v)' /\ E(v)'
  BY <1>0, <1>1, RulesStay DEF OthersStay
<1>3. SUFFICES A(u)' /\ B(u)' /\ C(u)' /\ D(u)' /\ E(u)'
  BY <1>2 DEF ReadRight
<1>4. /\ run[u].created => run[u].pc \in {"verify", "rollback"} /\ run[u].rule = "absent"
      /\ run[u].pc = "rollback" => run[u].created
  BY DEF Shapes
<1>5. rule \in [Users -> Contents] /\ status \in [Users -> Contents]
  BY DEF TypeOK
<1>6. CASE Ended(u)
  BY <1>6 DEF Ended, Building, Granting
<1>7. CASE Begun(u) /\ Decide(u)
  <2>1. rule' = rule /\ status' = status /\ legacy' = legacy
    BY <1>7 DEF Decide, sudoers
  <2>2. run'[u].rule = rule[u] /\ run'[u].status = status[u] /\ run'[u].legacy = LegacyFor(u)
    BY <1>7 DEF Begun, Answers
  <2>3. /\ run'[u].pc = "stage" /\ ~run'[u].created
        /\ \/ run'[u].legacy = "ours" /\ legacy = u
           \/ run'[u].legacy = "absent" /\ legacy = None
    BY <1>7, <2>2 DEF Begun, LegacyFor
  <2>4. QED BY <2>1, <2>2, <2>3
<1>8. CASE Leaving(u)
  BY <1>8 DEF Leaving, Building, Granting
<1>9. CASE ~Ended(u) /\ Retire(u)
  <2>1. /\ run[u].pc = "retire" /\ rule' = rule /\ status' = status
        /\ legacy' = IF run[u].legacy = "ours" THEN None ELSE legacy
    BY <1>9 DEF Retire
  <2>2. legacy' = None
    BY <1>1, <2>1
  <2>3. To(u, "status")
    BY <1>0, <1>9, <2>1 DEF Edge
  <2>4. QED BY <1>1, <1>4, <2>1, <2>2, <2>3 DEF To, SameRead, Building, Granting
<1>10. CASE ~Ended(u) /\ GrantStatus(u)
  <2>1. run[u].pc = "status" /\ rule' = rule /\ legacy' = legacy
    BY <1>10 DEF GrantStatus
  <2>2. To(u, "rule")
    BY <1>0, <1>10, <2>1 DEF Edge
  <2>3. QED BY <1>1, <1>4, <2>1, <2>2 DEF To, SameRead, Building, Granting
<1>11. CASE ~Ended(u) /\ GrantHelper(u)
  <2>1. /\ run[u].pc = "rule" /\ legacy' = legacy
        /\ rule' = IF Writes(u) THEN [rule EXCEPT ![u] = "ours"] ELSE rule
    BY <1>11 DEF GrantHelper
  <2>2. run'[u].pc = "verify" /\ run'[u].created = Creates(u) /\ SameRead(run'[u], run[u])
    BY <1>0, <1>11, <2>1 DEF Edge
  <2>3. Creates(u) => Writes(u)
    BY DEF Creates, Writes
  <2>4. QED BY <1>1, <1>5, <2>1, <2>2, <2>3 DEF Building, Granting
<1>12. CASE ~Ended(u) /\ (RemoveRule(u) \/ RemoveStatus(u))
  <2>1. run[u].pc \in {"removeRule", "removeStatus"}
    BY <1>12 DEF RemoveRule, RemoveStatus
  <2>2. run'[u].pc \in {"removeStatus", "probe"} /\ ~run'[u].created
    BY <1>0, <1>4, <1>12, <2>1 DEF Edge, To
  <2>3. QED BY <2>2 DEF Building, Granting
<1>13. CASE /\ ~Ended(u) /\ ~Decide(u) /\ ~Uninstall(u) /\ ~Retire(u) /\ ~GrantStatus(u)
            /\ ~GrantHelper(u) /\ ~RemoveRule(u) /\ ~RemoveStatus(u)
  <2>1. ~Rollback(u) /\ ~StepFails(u) /\ ~Interrupted(u)
    BY <1>13, EndsRun DEF Rollback, StepFails, Interrupted
  <2>2. rule' = rule /\ status' = status /\ legacy' = legacy
    BY <1>13, <2>1, SudoersStay
  <2>3. run[u].pc \notin {"retire", "status", "rule", "removeRule", "removeStatus"}
    BY <1>13, <2>1 DEF UserStep, Install, Removal, Stage, Prove, Activate, WriteManifest,
         SelfCheck, Verify, Probe, Remove, RemoveManifest
  <2>4. Following(run[u].piece).pc \in {"stage", "manifest"}
    BY DEF Following
  <2>5. /\ run'[u].created = run[u].created /\ SameRead(run'[u], run[u])
        /\ run'[u].pc \in Building \cup {"manifest", "selfcheck", "retire"} =>
             run[u].pc \in Building \cup {"manifest", "selfcheck", "retire"}
        /\ run'[u].pc \notin {"status", "rule", "verify"}
    BY <1>0, <1>13, <2>3, <2>4 DEF Edge, To, Building
  <2>6. QED BY <1>1, <2>2, <2>5 DEF SameRead, Building, Granting
<1>14. Decide(u) \/ Uninstall(u) => run[u].pc = "off"
  BY DEF Decide, Uninstall, Starts
<1>15. Decide(u) \/ Uninstall(u) => Ended(u) \/ (Begun(u) /\ Decide(u)) \/ Leaving(u)
  BY <1>0, <1>14 DEF Edge
<1>16. QED
  BY <1>6, <1>7, <1>8, <1>9, <1>10, <1>11, <1>12, <1>13, <1>15

(* Types *)

(* The pieces and their history are well typed. *)
LEMMA PiecesTyped ==
  ASSUME TypeOK, Placed, NEW u \in Users, UserStep(u)
  PROVE /\ live' \in [Pieces -> Builds \cup {None, Foreign}]
        /\ staged' \in [Pieces -> Builds \cup {None}]
        /\ passed' \in [Pieces -> BOOLEAN] /\ sound' \in [Pieces -> BOOLEAN]
        /\ kept' \subseteq Pieces
<1>0. /\ live \in [Pieces -> Builds \cup {None, Foreign}]
      /\ staged \in [Pieces -> Builds \cup {None}]
      /\ passed \in [Pieces -> BOOLEAN] /\ sound \in [Pieces -> BOOLEAN]
      /\ kept \subseteq Pieces
  BY DEF TypeOK
<1>1. run[u].pc \in Building => run[u].piece \in Pieces /\ run[u].build \in Builds
  BY DEF Placed
<1>2. CASE Stage(u)
  <2>1. run[u].piece \in Pieces /\ run[u].build \in Builds
    BY <1>1, <1>2 DEF Stage, Building
  <2>2. /\ staged' = [staged EXCEPT ![run[u].piece] = run[u].build]
        /\ passed' = [passed EXCEPT ![run[u].piece] = FALSE]
        /\ live' = live /\ sound' = sound /\ kept' = kept
    BY <1>2 DEF Stage
  <2>3. QED BY <1>0, <2>1, <2>2
<1>3. CASE Prove(u)
  <2>1. run[u].piece \in Pieces
    BY <1>1, <1>3 DEF Prove, Building
  <2>2. /\ staged' = staged \/ staged' = [staged EXCEPT ![run[u].piece] = None]
        /\ passed' = passed \/ passed' = [passed EXCEPT ![run[u].piece] = TRUE]
        /\ live' = live /\ sound' = sound /\ kept' = kept
    BY <1>3 DEF Prove
  <2>3. QED BY <1>0, <2>1, <2>2
<1>4. CASE Activate(u)
  <2>1. run[u].piece \in Pieces /\ passed' = passed
    BY <1>1, <1>4 DEF Activate, Building
  <2>2. /\ staged' = staged \/ staged' = [staged EXCEPT ![run[u].piece] = None]
        /\ \/ /\ live' = [live EXCEPT ![run[u].piece] = staged[run[u].piece]]
              /\ sound' = [sound EXCEPT ![run[u].piece] = passed[run[u].piece]]
              /\ kept' = kept \ {run[u].piece}
           \/ live' = live /\ sound' = sound /\ kept' = kept
    BY <1>4 DEF Activate
  <2>3. staged[run[u].piece] \in Builds \cup {None} /\ passed[run[u].piece] \in BOOLEAN
    BY <1>0, <2>1
  <2>4. QED BY <1>0, <2>1, <2>2, <2>3
<1>5. CASE Remove(u)
  <2>1. run[u].piece \in Pieces
    BY <1>5, RunTypes DEF Remove
  <2>2. /\ live' = live \/ live' = [live EXCEPT ![run[u].piece] = None]
        /\ kept' = kept \ {run[u].piece} \/ kept' = kept \cup {run[u].piece}
        /\ staged' = staged /\ passed' = passed /\ sound' = sound
    BY <1>5 DEF Remove
  <2>3. QED BY <1>0, <2>1, <2>2
<1>6. CASE ~Stage(u) /\ ~Prove(u) /\ ~Activate(u) /\ ~Remove(u)
  <2>1. staged' = staged
    <3>1. CASE Install(u)
      BY <1>6, <3>1 DEF Install, Decide, WriteManifest, SelfCheck, Retire, GrantStatus,
           GrantHelper, Verify, Rollback
    <3>2. CASE Removal(u) \/ StepFails(u) \/ Interrupted(u)
      BY <1>6, <3>2 DEF Removal, Uninstall, RemoveRule, RemoveStatus, Probe, RemoveManifest,
           StepFails, Interrupted
    <3>3. QED BY <3>1, <3>2 DEF UserStep
  <2>2. QED BY <1>0, <1>6, <2>1, LiveStays
<1>7. QED BY <1>2, <1>3, <1>4, <1>5, <1>6

(* So are the manifest, the policy and the bounds. *)
LEMMA RestTyped ==
  ASSUME TypeOK, NEW u \in Users, UserStep(u)
  PROVE /\ manifest' \in BOOLEAN
        /\ other' \in [Users -> SUBSET Grants] /\ overridden' \subseteq Users
        /\ builds' \in 0..MaxBuilds /\ edits' \in 0..MaxEdits
<1>0. /\ manifest \in BOOLEAN /\ other \in [Users -> SUBSET Grants] /\ overridden \subseteq Users
      /\ builds \in 0..MaxBuilds /\ edits \in 0..MaxEdits /\ MaxBuilds \in Nat
  BY Parameters DEF TypeOK
<1>1. CASE Stage(u) \/ Prove(u) \/ Activate(u) \/ WriteManifest(u) \/ SelfCheck(u)
  BY <1>0, <1>1 DEF Stage, Prove, Activate, WriteManifest, SelfCheck, policy
<1>2. CASE Retire(u) \/ GrantStatus(u) \/ GrantHelper(u) \/ Verify(u) \/ Rollback(u)
  BY <1>0, <1>2 DEF Retire, GrantStatus, GrantHelper, Verify, Rollback, policy
<1>3. CASE Removal(u)
  BY <1>0, <1>3 DEF Removal, Uninstall, RemoveRule, RemoveStatus, Probe, Remove, RemoveManifest,
       policy
<1>4. CASE StepFails(u) \/ Interrupted(u)
  BY <1>0, <1>4 DEF StepFails, Interrupted, policy
<1>5. CASE Decide(u)
  <2>1. /\ UNCHANGED <<manifest, policy, edits>>
        /\ builds' = builds + 1 /\ builds < MaxBuilds
    BY <1>5 DEF Decide
  <2>2. builds' \in 0..MaxBuilds
    BY <1>0, <2>1
  <2>3. QED BY <1>0, <2>1, <2>2 DEF policy
<1>6. QED BY <1>1, <1>2, <1>3, <1>4, <1>5 DEF UserStep, Install

(* Every step of a user keeps the types. *)
LEMMA TypeKept ==
  ASSUME TypeOK, Placed, NEW u \in Users, UserStep(u)
  PROVE TypeOK'
<1>1. run' \in [Users -> Runs]
  BY Edges DEF OthersStay
<1>2. legacy' \in Users \cup {None, Foreign}
  BY RulesStay DEF TypeOK
<1>3. QED BY <1>1, <1>2, PiecesTyped, RestTyped, RulesStay DEF TypeOK

----------------------------------------------------------------------------
(* The administrator *)

(* The administrator writes no rule of ours, and only while no run is under way. *)
LEMMA AdministratorKeeps ==
  ASSUME IndInv, Administrator
  PROVE IndInv'
<1>0. /\ live' = live /\ staged' = staged /\ manifest' = manifest /\ run' = run
      /\ passed' = passed /\ sound' = sound /\ kept' = kept /\ builds' = builds
      /\ \A u \in Users : run[u].pc = "off"
  BY DEF Administrator, checks
<1>1. /\ legacy' \in Users \cup {None, Foreign}
      /\ rule' \in [Users -> Contents] /\ status' \in [Users -> Contents]
      /\ \A u \in Users : (rule'[u] = "ours" => rule[u] = "ours")
                          /\ (status'[u] = "ours" => status[u] = "ours")
  <2>1. /\ legacy \in Users \cup {None, Foreign}
        /\ rule \in [Users -> Contents] /\ status \in [Users -> Contents]
        /\ {"absent", "foreign"} \subseteq Contents
    BY DEF IndInv, TypeOK, Contents
  <2>2. CASE legacy' \in Users \cup {None, Foreign} /\ UNCHANGED <<rule, status>>
    BY <2>1, <2>2
  <2>3. CASE /\ legacy' = legacy
             /\ \E u \in Users, c \in {"absent", "foreign"} :
                  \/ rule' = [rule EXCEPT ![u] = c] /\ UNCHANGED status
                  \/ status' = [status EXCEPT ![u] = c] /\ UNCHANGED rule
    BY <2>1, <2>3
  <2>4. CASE UNCHANGED sudoers
    BY <2>1, <2>4 DEF sudoers
  <2>5. QED BY <2>2, <2>3, <2>4 DEF Administrator
<1>2. other' \in [Users -> SUBSET Grants] /\ overridden' \subseteq Users
  <2>1. other \in [Users -> SUBSET Grants] /\ overridden \subseteq Users
    BY DEF IndInv, TypeOK
  <2>2. CASE UNCHANGED policy
    BY <2>1, <2>2 DEF policy
  <2>3. CASE /\ \E u \in Users, grants \in SUBSET Grants : other' = [other EXCEPT ![u] = grants]
             /\ overridden' \in SUBSET Users
    BY <2>1, <2>3
  <2>4. QED BY <2>2, <2>3 DEF Administrator
<1>3. edits' \in 0..MaxEdits
  BY Parameters DEF IndInv, TypeOK, Administrator
<1>4. TypeOK'
  BY <1>0, <1>1, <1>2, <1>3 DEF IndInv, TypeOK
<1>5. Shapes' /\ Alone' /\ Apart'
  BY <1>0 DEF IndInv, Shapes, Placed, Alone, Apart
<1>6. Proven' /\ Ordered'
  BY <1>0 DEF IndInv, Proven, Ordered, LiveIsProven, HelperIsComplete, Installed, Builds
<1>7. Named'
  BY <1>0, <1>1 DEF IndInv, Named, GrantsNameTheHelper, OneUser, Granting
<1>8. ReadRight'
  <2>1. \A u \in Users : ~run[u].created
    BY <1>0 DEF IndInv, Shapes
  <2>2. QED BY <1>0, <2>1 DEF ReadRight, Building, Granting
<1>9. QED BY <1>4, <1>5, <1>6, <1>7, <1>8 DEF IndInv

(* Nothing is installed at first. *)
LEMMA InitIndInv == ASSUME Init PROVE IndInv
<1>0. \A u \in Users : run[u] = Idle
  BY DEF Init
<1>1. \A p \in Pieces : live[p] \in {None, Foreign} /\ (p = "wrapper" => live[p] = None)
  BY DEF Init
<1>2. live["wrapper"] = None /\ None # Foreign /\ None \notin Builds /\ Foreign \notin Builds
  BY <1>1, Parameters DEF Pieces, Builds
<1>3. TypeOK
  <2>1. live \in [Pieces -> Builds \cup {None, Foreign}]
    BY DEF Init
  <2>2. {"absent", "foreign"} \subseteq Contents
    BY DEF Contents
  <2>3. run \in [Users -> Runs]
    BY IdleRun DEF Init
  <2>4. builds \in 0..MaxBuilds /\ edits \in 0..MaxEdits
    BY Parameters DEF Init
  <2>5. rule \in [Users -> Contents] /\ status \in [Users -> Contents]
    BY <2>2 DEF Init
  <2>6. other \in [Users -> SUBSET Grants] /\ overridden \subseteq Users
    BY DEF Init
  <2>7. /\ staged \in [Pieces -> Builds \cup {None}] /\ passed \in [Pieces -> BOOLEAN]
        /\ sound \in [Pieces -> BOOLEAN]
    BY DEF Init
  <2>8. QED BY <2>1, <2>3, <2>4, <2>5, <2>6, <2>7 DEF Init, TypeOK
<1>4. \A p \in Pieces : ~Installed(p)
  BY <1>1, <1>2 DEF Installed
<1>5. Shapes /\ Alone
  BY <1>0, IdleRun DEF Shapes, Placed, Alone, Building
<1>6. Proven /\ Ordered
  BY <1>0, <1>4, IdleRun DEF Proven, Ordered, LiveIsProven, HelperIsComplete, Building, Pieces
<1>7. Apart
  BY <1>0, <1>2, IdleRun DEF Init, Apart, Building
<1>8. Named /\ ReadRight
  <2>1. \A u \in Users : rule[u] # "ours" /\ status[u] # "ours"
    BY DEF Init
  <2>2. QED BY <1>0, <2>1, IdleRun DEF Named, ReadRight, GrantsNameTheHelper, Building, Granting
<1>9. QED BY <1>3, <1>5, <1>6, <1>7, <1>8 DEF IndInv

(* IndInv is inductive. *)
LEMMA StepKeeps ==
  ASSUME IndInv, [Next]_vars
  PROVE IndInv'
<1>1. CASE \E u \in Users : UserStep(u)
  <2>1. PICK u \in Users : UserStep(u)
    BY <1>1
  <2>2. TypeOK /\ Shapes /\ Placed
    BY DEF IndInv, Shapes
  <2>3. TypeOK' /\ Shapes' /\ Alone'
    BY <2>1, <2>2, TypeKept, ShapesKept, AloneKept DEF IndInv
  <2>4. Proven' /\ Ordered' /\ Named'
    BY <2>1, <2>2, ProvenKept, OrderedKept, NamedKept DEF IndInv
  <2>5. ReadRight' /\ Apart'
    BY <2>1, <2>2, ReadRightKept, ApartKept DEF IndInv
  <2>6. QED BY <2>3, <2>4, <2>5 DEF IndInv
<1>2. CASE Administrator
  BY <1>2, AdministratorKeeps
<1>3. CASE UNCHANGED vars
  <2>1. /\ UNCHANGED <<live, staged, manifest, legacy, rule, status, other, overridden, run>>
        /\ UNCHANGED <<builds, edits, passed, sound, kept>>
    BY <1>3 DEF vars, sudoers, policy, checks
  <2>2. (TypeOK /\ Shapes /\ Alone)' <=> TypeOK /\ Shapes /\ Alone
    BY <2>1 DEF TypeOK, Shapes, Placed, Alone
  <2>3. (Proven /\ Ordered /\ Apart)' <=> Proven /\ Ordered /\ Apart
    BY <2>1 DEF Proven, Ordered, Apart, LiveIsProven, HelperIsComplete, Installed
  <2>4. (Named /\ ReadRight)' <=> Named /\ ReadRight
    BY <2>1 DEF Named, ReadRight, GrantsNameTheHelper
  <2>5. QED BY <2>2, <2>3, <2>4 DEF IndInv
<1>4. QED BY <1>1, <1>2, <1>3 DEF Next, UserStep

(* The inductive invariant of install-helper and uninstall-helper holds always. *)
THEOREM IndInvAlways == Spec => []IndInv
BY InitIndInv, StepKeeps, PTL DEF Spec

(* Every variable keeps its type, whoever runs beside whom. *)
THEOREM TypeCorrect == Spec => []TypeOK
<1>1. IndInv => TypeOK
  BY DEF IndInv
<1>2. QED BY <1>1, IndInvAlways, PTL

(* helperinstall.sh:541-571: while runs do not overlap, every piece of VPN Up's
   that is live has passed its check. *)
THEOREM LiveIsProvenAlways ==
  ASSUME OneAtATime
  PROVE Spec => []LiveIsProven
<1>1. IndInv => LiveIsProven
  BY DEF IndInv, Proven
<1>2. QED BY <1>1, IndInvAlways, PTL

(* helperinstall.sh:860-864, 1090: while runs do not overlap, an installed helper
   has its wrapper and vpn-up-admin, whatever was interrupted or failed. *)
THEOREM HelperIsCompleteAlways ==
  ASSUME OneAtATime
  PROVE Spec => []HelperIsComplete
<1>1. IndInv => HelperIsComplete
  BY DEF IndInv, Ordered
<1>2. QED BY <1>1, IndInvAlways, PTL

(* helperinstall.sh:1045-1048: with one user, and sudo cat answering, no rule of
   VPN Up's names a missing helper. *)
THEOREM GrantsNameTheHelperAlways ==
  ASSUME OneUser, ~ReadsFail
  PROVE Spec => []GrantsNameTheHelper
<1>1. IndInv => GrantsNameTheHelper
  BY DEF IndInv, Named
<1>2. QED BY <1>1, IndInvAlways, PTL

(* A rule of ours is taken away by its own user only. *)
LEMMA OldRuleStep ==
  ASSUME IndInv, [Next]_vars, NEW u \in Users, rule[u] = "ours", rule'[u] # "ours", edits' = edits
  PROVE run[u].pc = "removeRule" \/ (run[u].created /\ run[u].rule = "absent")
<1>1. rule' # rule /\ ~(UNCHANGED vars)
  BY DEF vars, sudoers
<1>2. ~Administrator
  BY DEF Administrator, IndInv, TypeOK
<1>3. PICK v \in Users : UserStep(v)
  BY <1>1, <1>2 DEF Next, UserStep
<1>4. v = u
  BY <1>3, RulesStay DEF IndInv
<1>5. GrantHelper(u) \/ Rollback(u) \/ RemoveRule(u)
  BY <1>1, <1>3, <1>4, SudoersStay
<1>6. ~GrantHelper(u)
  BY DEF GrantHelper, IndInv, TypeOK
<1>7. Rollback(u) => run[u].created /\ run[u].rule = "absent"
  BY DEF Rollback, IndInv, Shapes
<1>8. QED BY <1>5, <1>6, <1>7 DEF RemoveRule

(* helperinstall.sh:785-788, 965-975: only uninstall-helper takes away a rule that
   was there before the run, under any assumptions. *)
THEOREM OldRuleStaysAlways == Spec => OldRuleStays
<1>1. IndInv /\ [Next]_vars =>
        [\A u \in Users :
           rule[u] = "ours" /\ rule'[u] # "ours" /\ edits' = edits =>
             \/ run[u].pc = "removeRule"
             \/ run[u].created /\ run[u].rule = "absent"]_vars
  BY OldRuleStep
<1>2. QED BY <1>1, IndInvAlways, PTL DEF Spec, OldRuleStays

(* A run that verifies has retired the legacy rule. *)
LEMMA LegacyStep ==
  ASSUME ~ReadsFail, IndInv, NEW u \in Users, Verify(u)
  PROVE legacy = None
BY DEF IndInv, ReadRight, Verify

(* helperinstall.sh:18-20, 892-899: while sudo cat answers, an install that is
   through leaves no legacy rule, even beside other installs. *)
THEOREM LegacyIsRetiredAlways ==
  ASSUME ~ReadsFail
  PROVE Spec => LegacyIsRetired
<1>1. IndInv /\ [Next]_vars => [\A u \in Users : Verify(u) => legacy = None]_vars
  BY LegacyStep
<1>2. QED BY <1>1, IndInvAlways, PTL DEF Spec, LegacyIsRetired

(* A run touches no rule that it has not written. *)
LEMMA ForeignRuleStep ==
  ASSUME ~ReadsFail, IndInv, [Next]_vars, NEW u \in Users, edits' = edits
  PROVE /\ rule[u] = "foreign" => rule'[u] = "foreign"
        /\ status[u] = "foreign" => status'[u] = "foreign"
<1>1. CASE UNCHANGED vars
  BY <1>1 DEF vars, sudoers
<1>2. ~Administrator
  BY DEF Administrator, IndInv, TypeOK
<1>3. CASE \E v \in Users : UserStep(v)
  <2>1. PICK v \in Users : UserStep(v)
    BY <1>3
  <2>2. CASE v # u
    BY <2>1, <2>2, RulesStay DEF IndInv
  <2>3. CASE UserStep(u)
    <3>1. rule \in [Users -> Contents] /\ status \in [Users -> Contents]
      BY DEF IndInv, TypeOK
    <3>2. GrantHelper(u) /\ rule[u] = "foreign" => rule' = rule
      BY DEF GrantHelper, Writes, IndInv, ReadRight, Granting
    <3>3. Rollback(u) => rule[u] = "ours"
      BY DEF Rollback, IndInv, ReadRight, Shapes
    <3>4. RemoveRule(u) /\ rule[u] = "foreign" => rule' = rule
      BY DEF RemoveRule, Answers
    <3>5. GrantStatus(u) /\ status[u] = "foreign" => status' = status
      BY DEF GrantStatus, IndInv, ReadRight
    <3>6. RemoveStatus(u) /\ status[u] = "foreign" => status' = status
      BY DEF RemoveStatus, Answers
    <3>7. QED BY <2>3, <3>2, <3>3, <3>4, <3>5, <3>6, SudoersStay
  <2>4. QED BY <2>1, <2>2, <2>3
<1>4. QED BY <1>1, <1>2, <1>3 DEF Next, UserStep

(* A run replaces no binary that it has not installed. *)
LEMMA ForeignPieceStep ==
  ASSUME IndInv, [Next]_vars, NEW p \in Pieces, live[p] = Foreign
  PROVE live'[p] \in {Foreign, None}
<1>0. live \in [Pieces -> Builds \cup {None, Foreign}]
  BY DEF IndInv, TypeOK
<1>1. CASE UNCHANGED vars
  BY <1>1 DEF vars
<1>2. CASE Administrator
  BY <1>2 DEF Administrator
<1>3. ASSUME NEW u \in Users, UserStep(u)
      PROVE  live'[p] \in {Foreign, None}
  <2>1. ~Activate(u)
    BY DEF Activate, IndInv, Apart, Building
  <2>2. CASE Remove(u)
    BY <1>0, <2>2 DEF Remove
  <2>3. QED BY <1>3, <2>1, <2>2, LiveStays
<1>4. QED BY <1>1, <1>2, <1>3 DEF Next, UserStep

(* helperinstall.sh:526-537, 801-803, 1067: while sudo cat answers, rules and
   binaries of somebody else's are left alone, even beside other runs. *)
THEOREM ForeignIsLeftAloneAlways ==
  ASSUME ~ReadsFail
  PROVE Spec => ForeignIsLeftAlone
<1>1. IndInv /\ [Next]_vars =>
        [/\ edits' = edits => \A u \in Users :
              /\ rule[u] = "foreign" => rule'[u] = "foreign"
              /\ status[u] = "foreign" => status'[u] = "foreign"
         /\ \A p \in Pieces : live[p] = Foreign => live'[p] \in {Foreign, None}]_vars
  BY ForeignRuleStep, ForeignPieceStep
<1>2. QED BY <1>1, IndInvAlways, PTL DEF Spec, ForeignIsLeftAlone
=============================================================================
