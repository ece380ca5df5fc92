------------------------- MODULE AttemptGuardProofs -------------------------
(***************************************************************************)
(* Proofs about the admission of attempts, for every set of processes, all *)
(* delays, every pattern of crashes and failed writes, and a clock that    *)
(* goes forwards and backwards.  Only what is said of the end of a breaker *)
(* needs writes to succeed.  The second half is about what the state file  *)
(* remembers: the streak of unverified attempts and the pause it earns, the *)
(* ring of recent ones and the pause that ends a barren series, and the    *)
(* curve, the window and the breaker that keep attempts apart.             *)
(***************************************************************************)
EXTENDS AttemptGuard, FiniteSetTheorems, SequenceTheorems, WellFoundedInduction, TLAPS

USE DEF Waits, records

LEMMA Numbers ==
  /\ Window \in Nat /\ Threshold \in Nat \ {0} /\ Breaker \in Nat \ {0}
  /\ Clamp \in Nat \ {0} /\ StreakLimit \in Nat \ {0} /\ StepSecs \in Nat \ {0}
<1>1. \A n \in {Window, Threshold, Breaker, Clamp, StreakLimit, StepSecs} :
        n \in Nat \ {0}
  BY Limits
<1>2. QED BY <1>1

(* Loading, pruning and charging a state file give a state file. *)
LEMMA ReadType ==
  ASSUME TypeOK
  PROVE  /\ Read \in Files
         /\ Read.owner = st.owner /\ Read.totpStep = st.totpStep
         /\ Read.openUntil <= st.openUntil
         /\ Read.openUntil <= now + Clamp
<1>1. st \in Files /\ st.openUntil \in Nat /\ now + Clamp \in Nat
  <2>1. st \in Files /\ now \in Nat BY DEF TypeOK
  <2>2. st.openUntil \in Nat BY <2>1 DEF Files
  <2>3. QED BY <2>1, <2>2, Numbers
<1> DEFINE clamped == IF st.openUntil > now + Clamp THEN now + Clamp ELSE st.openUntil
<1>2. clamped \in Nat /\ clamped <= st.openUntil /\ clamped <= now + Clamp
  BY <1>1
<1>3. Read = [st EXCEPT !.openUntil = clamped]
  BY DEF Read
<1> HIDE DEF clamped
<1>4. QED BY <1>1, <1>2, <1>3 DEF Files

LEMMA ViewTypes ==
  ASSUME TypeOK
  PROVE  /\ Unowned \in Files /\ Pruned \in Files /\ Retired \in Files
         /\ \A p \in Pids : Owned(p) \in Files /\ Charged(p) \in Files
<1> USE DEF TypeOK, Files
<1>1. Unowned \in Files
  BY DEF Unowned
<1>2. Pruned \in Files
  BY <1>1 DEF Pruned, Recent
<1>3. Retired \in Files
  BY <1>2 DEF Retired
<1>4. ASSUME NEW p \in Pids PROVE Owned(p) \in Files /\ Charged(p) \in Files
  <2>1. Latest(Pruned.attempts \cup {now}) \in SUBSET Nat
    BY <1>2 DEF Latest
  <2>2. QED BY <1>1, <1>2, <2>1 DEF Owned, Charged
<1>5. QED BY <1>1, <1>2, <1>3, <1>4

LEMMA KeepLastType ==
  ASSUME NEW s \in Seq(Nat), NEW n \in Nat \ {0} PROVE KeepLast(s, n) \in Seq(Nat)
<1>1. CASE Len(s) <= n
  BY <1>1 DEF KeepLast
<1>2. CASE Len(s) > n
  <2> DEFINE first == Len(s) - n + 1
  <2>1. first \in 1..Len(s) BY <1>2
  <2>2. SubSeq(s, first, Len(s)) \in Seq(Nat)
    BY <2>1, SubSeqProperties
  <2>3. QED BY <1>2, <2>2 DEF KeepLast
<1>3. QED BY <1>1, <1>2

LEMMA BlankType == Blank \in Locals /\ NewFile \in Files /\ NoView \in [file : Files, up : BOOLEAN]
<1>1. NewFile \in Files
  BY DEF NewFile, Files
<1>2. NoView \in [file : Files, up : BOOLEAN]
  BY <1>1 DEF NoView
<1>3. NoCode \in Codes
  BY DEF NoCode, Codes
<1>4. Blank \in Locals
  BY <1>3 DEF Blank, Locals
<1>5. QED BY <1>1, <1>2, <1>4

(* The initial state satisfies the invariant. *)
THEOREM InitInv == Init => IndInv
<1> SUFFICES ASSUME Init PROVE IndInv
  OBVIOUS
<1>1. now \in Nat /\ seed \in Nat /\ edits \in Nat /\ barren \in Nat /\ held \in Nat
  BY DEF Init
<1>2. st \in Files /\ view \in [file : Files, up : BOOLEAN] /\ my \in [Pids -> Locals]
  BY BlankType DEF Init
<1>3. TypeOK
  BY <1>1, <1>2 DEF Init, TypeOK
<1>4. QED
  BY <1>3, Processes DEF Init, IndInv, DeciderIsInside, ViewIsCurrent, ReservedIsOnDisk,
                         AttemptOwnsProfile, Attempting, Pids, Steps

----------------------------------------------------------------------------
(* Every step keeps the types. *)

LEMMA WriteType ==
  ASSUME TypeOK, NEW file \in Files
  PROVE  /\ Write(file) => st' \in Files
         /\ WriteFails => st' \in Files
BY ReadType DEF TypeOK, Write, WriteFails

LEMMA GoType ==
  ASSUME TypeOK, NEW p \in Pids, NEW from, NEW to \in Steps \cup {"off"},
         NEW mine \in Locals, Go(p, from, to, mine)
  PROVE  pc' \in [Pids -> Steps \cup {"off"}] /\ my' \in [Pids -> Locals]
BY DEF TypeOK, Go

LEMMA FailsType ==
  ASSUME TypeOK, NEW p \in Pids, my[p].fails < 2 PROVE OneMoreFailure(p) \in Locals
<1> DEFINE more == my[p].fails + 1
<1>1. my[p] \in Locals
  BY DEF TypeOK
<1>2. my[p].fails \in 0..2
  BY <1>1 DEF Locals
<1>3. more \in 0..2
  BY <1>2
<1> HIDE DEF more
<1>4. [my[p] EXCEPT !.fails = more] \in Locals
  BY <1>1, <1>3 DEF Locals
<1>5. QED BY <1>4 DEF more, OneMoreFailure

LEMMA RestartType ==
  ASSUME NEW mine \in Locals, NEW c \in Codes
  PROVE  [mine EXCEPT !.fails = 0, !.code = c] \in Locals
<1>1. ASSUME NEW n \in 0..2 PROVE [mine EXCEPT !.fails = n] \in Locals
  BY DEF Locals
<1>2. ASSUME NEW m \in Locals PROVE [m EXCEPT !.code = c] \in Locals
  BY DEF Locals
<1>3. 0 \in 0..2
  OBVIOUS
<1>4. [mine EXCEPT !.fails = 0] \in Locals
  BY <1>1, <1>3
<1>5. QED BY <1>2, <1>4 DEF Locals

(* The pid file, and what the processes that look at it have read of it. *)
LEMMA PidTypes ==
  ASSUME TypeOK
  PROVE  /\ \A c \in Pids \cup Viewers :
              Look(c) \/ Forget(c) => seen' \in [Pids \cup Viewers -> Pids \cup {None, Gone}]
         /\ \A x \in Pids \cup {None, Gone} :
              PutPid(x) /\ tunnels \subseteq tunnels' =>
                pidfile' \in Pids \cup {None, Gone} /\ strays' \subseteq tunnels'
<1>1. ASSUME NEW c \in Pids \cup Viewers, Look(c) \/ Forget(c)
      PROVE  seen' \in [Pids \cup Viewers -> Pids \cup {None, Gone}]
  BY <1>1 DEF TypeOK, Look, Forget
<1>2. ASSUME NEW x \in Pids \cup {None, Gone}, PutPid(x), tunnels \subseteq tunnels'
      PROVE  pidfile' \in Pids \cup {None, Gone} /\ strays' \subseteq tunnels'
  BY <1>2 DEF TypeOK, PutPid
<1>3. QED BY <1>1, <1>2

(* Who looks for a tunnel changes nothing but what it has read, the pid file and
   where it is itself. *)
LEMMA LookingMoves ==
  ASSUME TypeOK, Looking
  PROVE  /\ UNCHANGED <<st, inside, my, outside, history>>
         /\ view'.file = view.file
         /\ pc' \in [Pids -> Steps \cup {"off"}]
         /\ \A p \in Pids :
              \/ pc'[p] = pc[p]
              \/ pc[p] = "start" /\ pc'[p] \in {"off", "admit"}
              \/ pc[p] = "check" /\ pc'[p] = "decide"
<1>1. ASSUME NEW q \in Pids, StartLooks(q)
      PROVE  /\ UNCHANGED <<st, inside, view, my, outside, history>>
             /\ pc[q] = "start" /\ \E next \in {"off", "admit"} : pc' = [pc EXCEPT ![q] = next]
  BY <1>1 DEF StartLooks
<1>2. ASSUME NEW q \in Pids, AdmitLooks(q)
      PROVE  /\ UNCHANGED <<st, inside, my, outside, history>> /\ view'.file = view.file
             /\ pc[q] = "check" /\ pc' = [pc EXCEPT ![q] = "decide"]
  BY <1>2 DEF AdmitLooks, TypeOK
<1>3. ASSUME NEW c \in Pids \cup Viewers, ViewPid(c) \/ Vanish(c)
      PROVE  UNCHANGED <<st, inside, view, pc, my, outside, history>>
  BY <1>3 DEF ViewPid, Vanish, locals
<1>4. pc \in [Pids -> Steps \cup {"off"}]
  BY DEF TypeOK
<1>5. CASE \E q \in Pids : StartLooks(q) \/ AdmitLooks(q)
  <2>1. PICK q \in Pids : StartLooks(q) \/ AdmitLooks(q)
    BY <1>5
  <2>2. CASE StartLooks(q)
    BY <1>1, <1>4, <2>2 DEF Steps
  <2>3. CASE AdmitLooks(q)
    BY <1>2, <1>4, <2>3 DEF Steps
  <2>4. QED BY <2>1, <2>2, <2>3
<1>6. CASE \E c \in Pids \cup Viewers : ViewPid(c) \/ Vanish(c)
  BY <1>3, <1>4, <1>6
<1>7. QED BY <1>5, <1>6 DEF Looking

(* In the end it has seen a process it knows, or has removed the file. *)
LEMMA LookingSees ==
  ASSUME TypeOK, Looking
  PROVE  /\ seen' \in [Pids \cup Viewers -> Pids \cup {None, Gone}]
         /\ view' \in [file : Files, up : BOOLEAN]
         /\ UNCHANGED <<pidfile, strays>> \/ PutPid(None)
<1>1. ASSUME NEW c \in Pids \cup Viewers, SeesTunnel(c) \/ CleansUp(c)
      PROVE  /\ seen' \in [Pids \cup Viewers -> Pids \cup {None, Gone}]
             /\ UNCHANGED <<pidfile, strays>> \/ PutPid(None)
  BY <1>1, PidTypes DEF SeesTunnel, CleansUp
<1>2. ASSUME NEW p \in Pids, StartLooks(p) \/ AdmitLooks(p)
      PROVE  /\ SeesTunnel(p) \/ CleansUp(p)
             /\ view' \in [file : Files, up : BOOLEAN]
  BY <1>2 DEF StartLooks, AdmitLooks, TypeOK
<1>3. ASSUME NEW c \in Viewers, ViewPid(c)
      PROVE  /\ Look(c) \/ SeesTunnel(c) \/ CleansUp(c)
             /\ view' \in [file : Files, up : BOOLEAN]
  BY <1>3 DEF ViewPid, TypeOK
<1>4. ASSUME NEW c \in Pids \cup Viewers, Vanish(c)
      PROVE  /\ seen' \in [Pids \cup Viewers -> Pids \cup {None, Gone}]
             /\ view' \in [file : Files, up : BOOLEAN]
             /\ UNCHANGED <<pidfile, strays>>
  BY <1>4 DEF Vanish, TypeOK
<1>5. ASSUME NEW c \in Viewers, Look(c)
      PROVE  /\ seen' \in [Pids \cup Viewers -> Pids \cup {None, Gone}]
             /\ UNCHANGED <<pidfile, strays>>
  BY <1>5, PidTypes DEF Look
<1>6. QED BY <1>1, <1>2, <1>3, <1>4, <1>5 DEF Looking

LEMMA LookingType == ASSUME TypeOK, Looking PROVE TypeOK'
<1>1. tunnels' = tunnels
  BY LookingMoves DEF outside
<1>2. pidfile' \in Pids \cup {None, Gone} /\ strays' \subseteq tunnels'
  BY <1>1, LookingSees, PidTypes DEF TypeOK
<1>3. QED BY <1>2, LookingMoves, LookingSees DEF TypeOK, outside, history

LEMMA StartType == ASSUME TypeOK, NEW p \in Pids, Start(p) PROVE TypeOK'
<1>1. seen' \in [Pids \cup Viewers -> Pids \cup {None, Gone}] /\ UNCHANGED <<pidfile, strays>>
  BY PidTypes DEF Start, Look
<1>2. QED BY <1>1 DEF TypeOK, Start, outside, history, Steps

LEMMA AdmitBeginType == ASSUME TypeOK, NEW p \in Pids, AdmitBegin(p) PROVE TypeOK'
<1>1. Read \in Files /\ st' \in Files
  BY ReadType, WriteType DEF AdmitBegin
<1>2. view' \in [file : Files, up : BOOLEAN]
  BY <1>1 DEF AdmitBegin
<1>3. seen' \in [Pids \cup Viewers -> Pids \cup {None, Gone}] /\ UNCHANGED <<pidfile, strays>>
  BY PidTypes DEF AdmitBegin, Look
<1>4. QED
  BY <1>1, <1>2, <1>3 DEF TypeOK, AdmitBegin, outside, Steps

LEMMA DecideType ==
  ASSUME TypeOK, NEW p \in Pids, NEW next \in Steps \cup {"off"}, Decide(p, next),
         st' \in Files, my' \in [Pids -> Locals], grants' \in Seq(Nat)
  PROVE  TypeOK'
BY BlankType DEF TypeOK, Decide, records, outside

LEMMA AdmissionType == ASSUME TypeOK, NEW p \in Pids, Admission(p) PROVE TypeOK'
<1>0. my \in [Pids -> Locals] /\ my[p] \in Locals /\ my[p].fails \in 0..2 /\ st \in Files
  BY DEF TypeOK, Locals
<1>1. ASSUME Poll(p), st' \in Files PROVE TypeOK'
  BY <1>0, <1>1, DecideType DEF Poll, Steps, TypeOK
<1>2. CASE TunnelIsUp(p)
  BY <1>0, <1>2, DecideType, BlankType DEF TunnelIsUp, Steps, TypeOK
<1>3. CASE OwnerIsAlive(p) \/ IsPaused(p) \/ BreakerIsOpen(p) \/ TooSoon(p)
  BY <1>0, <1>1, <1>3 DEF OwnerIsAlive, IsPaused, BreakerIsOpen, TooSoon
<1>4. CASE RetireWindow(p)
  BY <1>1, <1>4, ViewTypes, WriteType DEF RetireWindow
<1>5. CASE Escalate(p)
  <2>1. [Retired EXCEPT !.paused = TRUE, !.streak = 0] \in Files
    BY ViewTypes DEF Files
  <2>2. QED BY <1>1, <1>5, <2>1, WriteType DEF Escalate
<1>6. CASE OpenBreaker(p)
  <2>1. now + Breaker \in Nat
    BY Numbers DEF TypeOK
  <2>2. [Pruned EXCEPT !.openUntil = now + Breaker] \in Files
    BY <2>1, ViewTypes DEF Files
  <2>3. QED BY <1>1, <1>6, <2>2, WriteType DEF OpenBreaker
<1>7. CASE Grant(p)
  <2>1. st' \in Files
    BY <1>7, ViewTypes DEF Grant
  <2>2. my' \in [Pids -> Locals]
    BY <1>0, <1>7, BlankType DEF Grant
  <2>3. grants' \in Seq(Nat)
    <3>1. Append(grants, now) \in Seq(Nat) /\ grants \in Seq(Nat)
      BY DEF TypeOK
    <3>2. Threshold + 1 \in Nat \ {0}
      BY Numbers
    <3>3. QED BY <1>7, <3>1, <3>2, KeepLastType DEF Grant
  <2>4. QED BY <1>7, <2>1, <2>2, <2>3, DecideType DEF Grant, Steps
<1>8. CASE GrantFails(p)
  <2>1. st' \in Files
    BY <1>8, WriteType, BlankType DEF GrantFails
  <2>2. CASE Poll(p)
    BY <1>1, <2>1, <2>2
  <2>3. CASE ~Poll(p)
    <3>1. my' \in [Pids -> Locals]
      BY <1>0, <1>8, <2>3, FailsType, BlankType DEF GrantFails
    <3>2. (Decide(p, "admit") \/ Decide(p, "off")) /\ UNCHANGED grants
      BY <1>8, <2>3 DEF GrantFails
    <3>3. grants' \in Seq(Nat)
      BY <3>2 DEF TypeOK
    <3>4. QED BY <2>1, <3>1, <3>2, <3>3, DecideType DEF Steps
  <2>4. QED BY <2>2, <2>3
<1>9. QED BY <1>2, <1>3, <1>4, <1>5, <1>6, <1>7, <1>8 DEF Admission

LEMMA AttemptType == ASSUME TypeOK, NEW p \in Pids, Attempt(p) PROVE TypeOK'
<1>0. /\ my[p] \in Locals /\ my[p].code \in Codes /\ st \in Files
      /\ Step \in Nat /\ Read \in Files /\ barren + 1 \in Nat
  <2>1. now \in Nat /\ StepSecs \in Nat \ {0} /\ barren \in Nat
    BY Numbers DEF TypeOK
  <2>2. Step \in Nat /\ barren + 1 \in Nat
    BY <2>1 DEF Step
  <2>3. my[p] \in Locals /\ st \in Files
    BY DEF TypeOK
  <2>4. QED BY <2>2, <2>3, ReadType DEF Locals
<1>1. ASSUME NEW c \in Codes PROVE [Blank EXCEPT !.code = c] \in Locals
  BY <1>1, BlankType DEF Locals
<1>2. ASSUME NEW v \in {"none", "0", "1"} PROVE [Blank EXCEPT !.verdict = v] \in Locals
  BY <1>2, BlankType DEF Locals
<1>3. Submit(p) => spent' \subseteq Codes
  BY <1>0 DEF Submit, TypeOK
<1> USE DEF records, outside, history, Steps
<1>4. CASE Prepare(p)
  <2> DEFINE first == IF UseTotp THEN seed ELSE 0
  <2>1. [NoCode EXCEPT !.seed = first] \in Codes
    BY DEF NoCode, Codes, TypeOK
  <2>2. [Blank EXCEPT !.code.seed = first] \in Locals
    BY <1>1, <2>1, BlankType DEF Blank, Locals
  <2> HIDE DEF first
  <2>3. Go(p, "prep", IF UseTotp THEN "reserve" ELSE "dispatch",
           [Blank EXCEPT !.code.seed = first])
    BY <1>4 DEF Prepare, first
  <2>4. QED BY <1>4, <2>2, <2>3, GoType DEF Prepare, TypeOK
<1>5. CASE PrepareFails(p)
  BY <1>5, GoType, BlankType DEF PrepareFails, TypeOK
<1>6. CASE Reserve(p)
  <2>1. st' \in Files
    BY <1>0, <1>6 DEF Reserve, Files
  <2>2. pc' \in [Pids -> Steps \cup {"off"}] /\ my' \in [Pids -> Locals]
    BY <1>0, <1>6, GoType DEF Reserve
  <2>3. QED BY <1>0, <1>6, <2>1, <2>2 DEF Reserve, TypeOK
<1>7. CASE ReserveFails(p)
  BY <1>7, GoType, FailsType, WriteType, BlankType DEF ReserveFails, TypeOK
<1>8. CASE Generate(p)
  <2> DEFINE code == [my[p].code EXCEPT !.step = Step]
  <2>1. code \in Codes
    BY <1>0 DEF Codes
  <2>2. [my[p] EXCEPT !.fails = 0, !.code.step = Step] = [my[p] EXCEPT !.fails = 0, !.code = code]
    BY <1>0 DEF Locals
  <2> HIDE DEF code
  <2>3. [my[p] EXCEPT !.fails = 0, !.code = code] \in Locals
    BY <1>0, <2>1, RestartType
  <2>4. QED BY <1>8, <2>2, <2>3, GoType DEF Generate, TypeOK
<1>9. CASE Fruitless(p)
  <2>1. PICK o \in Outcomes : Go(p, "dispatch", "epilogue",
          [Blank EXCEPT !.verdict = IF o = "rejected" THEN "none" ELSE "0"])
    BY <1>9 DEF Fruitless
  <2>2. pc' \in [Pids -> Steps \cup {"off"}] /\ my' \in [Pids -> Locals]
    BY <1>2, <2>1, GoType
  <2>3. pidfile' \in Pids \cup {None, Gone} /\ strays' \subseteq tunnels'
    BY <1>9, PidTypes DEF Fruitless, TypeOK
  <2>4. QED BY <1>0, <1>3, <1>9, <2>2, <2>3 DEF Fruitless, TypeOK
<1>10. CASE Connect(p)
  <2>1. PICK o \in Outcomes : Go(p, "dispatch", "up",
          [Blank EXCEPT !.verdict = IF o = "verified" THEN "1" ELSE "none"])
    BY <1>10 DEF Connect
  <2>2. pc' \in [Pids -> Steps \cup {"off"}] /\ my' \in [Pids -> Locals]
    BY <1>2, <2>1, GoType
  <2>3. /\ tunnels' = tunnels \cup {p} /\ Submit(p)
        /\ barren' = IF p \in Services THEN 0 ELSE barren
        /\ UNCHANGED <<now, seed, setter, edits, st, inside, view, records, held, grants, reserved>>
    BY <1>10 DEF Connect
  <2>4. barren' \in Nat
    BY <2>3 DEF TypeOK
  <2>5. QED BY <1>3, <2>2, <2>3, <2>4 DEF TypeOK
<1>11. CASE Daemonize(p)
  <2>1. pidfile' \in Pids \cup {None, Gone} /\ strays' \subseteq tunnels'
    BY <1>11, PidTypes DEF Daemonize
  <2>2. QED BY <1>3, <1>11, <2>1, GoType, BlankType DEF Daemonize, TypeOK
<1>12. CASE RecordVerdict(p)
  <2> DEFINE streak == IF my[p].verdict = "1" THEN 0 ELSE Read.streak + 1
  <2>1. [Read EXCEPT !.streak = streak] \in Files
    BY <1>0 DEF Files
  <2> HIDE DEF streak
  <2>2. Write([Read EXCEPT !.streak = streak]) \/ UNCHANGED st
    BY <1>12 DEF RecordVerdict, streak
  <2>3. st' \in Files
    BY <1>0, <2>1, <2>2, WriteType
  <2>4. QED BY <1>12, <2>3, GoType, BlankType DEF RecordVerdict, TypeOK
<1>13. CASE Release(p)
  <2>1. [Read EXCEPT !.owner = None] \in Files
    BY <1>0 DEF Files
  <2>2. st' \in Files
    BY <1>0, <1>13, <2>1, WriteType DEF Release
  <2>3. QED BY <1>13, <2>2, GoType, BlankType DEF Release, TypeOK
<1>14. CASE GenerateFails(p)
  BY <1>14, GoType, BlankType DEF GenerateFails, TypeOK
<1>15. CASE SessionOver(p)
  <2>1. pidfile' \in Pids \cup {None, Gone} /\ strays' \subseteq tunnels'
    BY <1>15, PidTypes DEF SessionOver
  <2>2. QED BY <1>0, <1>15, <2>1, GoType DEF SessionOver, TypeOK
<1>16. QED
  BY <1>4, <1>5, <1>6, <1>7, <1>8, <1>9, <1>10, <1>11, <1>12, <1>13, <1>14, <1>15 DEF Attempt

LEMMA SetSecretType == ASSUME TypeOK, SetSecret PROVE TypeOK'
<1>0. Read \in Files
  BY ReadType
<1> USE DEF history, locals, records
<1>1. CASE StorePassword \/ StoreToken
  <2>1. seed' \in Nat /\ edits' \in Nat /\ setter' \in {"history", "both"}
    BY <1>1 DEF StorePassword, StoreToken, Store, TypeOK
  <2>2. UNCHANGED <<now, tunnels, st, inside, view, locals, records, history>>
    BY <1>1 DEF StorePassword, StoreToken, Store
  <2>3. QED BY <2>1, <2>2 DEF TypeOK
<1>2. CASE ClearHistory
  <2>1. [Read EXCEPT !.attempts = {}, !.openUntil = 0, !.streak = 0] \in Files
    BY <1>0 DEF Files
  <2>2. st' \in Files
    BY <1>2, <2>1, WriteType DEF ClearHistory
  <2>3. barren' \in Nat
    <3>1. IsFiniteSet({p \in Services : my[p].verdict = "0"})
      BY Processes, FS_Subset
    <3>2. QED BY <1>2, <3>1, FS_CardinalityType DEF ClearHistory
  <2>4. QED BY <1>2, <2>2, <2>3 DEF ClearHistory, TypeOK
<1>3. CASE ClearReservation
  <2>1. [Read EXCEPT !.totpStep = 0] \in Files
    BY <1>0 DEF Files
  <2>2. QED BY <1>3, <2>1, WriteType DEF ClearReservation, TypeOK
<1>4. QED BY <1>1, <1>2, <1>3 DEF SetSecret

LEMMA StepKeepsType == ASSUME TypeOK, [Next]_vars PROVE TypeOK'
<1>1. CASE UNCHANGED vars
  BY <1>1 DEF vars, TypeOK
<1>2. CASE Tick \/ JumpBack
  <2>1. now' \in Nat
    BY <1>2 DEF Tick, JumpBack, SetClock, TypeOK
  <2>2. UNCHANGED <<seed, tunnels, setter, edits, st, inside, view, locals, records, history>>
    BY <1>2 DEF Tick, JumpBack, SetClock
  <2>3. QED BY <2>1, <2>2 DEF locals, records, history, TypeOK
<1>3. ASSUME NEW p \in Pids, RecordPid(p) \/ TunnelEnds(p) PROVE TypeOK'
  <2>1. CASE RecordPid(p)
    BY <1>3, <2>1 DEF RecordPid, outside, locals, history, TypeOK
  <2>2. CASE TunnelEnds(p)
    <3>1. /\ tunnels' \subseteq Pids /\ pidfile' \in Pids \cup {None, Gone}
          /\ seen' \in [Pids \cup Viewers -> Pids \cup {None, Gone}]
          /\ strays' \subseteq tunnels'
      BY <2>2 DEF TunnelEnds, TypeOK
    <3>2. UNCHANGED <<now, seed, setter, edits, st, inside, view, locals, history>>
      BY <2>2 DEF TunnelEnds
    <3>3. QED BY <3>1, <3>2 DEF locals, history, TypeOK
  <2>3. QED BY <1>3, <2>1, <2>2
<1>4. ASSUME NEW p \in Pids, Kill(p) PROVE TypeOK'
  <2>1. /\ seen' \in [Pids \cup Viewers -> Pids \cup {None, Gone}]
        /\ pidfile' \in Pids \cup {None, Gone} /\ strays' \subseteq tunnels'
    BY <1>4, PidTypes DEF Kill, outside, TypeOK
  <2>2. QED BY <1>4, <2>1, BlankType DEF Kill, outside, history, TypeOK
<1>5. QED
  BY <1>1, <1>2, <1>3, <1>4, LookingType, StartType, AdmitBeginType, AdmissionType, AttemptType,
     SetSecretType DEF Next

(* outcome.sh:277-374: no transaction, crash or clock jump takes the state file,
   the processes or the history out of their types. *)
THEOREM TypeCorrect == Spec => []TypeOK
<1>1. Init => TypeOK
  BY InitInv DEF IndInv
<1>2. TypeOK /\ [Next]_vars => TypeOK'
  BY StepKeepsType
<1>3. QED BY <1>1, <1>2, PTL DEF Spec

----------------------------------------------------------------------------
(* Every step keeps the invariant. *)

Rest == DeciderIsInside /\ ViewIsCurrent /\ ReservedIsOnDisk /\ AttemptOwnsProfile

(* A write that fails keeps the owner and the reserved step. *)
LEMMA FailureKeeps ==
  ASSUME TypeOK, WriteFails
  PROVE  st'.owner = st.owner /\ st'.totpStep = st.totpStep /\ st'.openUntil <= st.openUntil
<1>1. st.openUntil \in Nat
  BY DEF TypeOK, Files
<1>2. QED BY <1>1, ReadType DEF WriteFails

(* What the deciding process has loaded is what an attempt would have left. *)
LEMMA DeciderSees ==
  ASSUME IndInv, NEW p \in Pids, pc[p] \in {"check", "decide"}
  PROVE  /\ inside = p /\ view.file \in Files
         /\ view.file.owner = st.owner /\ view.file.totpStep = st.totpStep
         /\ view.file.openUntil <= st.openUntil
         /\ ~HasLiveOwner => Attempting = {}
<1>1. inside = p /\ inside # None /\ view.file \in Files
  BY Processes DEF IndInv, DeciderIsInside, TypeOK
<1>2. view.file.owner = st.owner
  BY <1>1 DEF IndInv, ViewIsCurrent
<1>3. ASSUME NEW q \in Attempting PROVE HasLiveOwner
  <2>1. st.owner = q /\ q # None /\ Alive(q)
    BY Processes DEF IndInv, AttemptOwnsProfile, Attempting, Alive, Steps
  <2>2. QED BY <1>2, <2>1 DEF HasLiveOwner
<1>4. QED BY <1>1, <1>3 DEF IndInv, ViewIsCurrent

LEMMA RejectionKeeps ==
  ASSUME IndInv, NEW p \in Pids, NEW next \in {"admit", "off"}, Decide(p, next),
         st'.totpStep = st.totpStep, st'.owner = st.owner \/ Attempting = {}
  PROVE  Rest'
<1>1. inside' = None /\ None \notin Pids /\ inside = p
  BY DeciderSees, Processes DEF Decide
<1>2. Attempting' = Attempting
  BY DEF Decide, Attempting, Steps, IndInv, TypeOK
<1>3. DeciderIsInside'
  BY <1>1 DEF Decide, IndInv, DeciderIsInside, TypeOK
<1>4. ViewIsCurrent' /\ ReservedIsOnDisk'
  BY <1>1 DEF Decide, IndInv, ViewIsCurrent, ReservedIsOnDisk
<1>5. AttemptOwnsProfile'
  BY <1>2 DEF IndInv, AttemptOwnsProfile
<1>6. QED BY <1>3, <1>4, <1>5 DEF Rest

LEMMA AdmissionKeeps == ASSUME IndInv, NEW p \in Pids, Admission(p) PROVE Rest'
<1>0. TypeOK /\ pc[p] = "decide"
  BY DEF IndInv, Admission, TunnelIsUp, OwnerIsAlive, IsPaused, BreakerIsOpen, RetireWindow,
         Escalate, OpenBreaker, TooSoon, Grant, GrantFails, Admissible, Poll, Decide
<1>1. Unblocked => Attempting = {}
  BY <1>0, DeciderSees DEF Unblocked
<1>2. /\ Pruned \in Files /\ Retired \in Files
      /\ Pruned.totpStep = st.totpStep /\ Retired.totpStep = st.totpStep
      /\ Owned(p).totpStep = st.totpStep /\ Charged(p).totpStep = st.totpStep
      /\ Owned(p).owner = p /\ Charged(p).owner = p
  <2>1. view.file \in Files /\ view.file.totpStep = st.totpStep
    BY <1>0, DeciderSees
  <2>2. Unowned \in Files /\ Unowned.totpStep = st.totpStep
    BY <1>0, <2>1, ViewTypes DEF Unowned, Files
  <2>3. Pruned \in Files /\ Pruned.totpStep = st.totpStep
    BY <1>0, <2>2, ViewTypes DEF Pruned, Files
  <2>4. Retired \in Files /\ Retired.totpStep = st.totpStep
    BY <1>0, <2>3, ViewTypes DEF Retired, Files
  <2>5. Owned(p).totpStep = st.totpStep /\ Owned(p).owner = p
    BY <2>2 DEF Owned, Files
  <2>6. Charged(p).totpStep = st.totpStep /\ Charged(p).owner = p
    BY <2>3 DEF Charged, Files
  <2>7. QED BY <2>3, <2>4, <2>5, <2>6
<1>3. ASSUME Poll(p), st'.totpStep = st.totpStep, st'.owner = st.owner \/ Attempting = {}
      PROVE  Rest'
  BY <1>3, RejectionKeeps DEF Poll
<1>4. CASE TunnelIsUp(p)
  BY <1>4, RejectionKeeps DEF TunnelIsUp
<1>5. CASE OwnerIsAlive(p) \/ IsPaused(p) \/ BreakerIsOpen(p) \/ TooSoon(p)
  BY <1>3, <1>5 DEF OwnerIsAlive, IsPaused, BreakerIsOpen, TooSoon
<1>6. CASE RetireWindow(p)
  <2>1. st'.totpStep = st.totpStep
    BY <1>0, <1>2, <1>6, FailureKeeps DEF RetireWindow, Write
  <2>2. QED BY <1>1, <1>3, <1>6, <2>1 DEF RetireWindow, BreakerExpired
<1>7. CASE Escalate(p)
  <2>1. st'.totpStep = st.totpStep
    <3>1. [Retired EXCEPT !.paused = TRUE, !.streak = 0].totpStep = st.totpStep
      BY <1>2 DEF Files
    <3>2. QED BY <1>0, <1>7, <3>1, FailureKeeps DEF Escalate, Write
  <2>2. QED BY <1>1, <1>3, <1>7, <2>1 DEF Escalate, BreakerExpired
<1>8. CASE OpenBreaker(p)
  <2>1. st'.totpStep = st.totpStep
    <3>1. [Pruned EXCEPT !.openUntil = now + Breaker].totpStep = st.totpStep
      BY <1>2 DEF Files
    <3>2. QED BY <1>0, <1>8, <3>1, FailureKeeps DEF OpenBreaker, Write
  <2>2. QED BY <1>1, <1>3, <1>8, <2>1 DEF OpenBreaker, Throttled
<1>9. CASE Grant(p)
  <2>1. st'.owner = p /\ st'.totpStep = st.totpStep /\ Attempting = {}
    BY <1>1, <1>2, <1>9 DEF Grant, Admissible
  <2>2. Attempting' = {p}
    BY <1>9, <2>1 DEF Grant, Decide, Attempting, Steps, IndInv, TypeOK
  <2>3. inside' = None /\ None \notin Pids /\ inside = p
    BY <1>0, <1>9, DeciderSees, Processes DEF Grant, Decide
  <2>4. DeciderIsInside'
    BY <1>9, <2>3 DEF Grant, Decide, IndInv, DeciderIsInside, TypeOK
  <2>5. ViewIsCurrent' /\ ReservedIsOnDisk'
    BY <1>9, <2>1, <2>3 DEF Grant, Decide, IndInv, ViewIsCurrent, ReservedIsOnDisk
  <2>6. QED BY <2>1, <2>2, <2>4, <2>5 DEF Rest, AttemptOwnsProfile
<1>10. CASE GrantFails(p)
  <2>1. st'.totpStep = st.totpStep /\ st'.owner = st.owner
    BY <1>0, <1>10, FailureKeeps DEF GrantFails
  <2>2. QED BY <1>3, <1>10, <2>1, RejectionKeeps DEF GrantFails
<1>11. QED BY <1>4, <1>5, <1>6, <1>7, <1>8, <1>9, <1>10 DEF Admission

LEMMA ProgressKeeps ==
  ASSUME IndInv, NEW p \in Pids, NEW from \in Steps \ Waits,
         NEW to \in (Steps \ Waits) \cup {"off"}, NEW mine,
         Go(p, from, to, mine), UNCHANGED <<inside, view>>, inside = None \/ UNCHANGED st,
         st'.owner = st.owner \/ to = "off", ReservedIsOnDisk'
  PROVE  Rest'
<1>1. DeciderIsInside'
  BY DEF Go, IndInv, DeciderIsInside, TypeOK
<1>2. ViewIsCurrent'
  BY DEF IndInv, ViewIsCurrent
<1>3. Attempting = {p}
  BY DEF Go, IndInv, AttemptOwnsProfile, Attempting
<1>4. Attempting' \subseteq Attempting /\ (to = "off" => Attempting' = {})
  BY <1>3 DEF Go, Attempting, IndInv, TypeOK, Steps
<1>5. AttemptOwnsProfile'
  BY <1>4 DEF IndInv, AttemptOwnsProfile
<1>6. QED BY <1>1, <1>2, <1>5 DEF Rest

LEMMA AttemptKeeps == ASSUME IndInv, NEW p \in Pids, Attempt(p) PROVE Rest'
<1>0. TypeOK /\ ReservedIsOnDisk /\ Read \in Files /\ st.totpStep \in Nat
  BY ReadType DEF IndInv, TypeOK, Files
<1> USE DEF history, Steps
<1>1. ASSUME UNCHANGED reserved, st'.totpStep = st.totpStep PROVE ReservedIsOnDisk'
  BY <1>0, <1>1 DEF ReservedIsOnDisk
<1>2. CASE Prepare(p)
  BY <1>1, <1>2, ProgressKeeps DEF Prepare
<1>3. CASE PrepareFails(p)
  BY <1>1, <1>3, ProgressKeeps DEF PrepareFails
<1>4. CASE Reserve(p)
  <2>1. Step \in Nat /\ Step > st.totpStep
    <3>1. now \in Nat /\ StepSecs \in Nat \ {0}
      BY <1>0, Numbers DEF TypeOK
    <3>2. QED BY <1>0, <1>4, <3>1, ReadType DEF Reserve, Step
  <2>2. st'.owner = st.owner /\ st'.totpStep = Step
    BY <1>0, <1>4, ReadType DEF Reserve, Files
  <2>3. ASSUME NEW step \in reserved' PROVE step <= st'.totpStep
    <3>1. CASE step = Step
      BY <2>1, <2>2, <3>1
    <3>2. CASE step \in reserved
      <4>1. step \in Nat /\ step <= st.totpStep
        BY <1>0, <3>2 DEF ReservedIsOnDisk, TypeOK
      <4>2. QED BY <1>0, <2>1, <2>2, <4>1
    <3>3. QED BY <1>4, <2>3, <3>1, <3>2 DEF Reserve
  <2>4. ReservedIsOnDisk'
    BY <2>3 DEF ReservedIsOnDisk
  <2>5. QED BY <1>4, <2>2, <2>4, ProgressKeeps DEF Reserve
<1>5. CASE ReserveFails(p)
  <2>1. st'.owner = st.owner /\ ReservedIsOnDisk'
    BY <1>0, <1>1, <1>5, FailureKeeps DEF ReserveFails
  <2>2. QED BY <1>5, <2>1, ProgressKeeps DEF ReserveFails
<1>6. CASE Generate(p)
  BY <1>1, <1>6, ProgressKeeps DEF Generate
<1>7. CASE Fruitless(p)
  BY <1>1, <1>7, ProgressKeeps DEF Fruitless
<1>8. CASE Connect(p)
  BY <1>1, <1>8, ProgressKeeps DEF Connect
<1>9. CASE Daemonize(p)
  BY <1>1, <1>9, ProgressKeeps DEF Daemonize
<1>10. CASE RecordVerdict(p)
  <2> DEFINE streak == IF my[p].verdict = "1" THEN 0 ELSE Read.streak + 1
  <2>1. /\ [Read EXCEPT !.streak = streak].owner = Read.owner
        /\ [Read EXCEPT !.streak = streak].totpStep = Read.totpStep
    BY <1>0 DEF Files
  <2>2. UNCHANGED st \/ (inside = None /\ Write([Read EXCEPT !.streak = streak]))
    BY <1>10 DEF RecordVerdict
  <2> HIDE DEF streak
  <2>3. st'.owner = st.owner /\ st'.totpStep = st.totpStep
    BY <1>0, <2>1, <2>2, ReadType, FailureKeeps DEF Write
  <2>4. QED BY <1>1, <1>10, <2>2, <2>3, ProgressKeeps DEF RecordVerdict
<1>11. CASE Release(p)
  <2>1. [Read EXCEPT !.owner = None].totpStep = st.totpStep
    BY <1>0, ReadType DEF Files
  <2>2. st'.totpStep = st.totpStep
    BY <1>0, <1>11, <2>1, ReadType, FailureKeeps DEF Release, Write
  <2>3. QED BY <1>1, <1>11, <2>2, ProgressKeeps DEF Release
<1>12. CASE GenerateFails(p)
  BY <1>1, <1>12, ProgressKeeps DEF GenerateFails
<1>13. CASE SessionOver(p)
  BY <1>1, <1>13, ProgressKeeps DEF SessionOver
<1>14. QED
  BY <1>2, <1>3, <1>4, <1>5, <1>6, <1>7, <1>8, <1>9, <1>10, <1>11, <1>12, <1>13 DEF Attempt

LEMMA SetSecretKeeps == ASSUME IndInv, SetSecret PROVE Rest'
<1>0. TypeOK /\ Read \in Files /\ st.totpStep \in Nat
  BY ReadType DEF IndInv, TypeOK, Files
<1> USE DEF locals, history
<1>1. CASE StorePassword \/ StoreToken
  BY <1>1 DEF StorePassword, StoreToken, Store, IndInv, Rest, DeciderIsInside, ViewIsCurrent,
              ReservedIsOnDisk, AttemptOwnsProfile, Attempting
<1>2. CASE ClearHistory
  <2>1. st'.owner = st.owner /\ st'.totpStep = st.totpStep
    <3> DEFINE cleared == [Read EXCEPT !.attempts = {}, !.openUntil = 0, !.streak = 0]
    <3>1. cleared.owner = st.owner /\ cleared.totpStep = st.totpStep
      BY <1>0, ReadType DEF Files
    <3>2. QED BY <1>0, <1>2, <3>1, FailureKeeps DEF ClearHistory, Write
  <2>2. QED
    BY <1>2, <2>1 DEF ClearHistory, IndInv, Rest, DeciderIsInside, ViewIsCurrent,
                      ReservedIsOnDisk, AttemptOwnsProfile, Attempting
<1>3. CASE ClearReservation
  <2>1. st'.owner = st.owner
    <3>1. [Read EXCEPT !.totpStep = 0].owner = st.owner
      BY <1>0, ReadType DEF Files
    <3>2. QED BY <1>0, <1>3, <3>1, FailureKeeps DEF ClearReservation, Write
  <2>2. QED
    BY <1>3, <2>1 DEF ClearReservation, IndInv, Rest, DeciderIsInside, ViewIsCurrent,
                      ReservedIsOnDisk, AttemptOwnsProfile, Attempting
<1>4. QED BY <1>1, <1>2, <1>3 DEF SetSecret

LEMMA AdmitBeginKeeps == ASSUME IndInv, NEW p \in Pids, AdmitBegin(p) PROVE Rest'
<1>0. TypeOK /\ None \notin Pids
  BY Processes DEF IndInv
<1>1. /\ st'.owner = st.owner /\ st'.totpStep = st.totpStep
      /\ view'.file = Read /\ Read.openUntil <= st'.openUntil
  <2>1. Read.openUntil \in Nat
    BY <1>0, ReadType DEF Files
  <2>2. st' = Read \/ st' = st
    BY DEF AdmitBegin, Write, WriteFails
  <2>3. QED BY <1>0, <2>1, <2>2, ReadType DEF AdmitBegin
<1>2. DeciderIsInside'
  BY <1>0 DEF AdmitBegin, IndInv, DeciderIsInside, TypeOK
<1>3. ViewIsCurrent'
  BY <1>0, <1>1, ReadType DEF ViewIsCurrent
<1>4. ReservedIsOnDisk'
  BY <1>1 DEF AdmitBegin, IndInv, ReservedIsOnDisk
<1>5. AttemptOwnsProfile'
  <2>1. Attempting' = Attempting
    BY <1>0 DEF AdmitBegin, Attempting, TypeOK, Steps
  <2>2. QED BY <1>1, <2>1 DEF IndInv, AttemptOwnsProfile
<1>6. QED BY <1>2, <1>3, <1>4, <1>5 DEF Rest

LEMMA LookingKeeps == ASSUME IndInv, Looking PROVE Rest'
<1>1. /\ UNCHANGED <<st, inside, reserved>> /\ view'.file = view.file
      /\ pc' \in [Pids -> Steps \cup {"off"}]
      /\ \A p \in Pids :
           \/ pc'[p] = pc[p]
           \/ pc[p] = "start" /\ pc'[p] \in {"off", "admit"}
           \/ pc[p] = "check" /\ pc'[p] = "decide"
  BY LookingMoves DEF IndInv, history
<1>2. DeciderIsInside'
  BY <1>1 DEF IndInv, DeciderIsInside
<1>3. Attempting' = Attempting
  BY <1>1 DEF Attempting, Steps, IndInv, TypeOK
<1>4. QED
  BY <1>1, <1>2, <1>3 DEF Rest, IndInv, ViewIsCurrent, ReservedIsOnDisk, AttemptOwnsProfile

LEMMA StepKeepsInv == ASSUME IndInv, [Next]_vars PROVE IndInv'
<1>0. TypeOK' /\ TypeOK
  BY StepKeepsType DEF IndInv
<1> USE DEF Rest, DeciderIsInside, ViewIsCurrent, ReservedIsOnDisk, AttemptOwnsProfile, Attempting
<1>1. CASE UNCHANGED vars
  BY <1>0, <1>1 DEF vars, IndInv
<1>2. ASSUME Tick \/ JumpBack PROVE Rest'
  BY <1>2 DEF Tick, JumpBack, SetClock, locals, history, IndInv
<1>3. ASSUME NEW p \in Pids, Start(p) PROVE Rest'
  BY <1>0, <1>3 DEF Start, outside, history, IndInv, TypeOK, Steps
<1>4. ASSUME NEW p \in Pids, RecordPid(p) PROVE Rest'
  BY <1>4 DEF RecordPid, outside, locals, history, IndInv
<1>5. ASSUME NEW p \in Pids, TunnelEnds(p) PROVE Rest'
  BY <1>5 DEF TunnelEnds, locals, history, IndInv
<1>6. ASSUME NEW p \in Pids, Kill(p) PROVE Rest'
  BY <1>0, <1>6, Processes DEF Kill, outside, history, IndInv, TypeOK, Steps
<1>7. Rest' \/ UNCHANGED vars
  BY <1>2, <1>3, <1>4, <1>5, <1>6, LookingKeeps, AdmitBeginKeeps, AdmissionKeeps, AttemptKeeps,
     SetSecretKeeps DEF Next
<1>8. QED BY <1>0, <1>1, <1>7 DEF IndInv

(* What connects the state file, the loaded copies and the attempts holds at
   every step. *)
THEOREM IndInvAlways == Spec => []IndInv
<1>1. QED BY InitInv, StepKeepsInv, PTL DEF Spec

(* outcome.sh:570-592: an attempt owns its profile on disk from its admission to
   its release, with any number of services and terminals, whatever fails. *)
THEOREM OwnershipIsDurable == Spec => []AttemptOwnsProfile
<1>1. IndInv => AttemptOwnsProfile
  BY DEF IndInv
<1>2. QED BY <1>1, IndInvAlways, PTL

(* outcome.sh:384-397: at most one attempt of a profile is under way. *)
THEOREM AttemptsExclude == Spec => []OneAttempt
<1>1. IndInv => OneAttempt
  BY DEF IndInv, AttemptOwnsProfile, OneAttempt
<1>2. QED BY <1>1, IndInvAlways, PTL

----------------------------------------------------------------------------
(* outcome.sh:743-754: no TOTP step is reserved twice between two clears, by a
   clock that goes backwards or forwards and with reservations that fail to be
   written. *)
THEOREM StepsAreReservedOnce == Spec => FreshReservation
<1> DEFINE Reserves(p) == pc[p] = "reserve" /\ pc'[p] = "code"
<1>1. ASSUME IndInv, [Next]_vars, NEW p \in Pids, Reserves(p) PROVE Step \notin reserved
  <2>1. ASSUME NEW q \in Pids, Admission(q) PROVE FALSE
    BY <1>1, <2>1 DEF Admission, TunnelIsUp, OwnerIsAlive, IsPaused, BreakerIsOpen, RetireWindow,
       Escalate, OpenBreaker, TooSoon, Grant, GrantFails, Poll, Decide, IndInv, TypeOK
  <2>2. ASSUME NEW q \in Pids,
              Start(q) \/ AdmitBegin(q) \/ RecordPid(q) \/ TunnelEnds(q) \/ Kill(q)
        PROVE FALSE
    BY <1>1, <2>2 DEF Start, AdmitBegin, RecordPid, TunnelEnds, Kill, locals, IndInv, TypeOK
  <2>3. ~Looking
    BY <1>1, LookingMoves DEF IndInv
  <2>4. ASSUME NEW q \in Pids, Attempt(q) PROVE q = p /\ Reserve(p)
    <3>1. ASSUME NEW from \in Steps, NEW to, NEW mine, Go(q, from, to, mine)
          PROVE  q = p /\ from = "reserve" /\ to = "code"
      BY <1>1, <3>1 DEF Go, IndInv, TypeOK
    <3>2. ~Prepare(q) /\ ~PrepareFails(q) /\ ~Generate(q) /\ ~GenerateFails(q)
      BY <3>1 DEF Prepare, PrepareFails, Generate, GenerateFails, Steps
    <3>3. ~ReserveFails(q)
      BY <3>1 DEF ReserveFails, Steps
    <3>4. ~Fruitless(q)
      BY <3>1 DEF Fruitless, Steps
    <3>5. ~Connect(q)
      BY <3>1 DEF Connect, Steps
    <3>6. ~Daemonize(q) /\ ~SessionOver(q) /\ ~RecordVerdict(q) /\ ~Release(q)
      BY <3>1 DEF Daemonize, SessionOver, RecordVerdict, Release, Steps
    <3>7. Reserve(q)
      BY <2>4, <3>2, <3>3, <3>4, <3>5, <3>6 DEF Attempt
    <3>8. QED BY <3>1, <3>7 DEF Reserve, Steps
  <2>5. ~SetSecret /\ ~Tick /\ ~JumpBack /\ ~UNCHANGED vars
    BY <1>1 DEF SetSecret, StorePassword, StoreToken, Store, ClearHistory, ClearReservation,
       Tick, JumpBack, SetClock, locals, vars
  <2>6. Reserve(p)
    BY <1>1, <2>1, <2>2, <2>3, <2>4, <2>5 DEF Next
  <2>7. TypeOK /\ \A step \in reserved : step <= st.totpStep
    BY <1>1 DEF IndInv, ReservedIsOnDisk
  <2>8. Step \in Nat /\ st.totpStep \in Nat /\ Step > st.totpStep
    <3>1. now \in Nat /\ StepSecs \in Nat \ {0} /\ st.totpStep \in Nat
      BY <2>7, Numbers DEF TypeOK, Files
    <3>2. QED BY <2>6, <2>7, <3>1, ReadType DEF Reserve, Step
  <2>9. QED BY <2>7, <2>8
<1>2. IndInv /\ [Next]_vars =>
        [\A p \in Pids : pc[p] = "reserve" /\ pc'[p] = "code" => Step \notin reserved]_vars
  BY <1>1
<1>3. QED BY <1>2, IndInvAlways, PTL DEF Spec, FreshReservation

----------------------------------------------------------------------------
(* Which steps may move the end of a breaker, and how. *)
LEMMA BreakerMoves ==
  ASSUME IndInv, [Next]_vars, ~\E p \in Services : OpenBreaker(p)
  PROVE  st'.openUntil <= st.openUntil
<1>0. TypeOK /\ st \in Files /\ Read \in Files /\ st.openUntil \in Nat
      /\ Read.openUntil <= st.openUntil
  BY ReadType DEF IndInv, TypeOK, Files
<1>1. ASSUME NEW file \in Files, file.openUntil <= st.openUntil, Write(file)
      PROVE  st'.openUntil <= st.openUntil
  BY <1>0, <1>1, FailureKeeps DEF Write
<1>2. CASE UNCHANGED st
  BY <1>0, <1>2
<1>3. ASSUME NEW p \in Pids, Admission(p) PROVE st'.openUntil <= st.openUntil
  <2>1. CASE TunnelIsUp(p) \/ OwnerIsAlive(p) \/ IsPaused(p) \/ BreakerIsOpen(p) \/ TooSoon(p)
    BY <1>2, <2>1 DEF TunnelIsUp, OwnerIsAlive, IsPaused, BreakerIsOpen, TooSoon
  <2>2. CASE RetireWindow(p)
    <3>1. Retired \in Files /\ Retired.openUntil = 0
      BY <1>0, ViewTypes DEF Retired, Files
    <3>2. QED BY <1>0, <1>1, <2>2, <3>1 DEF RetireWindow
  <2>3. CASE Escalate(p)
    <3> DEFINE file == [Retired EXCEPT !.paused = TRUE, !.streak = 0]
    <3>1. Retired \in Files /\ Retired.openUntil = 0
      BY <1>0, ViewTypes DEF Retired, Files
    <3>2. file \in Files /\ file.openUntil = 0
      BY <3>1 DEF Files
    <3>3. Write(file)
      BY <2>3 DEF Escalate
    <3> HIDE DEF file
    <3>4. QED BY <1>0, <1>1, <3>2, <3>3
  <2>4. ~OpenBreaker(p)
    BY DEF OpenBreaker, Throttled
  <2>5. CASE Grant(p)
    <3>1. pc[p] = "decide"
      BY <2>5 DEF Grant, Decide
    <3>2. view.file \in Files /\ view.file.openUntil <= st.openUntil
      BY <3>1, DeciderSees
    <3>3. Unowned \in Files /\ Pruned \in Files
          /\ Unowned.openUntil = view.file.openUntil /\ Pruned.openUntil = view.file.openUntil
      BY <1>0, <3>2, ViewTypes DEF Unowned, Pruned, Files
    <3>4. Owned(p).openUntil = view.file.openUntil /\ Charged(p).openUntil = view.file.openUntil
      BY <3>3 DEF Owned, Charged, Files
    <3>5. QED BY <2>5, <3>2, <3>4 DEF Grant
  <2>6. CASE GrantFails(p)
    BY <1>0, <2>6, FailureKeeps DEF GrantFails
  <2>7. QED BY <1>3, <2>1, <2>2, <2>3, <2>4, <2>5, <2>6 DEF Admission
<1>4. ASSUME NEW p \in Pids, Attempt(p) PROVE st'.openUntil <= st.openUntil
  <2>1. CASE Reserve(p)
    BY <1>0, <2>1 DEF Reserve, Files
  <2>2. CASE ReserveFails(p)
    BY <1>0, <2>2, FailureKeeps DEF ReserveFails
  <2>3. CASE RecordVerdict(p)
    <3> DEFINE streak == IF my[p].verdict = "1" THEN 0 ELSE Read.streak + 1
    <3> DEFINE file == [Read EXCEPT !.streak = streak]
    <3>1. file.openUntil = Read.openUntil
      BY <1>0 DEF Files
    <3>2. UNCHANGED st \/ Write(file)
      BY <2>3 DEF RecordVerdict
    <3> HIDE DEF file
    <3>3. QED BY <1>0, <1>2, <3>1, <3>2, FailureKeeps DEF Write
  <2>4. CASE Release(p)
    <3>1. [Read EXCEPT !.owner = None].openUntil = Read.openUntil
      BY <1>0 DEF Files
    <3>2. QED BY <1>0, <2>4, <3>1, FailureKeeps DEF Release, Write
  <2>5. CASE UNCHANGED st
    BY <1>2, <2>5
  <2>6. QED
    BY <1>4, <2>1, <2>2, <2>3, <2>4, <2>5 DEF Attempt, GenerateFails, SessionOver, Prepare,
       PrepareFails, Generate,
       Fruitless, Connect, Daemonize
<1>5. ASSUME SetSecret PROVE st'.openUntil <= st.openUntil
  <2>1. CASE ClearHistory
    <3> DEFINE file == [Read EXCEPT !.attempts = {}, !.openUntil = 0, !.streak = 0]
    <3>1. file.openUntil = 0 /\ Write(file)
      BY <1>0, <2>1 DEF ClearHistory, Files
    <3> HIDE DEF file
    <3>2. QED BY <1>0, <3>1, FailureKeeps DEF Write
  <2>2. CASE ClearReservation
    <3> DEFINE file == [Read EXCEPT !.totpStep = 0]
    <3>1. file.openUntil = Read.openUntil /\ Write(file)
      BY <1>0, <2>2 DEF ClearReservation, Files
    <3> HIDE DEF file
    <3>2. QED BY <1>0, <3>1, FailureKeeps DEF Write
  <2>3. QED
    BY <1>2, <1>5, <2>1, <2>2 DEF SetSecret, StorePassword, StoreToken, Store
<1>6. ASSUME NEW p \in Pids, AdmitBegin(p) PROVE st'.openUntil <= st.openUntil
  BY <1>0, <1>1, <1>6 DEF AdmitBegin
<1>7. ASSUME NEW p \in Pids, Start(p) \/ RecordPid(p) \/ TunnelEnds(p) \/ Kill(p)
      PROVE  UNCHANGED st
  BY <1>7 DEF Start, RecordPid, TunnelEnds, Kill
<1>8. Tick \/ JumpBack \/ Looking \/ UNCHANGED vars => UNCHANGED st
  BY <1>0, LookingMoves DEF Tick, JumpBack, SetClock, vars
<1>9. QED BY <1>2, <1>3, <1>4, <1>5, <1>6, <1>7, <1>8 DEF Next

(* outcome.sh:271-276, 301-307: the write-back of a clamped time never moves the
   end of a breaker ahead, nor does any other transaction but the one that opens
   it. *)
THEOREM BreakersDoNotDrift == Spec => BreakerStandsStill
<1>1. ASSUME IndInv, [Next]_vars, st'.openUntil > st.openUntil
      PROVE  \E p \in Services : OpenBreaker(p)
  <2>1. st.openUntil \in Nat /\ st'.openUntil \in Nat
    BY <1>1, StepKeepsType DEF IndInv, TypeOK, Files
  <2>2. QED BY <1>1, <2>1, BreakerMoves
<1>2. IndInv /\ [Next]_vars =>
        [st.openUntil > 0 /\ st'.openUntil > st.openUntil
           => \E p \in Services : OpenBreaker(p)]_vars
  BY <1>1
<1>3. QED BY <1>2, IndInvAlways, PTL DEF Spec, BreakerStandsStill

----------------------------------------------------------------------------
(* While every write succeeds, the breaker that admit_attempt read as open ends
   within the clamp of the first such read.  HeldIsRead links the two: a decider
   that saw no breaker leaves none held. *)
HeldIsRead == inside # None /\ view.file.openUntil = 0 => held = 0

LEMMA HeldSteps ==
  ASSUME IndInv, [Next]_vars, ~\E p \in Pids : AdmitBegin(p) PROVE held' = held
<1>1. ASSUME NEW p \in Pids, Admission(p) PROVE held' = held
  BY <1>1 DEF Admission, TunnelIsUp, OwnerIsAlive, IsPaused, BreakerIsOpen, RetireWindow, Escalate,
     OpenBreaker, TooSoon, Grant, GrantFails, Poll, Decide
<1>2. ASSUME NEW p \in Pids, Attempt(p) PROVE held' = held
  BY <1>2 DEF Attempt, GenerateFails, SessionOver, Prepare, PrepareFails, Reserve, ReserveFails,
     Generate, Fruitless, Connect,
     Daemonize, RecordVerdict, Release, history
<1>3. Looking => held' = held
  BY LookingMoves DEF IndInv, history
<1>4. QED
  BY <1>1, <1>2, <1>3 DEF Next, Tick, JumpBack, SetClock, SetSecret, StorePassword, StoreToken,
     Store, ClearHistory, ClearReservation, Start, RecordPid, TunnelEnds, Kill, history, vars

LEMMA ViewSteps ==
  ASSUME IndInv, [Next]_vars, ~\E p \in Pids : AdmitBegin(p)
  PROVE  (UNCHANGED inside /\ view'.file = view.file) \/ inside' = None
<1>1. ASSUME NEW p \in Pids, Admission(p) PROVE inside' = None
  BY <1>1 DEF Admission, TunnelIsUp, OwnerIsAlive, IsPaused, BreakerIsOpen, RetireWindow, Escalate,
     OpenBreaker, TooSoon, Grant, GrantFails, Poll, Decide
<1>2. ASSUME NEW p \in Pids, Attempt(p) PROVE UNCHANGED <<inside, view>>
  BY <1>2 DEF Attempt, GenerateFails, SessionOver, Prepare, PrepareFails, Reserve, ReserveFails,
     Generate, Fruitless, Connect,
     Daemonize, RecordVerdict, Release
<1>3. Looking => UNCHANGED inside /\ view'.file = view.file
  BY LookingMoves DEF IndInv
<1>4. QED
  BY <1>1, <1>2, <1>3 DEF Next, Tick, JumpBack, SetClock, SetSecret, StorePassword, StoreToken,
     Store, ClearHistory, ClearReservation, Start, RecordPid, TunnelEnds, Kill, vars

LEMMA BreakerEndsKept ==
  ASSUME ~WritesMayFail, IndInv, HeldIsRead, BreakerEnds, [Next]_vars
  PROVE  HeldIsRead' /\ BreakerEnds'
<1>0. /\ TypeOK /\ st \in Files /\ Read \in Files /\ now \in Nat /\ held \in Nat
      /\ st.openUntil \in Nat /\ Read.openUntil \in Nat /\ st'.openUntil \in Nat
      /\ Clamp \in Nat /\ held' \in Nat
  BY ReadType, StepKeepsType, Numbers DEF IndInv, TypeOK, Files
<1>1. ASSUME NEW p \in Pids, AdmitBegin(p) PROVE HeldIsRead' /\ BreakerEnds'
  <2>1. st' = Read /\ view'.file = Read
    BY <1>1 DEF AdmitBegin, Write, WriteFails
  <2>2. Read.openUntil <= st.openUntil /\ Read.openUntil <= now + Clamp
    BY <1>0, ReadType
  <2>3. held' = IF Read.openUntil <= now THEN 0 ELSE IF held \in 1..now THEN held ELSE now
    BY <1>1 DEF AdmitBegin
  <2>4. HeldIsRead'
    BY <1>0, <2>1, <2>3 DEF HeldIsRead
  <2>5. CASE held' = held /\ held > 0
    BY <1>0, <2>1, <2>2, <2>4, <2>5 DEF BreakerEnds
  <2>6. CASE held' = 0 \/ held' = now
    BY <1>0, <2>1, <2>2, <2>4, <2>6 DEF BreakerEnds
  <2>7. QED BY <1>0, <2>3, <2>4, <2>5, <2>6
<1>2. ASSUME ~\E p \in Pids : AdmitBegin(p) PROVE HeldIsRead' /\ BreakerEnds'
  <2>1. held' = held /\ ((UNCHANGED inside /\ view'.file = view.file) \/ inside' = None)
    BY <1>2, HeldSteps, ViewSteps
  <2>2. HeldIsRead'
    BY <2>1 DEF HeldIsRead
  <2>3. ASSUME NEW p \in Services, OpenBreaker(p) PROVE held = 0
    <3>1. p \in Pids /\ pc[p] = "decide"
      BY <2>3 DEF Pids, OpenBreaker, Poll, Decide
    <3>2. inside = p /\ p # None /\ view.file \in Files
      BY <3>1, DeciderSees, Processes
    <3>3. view.file.openUntil = 0
      BY <2>3, <3>2, <1>0, ViewTypes DEF OpenBreaker, Throttled, Pruned, Unowned, Files
    <3>4. QED BY <3>2, <3>3 DEF HeldIsRead
  <2>4. BreakerEnds'
    <3>1. CASE \E p \in Services : OpenBreaker(p)
      BY <1>0, <2>1, <2>3, <3>1 DEF BreakerEnds
    <3>2. CASE ~\E p \in Services : OpenBreaker(p)
      <4>1. st'.openUntil <= st.openUntil
        BY <3>2, BreakerMoves
      <4>2. QED BY <1>0, <2>1, <4>1 DEF BreakerEnds
    <3>3. QED BY <3>1, <3>2
  <2>5. QED BY <2>2, <2>4
<1>3. QED BY <1>1, <1>2

(* outcome.sh:271-276: "at most one hour", for a service and for any clock: no
   breaker is waited for longer than the clamp, provided writes succeed. *)
THEOREM BreakersEndInTime == ASSUME ~WritesMayFail PROVE Spec => []BreakerEnds
<1>1. Init => HeldIsRead /\ BreakerEnds
  BY DEF Init, HeldIsRead, BreakerEnds
<1>2. IndInv /\ HeldIsRead /\ BreakerEnds /\ [Next]_vars => HeldIsRead' /\ BreakerEnds'
  BY BreakerEndsKept
<1>3. QED BY <1>1, <1>2, IndInvAlways, PTL DEF Spec

----------------------------------------------------------------------------
(* Who moves, who writes, and the tunnels *)

(* Where an attempt is between its admission and its dispatch. *)
Dispatching == {"prep", "reserve", "code", "dispatch"}

(* Which step moves a process, starts or ends a tunnel, or writes the pid file. *)
LEMMA AdmissionMoves ==
  ASSUME TypeOK, NEW p \in Pids, Admission(p)
  PROVE  /\ pc[p] = "decide" /\ pc'[p] \in {"admit", "off", "prep"}
         /\ pc'[p] = "prep" => Grant(p)
         /\ \A q \in Pids \ {p} : pc'[q] = pc[q]
         /\ inside' = None
         /\ UNCHANGED <<records, now, seed, tunnels, setter, edits, held, reserved, spent, barren>>
BY DEF TypeOK, Admission, TunnelIsUp, OwnerIsAlive, IsPaused, BreakerIsOpen, RetireWindow, Escalate,
     OpenBreaker, TooSoon, Grant, GrantFails, Poll, Decide, outside

(* The edges of an attempt between its admission and its release. *)
AttemptEdges ==
  {<<"prep", "reserve">>, <<"prep", "dispatch">>, <<"prep", "epilogue">>,
   <<"reserve", "code">>, <<"reserve", "reserve">>, <<"reserve", "epilogue">>,
   <<"code", "dispatch">>, <<"code", "epilogue">>, <<"dispatch", "up">>,
   <<"dispatch", "epilogue">>, <<"up", "epilogue">>, <<"epilogue", "release">>,
   <<"release", "off">>}

(* A step of an attempt takes one of these edges and leaves the others, the
   admission, the clock and the seed alone. *)
LEMMA AttemptMoves ==
  ASSUME TypeOK, NEW p \in Pids, Attempt(p)
  PROVE  /\ <<pc[p], pc'[p]>> \in AttemptEdges
         /\ \A q \in Pids \ {p} : pc'[q] = pc[q] /\ my'[q] = my[q]
         /\ UNCHANGED <<inside, view, now, seed, setter, edits, held, grants>>
<1>1. ASSUME NEW from, NEW to, NEW mine, Go(p, from, to, mine)
      PROVE  /\ pc[p] = from /\ pc'[p] = to /\ my'[p] = mine
             /\ \A q \in Pids \ {p} : pc'[q] = pc[q] /\ my'[q] = my[q]
  BY <1>1 DEF Go, TypeOK
<1> USE DEF outside, history, AttemptEdges
<1>2. CASE Prepare(p) \/ PrepareFails(p)
  BY <1>1, <1>2 DEF Prepare, PrepareFails
<1>3. CASE Reserve(p) \/ ReserveFails(p)
  BY <1>1, <1>3 DEF Reserve, ReserveFails
<1>4. CASE Generate(p) \/ GenerateFails(p) \/ SessionOver(p)
  BY <1>1, <1>4 DEF Generate, GenerateFails, SessionOver
<1>5. CASE Fruitless(p)
  BY <1>1, <1>5 DEF Fruitless
<1>6. CASE Connect(p)
  BY <1>1, <1>6 DEF Connect
<1>7. CASE Daemonize(p)
  BY <1>1, <1>7 DEF Daemonize
<1>8. CASE RecordVerdict(p) \/ Release(p)
  BY <1>1, <1>8 DEF RecordVerdict, Release
<1>9. QED BY <1>2, <1>3, <1>4, <1>5, <1>6, <1>7, <1>8 DEF Attempt

(* Only the clock moves the time. *)
LEMMA TimeSteps ==
  ASSUME TypeOK, [Next]_vars PROVE now' = now \/ Tick \/ JumpBack
<1>1. ASSUME NEW p \in Pids, Attempt(p) \/ Admission(p) PROVE now' = now
  BY <1>1, AttemptMoves, AdmissionMoves
<1>2. ASSUME NEW p \in Pids, Start(p) \/ AdmitBegin(p) \/ RecordPid(p) \/ TunnelEnds(p) \/ Kill(p)
      PROVE  now' = now
  BY <1>2 DEF Start, AdmitBegin, RecordPid, TunnelEnds, Kill, outside
<1>3. SetSecret \/ UNCHANGED vars => now' = now
  BY DEF SetSecret, StorePassword, StoreToken, Store, ClearHistory, ClearReservation, vars
<1>4. Looking => now' = now
  BY LookingMoves DEF outside
<1>5. QED BY <1>1, <1>2, <1>3, <1>4 DEF Next

(* Which actions move a process. *)
LEMMA PcSteps ==
  ASSUME TypeOK, [Next]_vars, NEW q \in Pids, pc'[q] # pc[q]
  PROVE  \/ Start(q) \/ AdmitBegin(q) \/ Admission(q) \/ Attempt(q) \/ Kill(q)
         \/ pc[q] \in {"start", "check"} /\ pc'[q] \in {"off", "admit", "decide"}
<1>1. ASSUME NEW p \in Pids, Attempt(p) PROVE p = q
  BY <1>1, AttemptMoves
<1>2. ASSUME NEW p \in Pids, Admission(p) PROVE p = q
  BY <1>2, AdmissionMoves
<1>3. ASSUME NEW p \in Pids, Start(p) \/ AdmitBegin(p) \/ Kill(p) PROVE p = q
  BY <1>3 DEF Start, AdmitBegin, Kill, TypeOK
<1>4. Looking => pc[q] \in {"start", "check"} /\ pc'[q] \in {"off", "admit", "decide"}
  BY LookingMoves
<1>5. /\ ~UNCHANGED vars /\ ~Tick /\ ~JumpBack /\ ~SetSecret
      /\ \A p \in Pids : ~RecordPid(p) /\ ~TunnelEnds(p)
  BY DEF vars, Tick, JumpBack, SetClock, SetSecret, StorePassword, StoreToken, Store,
         ClearHistory, ClearReservation, RecordPid, TunnelEnds, locals
<1>6. QED BY <1>1, <1>2, <1>3, <1>4, <1>5 DEF Next

(* A tunnel starts in Connect or Daemonize and leaves in TunnelEnds. *)
LEMMA TunnelSteps ==
  ASSUME TypeOK, [Next]_vars, ~\E p \in Pids : Connect(p) \/ Daemonize(p)
  PROVE  tunnels' = tunnels \/ \E p \in Pids : TunnelEnds(p)
<1>1. ASSUME NEW p \in Pids, Attempt(p) PROVE tunnels' = tunnels
  BY <1>1 DEF Attempt, GenerateFails, SessionOver, Prepare, PrepareFails, Reserve, ReserveFails,
     Generate, Fruitless,
     RecordVerdict, Release, outside
<1>2. ASSUME NEW p \in Pids, Admission(p) PROVE tunnels' = tunnels
  BY <1>2, AdmissionMoves
<1>3. ASSUME NEW p \in Pids, Start(p) \/ AdmitBegin(p) \/ Kill(p) \/ RecordPid(p)
      PROVE  tunnels' = tunnels
  BY <1>3 DEF Start, AdmitBegin, Kill, RecordPid, outside
<1>4. UNCHANGED vars \/ Tick \/ JumpBack \/ SetSecret \/ Looking => tunnels' = tunnels
  BY LookingMoves DEF outside, vars, Tick, JumpBack, SetClock, SetSecret, StorePassword,
     StoreToken, Store,
         ClearHistory, ClearReservation
<1>5. QED BY <1>1, <1>2, <1>3, <1>4 DEF Next

(* The tunnels that nothing has put out of sight. *)
Kept == tunnels \ strays

(* core.sh:1172-1184, outcome.sh:442-456: such a tunnel is watched by its process
   or named by the pid file, it is the only one, no attempt is about to dispatch
   beside it, and whoever decides without having seen it sees its owner alive, or
   has read its pid and still has to ask ps. *)
TunnelsAreKnown ==
  /\ \A t \in Kept : pc[t] = "up" \/ pidfile = t
  /\ \A p, q \in Kept : p = q
  /\ \A p \in Pids : pc[p] \in Dispatching => Kept = {}
  /\ inside # None /\ ~view.up =>
       \A t \in Kept :
         \/ st.owner = t /\ pc[t] \in {"up", "epilogue", "release"}
         \/ pc[inside] = "check" /\ seen[inside] = t /\ pidfile = t

(* The decider of an admission sees every tunnel that is not a stray. *)
LEMMA GrantSeesNoTunnel ==
  ASSUME IndInv, TunnelsAreKnown, NEW p \in Pids, Grant(p) PROVE Kept = {}
<1>1. pc[p] = "decide" /\ ~view.up /\ ~HasLiveOwner
  BY DEF Grant, Admissible, Unblocked
<1>2. inside = p /\ p # None /\ view.file.owner = st.owner
  BY <1>1, DeciderSees, Processes
<1>3. ASSUME NEW t \in Kept PROVE FALSE
  <2>1. st.owner = t /\ pc[t] \in {"up", "epilogue", "release"}
    BY <1>1, <1>2 DEF TunnelsAreKnown
  <2>2. t \in Pids /\ t # None
    BY Processes DEF IndInv, TypeOK, Kept
  <2>3. QED BY <1>1, <1>2, <2>1, <2>2 DEF HasLiveOwner, Alive
<1>4. QED BY <1>3

(* A tunnel whose pid file is removed becomes a stray. *)
LEMMA RemovalStrays ==
  ASSUME TypeOK, PutPid(None), UNCHANGED tunnels PROVE Kept' = Kept \ {pidfile}
<1>1. None \notin tunnels
  BY Processes DEF TypeOK
<1>2. QED BY <1>1 DEF PutPid, Kept

(* What the steps below have in common: while no tunnel appears, the pid file
   names what it named, and nobody starts to dispatch or to decide, it is enough
   to look at the process that moves. *)
LEMMA KnownByOthers ==
  ASSUME IndInv, TunnelsAreKnown, IndInv', Kept' \subseteq Kept,
         \A t \in Kept' : pidfile = t => pidfile' = t,
         \A t \in Kept' : pc[t] = "up" => pc'[t] = "up",
         \A p \in Pids : pc'[p] \in Dispatching => pc[p] \in Dispatching,
         inside' = None \/
           /\ UNCHANGED <<inside, st>> /\ view'.up = view.up
           /\ pc'[inside] = pc[inside] /\ seen'[inside] = seen[inside]
           /\ \A t \in Kept' : pc[t] \in {"up", "epilogue", "release"} =>
                                 pc'[t] \in {"up", "epilogue", "release"}
  PROVE  TunnelsAreKnown'
<1>1. \A t \in Kept' : pc'[t] = "up" \/ pidfile' = t
  BY DEF TunnelsAreKnown
<1>2. \A p, q \in Kept' : p = q
  BY DEF TunnelsAreKnown
<1>3. \A p \in Pids : pc'[p] \in Dispatching => Kept' = {}
  BY DEF TunnelsAreKnown
<1>4. ASSUME inside' # None, ~view'.up, NEW t \in Kept'
      PROVE  \/ st'.owner = t /\ pc'[t] \in {"up", "epilogue", "release"}
             \/ pc'[inside'] = "check" /\ seen'[inside'] = t /\ pidfile' = t
  BY <1>4 DEF TunnelsAreKnown
<1>5. QED BY <1>1, <1>2, <1>3, <1>4 DEF TunnelsAreKnown

(* While a process looks at the pid file, or removes it. *)
LEMMA LookingKeepsKnown ==
  ASSUME IndInv, TunnelsAreKnown, IndInv', Looking PROVE TunnelsAreKnown'
<1>0. /\ TypeOK /\ None \notin Pids /\ Gone \notin Pids /\ Kept \subseteq Pids
      /\ Viewers \cap Pids = {} /\ tunnels' = tunnels /\ UNCHANGED <<inside, st>>
  BY LookingMoves, Processes DEF IndInv, TypeOK, Kept, outside
<1>1. ASSUME NEW c, CleansUp(c)
      PROVE  /\ Kept' \subseteq Kept /\ \A t \in Kept' : pidfile # t /\ pc[t] = "up"
             /\ seen[c] = Gone
  <2>1. Kept' = Kept \ {pidfile}
    BY <1>0, <1>1, RemovalStrays DEF CleansUp
  <2>2. QED BY <1>1, <2>1 DEF TunnelsAreKnown, CleansUp
<1>2. ASSUME NEW c, SeesTunnel(c) PROVE Kept' = Kept /\ pidfile' = pidfile
  BY <1>0, <1>2 DEF SeesTunnel, Kept
<1>3. ASSUME NEW p \in Pids, AdmitLooks(p) PROVE TunnelsAreKnown'
  <2>1. /\ pc[p] = "check" /\ pc' = [pc EXCEPT ![p] = "decide"] /\ inside = p
    BY <1>3, DeciderSees DEF AdmitLooks
  <2>2. pc \in [Pids -> Steps \cup {"off"}]
    BY <1>0 DEF TypeOK
  <2>3. /\ Kept' \subseteq Kept
        /\ \A t \in Kept' : (pidfile = t => pidfile' = t) /\ (pc[t] = "up" => pc'[t] = "up")
    BY <1>0, <1>1, <1>2, <1>3, <2>1, <2>2 DEF AdmitLooks
  <2>4. /\ \A t \in Kept' : pc'[t] = "up" \/ pidfile' = t
        /\ \A t, q \in Kept' : t = q
        /\ \A q \in Pids : pc'[q] \in Dispatching => Kept' = {}
    BY <2>1, <2>2, <2>3 DEF TunnelsAreKnown, Dispatching
  <2>5. ASSUME ~view'.up, NEW t \in Kept'
        PROVE  st'.owner = t /\ pc'[t] \in {"up", "epilogue", "release"}
    <3>1. CleansUp(p) /\ UNCHANGED view
      BY <1>0, <1>3, <2>5 DEF AdmitLooks, TypeOK
    <3>2. seen[p] = Gone /\ t \in Kept /\ t # Gone
      BY <1>0, <1>1, <2>5, <3>1
    <3>3. st.owner = t /\ pc[t] \in {"up", "epilogue", "release"}
      BY <1>0, <2>1, <2>5, <3>1, <3>2 DEF TunnelsAreKnown
    <3>4. QED BY <1>0, <2>1, <2>2, <3>2, <3>3
  <2>6. QED BY <1>0, <2>1, <2>4, <2>5 DEF TunnelsAreKnown
<1>4. ASSUME NEW p \in Pids, StartLooks(p) PROVE TunnelsAreKnown'
  <2>1. /\ pc[p] = "start" /\ pc' \in {[pc EXCEPT ![p] = "off"], [pc EXCEPT ![p] = "admit"]}
        /\ UNCHANGED view /\ (SeesTunnel(p) \/ CleansUp(p))
    BY <1>4 DEF StartLooks
  <2>2. pc \in [Pids -> Steps \cup {"off"}] /\ seen' = [seen EXCEPT ![p] = None]
    BY <1>0, <2>1 DEF TypeOK, SeesTunnel, CleansUp, Forget
  <2>3. inside # p
    BY <2>1 DEF IndInv, DeciderIsInside
  <2>4. /\ Kept' \subseteq Kept
        /\ \A t \in Kept' : (pidfile = t => pidfile' = t) /\ (pc[t] = "up" => pc'[t] = "up")
    BY <1>0, <1>1, <1>2, <2>1, <2>2
  <2>5. \A q \in Pids : /\ pc'[q] \in Dispatching => pc[q] \in Dispatching
                        /\ pc[q] \in {"up", "epilogue", "release"} => pc'[q] = pc[q]
    BY <2>1, <2>2 DEF Dispatching
  <2>6. inside # None => pc'[inside] = pc[inside] /\ seen'[inside] = seen[inside]
    BY <1>0, <2>1, <2>2, <2>3 DEF TypeOK
  <2>7. QED BY <1>0, <2>1, <2>4, <2>5, <2>6, KnownByOthers
<1>5. ASSUME NEW c \in Viewers, ViewPid(c) PROVE TunnelsAreKnown'
  <2>1. UNCHANGED <<view, pc>> /\ (Look(c) \/ SeesTunnel(c) \/ CleansUp(c))
    BY <1>5 DEF ViewPid, locals
  <2>2. inside # None => seen'[inside] = seen[inside]
    BY <1>0, <2>1 DEF TypeOK, Look, SeesTunnel, CleansUp, Forget
  <2>3. Kept' \subseteq Kept /\ \A t \in Kept' : pidfile = t => pidfile' = t
    BY <1>0, <1>1, <1>2, <2>1 DEF Look, Kept
  <2>4. QED BY <1>0, <2>1, <2>2, <2>3, KnownByOthers
<1>6. ASSUME NEW c \in Pids \cup Viewers, Vanish(c) PROVE TunnelsAreKnown'
  <2>1. UNCHANGED <<view, pc, pidfile, strays>> /\ pidfile = None
    BY <1>6 DEF Vanish, locals
  <2>2. Kept' = Kept
    BY <1>0, <2>1 DEF Kept
  <2>3. QED BY <1>0, <2>1, <2>2 DEF TunnelsAreKnown
<1>7. QED BY <1>3, <1>4, <1>5, <1>6 DEF Looking

(* While an attempt goes on. *)
LEMMA AttemptKeepsKnown ==
  ASSUME IndInv, TunnelsAreKnown, IndInv', NEW p \in Pids, Attempt(p) PROVE TunnelsAreKnown'
<1>0. /\ TypeOK /\ None \notin Pids /\ Kept \subseteq Pids
      /\ <<pc[p], pc'[p]>> \in AttemptEdges /\ UNCHANGED <<inside, view>>
      /\ \A q \in Pids \ {p} : pc'[q] = pc[q]
      /\ inside \in Pids \cup {None}
  BY AttemptMoves, Processes DEF IndInv, TypeOK, Kept
<1>1. inside # p /\ (inside # None => pc'[inside] = pc[inside])
  BY <1>0 DEF IndInv, DeciderIsInside, AttemptEdges
<1>2. UNCHANGED seen
  BY DEF Attempt, GenerateFails, SessionOver, Prepare, PrepareFails, Reserve, ReserveFails,
     Generate,
     Fruitless, Connect, Daemonize, RecordVerdict, Release
<1>3. p \in Attempting /\ \A q \in Attempting : q = p
  BY <1>0 DEF IndInv, AttemptOwnsProfile, Attempting, AttemptEdges, Steps
<1>4. inside # None => UNCHANGED st /\ ~Release(p)
  BY DEF Attempt, GenerateFails, SessionOver, Prepare, PrepareFails, Reserve, ReserveFails,
     Generate,
     Fruitless, Connect, Daemonize, RecordVerdict, Release
(* A new tunnel is the only one, and its process is on its way. *)
<1>5. CASE Connect(p) \/ Daemonize(p)
  <2>1. /\ pc[p] = "dispatch" /\ tunnels' = tunnels \cup {p}
        /\ pc'[p] \in {"up", "epilogue"}
        /\ (UNCHANGED <<pidfile, strays>> /\ pc'[p] = "up") \/ PutPid(p)
    BY <1>0, <1>5 DEF Connect, Daemonize, Go, TypeOK
  <2>2. Kept = {}
    BY <2>1 DEF TunnelsAreKnown, Dispatching
  <2>3. Kept' \subseteq {p} /\ (pc'[p] = "up" \/ pidfile' = p)
    BY <2>1, <2>2 DEF Kept, PutPid
  <2>4. \A q \in Pids : pc'[q] \notin Dispatching
    <3>1. \A q \in Pids : pc[q] \in Dispatching => q = p
      BY <1>3 DEF Attempting, Dispatching, Steps
    <3>2. QED BY <1>0, <2>1, <3>1 DEF Dispatching
  <2>5. st.owner = p /\ (inside # None => st'.owner = p)
    BY <1>3, <1>4 DEF IndInv, AttemptOwnsProfile
  <2>6. QED BY <1>0, <2>1, <2>3, <2>4, <2>5 DEF TunnelsAreKnown
(* The command that waits for a session removes the pid file. *)
<1>6. CASE ~(Connect(p) \/ Daemonize(p))
  <2>1. tunnels' = tunnels
    BY <1>6 DEF Attempt, GenerateFails, SessionOver, Prepare, PrepareFails, Reserve, ReserveFails,
       Generate, Fruitless, RecordVerdict, Release, outside
  <2>2. /\ UNCHANGED <<pidfile, strays>> \/ PutPid(None)
        /\ pc[p] = "up" => p \notin tunnels
    BY <1>0, <1>6 DEF Attempt, GenerateFails, SessionOver, Prepare, PrepareFails, Reserve,
       ReserveFails, Generate, Fruitless, RecordVerdict, Release, Go
  <2>3. Kept' \subseteq Kept /\ \A t \in Kept' : pidfile = t => pidfile' = t
    BY <1>0, <2>1, <2>2, RemovalStrays DEF Kept
  <2>4. \A t \in Kept' : pc[t] = "up" => pc'[t] = "up"
    <3>1. pc[p] = "up" => p \notin Kept'
      BY <2>2, <2>3 DEF Kept
    <3>2. QED BY <1>0, <2>3, <3>1
  <2>5. \A q \in Pids : pc'[q] \in Dispatching => pc[q] \in Dispatching
    BY <1>0 DEF AttemptEdges, Dispatching
  <2>6. ASSUME inside # None, NEW t \in Kept', pc[t] \in {"up", "epilogue", "release"}
        PROVE  pc'[t] \in {"up", "epilogue", "release"}
    <3>1. pc[p] # "release"
      <4>1. ~Release(p)
        BY <1>4, <2>6
      <4>2. QED
        BY <1>6, <4>1 DEF Attempt, GenerateFails, SessionOver, Prepare, PrepareFails, Reserve,
           ReserveFails, Generate, Fruitless, RecordVerdict, Go
    <3>2. QED BY <1>0, <2>3, <2>6, <3>1 DEF AttemptEdges
  <2>7. QED BY <1>0, <1>1, <1>2, <1>4, <2>3, <2>4, <2>5, <2>6, KnownByOthers
<1>7. QED BY <1>5, <1>6

(* When the recorder of a tunnel writes its pid, or a tunnel or its starter ends. *)
LEMMA EndingKeepsKnown ==
  ASSUME IndInv, TunnelsAreKnown, IndInv', NEW p \in Pids,
         RecordPid(p) \/ TunnelEnds(p) \/ Kill(p)
  PROVE  TunnelsAreKnown'
<1>0. /\ TypeOK /\ None \notin Pids /\ Gone \notin Pids /\ Kept \subseteq Pids
      /\ inside \in Pids \cup {None} /\ pc \in [Pids -> Steps \cup {"off"}]
  BY Processes DEF IndInv, TypeOK, Kept
<1>1. CASE RecordPid(p) /\ pc[p] = "up"
  <2>1. UNCHANGED <<st, inside, view, pc, tunnels>> /\ pidfile' = p
    BY <1>1 DEF RecordPid, locals, outside
  <2>2. p \in Attempting /\ \A q \in Attempting : q = p
    BY <1>1 DEF IndInv, AttemptOwnsProfile, Attempting, Steps
  <2>3. Kept' \subseteq {p}
    <3>1. ASSUME NEW t \in Kept', t # p PROVE FALSE
      <4>1. t \in Kept /\ pidfile # t
        BY <1>1, <2>1, <3>1 DEF RecordPid, Kept
      <4>2. pc[t] = "up" /\ t \in Pids
        BY <1>0, <4>1 DEF TunnelsAreKnown
      <4>3. QED BY <2>2, <3>1, <4>2 DEF Attempting, Steps
    <3>2. QED BY <3>1
  <2>4. \A q \in Pids : pc[q] \notin Dispatching
    BY <1>1, <2>2 DEF Attempting, Dispatching, Steps
  <2>5. st.owner = p
    BY <2>2 DEF IndInv, AttemptOwnsProfile
  <2>6. QED BY <1>1, <2>1, <2>3, <2>4, <2>5 DEF TunnelsAreKnown
<1>2. CASE RecordPid(p) /\ pc[p] # "up"
  <2>1. UNCHANGED <<st, inside, view, pc, tunnels, seen>> /\ pidfile # p
    BY <1>2 DEF RecordPid, locals, outside
  <2>2. Kept' = Kept \ {pidfile}
    BY <1>2, <2>1 DEF RecordPid, Kept
  <2>3. QED BY <2>1, <2>2, KnownByOthers
<1>3. CASE TunnelEnds(p)
  <2>1. /\ UNCHANGED <<st, inside, view, pc>> /\ Kept' = Kept \ {p}
        /\ pidfile # p => pidfile' = pidfile
        /\ \A c \in Pids : seen[c] # p => seen'[c] = seen[c]
    BY <1>0, <1>3 DEF TunnelEnds, locals, Kept, TypeOK
  <2>2. /\ \A t \in Kept' : pc'[t] = "up" \/ pidfile' = t
        /\ \A t, q \in Kept' : t = q
        /\ \A q \in Pids : pc'[q] \in Dispatching => Kept' = {}
    BY <2>1 DEF TunnelsAreKnown
  <2>3. ASSUME inside' # None, ~view'.up, NEW t \in Kept'
        PROVE  \/ st'.owner = t /\ pc'[t] \in {"up", "epilogue", "release"}
               \/ pc'[inside'] = "check" /\ seen'[inside'] = t /\ pidfile' = t
    BY <1>0, <2>1, <2>3 DEF TunnelsAreKnown
  <2>4. QED BY <2>2, <2>3 DEF TunnelsAreKnown
<1>4. CASE Kill(p)
  <2>1. /\ UNCHANGED <<st, pidfile, tunnels>> /\ Kept' = Kept \ {p}
        /\ pc' = [pc EXCEPT ![p] = "off"] /\ seen' = [seen EXCEPT ![p] = None]
        /\ inside' = None \/ (UNCHANGED <<inside, view>> /\ inside # p)
    BY <1>4 DEF Kill, Kept, Forget, outside
  <2>2. \A q \in Pids : /\ pc'[q] \in Dispatching => pc[q] \in Dispatching
                        /\ q # p => pc'[q] = pc[q]
    BY <1>0, <2>1 DEF Dispatching
  <2>3. inside' # None => /\ pc'[inside] = pc[inside] /\ seen'[inside] = seen[inside]
    BY <1>0, <2>1, <2>2 DEF TypeOK
  <2>4. QED BY <1>0, <2>1, <2>2, <2>3, KnownByOthers
<1>5. QED BY <1>1, <1>2, <1>3, <1>4

(* TunnelsAreKnown is inductive relative to IndInv. *)
LEMMA TunnelsStayKnown ==
  ASSUME IndInv, TunnelsAreKnown, [Next]_vars PROVE TunnelsAreKnown'
<1>0. /\ TypeOK /\ IndInv' /\ None \notin Pids /\ Kept \subseteq Pids
      /\ pc \in [Pids -> Steps \cup {"off"}] /\ inside \in Pids \cup {None}
  BY StepKeepsInv, Processes DEF IndInv, TypeOK, Kept
<1>1. ASSUME NEW p \in Pids, Start(p) PROVE TunnelsAreKnown'
  <2>1. /\ UNCHANGED <<st, inside, view, pidfile, strays, tunnels>> /\ pc[p] = "off"
        /\ seen' = [seen EXCEPT ![p] = pidfile]
        /\ pc' \in {[pc EXCEPT ![p] = "admit"], [pc EXCEPT ![p] = "start"]}
    BY <1>1 DEF Start, Look, outside
  <2>2. inside # p
    BY <2>1 DEF IndInv, DeciderIsInside
  <2>3. \A q \in Pids : /\ pc'[q] \in Dispatching => pc[q] \in Dispatching
                        /\ pc[q] # "off" => pc'[q] = pc[q]
    BY <1>0, <2>1 DEF Dispatching
  <2>4. inside # None => pc'[inside] = pc[inside] /\ seen'[inside] = seen[inside]
    BY <1>0, <2>1, <2>2 DEF TypeOK
  <2>5. Kept' = Kept
    BY <2>1 DEF Kept
  <2>6. QED BY <1>0, <2>1, <2>3, <2>4, <2>5, KnownByOthers
<1>2. ASSUME NEW p \in Pids, AdmitBegin(p) PROVE TunnelsAreKnown'
  <2>1. /\ UNCHANGED <<pidfile, strays, tunnels>> /\ pc[p] = "admit" /\ inside' = p
        /\ seen' = [seen EXCEPT ![p] = pidfile]
        /\ pc' = [pc EXCEPT ![p] = IF pidfile = None THEN "decide" ELSE "check"]
    BY <1>2 DEF AdmitBegin, Look, outside
  <2>2. Kept' = Kept /\ seen'[p] = pidfile /\ seen \in [Pids \cup Viewers -> Pids \cup {None, Gone}]
    BY <1>0, <2>1 DEF Kept, TypeOK
  <2>3. \A q \in Pids : /\ pc'[q] \in Dispatching => pc[q] \in Dispatching
                        /\ pc[q] = "up" => pc'[q] = "up"
    BY <1>0, <2>1 DEF Dispatching
  <2>4. ASSUME NEW t \in Kept
        PROVE  \/ st'.owner = t /\ pc'[t] \in {"up", "epilogue", "release"}
               \/ pc'[p] = "check" /\ seen'[p] = t /\ pidfile' = t
    <3>1. CASE pc[t] = "up"
      <4>1. t \in Pids /\ pc'[t] = "up"
        BY <1>0, <2>3, <2>4, <3>1
      <4>2. t \in Attempting'
        BY <4>1 DEF Attempting, Steps
      <4>3. QED BY <1>0, <4>1, <4>2 DEF IndInv, AttemptOwnsProfile
    <3>2. CASE pidfile = t
      <4>1. pidfile # None
        BY <1>0, <2>4, <3>2
      <4>2. QED BY <1>0, <2>1, <2>2, <3>2, <4>1
    <3>3. QED BY <2>4, <3>1, <3>2 DEF TunnelsAreKnown
  <2>5. QED BY <1>0, <2>1, <2>2, <2>3, <2>4 DEF TunnelsAreKnown
<1>3. ASSUME NEW p \in Pids, Admission(p) PROVE TunnelsAreKnown'
  <2>1. /\ pc[p] = "decide" /\ pc'[p] \in {"admit", "off", "prep"} /\ inside' = None
        /\ \A q \in Pids \ {p} : pc'[q] = pc[q]
        /\ UNCHANGED <<pidfile, seen, strays, tunnels>> /\ (pc'[p] = "prep" => Grant(p))
    BY <1>0, <1>3, AdmissionMoves
  <2>2. Kept' = Kept
    BY <2>1 DEF Kept
  <2>3. CASE Grant(p)
    <3>1. Kept = {}
      BY <2>3, GrantSeesNoTunnel
    <3>2. QED BY <2>1, <2>2, <3>1 DEF TunnelsAreKnown
  <2>4. CASE ~Grant(p)
    BY <1>0, <2>1, <2>2, <2>4, KnownByOthers DEF Dispatching
  <2>5. QED BY <2>3, <2>4
<1>4. ASSUME SetSecret PROVE TunnelsAreKnown'
  <2>1. /\ UNCHANGED <<inside, view, pc, records, tunnels>>
        /\ inside = None \/ UNCHANGED st
    BY <1>4 DEF SetSecret, StorePassword, StoreToken, Store, ClearHistory, ClearReservation, locals
  <2>2. QED BY <1>0, <2>1 DEF TunnelsAreKnown, Kept
<1>5. Tick \/ JumpBack \/ UNCHANGED vars => TunnelsAreKnown'
  BY DEF Tick, JumpBack, SetClock, vars, locals, TunnelsAreKnown, Kept
<1>6. QED
  BY <1>0, <1>1, <1>2, <1>3, <1>4, <1>5, LookingKeepsKnown, AttemptKeepsKnown, EndingKeepsKnown
  DEF Next

(* outcome.sh:434-441, logging.sh:85-95: no attempt is admitted beside a tunnel of
   the profile, whoever looks at the pid file and when, whatever is killed and
   whatever write fails, unless that tunnel is one whose pid file was taken away
   or overwritten or whose starter was killed while it ran. *)
THEOREM TunnelsAreSeen == Spec => AdmissionSeesTunnels
<1>1. Init => TunnelsAreKnown
  BY Processes DEF Init, TunnelsAreKnown, Dispatching, Kept
<1>2. IndInv /\ TunnelsAreKnown /\ [Next]_vars => TunnelsAreKnown'
  BY TunnelsStayKnown
<1>3. ASSUME IndInv, TunnelsAreKnown, [Next]_vars, NEW p \in Pids,
             pc[p] = "decide", pc'[p] = "prep"
      PROVE  tunnels \subseteq strays
  <2>1. ~Start(p) /\ ~AdmitBegin(p) /\ ~Kill(p) /\ ~Attempt(p) /\ TypeOK
    BY <1>3, AttemptMoves DEF IndInv, Start, AdmitBegin, Kill, TypeOK, AttemptEdges
  <2>2. Admission(p)
    BY <1>3, <2>1, PcSteps
  <2>3. QED BY <1>3, <2>1, <2>2, AdmissionMoves, GrantSeesNoTunnel DEF Kept
<1>4. IndInv /\ TunnelsAreKnown /\ [Next]_vars =>
        [\A p \in Pids : pc[p] = "decide" /\ pc'[p] = "prep" => tunnels \subseteq strays]_vars
  BY <1>3
<1>5. QED BY <1>1, <1>2, <1>4, IndInvAlways, PTL DEF Spec, AdmissionSeesTunnels

----------------------------------------------------------------------------
(* The view of a decider, and the one-time codes *)

(* The deciding process decides on the file that is on disk, but for the end of
   a breaker. *)
ViewIsFaithful ==
  inside # None =>
    /\ view.file.attempts = st.attempts /\ view.file.streak = st.streak
    /\ view.file.paused = st.paused

(* Loading a file changes nothing but the end of its breaker. *)
LEMMA ReadFields ==
  ASSUME TypeOK
  PROVE  /\ Read \in Files /\ st \in Files
         /\ Read.attempts = st.attempts /\ Read.totpStep = st.totpStep /\ Read.owner = st.owner
         /\ Read.paused = st.paused /\ Read.streak = st.streak
<1>1. st \in Files
  BY DEF TypeOK
<1>2. QED BY <1>1, ReadType DEF Read, Files

(* A write that fails leaves what was loaded. *)
LEMMA FileStands ==
  ASSUME IndInv, [Next]_vars, inside' # None, ~\E p \in Pids : AdmitBegin(p)
  PROVE  UNCHANGED <<st, inside>> /\ view'.file = view.file
<1>1. UNCHANGED inside /\ view'.file = view.file /\ inside # None
  BY ViewSteps
<1>2. ASSUME NEW p \in Pids, Attempt(p) PROVE UNCHANGED st
  BY <1>1, <1>2 DEF Attempt, GenerateFails, SessionOver, Prepare, PrepareFails, Reserve,
     ReserveFails, Generate, Fruitless,
     Connect, Daemonize, RecordVerdict, Release
<1>3. ASSUME NEW p \in Pids, Admission(p) PROVE FALSE
  BY <1>3, AdmissionMoves DEF IndInv
<1>4. ASSUME NEW p \in Pids, Start(p) \/ Kill(p) \/ RecordPid(p) \/ TunnelEnds(p)
      PROVE  UNCHANGED st
  BY <1>4 DEF Start, Kill, RecordPid, TunnelEnds
<1>5. UNCHANGED vars \/ Tick \/ JumpBack \/ SetSecret \/ Looking => UNCHANGED st
  BY <1>1, LookingMoves DEF IndInv, vars, Tick, JumpBack, SetClock, SetSecret, StorePassword,
     StoreToken, Store,
         ClearHistory, ClearReservation
<1>6. QED BY <1>1, <1>2, <1>3, <1>4, <1>5 DEF Next

(* ViewIsFaithful is inductive relative to IndInv. *)
LEMMA ViewStaysFaithful ==
  ASSUME IndInv, ViewIsFaithful, [Next]_vars PROVE ViewIsFaithful'
<1>1. ASSUME NEW p \in Pids, AdmitBegin(p) PROVE ViewIsFaithful'
  <2>1. (st' = Read \/ st' = st) /\ view'.file = Read
    BY <1>1 DEF AdmitBegin, Write, WriteFails
  <2>2. QED BY <2>1, ReadFields DEF IndInv, ViewIsFaithful
<1>2. CASE ~\E p \in Pids : AdmitBegin(p)
  BY <1>2, FileStands DEF ViewIsFaithful
<1>3. QED BY <1>1, <1>2

(* Every behaviour decides on a faithful view. *)
LEMMA FaithfulAlways == Spec => []ViewIsFaithful
<1>1. Init => ViewIsFaithful
  BY DEF Init, ViewIsFaithful
<1>2. QED BY <1>1, ViewStaysFaithful, IndInvAlways, PTL DEF Spec

(* What a decision writes. *)
LEMMA ViewFields ==
  ASSUME IndInv, ViewIsFaithful, NEW p \in Pids, pc[p] = "decide"
  PROVE  /\ Pruned \in Files /\ Retired \in Files /\ Owned(p) \in Files /\ Charged(p) \in Files
         /\ Pruned.attempts = Recent(st.attempts) /\ Pruned.openUntil = view.file.openUntil
         /\ Pruned.totpStep = st.totpStep /\ Pruned.streak = st.streak
         /\ Pruned.paused = st.paused
         /\ Retired.attempts = {} /\ Retired.openUntil = 0 /\ Retired.totpStep = st.totpStep
         /\ Retired.streak = st.streak /\ Retired.paused = st.paused
         /\ Owned(p).attempts = st.attempts /\ Owned(p).totpStep = st.totpStep
         /\ Owned(p).openUntil = view.file.openUntil
         /\ Owned(p).streak = st.streak /\ Owned(p).paused = st.paused
         /\ Charged(p).attempts = Latest(Recent(st.attempts) \cup {now})
         /\ Charged(p).openUntil = view.file.openUntil
         /\ Charged(p).totpStep = st.totpStep
         /\ Charged(p).streak = st.streak /\ Charged(p).paused = st.paused
<1>1. TypeOK /\ inside # None /\ view.file \in Files /\ view.file.totpStep = st.totpStep
  BY DeciderSees, Processes DEF IndInv
<1>2. /\ view.file.attempts = st.attempts /\ view.file.streak = st.streak
      /\ view.file.paused = st.paused
  BY <1>1 DEF ViewIsFaithful
<1>3. Unowned \in Files /\ Pruned \in Files /\ Retired \in Files /\ Owned(p) \in Files
      /\ Charged(p) \in Files
  BY <1>1, ViewTypes
<1>4. /\ Unowned.attempts = st.attempts /\ Unowned.totpStep = st.totpStep
      /\ Unowned.openUntil = view.file.openUntil
      /\ Unowned.streak = st.streak /\ Unowned.paused = st.paused
  BY <1>1, <1>2 DEF Unowned, Files
<1>5. /\ Pruned.attempts = Recent(st.attempts) /\ Pruned.totpStep = st.totpStep
      /\ Pruned.openUntil = view.file.openUntil
      /\ Pruned.streak = st.streak /\ Pruned.paused = st.paused
  BY <1>3, <1>4 DEF Pruned, Files
<1>6. /\ Retired.attempts = {} /\ Retired.openUntil = 0 /\ Retired.totpStep = st.totpStep
      /\ Retired.streak = st.streak /\ Retired.paused = st.paused
  BY <1>3, <1>5 DEF Retired, Files
<1>7. /\ Owned(p).attempts = st.attempts /\ Owned(p).totpStep = st.totpStep
      /\ Owned(p).openUntil = view.file.openUntil
      /\ Owned(p).streak = st.streak /\ Owned(p).paused = st.paused
  BY <1>3, <1>4 DEF Owned, Files
<1>8. /\ Charged(p).attempts = Latest(Recent(st.attempts) \cup {now})
      /\ Charged(p).openUntil = view.file.openUntil
      /\ Charged(p).totpStep = st.totpStep
      /\ Charged(p).streak = st.streak /\ Charged(p).paused = st.paused
  BY <1>3, <1>5 DEF Charged, Files
<1>9. QED BY <1>3, <1>5, <1>6, <1>7, <1>8

(* Which transaction changes which field of the file. *)
LEMMA Untouched ==
  ASSUME IndInv, ViewIsFaithful, [Next]_vars
  PROVE  /\ (~\E p \in Pids : Reserve(p)) /\ ~ClearReservation => st'.totpStep = st.totpStep
         /\ (~\E p \in Pids : RecordVerdict(p) \/ Escalate(p)) /\ ~ClearHistory
              => st'.streak = st.streak
         /\ (~\E p \in Pids : Escalate(p)) => st'.paused = st.paused
         /\ (~\E p \in Pids : Grant(p) \/ RetireWindow(p) \/ Escalate(p) \/ OpenBreaker(p))
              /\ ~ClearHistory
            => st'.attempts = st.attempts
<1> DEFINE Same == /\ st'.totpStep = st.totpStep /\ st'.streak = st.streak
                   /\ st'.paused = st.paused /\ st'.attempts = st.attempts
<1>0. TypeOK
  BY DEF IndInv
<1>1. st' \in {st, Read} => Same
  BY <1>0, ReadFields
<1>2. WriteFails => Same
  BY <1>1 DEF WriteFails
<1> DEFINE Goal == /\ (~\E p \in Pids : Reserve(p)) /\ ~ClearReservation
                        => st'.totpStep = st.totpStep
                   /\ (~\E p \in Pids : RecordVerdict(p) \/ Escalate(p)) /\ ~ClearHistory
                        => st'.streak = st.streak
                   /\ (~\E p \in Pids : Escalate(p)) => st'.paused = st.paused
                   /\ (~\E p \in Pids : Grant(p) \/ RetireWindow(p) \/ Escalate(p)
                                        \/ OpenBreaker(p)) /\ ~ClearHistory
                        => st'.attempts = st.attempts
<1>3. Same => Goal
  OBVIOUS
<1>4. ASSUME NEW p \in Pids, Admission(p) PROVE Goal
  <2>0. pc[p] = "decide"
    BY <1>0, <1>4, AdmissionMoves
  <2>1. CASE TunnelIsUp(p) \/ OwnerIsAlive(p) \/ IsPaused(p) \/ BreakerIsOpen(p) \/ TooSoon(p)
    BY <1>1, <1>3, <2>1 DEF TunnelIsUp, OwnerIsAlive, IsPaused, BreakerIsOpen, TooSoon
  <2>2. CASE GrantFails(p)
    BY <1>2, <1>3, <2>2 DEF GrantFails
  <2>3. CASE RetireWindow(p)
    BY <1>2, <1>3, <2>0, <2>3, ViewFields DEF RetireWindow, Write
  <2>4. CASE OpenBreaker(p)
    <3> DEFINE file == [Pruned EXCEPT !.openUntil = now + Breaker]
    <3>1. /\ file.totpStep = st.totpStep /\ file.streak = st.streak
          /\ file.paused = st.paused
      BY <2>0, ViewFields DEF Files
    <3>2. Write(file)
      BY <2>4 DEF OpenBreaker
    <3> HIDE DEF file
    <3>3. QED BY <1>2, <1>3, <2>4, <3>1, <3>2 DEF Write
  <2>5. CASE Escalate(p)
    <3> DEFINE file == [Retired EXCEPT !.paused = TRUE, !.streak = 0]
    <3>1. file.totpStep = st.totpStep
      BY <2>0, ViewFields DEF Files
    <3>2. Write(file)
      BY <2>5 DEF Escalate
    <3> HIDE DEF file
    <3>3. QED BY <1>2, <1>3, <2>5, <3>1, <3>2 DEF Write
  <2>6. CASE Grant(p)
    BY <2>0, <2>6, ViewFields DEF Grant
  <2>7. QED BY <1>4, <2>1, <2>2, <2>3, <2>4, <2>5, <2>6 DEF Admission
<1>5. ASSUME NEW p \in Pids, Attempt(p) PROVE Goal
  <2>1. CASE Reserve(p)
    <3>1. [Read EXCEPT !.totpStep = Step].streak = st.streak
          /\ [Read EXCEPT !.totpStep = Step].paused = st.paused
          /\ [Read EXCEPT !.totpStep = Step].attempts = st.attempts
      BY <1>0, ReadFields DEF Files
    <3>2. QED BY <2>1, <3>1 DEF Reserve
  <2>2. CASE ReserveFails(p)
    BY <1>2, <1>3, <2>2 DEF ReserveFails
  <2>3. CASE RecordVerdict(p)
    <3> DEFINE streak == IF my[p].verdict = "1" THEN 0 ELSE Read.streak + 1
    <3> DEFINE file == [Read EXCEPT !.streak = streak]
    <3>1. /\ file.totpStep = st.totpStep /\ file.paused = st.paused
          /\ file.attempts = st.attempts
      BY <1>0, ReadFields DEF Files
    <3>2. UNCHANGED st \/ Write(file)
      BY <2>3 DEF RecordVerdict
    <3> HIDE DEF file
    <3>3. QED BY <1>1, <1>2, <1>3, <2>3, <3>1, <3>2 DEF Write
  <2>4. CASE Release(p)
    <3> DEFINE file == [Read EXCEPT !.owner = None]
    <3>1. /\ file.totpStep = st.totpStep /\ file.paused = st.paused
          /\ file.attempts = st.attempts /\ file.streak = st.streak
      BY <1>0, ReadFields DEF Files
    <3>2. Write(Read) \/ Write(file)
      BY <2>4 DEF Release
    <3> HIDE DEF file
    <3>3. QED BY <1>1, <1>2, <1>3, <3>1, <3>2 DEF Write
  <2>5. CASE UNCHANGED st
    BY <1>3, <2>5
  <2>6. QED
    BY <1>5, <2>1, <2>2, <2>3, <2>4, <2>5 DEF Attempt, GenerateFails, SessionOver, Prepare,
       PrepareFails, Generate,
       Fruitless, Connect, Daemonize
<1>6. ASSUME SetSecret PROVE Goal
  <2>1. CASE ClearHistory
    <3> DEFINE file == [Read EXCEPT !.attempts = {}, !.openUntil = 0, !.streak = 0]
    <3>1. file.totpStep = st.totpStep /\ file.paused = st.paused
      BY <1>0, ReadFields DEF Files
    <3>2. Write(file)
      BY <2>1 DEF ClearHistory
    <3> HIDE DEF file
    <3>3. QED BY <1>2, <1>3, <2>1, <3>1, <3>2 DEF Write
  <2>2. CASE ClearReservation
    <3> DEFINE file == [Read EXCEPT !.totpStep = 0]
    <3>1. /\ file.streak = st.streak /\ file.paused = st.paused
          /\ file.attempts = st.attempts
      BY <1>0, ReadFields DEF Files
    <3>2. Write(file)
      BY <2>2 DEF ClearReservation
    <3> HIDE DEF file
    <3>3. QED BY <1>2, <1>3, <2>2, <3>1, <3>2 DEF Write
  <2>3. QED
    BY <1>1, <1>3, <1>6, <2>1, <2>2 DEF SetSecret, StorePassword, StoreToken, Store
<1>7. ASSUME NEW p \in Pids, AdmitBegin(p) PROVE Goal
  BY <1>1, <1>3, <1>7 DEF AdmitBegin, Write, WriteFails
<1>8. ASSUME NEW p \in Pids, Start(p) \/ RecordPid(p) \/ TunnelEnds(p) \/ Kill(p) PROVE Goal
  BY <1>1, <1>3, <1>8 DEF Start, RecordPid, TunnelEnds, Kill
<1>9. Tick \/ JumpBack \/ Looking \/ UNCHANGED vars => Goal
  BY <1>0, <1>1, <1>3, LookingMoves DEF Tick, JumpBack, SetClock, vars
<1> HIDE DEF Goal
<1>10. Goal
  BY <1>4, <1>5, <1>6, <1>7, <1>8, <1>9 DEF Next
<1>11. QED BY <1>10 DEF Goal

(* A new seed is stored and the reservation of the old one cleared before the
   next attempt prepares a code. *)
SeedsSettle == setter \in {"both", "totp"} => \A p \in Pids : pc[p] # "reserve"

(* No code that was submitted is ahead of the reservation, and a code under way
   is ahead of those submitted before it. *)
CodesAreFresh ==
  UseTotp =>
    /\ \A c \in spent : c.seed <= seed /\ (c.seed = seed => c.step <= st.totpStep)
    /\ setter \in {"both", "totp"} =>
         /\ \A c \in spent : c.seed < seed
         /\ \A p \in Pids : pc[p] \in {"code", "dispatch"} => my[p].code.seed < seed
    /\ \A p \in Pids :
         /\ pc[p] = "reserve" => my[p].code.seed = seed
         /\ pc[p] \in {"code", "dispatch"} => my[p].code.seed <= seed
         /\ pc[p] = "code" =>
              /\ \A c \in spent : c.seed = my[p].code.seed => c.step < Step
              /\ my[p].code.seed = seed => Step <= st.totpStep
         /\ pc[p] = "dispatch" =>
              /\ \A c \in spent : c.seed = my[p].code.seed => c.step < my[p].code.step
              /\ my[p].code.seed = seed => my[p].code.step <= st.totpStep

(* Which actions change what a process remembers. *)
LEMMA MySteps ==
  ASSUME TypeOK, [Next]_vars, NEW q \in Pids, my'[q] # my[q]
  PROVE  Admission(q) \/ Attempt(q) \/ Kill(q)
<1>1. ASSUME NEW p \in Pids, Attempt(p) PROVE p = q
  BY <1>1, AttemptMoves
<1>2. ASSUME NEW p \in Pids, Admission(p) PROVE p = q
  BY <1>2 DEF TypeOK, Admission, TunnelIsUp, OwnerIsAlive, IsPaused, BreakerIsOpen, RetireWindow,
     Escalate, OpenBreaker, TooSoon, Grant, GrantFails, Poll
<1>3. ASSUME NEW p \in Pids, Kill(p) PROVE p = q
  BY <1>3 DEF Kill, TypeOK
<1>4. ~Looking
  BY LookingMoves
<1>5. ~UNCHANGED vars /\ ~Tick /\ ~JumpBack /\ ~SetSecret
      /\ \A p \in Pids : ~RecordPid(p) /\ ~TunnelEnds(p) /\ ~Start(p) /\ ~AdmitBegin(p)
  BY DEF vars, Tick, JumpBack, SetClock, SetSecret, StorePassword, StoreToken, Store,
         ClearHistory, ClearReservation, RecordPid, TunnelEnds, locals, Start, AdmitBegin
<1>6. QED BY <1>1, <1>2, <1>3, <1>4, <1>5 DEF Next

(* How the code of an attempt comes about. *)
LEMMA CodeSteps ==
  ASSUME IndInv, [Next]_vars, UseTotp, NEW q \in Pids
  PROVE  /\ pc'[q] = "reserve" =>
              \/ pc[q] = "prep" /\ my'[q].code.seed = seed /\ UNCHANGED <<seed, setter, spent>>
              \/ pc[q] = "reserve" /\ my'[q].code = my[q].code
         /\ pc'[q] = "code" => Reserve(q) \/ (pc[q] = "code" /\ my'[q] = my[q])
         /\ pc'[q] = "dispatch" =>
              \/ Generate(q) /\ my'[q].code.seed = my[q].code.seed /\ my'[q].code.step = Step
              \/ pc[q] = "dispatch" /\ my'[q] = my[q]
<1>0. TypeOK /\ my[q] \in Locals /\ my[q].code \in Codes
  BY DEF IndInv, TypeOK, Locals
<1>1. ASSUME pc'[q] # pc[q] \/ my'[q] # my[q], pc'[q] \in {"reserve", "code", "dispatch"}
      PROVE  Attempt(q)
  <2>1. ~Admission(q)
    BY <1>0, <1>1, AdmissionMoves
  <2>2. ~Kill(q) /\ ~Start(q) /\ ~AdmitBegin(q)
    BY <1>0, <1>1 DEF Kill, Start, AdmitBegin, TypeOK
  <2>3. QED BY <1>0, <1>1, <2>1, <2>2, PcSteps, MySteps
<1>2. ASSUME Attempt(q), pc'[q] = "reserve"
      PROVE  \/ /\ pc[q] = "prep" /\ my'[q].code.seed = seed /\ UNCHANGED <<seed, setter, spent>>
             \/ pc[q] = "reserve" /\ my'[q].code = my[q].code
  <2>1. CASE Prepare(q)
    <3>1. [Blank EXCEPT !.code.seed = seed].code.seed = seed
      BY BlankType DEF Blank, NoCode
    <3>2. QED BY <1>0, <2>1, <3>1 DEF Prepare, Go, TypeOK, outside, history
  <2>2. CASE ReserveFails(q)
    <3>1. OneMoreFailure(q).code = my[q].code
      BY <1>0 DEF OneMoreFailure, Locals
    <3>2. QED BY <1>0, <1>2, <2>2, <3>1 DEF ReserveFails, Go, TypeOK
  <2>3. QED BY <1>0, <1>2, <2>1, <2>2 DEF Attempt, GenerateFails, SessionOver, PrepareFails,
     Reserve, Generate, Fruitless,
               Connect, Daemonize, RecordVerdict, Release, Go, TypeOK
<1>3. ASSUME Attempt(q), pc'[q] = "code" PROVE Reserve(q)
  BY <1>0, <1>3 DEF Attempt, GenerateFails, SessionOver, Prepare, PrepareFails, ReserveFails,
     Generate, Fruitless,
     Connect, Daemonize, RecordVerdict, Release, Go, TypeOK
<1>4. ASSUME Attempt(q), pc'[q] = "dispatch"
      PROVE  Generate(q) /\ my'[q].code.seed = my[q].code.seed /\ my'[q].code.step = Step
  <2>1. Generate(q)
    BY <1>0, <1>4 DEF Attempt, GenerateFails, SessionOver, Prepare, PrepareFails, Reserve,
       ReserveFails, Fruitless,
       Connect, Daemonize, RecordVerdict, Release, Go, TypeOK
  <2> DEFINE mine == [my[q] EXCEPT !.fails = 0, !.code.step = Step]
  <2>2. mine.code.seed = my[q].code.seed /\ mine.code.step = Step
    BY <1>0 DEF Locals, Codes
  <2>3. my'[q] = mine
    BY <1>0, <2>1 DEF Generate, Go, TypeOK
  <2>4. QED BY <2>1, <2>2, <2>3
<1>5. QED BY <1>1, <1>2, <1>3, <1>4

(* Only a dispatch submits a code, the one the process holds. *)
LEMMA SpentSteps ==
  ASSUME TypeOK, [Next]_vars, UseTotp
  PROVE  \/ UNCHANGED spent
         \/ \E q \in Pids : /\ pc[q] = "dispatch" /\ pc'[q] \in {"up", "epilogue"}
                            /\ spent' = spent \cup {my[q].code}
                            /\ UNCHANGED <<st, seed, setter, now>>
<1>1. ASSUME NEW q \in Pids, Fruitless(q) \/ Connect(q) \/ Daemonize(q)
      PROVE  /\ pc[q] = "dispatch" /\ pc'[q] \in {"up", "epilogue"}
             /\ spent' = spent \cup {my[q].code}
             /\ UNCHANGED <<st, seed, setter, now>>
  BY <1>1 DEF Fruitless, Connect, Daemonize, Submit, Go, TypeOK, outside
<1>2. ASSUME NEW p \in Pids, Attempt(p), ~Fruitless(p), ~Connect(p), ~Daemonize(p)
      PROVE  UNCHANGED spent
  BY <1>2 DEF Attempt, GenerateFails, SessionOver, Prepare, PrepareFails, Reserve, ReserveFails,
     Generate, RecordVerdict,
     Release, history
<1>3. ASSUME NEW p \in Pids, Admission(p) PROVE UNCHANGED spent
  BY <1>3, AdmissionMoves
<1>4. Looking => UNCHANGED spent
  BY LookingMoves DEF history
<1>5. QED
  BY <1>1, <1>2, <1>3, <1>4 DEF Next, Tick, JumpBack, SetClock, SetSecret, StorePassword,
     StoreToken,
     Store, ClearHistory, ClearReservation, Start, AdmitBegin, RecordPid, TunnelEnds, Kill, history,
     vars

(* Which steps change the seed, and how the settings go on. *)
LEMMA SeedSteps ==
  ASSUME IndInv, [Next]_vars
  PROVE  \/ StoreToken
         \/ UNCHANGED <<seed, setter>>
         \/ UNCHANGED seed /\ setter = "idle" /\ setter' = "history"
         \/ UNCHANGED seed /\ setter = "history" /\ setter' = "idle"
         \/ UNCHANGED seed /\ setter = "both" /\ setter' = "totp"
         \/ ClearReservation
<1>1. ASSUME NEW p \in Pids, Admission(p) PROVE UNCHANGED <<seed, setter>>
  BY <1>1, AdmissionMoves DEF IndInv
<1>2. ASSUME NEW p \in Pids, Attempt(p) PROVE UNCHANGED <<seed, setter>>
  BY <1>2, AttemptMoves DEF IndInv
<1>3. Looking => UNCHANGED <<seed, setter>>
  BY LookingMoves DEF IndInv, outside
<1>4. QED
  BY <1>1, <1>2, <1>3 DEF Next, Tick, JumpBack, SetClock, SetSecret, StorePassword, StoreToken,
     Store, ClearHistory, ClearReservation, Start, AdmitBegin, RecordPid, TunnelEnds, Kill, outside,
     vars

(* A reservation is of the current step, later than all on disk. *)
LEMMA ReservedStep ==
  ASSUME TypeOK, NEW p \in Pids, Reserve(p)
  PROVE  /\ pc[p] = "reserve" /\ pc'[p] = "code" /\ my'[p] = my[p]
         /\ Step \in Nat /\ Step > st.totpStep /\ st'.totpStep = Step
         /\ UNCHANGED <<now, seed, setter, spent>>
<1>1. Step \in Nat
  <2>1. now \in Nat /\ StepSecs \in Nat \ {0}
    BY Numbers DEF TypeOK
  <2>2. QED BY <2>1 DEF Step
<1>2. st'.totpStep = Step
  BY ReadFields DEF Reserve, Files
<1>3. QED BY <1>1, <1>2, ReadFields DEF Reserve, Go, TypeOK, outside

(* Who writes the reserved step. *)
LEMMA TotpSteps ==
  ASSUME IndInv, ViewIsFaithful, [Next]_vars
  PROVE  \/ st'.totpStep = st.totpStep
         \/ \E p \in Pids : Reserve(p)
         \/ ClearReservation /\ setter = "totp" /\ UNCHANGED seed
BY Untouched DEF ClearReservation

(* CodesAreFresh is inductive, while seeds settle. *)
LEMMA CodesStayFresh ==
  ASSUME CodeIsImmediate, IndInv, ViewIsFaithful, CodesAreFresh, [Next]_vars,
         SeedsSettle, SeedsSettle'
  PROVE  CodesAreFresh'
<1> SUFFICES ASSUME UseTotp PROVE CodesAreFresh'
  BY DEF CodesAreFresh
<1>0. /\ TypeOK /\ TypeOK' /\ seed \in Nat /\ seed' \in Nat /\ now \in Nat
      /\ st.totpStep \in Nat /\ st'.totpStep \in Nat
      /\ spent \subseteq Codes /\ spent' \subseteq Codes
  BY StepKeepsType DEF IndInv, TypeOK, Files
<1>1. \A p \in Pids : /\ my[p].code \in Codes /\ my[p].code.seed \in Nat /\ my[p].code.step \in Nat
                      /\ my'[p].code.seed \in Nat /\ my'[p].code.step \in Nat
  <2>1. \A p \in Pids : my[p] \in Locals /\ my'[p] \in Locals
    BY <1>0 DEF TypeOK
  <2>2. QED BY <2>1 DEF Locals, Codes
<1>2. \A c \in spent : c.seed \in Nat /\ c.step \in Nat
  BY <1>0 DEF Codes
<1>3. \A p, q \in Attempting : p = q
  BY DEF IndInv, AttemptOwnsProfile
<1>4. StoreToken => /\ seed' = seed + 1 /\ setter = "idle" /\ setter' = "both"
                    /\ UNCHANGED <<st, spent, pc, my, now>>
  BY DEF StoreToken, Store, locals, history
<1>5. seed <= seed' /\ (seed' = seed \/ StoreToken)
  BY <1>0, <1>4, SeedSteps DEF ClearReservation
<1>6. \A c \in spent : c.seed <= seed /\ (c.seed = seed => c.step <= st.totpStep)
  BY DEF CodesAreFresh
<1>7. setter \in {"both", "totp"} =>
        /\ \A c \in spent : c.seed < seed
        /\ \A p \in Pids : pc[p] \in {"code", "dispatch"} => my[p].code.seed < seed
  BY DEF CodesAreFresh
<1>8. \A p \in Pids :
         /\ pc[p] = "reserve" => my[p].code.seed = seed
         /\ pc[p] \in {"code", "dispatch"} => my[p].code.seed <= seed
         /\ pc[p] = "code" =>
              /\ \A c \in spent : c.seed = my[p].code.seed => c.step < Step
              /\ my[p].code.seed = seed => Step <= st.totpStep
         /\ pc[p] = "dispatch" =>
              /\ \A c \in spent : c.seed = my[p].code.seed => c.step < my[p].code.step
              /\ my[p].code.seed = seed => my[p].code.step <= st.totpStep
  BY DEF CodesAreFresh
<1>9. ASSUME NEW c \in spent'
      PROVE  c.seed <= seed' /\ (c.seed = seed' => c.step <= st'.totpStep)
  <2>1. CASE c \in spent
    <3>1. CASE st'.totpStep = st.totpStep
      BY <1>0, <1>2, <1>5, <1>6, <2>1, <3>1
    <3>2. CASE \E p \in Pids : Reserve(p)
      <4>1. Step \in Nat /\ Step > st.totpStep /\ st'.totpStep = Step /\ seed' = seed
        BY <1>0, <3>2, ReservedStep
      <4>2. c.seed <= seed /\ (c.seed = seed => c.step <= st.totpStep)
        BY <1>6, <2>1
      <4>3. QED BY <1>0, <1>2, <2>1, <4>1, <4>2
    <3>3. CASE ClearReservation /\ setter = "totp" /\ UNCHANGED seed
      BY <1>0, <1>2, <1>7, <2>1, <3>3
    <3>4. QED BY <3>1, <3>2, <3>3, TotpSteps
  <2>2. CASE c \notin spent
    <3>1. PICK q \in Pids : /\ pc[q] = "dispatch" /\ c = my[q].code
                            /\ UNCHANGED <<st, seed>>
      BY <1>0, <1>9, <2>2, SpentSteps
    <3>2. QED BY <1>8, <3>1
  <2>3. QED BY <2>1, <2>2
<1>10. ASSUME setter' \in {"both", "totp"}
       PROVE  /\ \A c \in spent' : c.seed < seed'
              /\ \A p \in Pids : pc'[p] \in {"code", "dispatch"} => my'[p].code.seed < seed'
  <2>1. CASE StoreToken
    BY <1>0, <1>1, <1>2, <1>4, <1>6, <1>8, <2>1
  <2>2. CASE ~StoreToken
    <3>1. setter \in {"both", "totp"} /\ seed' = seed
      BY <1>5, <1>10, <2>2, SeedSteps DEF ClearReservation
    <3>2. \A c \in spent' : c.seed < seed
      BY <1>0, <1>7, <3>1, SpentSteps
    <3>3. ASSUME NEW p \in Pids, pc'[p] \in {"code", "dispatch"} PROVE my'[p].code.seed < seed
      <4>1. ~Reserve(p)
        BY <1>0, <3>1, ReservedStep DEF SeedsSettle
      <4>2. CASE Generate(p)
        <5>1. pc[p] = "code" /\ my'[p].code.seed = my[p].code.seed
          BY <1>0, <3>3, <4>1, <4>2, CodeSteps DEF Generate, Go, TypeOK
        <5>2. QED BY <1>7, <3>1, <5>1
      <4>3. CASE ~Generate(p)
        <5>1. pc[p] \in {"code", "dispatch"} /\ my'[p] = my[p]
          BY <3>3, <4>1, <4>3, CodeSteps
        <5>2. QED BY <1>7, <3>1, <5>1
      <4>4. QED BY <4>2, <4>3
    <3>4. QED BY <3>1, <3>2, <3>3
  <2>3. QED BY <2>1, <2>2
<1>11. ASSUME NEW p \in Pids, pc'[p] = "reserve" PROVE my'[p].code.seed = seed'
  <2>1. CASE pc[p] = "prep" /\ my'[p].code.seed = seed /\ UNCHANGED <<seed, setter, spent>>
    BY <2>1
  <2>2. CASE pc[p] = "reserve" /\ my'[p].code = my[p].code
    <3>1. ~StoreToken
      BY <1>4, <1>11 DEF SeedsSettle
    <3>2. QED BY <1>5, <1>8, <2>2, <3>1
  <2>3. QED BY <1>11, <2>1, <2>2, CodeSteps
(* While a code is under way, nothing else spends one or reserves a step. *)
<1>12. ASSUME NEW p \in Pids, pc[p] \in {"code", "dispatch"}, pc'[p] \in {"code", "dispatch"}
       PROVE  /\ UNCHANGED spent
              /\ my[p].code.seed <= seed'
              /\ my[p].code.seed = seed' => seed' = seed /\ st'.totpStep = st.totpStep
  <2>1. p \in Attempting
    BY <1>12 DEF Attempting, Steps
  <2>2. ASSUME NEW q \in Pids, pc[q] = "dispatch" /\ pc'[q] \in {"up", "epilogue"} PROVE FALSE
    BY <1>3, <1>12, <2>1, <2>2 DEF Attempting, Steps
  <2>3. UNCHANGED spent
    BY <1>0, <2>2, SpentSteps
  <2>4. my[p].code.seed <= seed'
    BY <1>0, <1>1, <1>5, <1>8, <1>12
  <2>5. ASSUME my[p].code.seed = seed' PROVE seed' = seed /\ st'.totpStep = st.totpStep
    <3>1. seed' = seed
      BY <1>0, <1>1, <1>4, <1>5, <1>8, <1>12, <2>5
    <3>2. setter \notin {"both", "totp"}
      BY <1>0, <1>1, <1>7, <1>12, <2>5, <3>1
    <3>3. \A q \in Pids : ~Reserve(q)
      BY <1>0, <1>3, <1>12, <2>1, ReservedStep DEF Attempting, Steps
    <3>4. QED BY <3>1, <3>2, <3>3, TotpSteps
  <2>6. QED BY <2>3, <2>4, <2>5
<1>13. ASSUME NEW p \in Pids, pc'[p] = "code"
       PROVE  /\ my'[p].code.seed <= seed'
              /\ \A c \in spent' : c.seed = my'[p].code.seed => c.step < Step'
              /\ my'[p].code.seed = seed' => Step' <= st'.totpStep
  <2>1. CASE Reserve(p)
    <3>1. /\ pc[p] = "reserve" /\ my'[p] = my[p] /\ Step \in Nat /\ Step > st.totpStep
          /\ st'.totpStep = Step /\ seed' = seed /\ spent' = spent /\ Step' = Step
      BY <1>0, <2>1, ReservedStep DEF Step
    <3>2. my'[p].code.seed = seed
      BY <1>8, <3>1
    <3>3. ASSUME NEW c \in spent, c.seed = seed PROVE c.step < Step
      <4>1. c.step <= st.totpStep /\ c.step \in Nat
        BY <1>2, <1>6, <3>3
      <4>2. QED BY <1>0, <3>1, <4>1
    <3>4. QED BY <1>0, <3>1, <3>2, <3>3
  <2>2. CASE pc[p] = "code" /\ my'[p] = my[p]
    <3>1. now' = now
      BY <1>0, <2>2, TimeSteps DEF Tick, JumpBack, SetClock, ClockMayMove
    <3>2. Step' = Step
      BY <3>1 DEF Step
    <3>3. QED BY <1>8, <1>12, <1>13, <2>2, <3>2
  <2>3. QED BY <1>13, <2>1, <2>2, CodeSteps
<1>14. ASSUME NEW p \in Pids, pc'[p] = "dispatch"
       PROVE  /\ my'[p].code.seed <= seed'
              /\ \A c \in spent' : c.seed = my'[p].code.seed => c.step < my'[p].code.step
              /\ my'[p].code.seed = seed' => my'[p].code.step <= st'.totpStep
  <2>1. CASE Generate(p) /\ my'[p].code.seed = my[p].code.seed /\ my'[p].code.step = Step
    <3>1. pc[p] = "code"
      BY <2>1 DEF Generate, Go
    <3>2. QED BY <1>8, <1>12, <1>14, <2>1, <3>1
  <2>2. CASE pc[p] = "dispatch" /\ my'[p] = my[p]
    BY <1>8, <1>12, <1>14, <2>2
  <2>3. QED BY <1>14, <2>1, <2>2, CodeSteps
<1>15. QED BY <1>9, <1>10, <1>11, <1>13, <1>14 DEF CodesAreFresh

(* outcome.sh:716-724: no one-time code is submitted twice, by a clock that is
   set back, with failing writes and kills at any point.  It takes a code that
   is submitted in the step it is generated for, and a new seed that is not used
   before the reservation of the old one is cleared (encryption.sh:298-302). *)
THEOREM CodesAreSubmittedOnce ==
  ASSUME CodeIsImmediate PROVE Spec /\ []SeedsSettle => NoReplay
<1>1. Init => CodesAreFresh
  BY DEF Init, CodesAreFresh
<1>2. IndInv /\ ViewIsFaithful /\ CodesAreFresh /\ SeedsSettle /\ SeedsSettle' /\ [Next]_vars
        => CodesAreFresh'
  BY CodesStayFresh
<1>3. ASSUME IndInv, CodesAreFresh, UseTotp, NEW p \in Pids, pc[p] = "dispatch"
      PROVE  my[p].code \notin spent
  <2>1. my \in [Pids -> Locals] /\ my[p] \in Locals
    BY <1>3 DEF IndInv, TypeOK
  <2>2. my[p].code.step \in Nat
    BY <2>1 DEF Locals, Codes
  <2>3. \A c \in spent : c.seed = my[p].code.seed => c.step < my[p].code.step
    BY <1>3 DEF CodesAreFresh
  <2>4. QED BY <2>2, <2>3
<1>4. IndInv /\ CodesAreFresh /\ [Next]_vars =>
        [\A p \in Pids : pc[p] = "dispatch" /\ pc'[p] \in {"up", "epilogue"} /\ UseTotp
           => my[p].code \notin spent]_vars
  BY <1>3
<1>5. QED BY <1>1, <1>2, <1>4, IndInvAlways, FaithfulAlways, PTL DEF Spec, NoReplay

-----------------------------------------------------------------------------
(* Verdicts, the streak and the pause *)

(* outcome.sh:641-657: a verdict is held from the dispatch to its recording. *)
VerdictsArePending == \A p \in Pids : my[p].verdict # "none" => pc[p] \in {"up", "epilogue"}

(* A verdict appears with the end of a dispatch and goes with its recording. *)
LEMMA VerdictSteps ==
  ASSUME IndInv, VerdictsArePending, [Next]_vars, NEW q \in Pids
  PROVE  /\ my'[q].verdict # my[q].verdict =>
              Fruitless(q) \/ Connect(q) \/ RecordVerdict(q) \/ Kill(q)
         /\ RecordVerdict(q) \/ Kill(q) => my'[q].verdict = "none"
<1>0. TypeOK /\ my[q] \in Locals /\ Blank.verdict = "none"
  BY DEF IndInv, TypeOK, Blank
<1>1. ASSUME Admission(q) PROVE my'[q].verdict = my[q].verdict
  <2>1. my[q].verdict = "none" /\ pc[q] = "decide"
    BY <1>0, <1>1, AdmissionMoves DEF VerdictsArePending
  <2>2. OneMoreFailure(q).verdict = "none"
    BY <1>0, <2>1 DEF OneMoreFailure, Locals
  <2>3. my'[q] \in {my[q], Blank, OneMoreFailure(q)}
    BY <1>0, <1>1 DEF TypeOK, Admission, TunnelIsUp, OwnerIsAlive, IsPaused, BreakerIsOpen,
       RetireWindow,
       Escalate, OpenBreaker, TooSoon, Grant, GrantFails, Poll
  <2>4. QED BY <1>0, <2>1, <2>2, <2>3
<1>2. ASSUME Attempt(q), ~Fruitless(q), ~Connect(q), ~RecordVerdict(q), ~SessionOver(q)
      PROVE  my'[q].verdict = my[q].verdict
  <2>1. my[q].verdict = "none"
    BY <1>2 DEF VerdictsArePending, Attempt, Prepare, PrepareFails, Reserve, ReserveFails, Generate,
       GenerateFails, Daemonize, Release, Go
  <2>2. OneMoreFailure(q).verdict = "none"
    BY <1>0, <2>1 DEF OneMoreFailure, Locals
  <2>3. [my[q] EXCEPT !.fails = 0, !.code.step = Step].verdict = "none"
    BY <1>0, <2>1 DEF Locals
  <2>4. ASSUME NEW s PROVE [Blank EXCEPT !.code.seed = s].verdict = "none"
    BY <1>0, BlankType DEF Blank
  <2>5. CASE Prepare(q)
    <3> DEFINE s == IF UseTotp THEN seed ELSE 0
    <3> DEFINE mine == [Blank EXCEPT !.code.seed = s]
    <3>1. mine.verdict = "none"
      BY <2>4
    <3>2. my'[q] = mine
      BY <1>0, <2>5 DEF Prepare, Go, TypeOK
    <3>3. QED BY <2>1, <3>1, <3>2
  <2>6. CASE \/ PrepareFails(q) \/ Reserve(q) \/ ReserveFails(q) \/ GenerateFails(q)
             \/ Daemonize(q) \/ Release(q)
    BY <1>0, <2>1, <2>2, <2>6 DEF PrepareFails, Reserve, ReserveFails, GenerateFails, Daemonize,
       Release, Go, TypeOK
  <2>7. CASE Generate(q)
    BY <1>0, <2>1, <2>3, <2>7 DEF Generate, Go, TypeOK
  <2>8. QED BY <1>2, <2>5, <2>6, <2>7 DEF Attempt
<1>3. RecordVerdict(q) \/ Kill(q) => my'[q].verdict = "none"
  BY <1>0 DEF RecordVerdict, Kill, Go, TypeOK
<1>4. SessionOver(q) => my'[q].verdict = my[q].verdict
  BY <1>0 DEF SessionOver, Go, TypeOK
<1>5. QED BY <1>0, <1>1, <1>2, <1>3, <1>4, MySteps

(* VerdictsArePending is inductive. *)
LEMMA VerdictsStayPending ==
  ASSUME IndInv, VerdictsArePending, [Next]_vars PROVE VerdictsArePending'
<1>0. TypeOK
  BY DEF IndInv
<1> SUFFICES ASSUME NEW q \in Pids, my'[q].verdict # "none" PROVE pc'[q] \in {"up", "epilogue"}
  BY DEF VerdictsArePending
<1>1. CASE Fruitless(q) \/ Connect(q)
  BY <1>0, <1>1 DEF Fruitless, Connect, Go, TypeOK
<1>2. CASE ~Fruitless(q) /\ ~Connect(q)
  <2>1. ~RecordVerdict(q) /\ ~Kill(q)
    BY VerdictSteps
  <2>2. pc[q] \in {"up", "epilogue"}
    BY <1>2, <2>1, VerdictSteps DEF VerdictsArePending
  <2>3. ~Start(q) /\ ~AdmitBegin(q) /\ ~Admission(q)
    BY <1>0, <2>2, AdmissionMoves DEF Start, AdmitBegin
  <2>4. Attempt(q) => SessionOver(q)
    BY <1>2, <2>1, <2>2 DEF Attempt, GenerateFails, Prepare, PrepareFails, Reserve, ReserveFails,
       Generate, Daemonize, Release, Go
  <2>5. SessionOver(q) => pc'[q] = "epilogue"
    BY <1>0 DEF SessionOver, Go, TypeOK
  <2>6. QED BY <1>0, <2>1, <2>2, <2>3, <2>4, <2>5, PcSteps
<1>3. QED BY <1>1, <1>2

(* No verdict is held anywhere else, in any behaviour. *)
LEMMA PendingAlways == Spec => []VerdictsArePending
<1>1. Init => VerdictsArePending
  <2>1. Blank.verdict = "none"
    BY DEF Blank
  <2>2. QED BY <2>1 DEF Init, VerdictsArePending
<1>2. QED BY <1>1, VerdictsStayPending, IndInvAlways, PTL DEF Spec

(* Nobody else has a verdict to record while an attempt is under way. *)
LEMMA OneVerdict ==
  ASSUME IndInv, VerdictsArePending, NEW p \in Attempting, NEW q \in Pids \ {p}
  PROVE  my[q].verdict = "none"
BY DEF VerdictsArePending, IndInv, AttemptOwnsProfile, Attempting, Steps

(* Which steps count, and forget, dispatches without a tunnel. *)
LEMMA BarrenSteps ==
  ASSUME IndInv, [Next]_vars, ~ClearHistory
  PROVE  /\ (~\E p \in Services : Fruitless(p) \/ Connect(p)) => barren' = barren
         /\ \A p \in Services : /\ Fruitless(p) => barren' = barren + 1
                                /\ Connect(p) => barren' = 0
<1>0. TypeOK /\ Services \subseteq Pids
  BY DEF IndInv, Pids
<1>1. \A p \in Services : (Fruitless(p) => barren' = barren + 1) /\ (Connect(p) => barren' = 0)
  BY DEF Fruitless, Connect
<1>2. ASSUME NEW p \in Pids, Attempt(p), ~(p \in Services /\ (Fruitless(p) \/ Connect(p)))
      PROVE  barren' = barren
  BY <1>2 DEF Attempt, GenerateFails, SessionOver, Prepare, PrepareFails, Reserve, ReserveFails,
     Generate, Fruitless, Connect,
     Daemonize, RecordVerdict, Release, history
<1>3. ASSUME NEW p \in Pids, Admission(p) PROVE barren' = barren
  BY <1>0, <1>3, AdmissionMoves
<1>4. ASSUME ~\E p \in Services : Fruitless(p) \/ Connect(p) PROVE barren' = barren
  BY <1>0, <1>2, <1>3, <1>4, LookingMoves DEF Next, Tick, JumpBack, SetClock, SetSecret,
     StorePassword, StoreToken, Store,
     ClearReservation, Start, AdmitBegin, RecordPid, TunnelEnds, Kill, history, vars
<1>5. QED BY <1>1, <1>4

(* A profile whose sessions may come up unconfirmed has no telemetry, and none
   of its attempts is ever held unverified. *)
TelemetryIsSteady == "unknown" \notin Outcomes \/ "unverified" \notin Outcomes

(* Every verdict that is reached is written to the file. *)
VerdictsAreRecorded == ~WritesMayFail /\ CrashPoints \cap {"up", "epilogue"} = {}

(* The streak on disk counts dispatches that brought no tunnel up. *)
StreakIsEarned ==
  /\ "unverified" \notin Outcomes => st.streak = 0 /\ \A p \in Pids : my[p].verdict # "0"
  /\ (\A p \in Services : my[p].verdict # "1") => st.streak <= barren
  /\ \A p \in Services : my[p].verdict = "0" => st.streak < barren

(* record_attempt_verification resets the streak or adds one to it. *)
LEMMA RecordedStreak ==
  ASSUME ~WritesMayFail, TypeOK, NEW p \in Pids, RecordVerdict(p)
  PROVE  /\ UNCHANGED barren /\ pc[p] = "epilogue"
         /\ p \in Services /\ my[p].verdict = "1" => st'.streak = 0
         /\ p \in Services /\ my[p].verdict = "0" => st'.streak = st.streak + 1
         /\ p \notin Services \/ my[p].verdict = "none" => st'.streak = st.streak
<1>1. UNCHANGED barren /\ pc[p] = "epilogue"
  BY DEF RecordVerdict, Go, history
<1>2. CASE p \in Services /\ my[p].verdict # "none"
  <2> DEFINE streak == IF my[p].verdict = "1" THEN 0 ELSE Read.streak + 1
  <2> DEFINE file == [Read EXCEPT !.streak = streak]
  <2>1. file.streak = streak /\ Read.streak = st.streak
    BY ReadFields DEF Files
  <2>2. st' = file
    BY <1>2 DEF RecordVerdict, Write, WriteFails
  <2> HIDE DEF file
  <2>3. QED BY <1>1, <1>2, <2>1, <2>2
<1>3. CASE ~(p \in Services /\ my[p].verdict # "none")
  BY <1>1, <1>3 DEF RecordVerdict
<1>4. QED BY <1>2, <1>3

(* attempt_history_clear empties the history and keeps the pause. *)
LEMMA ClearedStreak ==
  ASSUME ~WritesMayFail, TypeOK, ClearHistory
  PROVE  /\ st'.streak = 0 /\ st'.attempts = {} /\ st'.paused = st.paused
         /\ UNCHANGED <<pc, my>>
         /\ barren' = Cardinality({p \in Services : my[p].verdict = "0"})
<1> DEFINE file == [Read EXCEPT !.attempts = {}, !.openUntil = 0, !.streak = 0]
<1>1. file.streak = 0 /\ file.attempts = {} /\ file.paused = st.paused
  BY ReadFields DEF Files
<1>2. st' = file
  BY DEF ClearHistory, Write, WriteFails
<1> HIDE DEF file
<1>3. QED BY <1>1, <1>2 DEF ClearHistory, locals

(* The only step that pauses finds the limit reached and nothing under way. *)
LEMMA EscalatedStreak ==
  ASSUME IndInv, ViewIsFaithful, VerdictsArePending, NEW p \in Pids, Escalate(p)
  PROVE  /\ pc[p] = "decide" /\ st.streak >= StreakLimit /\ ~st.paused /\ Attempting = {}
         /\ \A q \in Pids : my[q].verdict = "none"
         /\ ~WritesMayFail => st'.streak = 0 /\ st'.attempts = {} /\ st'.paused = TRUE
         /\ UNCHANGED <<my, barren>>
<1>1. TypeOK /\ pc[p] = "decide" /\ UNCHANGED <<my, barren>>
  BY DEF IndInv, Escalate, Poll, Decide
<1>2. inside # None /\ (~HasLiveOwner => Attempting = {})
  BY <1>1, DeciderSees, Processes
<1>3. /\ Retired \in Files /\ Pruned.streak = st.streak /\ view.file.paused = st.paused
  BY <1>1, <1>2, ViewFields DEF ViewIsFaithful
<1>4. st.streak >= StreakLimit /\ ~st.paused /\ Attempting = {}
  BY <1>2, <1>3 DEF Escalate, BreakerExpired, Unblocked
<1>5. \A q \in Pids : my[q].verdict = "none"
  BY <1>4 DEF VerdictsArePending, Attempting, Steps
<1>6. ASSUME ~WritesMayFail PROVE st'.streak = 0 /\ st'.attempts = {} /\ st'.paused = TRUE
  <2> DEFINE file == [Retired EXCEPT !.paused = TRUE, !.streak = 0]
  <2>1. file.streak = 0 /\ file.attempts = {} /\ file.paused = TRUE
    BY <1>1, <1>3, ViewFields DEF Files
  <2>2. st' = file
    BY <1>6 DEF Escalate, Write, WriteFails
  <2> HIDE DEF file
  <2>3. QED BY <2>1, <2>2
<1>7. QED BY <1>1, <1>4, <1>5, <1>6

(* A dispatch without a tunnel: rejected, which records nothing, or held
   unverified. *)
LEMMA FruitlessDispatch ==
  ASSUME TypeOK, NEW p \in Pids, Fruitless(p)
  PROVE  /\ UNCHANGED st /\ pc[p] = "dispatch" /\ pc'[p] = "epilogue"
         /\ \/ my'[p].verdict = "none" /\ "rejected" \in Outcomes
            \/ my'[p].verdict = "0" /\ "unverified" \in Outcomes
<1>1. PICK o \in Outcomes \cap {"rejected", "unverified"} :
        /\ Go(p, "dispatch", "epilogue",
              [Blank EXCEPT !.verdict = IF o = "rejected" THEN "none" ELSE "0"])
        /\ UNCHANGED st
  BY DEF Fruitless
<1>2. ASSUME NEW v PROVE [Blank EXCEPT !.verdict = v].verdict = v
  BY DEF Blank
<1> DEFINE v == IF o = "rejected" THEN "none" ELSE "0"
<1> DEFINE mine == [Blank EXCEPT !.verdict = v]
<1>3. mine.verdict = v
  BY <1>2
<1>4. my'[p] = mine /\ pc[p] = "dispatch" /\ pc'[p] = "epilogue"
  BY <1>1 DEF Go, TypeOK
<1> HIDE DEF mine
<1>5. QED BY <1>1, <1>3, <1>4

(* A dispatch that brings the tunnel up: confirmed, or without telemetry. *)
LEMMA Connection ==
  ASSUME TypeOK, NEW p \in Pids, Connect(p)
  PROVE  /\ UNCHANGED st /\ pc[p] = "dispatch" /\ pc'[p] = "up"
         /\ \/ my'[p].verdict = "none" /\ "unknown" \in Outcomes
            \/ my'[p].verdict = "1" /\ "verified" \in Outcomes
<1>1. PICK o \in Outcomes \cap {"verified", "unknown"} :
        /\ Go(p, "dispatch", "up",
              [Blank EXCEPT !.verdict = IF o = "verified" THEN "1" ELSE "none"])
        /\ UNCHANGED st
  BY DEF Connect
<1>2. ASSUME NEW v PROVE [Blank EXCEPT !.verdict = v].verdict = v
  BY DEF Blank
<1> DEFINE v == IF o = "verified" THEN "1" ELSE "none"
<1> DEFINE mine == [Blank EXCEPT !.verdict = v]
<1>3. mine.verdict = v
  BY <1>2
<1>4. my'[p] = mine /\ pc[p] = "dispatch" /\ pc'[p] = "up"
  BY <1>1 DEF Go, TypeOK
<1> HIDE DEF mine
<1>5. QED BY <1>1, <1>3, <1>4

(* StreakIsEarned is inductive. *)
LEMMA StreakStaysEarned ==
  ASSUME VerdictsAreRecorded, TelemetryIsSteady, IndInv, ViewIsFaithful, VerdictsArePending,
         StreakIsEarned, [Next]_vars
  PROVE  StreakIsEarned'
<1>0. /\ TypeOK /\ TypeOK' /\ Services \subseteq Pids /\ ~WritesMayFail
      /\ st.streak \in Nat /\ st'.streak \in Nat /\ barren \in Nat /\ barren' \in Nat
  BY StepKeepsType DEF IndInv, TypeOK, Files, Pids, VerdictsAreRecorded
(* While a process dispatches, no verdict waits. *)
<1>1. ASSUME NEW p \in Pids, pc[p] = "dispatch" PROVE \A q \in Pids : my[q].verdict = "none"
  <2>1. p \in Attempting /\ my[p].verdict = "none"
    BY <1>1 DEF Attempting, Steps, VerdictsArePending
  <2>2. QED BY <2>1, OneVerdict
<1>2. ASSUME NEW p \in Pids, Fruitless(p) PROVE StreakIsEarned'
  <2>1. /\ UNCHANGED st /\ pc[p] = "dispatch" /\ \A q \in Pids : my[q].verdict = "none"
        /\ Attempt(p)
    BY <1>0, <1>1, <1>2, FruitlessDispatch DEF Attempt
  <2>2. \A q \in Pids \ {p} : my'[q].verdict = "none"
    BY <1>0, <2>1, AttemptMoves
  <2>3. st.streak <= barren /\ ("unverified" \notin Outcomes => st.streak = 0)
    BY <1>0, <2>1 DEF StreakIsEarned
  <2>4. ~ClearHistory
    BY <2>1, <1>0, <1>2 DEF ClearHistory, locals, Fruitless, Go, TypeOK
  <2>5. barren' = (IF p \in Services THEN barren + 1 ELSE barren)
    BY <1>2 DEF Fruitless
  <2>6. my'[p].verdict = "none" \/ (my'[p].verdict = "0" /\ "unverified" \in Outcomes)
    BY <1>0, <1>2, FruitlessDispatch
  <2>7. "unverified" \notin Outcomes => st'.streak = 0 /\ \A q \in Pids : my'[q].verdict # "0"
    BY <2>1, <2>2, <2>3, <2>6
  <2>8. st'.streak <= barren' /\ (p \in Services => st'.streak < barren')
    <3>1. st'.streak = st.streak
      BY <2>1
    <3>2. barren + 1 > barren /\ \A a, b \in Nat : a <= b => a < b + 1 /\ a <= b + 1
      BY <1>0
    <3>3. CASE p \in Services
      <4>1. barren' = barren + 1
        BY <2>5, <3>3
      <4>2. st.streak <= barren /\ st.streak \in Nat /\ barren \in Nat
        BY <1>0, <2>3
      <4>3. QED BY <3>1, <3>2, <4>1, <4>2
    <3>4. CASE p \notin Services
      BY <2>3, <2>5, <3>1, <3>4
    <3>5. QED BY <3>3, <3>4
  <2>9. \A q \in Services : my'[q].verdict = "0" => st'.streak < barren'
    BY <1>0, <2>2, <2>8
  <2>10. QED BY <2>7, <2>8, <2>9 DEF StreakIsEarned
<1>3. ASSUME NEW p \in Pids, Connect(p) PROVE StreakIsEarned'
  <2>1. /\ UNCHANGED st /\ pc[p] = "dispatch" /\ \A q \in Pids : my[q].verdict = "none"
        /\ Attempt(p)
    BY <1>0, <1>1, <1>3, Connection DEF Attempt
  <2>2. \A q \in Pids \ {p} : my'[q].verdict = "none"
    BY <1>0, <2>1, AttemptMoves
  <2>3. st.streak <= barren /\ ("unverified" \notin Outcomes => st.streak = 0)
    BY <1>0, <2>1 DEF StreakIsEarned
  <2>4. barren' = (IF p \in Services THEN 0 ELSE barren)
    BY <1>3 DEF Connect
  <2>5. my'[p].verdict = "1" \/ (my'[p].verdict = "none" /\ "unverified" \notin Outcomes)
    BY <1>0, <1>3, Connection DEF TelemetryIsSteady
  <2>6. QED BY <1>0, <2>1, <2>2, <2>3, <2>4, <2>5 DEF StreakIsEarned
<1>4. ASSUME NEW p \in Pids, RecordVerdict(p) PROVE StreakIsEarned'
  <2>1. /\ UNCHANGED barren /\ pc[p] = "epilogue" /\ Attempt(p)
        /\ my[p].verdict \in {"none", "0", "1"}
    BY <1>0, <1>4, RecordedStreak DEF Attempt, TypeOK, Locals
  <2>2. p \in Attempting
    BY <2>1 DEF Attempting, Steps
  <2>3. \A q \in Pids \ {p} : my[q].verdict = "none" /\ my'[q].verdict = "none"
    BY <1>0, <2>1, <2>2, AttemptMoves, OneVerdict
  <2>4. my'[p].verdict = "none"
    BY <1>4, VerdictSteps
  <2>5. CASE p \notin Services \/ my[p].verdict = "none"
    <3>1. st'.streak = st.streak
      BY <1>0, <1>4, <2>5, RecordedStreak
    <3>2. \A q \in Services : my[q].verdict # "1"
      BY <1>0, <2>3, <2>5
    <3>3. QED BY <1>0, <2>1, <2>3, <2>4, <3>1, <3>2 DEF StreakIsEarned
  <2>6. CASE p \in Services /\ my[p].verdict = "0"
    BY <1>0, <1>4, <2>1, <2>3, <2>4, <2>6, RecordedStreak DEF StreakIsEarned
  <2>7. CASE p \in Services /\ my[p].verdict = "1"
    BY <1>0, <1>4, <2>1, <2>3, <2>4, <2>7, RecordedStreak DEF StreakIsEarned
  <2>8. QED BY <2>1, <2>5, <2>6, <2>7
<1>5. ASSUME ClearHistory PROVE StreakIsEarned'
  <2> DEFINE pending == {p \in Services : my[p].verdict = "0"}
  <2>1. st'.streak = 0 /\ my' = my /\ barren' = Cardinality(pending)
    BY <1>0, <1>5, ClearedStreak
  <2>2. IsFiniteSet(pending)
    BY Processes, FS_Subset
  <2>3. pending # {} => barren' > 0
    <3> HIDE DEF pending
    <3>1. QED BY <1>0, <2>1, <2>2, FS_EmptySet
  <2>4. \A p \in Services : my'[p].verdict = "0" => st'.streak < barren'
    BY <2>1, <2>3
  <2>5. "unverified" \notin Outcomes => \A p \in Pids : my'[p].verdict # "0"
    BY <2>1 DEF StreakIsEarned
  <2>6. st'.streak = 0 /\ 0 <= barren'
    BY <1>0, <2>1
  <2> HIDE DEF pending
  <2>7. QED BY <2>4, <2>5, <2>6 DEF StreakIsEarned
<1>6. ASSUME NEW p \in Pids, Escalate(p) PROVE StreakIsEarned'
  <2>1. st'.streak = 0 /\ my' = my /\ \A q \in Pids : my[q].verdict = "none"
    BY <1>0, <1>6, EscalatedStreak
  <2>2. \A q \in Pids : my'[q].verdict # "0"
    BY <2>1
  <2>3. st'.streak <= barren'
    BY <1>0, <2>1
  <2>4. QED BY <1>0, <2>1, <2>2, <2>3 DEF StreakIsEarned
<1>7. ASSUME ~ClearHistory,
             ~\E p \in Pids : \/ Fruitless(p) \/ Connect(p) \/ RecordVerdict(p) \/ Escalate(p)
      PROVE  StreakIsEarned'
  <2>1. barren' = barren /\ st'.streak = st.streak
    BY <1>0, <1>7, BarrenSteps, Untouched
  <2>2. ASSUME NEW q \in Pids PROVE my'[q].verdict = my[q].verdict
    <3>1. CASE Kill(q)
      <4>1. my[q].verdict = "none"
        BY <3>1 DEF Kill, VerdictsArePending, VerdictsAreRecorded
      <4>2. QED BY <3>1, <4>1, VerdictSteps
    <3>2. QED BY <1>7, <3>1, VerdictSteps
  <2>3. QED BY <1>0, <2>1, <2>2 DEF StreakIsEarned
<1>8. QED BY <1>2, <1>3, <1>4, <1>5, <1>6, <1>7

(* outcome.sh:409-421, 513-517: an attempt history is paused only after
   StreakLimit SERVICE dispatches in a row that brought no tunnel up, provided
   that verdicts are written and that a profile either has telemetry or has
   not: a session that comes up unconfirmed does not reset the streak. *)
THEOREM PausesAreEarned ==
  ASSUME VerdictsAreRecorded, TelemetryIsSteady PROVE Spec => PauseIsEarned
<1>1. Init => StreakIsEarned
  <2>1. Blank.verdict = "none" /\ NewFile.streak = 0
    BY DEF Blank, NewFile
  <2>2. QED BY <2>1, Processes DEF Init, StreakIsEarned, Pids
<1>2. IndInv /\ ViewIsFaithful /\ VerdictsArePending /\ StreakIsEarned /\ [Next]_vars
        => StreakIsEarned'
  BY StreakStaysEarned
<1>3. ASSUME IndInv, ViewIsFaithful, VerdictsArePending, StreakIsEarned, [Next]_vars,
             ~st.paused, st'.paused
      PROVE  barren >= StreakLimit
  <2>1. PICK p \in Pids : Escalate(p)
    BY <1>3, Untouched
  <2>2. st.streak >= StreakLimit /\ \A q \in Services : my[q].verdict # "1"
    BY <1>3, <2>1, EscalatedStreak DEF Pids
  <2>3. st.streak \in Nat /\ barren \in Nat /\ StreakLimit \in Nat
    BY <1>3, Numbers DEF IndInv, TypeOK, Files
  <2>4. QED BY <1>3, <2>2, <2>3 DEF StreakIsEarned
<1>4. IndInv /\ ViewIsFaithful /\ VerdictsArePending /\ StreakIsEarned /\ [Next]_vars
        => [~st.paused /\ st'.paused => barren >= StreakLimit]_vars
  BY <1>3
<1>5. QED BY <1>1, <1>2, <1>4, IndInvAlways, FaithfulAlways, PendingAlways, PTL DEF Spec,
   PauseIsEarned

----------------------------------------------------------------------------
(* The least number, induction, and the ring of recent attempts *)

(* A set of numbers has a least one: their initial segments are finite sets,
   and inclusion is well-founded on those. *)
LEMMA NatMin ==
  ASSUME NEW S \in SUBSET Nat, S # {}
  PROVE \E n \in S : \A m \in S : n <= m
<1> DEFINE Below(n) == 0..n
<1> DEFINE T == {Below(n) : n \in S}
<1>1. ASSUME NEW n \in S PROVE Below(n) \in FiniteSubsetsOf(Nat)
  <2>1. n \in Int /\ 0 \in Int OBVIOUS
  <2>2. IsFiniteSet(0..n) BY <2>1, FS_Interval
  <2>3. 0..n \in SUBSET Nat OBVIOUS
  <2>4. QED BY <2>2, <2>3 DEF FiniteSubsetsOf
<1>2. T \subseteq FiniteSubsetsOf(Nat) /\ T # {}
  BY <1>1
<1>3. IsWellFoundedOn(StrictSubsetOrdering(Nat), FiniteSubsetsOf(Nat))
  BY FS_StrictSubsetOrderingWellFounded
<1>4. PICK x \in T : \A y \in T : ~(<<y, x>> \in StrictSubsetOrdering(Nat))
  <2> HIDE DEF T
  <2>1. QED BY <1>2, <1>3, WFMin
<1>5. PICK n \in S : x = Below(n)
  OBVIOUS
<1>6. ASSUME NEW m \in S, m < n PROVE FALSE
  <2>1. m \in Nat /\ n \in Nat OBVIOUS
  <2>2. Below(m) \subseteq Below(n) BY <2>1, <1>6
  <2>3. n \in Below(n) /\ n \notin Below(m) BY <2>1, <1>6
  <2>4. Below(m) \in SUBSET Nat /\ Below(n) \in SUBSET Nat BY <2>1
  <2>5. <<Below(m), Below(n)>> \in StrictSubsetOrdering(Nat)
    <3> HIDE DEF Below
    <3>1. Below(m) # Below(n) BY <2>3
    <3>2. QED BY <2>2, <2>4, <3>1 DEF StrictSubsetOrdering
  <2>6. QED BY <1>4, <1>5, <2>5
<1>7. ASSUME NEW m \in S PROVE n <= m
  <2>1. m \in Nat /\ n \in Nat OBVIOUS
  <2>2. QED BY <2>1, <1>6
<1>8. QED BY <1>7

(* Induction, said of a set. *)
LEMMA NatInduct ==
  ASSUME NEW S \in SUBSET Nat, 0 \in S, \A n \in S : n + 1 \in S
  PROVE S = Nat
<1> SUFFICES ASSUME NEW x \in Nat \ S PROVE FALSE
  OBVIOUS
<1>1. PICK n \in Nat \ S : \A m \in Nat \ S : n <= m
  BY NatMin
<1>2. n # 0 /\ n - 1 \in Nat
  BY <1>1
<1>3. n - 1 \in S
  BY <1>1, <1>2
<1>4. (n - 1) + 1 \in S
  BY <1>3
<1>5. QED BY <1>1, <1>4

(* LastOf is the latest of the times, when none of them is in the future. *)
LEMMA LastOfIsLast ==
  ASSUME TypeOK, NEW times \in SUBSET Nat, times # {}, \A a \in times : a <= now
  PROVE  LastOf(times) \in times /\ \A a \in times : a <= LastOf(times)
<1> DEFINE Ages == {now - a : a \in times}
<1>1. now \in Nat
  BY DEF TypeOK
<1>2. Ages \in SUBSET Nat /\ Ages # {}
  <2>1. ASSUME NEW a \in times PROVE now - a \in Nat
    <3>1. a \in Nat /\ a <= now
      OBVIOUS
    <3>2. QED BY <1>1, <3>1
  <2>2. QED BY <2>1
<1>3. PICK n \in Ages : \A m \in Ages : n <= m
  BY <1>2, NatMin
<1>4. PICK a \in times : n = now - a
  BY <1>3
<1>5. \A b \in times : a >= b
  <2>1. \A b \in times : now - a <= now - b
    BY <1>3, <1>4
  <2>2. QED BY <1>1, <2>1
<1>6. Max(times) \in times /\ \A b \in times : Max(times) >= b
  <2> HIDE DEF Ages
  <2>1. \E x \in times : \A b \in times : x >= b
    BY <1>5
  <2>2. QED BY <2>1 DEF Max
<1>7. QED BY <1>6 DEF LastOf

(* A ring within its cap loses nothing. *)
LEMMA LatestKeepsAll ==
  ASSUME NEW times \in SUBSET Nat, IsFiniteSet(times), Cardinality(times) <= Threshold
  PROVE  Latest(times) = times
<1> SUFFICES ASSUME NEW a \in times
             PROVE  Cardinality({b \in times : b > a}) < Threshold
  BY DEF Latest
<1> DEFINE later == {b \in times : b > a}
<1>1. later \in SUBSET (times \ {a})
  OBVIOUS
<1>2. IsFiniteSet(times \ {a}) /\ Cardinality(times \ {a}) = Cardinality(times) - 1
  BY FS_RemoveElement
<1>3. Cardinality(later) <= Cardinality(times \ {a})
  BY <1>1, <1>2, FS_Subset
<1>4. Cardinality(times) \in Nat /\ Cardinality(later) \in Nat
  BY <1>1, <1>2, FS_Subset, FS_CardinalityType
<1> HIDE DEF later
<1>5. Cardinality(later) < Threshold
  BY <1>2, <1>3, <1>4, Numbers
<1>6. QED BY <1>5 DEF later

(* The ring never outgrows its cap. *)
AttemptsAreFew == IsFiniteSet(st.attempts) /\ Cardinality(st.attempts) <= Threshold

(* A charged admission enters its time; nothing else is added. *)
LEMMA ChargeAddsOne ==
  ASSUME IndInv, ViewIsFaithful, AttemptsAreFew, NEW p \in Services, Grant(p)
  PROVE  /\ pc[p] = "decide" /\ ~st.paused /\ Attempting = {}
         /\ Recent(st.attempts) \in SUBSET Nat /\ IsFiniteSet(Recent(st.attempts))
         /\ Cardinality(Recent(st.attempts)) \in 0..Threshold - 1
         /\ \A a \in Recent(st.attempts) :
              a + Curve[Cardinality(Recent(st.attempts))] <= now /\ a < now
         /\ st'.attempts = Recent(st.attempts) \cup {now}
         /\ Cardinality(st'.attempts) = Cardinality(Recent(st.attempts)) + 1
<1> DEFINE recent == Recent(st.attempts)
<1>0. TypeOK /\ p \in Pids /\ pc[p] = "decide" /\ now \in Nat /\ st \in Files /\ st.attempts \in SUBSET Nat
  BY DEF IndInv, TypeOK, Pids, Grant, Admissible, Files
<1>1. /\ inside # None /\ (~HasLiveOwner => Attempting = {}) /\ view.file.paused = st.paused
      /\ Pruned.attempts = recent /\ st' = Charged(p)
      /\ Charged(p).attempts = Latest(recent \cup {now})
  BY <1>0, DeciderSees, ViewFields, Processes DEF ViewIsFaithful, Grant
<1>2. recent \in SUBSET Nat /\ recent \in SUBSET st.attempts /\ \A a \in recent : a <= now
  BY <1>0 DEF Recent
<1> HIDE DEF recent
<1>3. IsFiniteSet(recent) /\ Cardinality(recent) \in Nat
  BY <1>2, FS_Subset, FS_CardinalityType DEF AttemptsAreFew
<1>4. ~st.paused /\ Attempting = {} /\ Cardinality(recent) < Threshold /\ now >= Due
  BY <1>1 DEF Grant, Admissible, Unblocked
<1>5. Cardinality(recent) \in 0..Threshold - 1
  BY <1>3, <1>4, Numbers
<1>6. ASSUME NEW a \in recent PROVE a + Curve[Cardinality(recent)] <= now /\ a < now
  <2>1. LastOf(recent) \in recent /\ a <= LastOf(recent)
    BY <1>0, <1>2, LastOfIsLast
  <2>2. Cardinality(recent) \in 1..Threshold - 1
    BY <1>3, <1>5, FS_EmptySet
  <2>3. Curve[Cardinality(recent)] \in Nat /\ Curve[Cardinality(recent)] > 0
    BY <1>5, <2>2, CurveGrows
  <2>4. now >= LastOf(recent) + Curve[Cardinality(recent)]
    BY <1>1, <1>4 DEF Due
  <2>5. a \in Nat /\ LastOf(recent) \in Nat
    BY <1>2, <2>1
  <2>6. QED BY <1>0, <2>1, <2>3, <2>4, <2>5
<1>7. now \notin recent
  BY <1>0, <1>6
<1>8. /\ IsFiniteSet(recent \cup {now})
      /\ Cardinality(recent \cup {now}) = Cardinality(recent) + 1
  BY <1>3, <1>7, FS_AddElement
<1>9. Latest(recent \cup {now}) = recent \cup {now}
  BY <1>0, <1>2, <1>5, <1>8, Numbers, LatestKeepsAll
<1>10. QED BY <1>0, <1>1, <1>2, <1>3, <1>4, <1>5, <1>6, <1>8, <1>9 DEF recent

(* What becomes of the ring otherwise. *)
LEMMA RingSteps ==
  ASSUME IndInv, ViewIsFaithful, [Next]_vars, ~\E p \in Services : Grant(p)
  PROVE  /\ st'.attempts \in {{}, st.attempts, Recent(st.attempts)}
         /\ (~\E p \in Pids : RetireWindow(p) \/ Escalate(p) \/ OpenBreaker(p)) /\ ~ClearHistory
              => st'.attempts = st.attempts
<1>0. TypeOK
  BY DEF IndInv
<1>1. ASSUME NEW p \in Pids, Grant(p) PROVE st'.attempts = st.attempts
  BY <1>1, ViewFields DEF Grant, Admissible
<1>2. WriteFails => st'.attempts = st.attempts
  BY <1>0, ReadFields DEF WriteFails
<1>3. ASSUME NEW p \in Pids, RetireWindow(p) PROVE st'.attempts \in {{}, st.attempts}
  <2>1. Write(Retired) /\ pc[p] = "decide"
    BY <1>3 DEF RetireWindow, Poll, Decide
  <2>2. QED BY <1>2, <2>1, ViewFields DEF Write
<1>4. ASSUME NEW p \in Pids, Escalate(p) PROVE st'.attempts \in {{}, st.attempts}
  <2> DEFINE file == [Retired EXCEPT !.paused = TRUE, !.streak = 0]
  <2>1. Write(file) /\ pc[p] = "decide"
    BY <1>4 DEF Escalate, Poll, Decide
  <2>2. file.attempts = {}
    BY <2>1, ViewFields DEF Files
  <2> HIDE DEF file
  <2>3. QED BY <1>2, <2>1, <2>2 DEF Write
<1>5. ASSUME NEW p \in Pids, OpenBreaker(p) PROVE st'.attempts \in {st.attempts, Recent(st.attempts)}
  <2> DEFINE file == [Pruned EXCEPT !.openUntil = now + Breaker]
  <2>1. Write(file) /\ pc[p] = "decide"
    BY <1>5 DEF OpenBreaker, Poll, Decide
  <2>2. file.attempts = Recent(st.attempts)
    BY <2>1, ViewFields DEF Files
  <2> HIDE DEF file
  <2>3. QED BY <1>2, <2>1, <2>2 DEF Write
<1>6. ClearHistory => st'.attempts \in {{}, st.attempts}
  <2> DEFINE file == [Read EXCEPT !.attempts = {}, !.openUntil = 0, !.streak = 0]
  <2>1. file.attempts = {}
    BY <1>0, ReadFields DEF Files
  <2>2. ClearHistory => Write(file)
    BY DEF ClearHistory
  <2> HIDE DEF file
  <2>3. QED BY <1>2, <2>1, <2>2 DEF Write
<1>7. CASE ~ClearHistory /\ ~\E p \in Pids : RetireWindow(p) \/ Escalate(p) \/ OpenBreaker(p)
  BY <1>1, <1>7, Untouched
<1>8. QED BY <1>3, <1>4, <1>5, <1>6, <1>7

(* AttemptsAreFew is inductive. *)
LEMMA RingStaysSmall ==
  ASSUME IndInv, ViewIsFaithful, AttemptsAreFew, [Next]_vars PROVE AttemptsAreFew'
<1>1. ASSUME NEW p \in Services, Grant(p) PROVE AttemptsAreFew'
  <2>1. /\ IsFiniteSet(Recent(st.attempts)) /\ Cardinality(Recent(st.attempts)) \in 0..Threshold - 1
        /\ st'.attempts = Recent(st.attempts) \cup {now}
        /\ Cardinality(st'.attempts) = Cardinality(Recent(st.attempts)) + 1
    BY <1>1, ChargeAddsOne
  <2>2. IsFiniteSet(st'.attempts)
    BY <2>1, FS_AddElement
  <2>3. Cardinality(st'.attempts) <= Threshold
    BY <2>1, Numbers
  <2>4. QED BY <2>2, <2>3 DEF AttemptsAreFew
<1>2. CASE ~\E p \in Services : Grant(p)
  <2>1. st'.attempts \in SUBSET st.attempts
    BY <1>2, RingSteps DEF Recent
  <2>2. /\ IsFiniteSet(st'.attempts) /\ Cardinality(st'.attempts) <= Cardinality(st.attempts)
        /\ Cardinality(st'.attempts) \in Nat /\ Cardinality(st.attempts) \in Nat
    BY <2>1, FS_Subset, FS_CardinalityType DEF AttemptsAreFew
  <2>3. QED BY <2>2, Numbers DEF AttemptsAreFew
<1>3. QED BY <1>1, <1>2

(* outcome.sh:574-582: the ring of every behaviour is within its cap. *)
LEMMA FewAlways == Spec => []AttemptsAreFew
<1>1. Init => AttemptsAreFew
  <2>1. NewFile.attempts = {}
    BY DEF NewFile
  <2>2. ASSUME Init PROVE AttemptsAreFew
    <3>1. st.attempts = {}
      BY <2>1, <2>2 DEF Init
    <3>2. QED BY <3>1, FS_EmptySet, Numbers DEF AttemptsAreFew
  <2>3. QED BY <2>2
<1>2. QED BY <1>1, RingStaysSmall, IndInvAlways, FaithfulAlways, PTL DEF Spec

----------------------------------------------------------------------------
(* The end of a barren series *)

(* An unverified attempt waits in its epilogue for its verdict to be recorded. *)
UnverifiedWaits == \A p \in Pids : my[p].verdict = "0" => pc[p] = "epilogue"

(* UnverifiedWaits is inductive. *)
LEMMA UnverifiedStaysWaiting ==
  ASSUME IndInv, VerdictsArePending, UnverifiedWaits, [Next]_vars PROVE UnverifiedWaits'
<1>0. TypeOK
  BY DEF IndInv
<1> SUFFICES ASSUME NEW q \in Pids, my'[q].verdict = "0" PROVE pc'[q] = "epilogue"
  BY DEF UnverifiedWaits
<1>1. CASE Fruitless(q)
  BY <1>0, <1>1, FruitlessDispatch
<1>2. CASE Connect(q)
  BY <1>0, <1>2, Connection
<1>3. CASE ~Fruitless(q) /\ ~Connect(q)
  <2>1. ~RecordVerdict(q) /\ ~Kill(q) /\ pc[q] = "epilogue"
    BY <1>3, VerdictSteps DEF UnverifiedWaits
  <2>2. ~Start(q) /\ ~AdmitBegin(q) /\ ~Admission(q)
    BY <1>0, <2>1, AdmissionMoves DEF Start, AdmitBegin
  <2>3. ~Attempt(q)
    BY <1>3, <2>1 DEF Attempt, GenerateFails, SessionOver, Prepare, PrepareFails, Reserve,
       ReserveFails, Generate, Daemonize,
       Release, Go
  <2>4. QED BY <1>0, <2>1, <2>2, <2>3, PcSteps
<1>4. QED BY <1>1, <1>2, <1>3

(* An unverified attempt is not forgotten, in any behaviour. *)
LEMMA WaitingAlways == Spec => []UnverifiedWaits
<1>1. Init => UnverifiedWaits
  <2>1. Blank.verdict = "none"
    BY DEF Blank
  <2>2. QED BY <2>1 DEF Init, UnverifiedWaits
<1>2. QED BY <1>1, UnverifiedStaysWaiting, IndInvAlways, PendingAlways, PTL DEF Spec

(* A SERVICE attempt is under way and has not dispatched its connection. *)
UnderWay == \E p \in Services : pc[p] \in Dispatching

(* Only the admission of a service gets one under way. *)
LEMMA UnderWaySteps ==
  ASSUME IndInv, [Next]_vars, UnderWay', ~\E p \in Services : Grant(p) PROVE UnderWay
<1>0. TypeOK /\ Services \subseteq Pids
  BY DEF IndInv, Pids
<1>1. PICK p \in Services : pc'[p] \in Dispatching
  BY DEF UnderWay
<1>2. ASSUME pc[p] \notin Dispatching PROVE FALSE
  <2>1. ~Start(p) /\ ~AdmitBegin(p) /\ ~Kill(p)
    BY <1>0, <1>1 DEF Start, AdmitBegin, Kill, TypeOK, Dispatching
  <2>2. ~Admission(p)
    BY <1>0, <1>1, AdmissionMoves DEF Dispatching
  <2>3. ~Attempt(p)
    BY <1>0, <1>1, <1>2, AttemptMoves DEF AttemptEdges, Dispatching
  <2>4. QED BY <1>0, <1>1, <1>2, <2>1, <2>2, <2>3, PcSteps DEF Dispatching
<1>3. QED BY <1>2 DEF UnderWay

(* Every dispatch without a tunnel is held unverified and its verdict is
   written; the limit is 18 (outcome.sh:422-423). *)
FailuresAreHeld ==
  /\ ~WritesMayFail /\ "epilogue" \notin CrashPoints /\ "rejected" \notin Outcomes
  /\ StreakLimit > 1

(* No admission finds that the window has forgotten attempts the file lists. *)
Brisk == \A p \in Services : Admissible(p) => Recent(view.file.attempts) = view.file.attempts

(* A dispatch without a tunnel is in the streak, on its way to it, or still
   has its entry in the ring. *)
BarrenIsCounted ==
  /\ \A p \in Services : my[p].verdict = "1" => barren = 0
  /\ ~st.paused => /\ (\A p \in Services : my[p].verdict # "0") => barren <= st.streak
                   /\ barren <= st.streak + 1
                   /\ barren < StreakLimit + Cardinality(st.attempts)
                   /\ UnderWay => barren + 1 < StreakLimit + Cardinality(st.attempts)
  /\ st.paused => ~UnderWay /\ barren < StreakLimit + Threshold

(* BarrenIsCounted is kept by a dispatch ... *)
LEMMA DispatchIsCounted ==
  ASSUME FailuresAreHeld, IndInv, ViewIsFaithful, VerdictsArePending, UnverifiedWaits,
         AttemptsAreFew, BarrenIsCounted, [Next]_vars,
         NEW p \in Services, Fruitless(p) \/ Connect(p)
  PROVE  BarrenIsCounted'
<1>0. /\ TypeOK /\ p \in Pids /\ st.streak \in Nat /\ barren \in Nat /\ StreakLimit \in Nat
      /\ Cardinality(st.attempts) \in Nat /\ StreakLimit > 1 /\ "rejected" \notin Outcomes
  BY Numbers, FS_CardinalityType DEF IndInv, TypeOK, Files, AttemptsAreFew, Pids, FailuresAreHeld
<1>1. UNCHANGED st /\ pc[p] = "dispatch"
  BY <1>0, FruitlessDispatch, Connection
<1>2. UnderWay /\ p \in Attempting /\ Attempt(p)
  BY <1>0, <1>1 DEF UnderWay, Dispatching, Attempting, Steps, Attempt
<1>3. ~st.paused /\ barren + 1 < StreakLimit + Cardinality(st.attempts)
  BY <1>2 DEF BarrenIsCounted
<1>4. \A q \in Pids : my[q].verdict = "none"
  BY <1>1, <1>2, OneVerdict DEF VerdictsArePending
<1>5. \A q \in Pids \ {p} : my'[q].verdict = "none"
  BY <1>0, <1>2, <1>4, AttemptMoves
<1>6. barren <= st.streak
  <2>1. \A q \in Services : my[q].verdict # "0"
    BY <1>4 DEF Pids
  <2>2. QED BY <1>3, <2>1 DEF BarrenIsCounted
<1>7. ~UnderWay'
  <2>1. \A q \in Services \ {p} : pc'[q] \notin Dispatching
    BY <1>0, <1>2, AttemptMoves DEF IndInv, AttemptOwnsProfile, Attempting, Dispatching, Steps, Pids
  <2>2. pc'[p] \notin Dispatching
    BY <1>0, FruitlessDispatch, Connection DEF Dispatching
  <2>3. QED BY <2>1, <2>2 DEF UnderWay
<1>8. st'.streak = st.streak /\ st'.attempts = st.attempts /\ st'.paused = st.paused
  BY <1>1
<1>9. CASE Fruitless(p)
  <2>1. barren' = barren + 1
    BY <1>9 DEF Fruitless
  <2>2. my'[p].verdict = "0"
    BY <1>0, <1>9, FruitlessDispatch
  <2>3. \A q \in Services : my'[q].verdict # "1"
    BY <1>5, <2>2 DEF Pids
  <2>4. barren' <= st'.streak + 1 /\ barren' < StreakLimit + Cardinality(st'.attempts)
    BY <1>0, <1>3, <1>6, <1>8, <2>1
  <2>5. QED BY <1>3, <1>7, <1>8, <2>2, <2>3, <2>4 DEF BarrenIsCounted
<1>10. CASE Connect(p)
  <2>1. barren' = 0
    BY <1>10 DEF Connect
  <2>2. /\ barren' <= st'.streak /\ barren' <= st'.streak + 1
        /\ barren' < StreakLimit + Cardinality(st'.attempts)
    BY <1>0, <1>8, <2>1
  <2>3. QED BY <1>3, <1>7, <1>8, <2>1, <2>2 DEF BarrenIsCounted
<1>11. QED BY <1>9, <1>10

(* ... by the admission of a service, which charges the ring ... *)
LEMMA ChargeIsCounted ==
  ASSUME FailuresAreHeld, IndInv, ViewIsFaithful, VerdictsArePending, UnverifiedWaits,
         AttemptsAreFew, BarrenIsCounted, Brisk, [Next]_vars, NEW p \in Services, Grant(p)
  PROVE  BarrenIsCounted'
<1>0. /\ TypeOK /\ p \in Pids /\ st.streak \in Nat /\ barren \in Nat /\ StreakLimit \in Nat
      /\ Cardinality(st.attempts) \in Nat
  BY Numbers, FS_CardinalityType DEF IndInv, TypeOK, Files, AttemptsAreFew, Pids
<1>1. /\ pc[p] = "decide" /\ ~st.paused /\ Attempting = {}
      /\ Cardinality(st'.attempts) = Cardinality(Recent(st.attempts)) + 1
  BY ChargeAddsOne
<1>2. Recent(st.attempts) = st.attempts
  <2>1. view.file.attempts = st.attempts
    BY <1>0, <1>1, DeciderSees, Processes DEF ViewIsFaithful
  <2>2. QED BY <2>1 DEF Brisk, Grant
<1>3. st'.streak = st.streak /\ st'.paused = st.paused /\ barren' = barren
  BY <1>0, <1>1, ViewFields, AdmissionMoves DEF Grant, Admission
<1>4. my' = [my EXCEPT ![p] = Blank] /\ my[p].verdict = "none" /\ Blank.verdict = "none"
  BY <1>0, <1>1 DEF Grant, Blank, VerdictsArePending
<1>5. \A q \in Pids : my'[q].verdict = my[q].verdict
  BY <1>0, <1>4 DEF TypeOK
<1>6. \A q \in Services : my'[q].verdict = my[q].verdict
  BY <1>5 DEF Pids
<1>7. /\ barren <= st.streak + 1 /\ barren < StreakLimit + Cardinality(st.attempts)
      /\ (\A q \in Services : my[q].verdict # "0") => barren <= st.streak
      /\ \A q \in Services : my[q].verdict = "1" => barren = 0
  BY <1>1 DEF BarrenIsCounted
<1>8. /\ barren' + 1 < StreakLimit + Cardinality(st'.attempts)
      /\ barren' < StreakLimit + Cardinality(st'.attempts)
  BY <1>0, <1>1, <1>2, <1>3, <1>7
<1>9. QED BY <1>1, <1>3, <1>6, <1>7, <1>8 DEF BarrenIsCounted

(* ... by the recording of a verdict ... *)
LEMMA RecordIsCounted ==
  ASSUME FailuresAreHeld, IndInv, ViewIsFaithful, VerdictsArePending, UnverifiedWaits,
         AttemptsAreFew, BarrenIsCounted, [Next]_vars, NEW p \in Pids, RecordVerdict(p)
  PROVE  BarrenIsCounted'
<1>0. /\ TypeOK /\ st.streak \in Nat /\ barren \in Nat /\ StreakLimit \in Nat
      /\ Cardinality(st.attempts) \in Nat /\ ~WritesMayFail /\ Services \subseteq Pids
  BY Numbers, FS_CardinalityType DEF IndInv, TypeOK, Files, AttemptsAreFew, Pids, FailuresAreHeld
<1>1. /\ barren' = barren /\ pc[p] = "epilogue" /\ Attempt(p)
      /\ my[p].verdict \in {"none", "0", "1"}
  BY <1>0, RecordedStreak DEF Attempt, TypeOK, Locals
<1>2. p \in Attempting
  BY <1>1 DEF Attempting, Steps
<1>3. \A q \in Pids \ {p} : my[q].verdict = "none" /\ my'[q].verdict = "none"
  BY <1>0, <1>1, <1>2, AttemptMoves, OneVerdict
<1>4. my'[p].verdict = "none"
  BY VerdictSteps
<1>5. \A q \in Services : my'[q].verdict = "none"
  BY <1>0, <1>3, <1>4
<1>6. ~UnderWay'
  BY <1>0, <1>1, <1>2, AttemptMoves
  DEF UnderWay, IndInv, AttemptOwnsProfile, Attempting, Dispatching, Steps, AttemptEdges
<1>7. st'.attempts = st.attempts /\ st'.paused = st.paused
  <2>1. ~ClearHistory /\ ~\E q \in Pids : \/ Grant(q) \/ RetireWindow(q) \/ Escalate(q)
                                          \/ OpenBreaker(q)
    <3>1. ~ClearHistory
      BY <1>0, <1>1 DEF ClearHistory, RecordVerdict, Go, TypeOK, locals
    <3>2. ASSUME NEW q \in Pids, Admission(q) PROVE FALSE
      BY <1>0, <1>1, <3>2, AdmissionMoves, AttemptMoves DEF AttemptEdges
    <3>3. QED BY <3>1, <3>2 DEF Admission
  <2>2. QED BY <2>1, Untouched
<1>8. ~st.paused => barren' <= st'.streak
  <2>0. st.streak + 1 \in Nat
    BY <1>0
  <2>1. CASE p \notin Services \/ my[p].verdict = "none"
    <3>1. st'.streak = st.streak
      BY <1>0, <2>1, RecordedStreak
    <3>2. \A q \in Services : my[q].verdict # "0"
      BY <1>0, <1>3, <2>1
    <3>3. QED BY <1>1, <3>1, <3>2 DEF BarrenIsCounted
  <2>2. CASE p \in Services /\ my[p].verdict = "0"
    BY <1>0, <1>1, <2>2, RecordedStreak DEF BarrenIsCounted
  <2>3. CASE p \in Services /\ my[p].verdict = "1"
    <3>1. st'.streak = 0 /\ barren = 0
      BY <1>0, <2>3, RecordedStreak DEF BarrenIsCounted
    <3>2. QED BY <1>1, <3>1
  <2>4. QED BY <1>1, <2>1, <2>2, <2>3
<1>9. st'.streak \in Nat
  BY <1>0, StepKeepsType DEF TypeOK, Files
<1>10. ~st.paused => barren' <= st'.streak + 1
  BY <1>0, <1>1, <1>8, <1>9
<1>11. QED BY <1>1, <1>5, <1>6, <1>7, <1>8, <1>10 DEF BarrenIsCounted

(* ... by a new secret ... *)
LEMMA ClearIsCounted ==
  ASSUME FailuresAreHeld, IndInv, ViewIsFaithful, VerdictsArePending, UnverifiedWaits,
         AttemptsAreFew, BarrenIsCounted, [Next]_vars, ClearHistory
  PROVE  BarrenIsCounted'
<1> DEFINE pending == {p \in Services : my[p].verdict = "0"}
<1>0. /\ TypeOK /\ ~WritesMayFail /\ Services \subseteq Pids
      /\ StreakLimit \in Nat /\ Threshold \in Nat \ {0} /\ StreakLimit > 1
  BY Numbers DEF IndInv, Pids, FailuresAreHeld
<1>1. /\ st'.streak = 0 /\ st'.attempts = {} /\ st'.paused = st.paused
      /\ UNCHANGED <<pc, my>> /\ barren' = Cardinality(pending)
  BY <1>0, ClearedStreak
<1>2. Cardinality(st'.attempts) = 0
  BY <1>1, FS_EmptySet
<1>3. ASSUME NEW p \in pending
      PROVE  pending = {p} /\ p \in Attempting
  BY <1>0, OneVerdict DEF UnverifiedWaits, Attempting, Steps
<1>4. barren' \in 0..1 /\ (pending = {} => barren' = 0)
  <2> HIDE DEF pending
  <2>1. CASE pending = {}
    BY <1>1, <2>1, FS_EmptySet
  <2>2. CASE pending # {}
    <3>1. PICK p \in pending : TRUE
      BY <2>2
    <3>2. pending = {p}
      BY <1>3, <3>1
    <3>3. Cardinality(pending) = 1
      BY <3>2, FS_Singleton
    <3>4. QED BY <1>1, <2>2, <3>3
  <2>3. QED BY <2>1, <2>2
<1>5. ASSUME UnderWay' PROVE pending = {}
  <2>1. PICK q \in Services : pc[q] \in Dispatching
    BY <1>1, <1>5 DEF UnderWay
  <2>2. q \in Attempting /\ my[q].verdict = "none"
    BY <1>0, <2>1 DEF Attempting, Dispatching, Steps, VerdictsArePending
  <2>3. QED BY <1>0, <2>2, OneVerdict
<1>6. ASSUME NEW p \in Services, my'[p].verdict = "1" PROVE pending = {}
  <2>1. my[p].verdict = "1" /\ p \in Pids
    BY <1>0, <1>1, <1>6
  <2>2. p \in Attempting
    BY <2>1 DEF VerdictsArePending, Attempting, Steps
  <2>3. QED BY <1>0, <2>1, <2>2, OneVerdict
<1>7. UnderWay' <=> UnderWay
  BY <1>1 DEF UnderWay
<1>8. (\A p \in Services : my'[p].verdict # "0") => pending = {}
  BY <1>1
<1> HIDE DEF pending
<1>9. /\ barren' <= st'.streak + 1 /\ barren' < StreakLimit + Cardinality(st'.attempts)
      /\ pending = {} => barren' <= st'.streak /\ barren' + 1 < StreakLimit + Cardinality(st'.attempts)
      /\ barren' < StreakLimit + Threshold
  BY <1>0, <1>1, <1>2, <1>4
<1>10. st'.paused => ~UnderWay'
  BY <1>1, <1>7 DEF BarrenIsCounted
<1>11. QED BY <1>4, <1>5, <1>6, <1>8, <1>9, <1>10 DEF BarrenIsCounted

(* ... and by whatever empties the ring. *)
LEMMA RetireIsCounted ==
  ASSUME FailuresAreHeld, IndInv, ViewIsFaithful, VerdictsArePending, UnverifiedWaits,
         AttemptsAreFew, BarrenIsCounted, [Next]_vars, NEW p \in Pids,
         RetireWindow(p) \/ Escalate(p)
  PROVE  BarrenIsCounted'
<1>0. /\ TypeOK /\ ~WritesMayFail /\ Services \subseteq Pids /\ st.streak \in Nat /\ barren \in Nat
      /\ StreakLimit \in Nat /\ Threshold \in Nat \ {0}
      /\ Cardinality(st.attempts) \in Nat /\ Cardinality(st.attempts) <= Threshold
  BY Numbers, FS_CardinalityType DEF IndInv, TypeOK, Files, AttemptsAreFew, Pids, FailuresAreHeld
<1>1. pc[p] = "decide" /\ UNCHANGED <<my, barren>> /\ Unblocked
  BY DEF RetireWindow, Escalate, Poll, Decide, BreakerExpired
<1>2. inside # None /\ (~HasLiveOwner => Attempting = {})
  BY <1>0, <1>1, DeciderSees, Processes
<1>3. Attempting = {} /\ ~st.paused
  BY <1>1, <1>2 DEF Unblocked, ViewIsFaithful
<1>4. \A q \in Services : my[q].verdict = "none" /\ my'[q].verdict = "none"
  BY <1>0, <1>1, <1>3 DEF VerdictsArePending, Attempting, Steps
<1>5. barren <= st.streak /\ barren < StreakLimit + Cardinality(st.attempts)
  BY <1>3, <1>4 DEF BarrenIsCounted
<1>6. ~UnderWay
  BY <1>0, <1>3 DEF UnderWay, Dispatching, Attempting, Steps
<1>7. ~UnderWay'
  <2>1. Admission(p)
    BY DEF Admission
  <2>2. pc'[p] = "admit"
    BY <1>0 DEF RetireWindow, Escalate, Poll, Decide, TypeOK
  <2>3. QED BY <1>0, <1>6, <2>1, <2>2, AdmissionMoves DEF UnderWay, Dispatching
<1>8. CASE RetireWindow(p)
  <2>1. st' = Retired /\ Pruned.streak < StreakLimit
    BY <1>0, <1>8 DEF RetireWindow, Write, WriteFails
  <2>2. st'.attempts = {} /\ st'.streak = st.streak /\ st'.paused = st.paused /\ st.streak < StreakLimit
    BY <1>1, <2>1, ViewFields
  <2>3. Cardinality(st'.attempts) = 0
    BY <2>2, FS_EmptySet
  <2>4. /\ barren' <= st'.streak /\ barren' <= st'.streak + 1
        /\ barren' < StreakLimit + Cardinality(st'.attempts)
    BY <1>0, <1>1, <1>5, <2>2, <2>3
  <2>5. QED BY <1>3, <1>4, <1>7, <2>2, <2>4 DEF BarrenIsCounted
<1>9. CASE Escalate(p)
  <2>1. st'.paused = TRUE
    BY <1>0, <1>9, EscalatedStreak
  <2>2. barren' < StreakLimit + Threshold
    BY <1>0, <1>1, <1>5
  <2>3. QED BY <1>4, <1>7, <2>1, <2>2 DEF BarrenIsCounted
<1>10. QED BY <1>8, <1>9

(* BarrenIsCounted is inductive, while attempts are brisk. *)
LEMMA BarrenStaysCounted ==
  ASSUME FailuresAreHeld, IndInv, ViewIsFaithful, VerdictsArePending, UnverifiedWaits,
         AttemptsAreFew, BarrenIsCounted, Brisk, [Next]_vars
  PROVE  BarrenIsCounted'
<1>0. /\ TypeOK /\ Services \subseteq Pids /\ "epilogue" \notin CrashPoints
  BY DEF IndInv, Pids, FailuresAreHeld
<1>1. ASSUME ~ClearHistory,
             ~\E p \in Services : Fruitless(p) \/ Connect(p) \/ Grant(p),
             ~\E p \in Pids : RecordVerdict(p) \/ RetireWindow(p) \/ Escalate(p)
      PROVE  BarrenIsCounted'
  <2>1. barren' = barren /\ st'.streak = st.streak /\ st'.paused = st.paused
    BY <1>0, <1>1, BarrenSteps, Untouched
  <2>2. st'.attempts = st.attempts
    <3>1. ASSUME NEW p \in Pids, OpenBreaker(p) PROVE Recent(st.attempts) = st.attempts
      <4>1. pc[p] = "decide" /\ Cardinality(Pruned.attempts) >= Threshold
        BY <3>1 DEF OpenBreaker, Poll, Decide
      <4>2. Cardinality(Recent(st.attempts)) >= Threshold /\ Recent(st.attempts) \in SUBSET st.attempts
        BY <4>1, ViewFields DEF Recent
      <4>3. IsFiniteSet(st.attempts) /\ Cardinality(st.attempts) <= Threshold
        BY DEF AttemptsAreFew
      <4>4. /\ Cardinality(Recent(st.attempts)) <= Cardinality(st.attempts)
            /\ Cardinality(st.attempts) \in Nat /\ Cardinality(Recent(st.attempts)) \in Nat
        BY <4>2, <4>3, FS_Subset, FS_CardinalityType
      <4>5. Cardinality(st.attempts) = Cardinality(Recent(st.attempts))
        BY <4>2, <4>3, <4>4, Numbers
      <4>6. QED BY <4>2, <4>3, <4>5, FS_Subset
    <3>2. CASE \E p \in Pids : OpenBreaker(p)
      <4>1. PICK p \in Pids : OpenBreaker(p)
        BY <3>2
      <4> DEFINE file == [Pruned EXCEPT !.openUntil = now + Breaker]
      <4>2. pc[p] = "decide" /\ Write(file)
        BY <4>1 DEF OpenBreaker, Poll, Decide
      <4>3. file.attempts = Recent(st.attempts)
        BY <4>2, ViewFields DEF Files
      <4>4. st' = file
        BY <4>2 DEF Write, WriteFails, FailuresAreHeld
      <4> HIDE DEF file
      <4>5. QED BY <3>1, <4>1, <4>3, <4>4
    <3>3. CASE ~\E p \in Pids : OpenBreaker(p)
      BY <1>1, <3>3, RingSteps
    <3>4. QED BY <3>2, <3>3
  <2>3. UnderWay' => UnderWay
    BY <1>1, UnderWaySteps
  <2>4. ASSUME NEW q \in Services
        PROVE  my'[q].verdict = my[q].verdict \/ (my'[q].verdict = "none" /\ my[q].verdict # "0")
    <3>1. CASE Kill(q)
      <4>1. my[q].verdict # "0"
        BY <1>0, <3>1 DEF Kill, UnverifiedWaits
      <4>2. QED BY <1>0, <3>1, <4>1, VerdictSteps
    <3>2. QED BY <1>0, <1>1, <3>1, VerdictSteps
  <2>5. \A q \in Services : my'[q].verdict = "1" => barren' = 0
    BY <2>1, <2>4 DEF BarrenIsCounted
  <2>6. (\A q \in Services : my'[q].verdict # "0") => \A q \in Services : my[q].verdict # "0"
    BY <2>4
  <2>7. QED BY <2>1, <2>2, <2>3, <2>5, <2>6 DEF BarrenIsCounted
<1>2. QED
  BY <1>1, DispatchIsCounted, ChargeIsCounted, RecordIsCounted, ClearIsCounted, RetireIsCounted

(* outcome.sh:409-421: attempts that bring no tunnel up end in a pause: there are
   never more in a row than the streak limit and the ring add up to.  Attempts
   so slow that the window forgets them never reach the threshold, and are never
   escalated: hence Brisk. *)
THEOREM BarrenAttemptsAreFew == ASSUME FailuresAreHeld PROVE Spec /\ []Brisk => []BarrenAttemptsEnd
<1>1. Init => BarrenIsCounted
  <2> SUFFICES ASSUME Init PROVE BarrenIsCounted
    OBVIOUS
  <2>1. Blank.verdict = "none" /\ NewFile.streak = 0 /\ NewFile.attempts = {} /\ NewFile.paused = FALSE
    BY DEF Blank, NewFile
  <2>2. st.streak = 0 /\ st.attempts = {} /\ ~st.paused /\ barren = 0
    BY <2>1 DEF Init
  <2>3. ~UnderWay
    BY DEF Init, UnderWay, Dispatching, Pids
  <2>4. Cardinality(st.attempts) = 0
    BY <2>2, FS_EmptySet
  <2>5. barren <= st.streak /\ barren <= st.streak + 1 /\ barren < StreakLimit + Cardinality(st.attempts)
    BY <2>2, <2>4, Numbers
  <2>6. QED BY <2>2, <2>3, <2>5 DEF BarrenIsCounted
<1>2. ASSUME IndInv, AttemptsAreFew, BarrenIsCounted PROVE BarrenAttemptsEnd
  <2>1. /\ barren \in Nat /\ StreakLimit \in Nat /\ Threshold \in Nat
        /\ Cardinality(st.attempts) \in Nat /\ Cardinality(st.attempts) <= Threshold
    BY <1>2, Numbers, FS_CardinalityType DEF IndInv, TypeOK, AttemptsAreFew
  <2>2. barren < StreakLimit + Cardinality(st.attempts) \/ barren < StreakLimit + Threshold
    BY <1>2 DEF BarrenIsCounted
  <2>3. QED BY <2>1, <2>2 DEF BarrenAttemptsEnd
<1>3. QED
  BY <1>1, <1>2, BarrenStaysCounted, IndInvAlways, FaithfulAlways, PendingAlways, WaitingAlways,
     FewAlways, PTL DEF Spec

----------------------------------------------------------------------------
(* The distance between attempts: the curve *)

(* The curve grows, and so do its sums. *)
LEMMA CurveIsMonotone ==
  ASSUME NEW i \in 0..Threshold - 1, NEW j \in 0..Threshold - 1, i <= j
  PROVE  Curve[i] <= Curve[j]
<1> DEFINE S == {d \in Nat : \A n \in 0..Threshold - 1 :
                   n + d <= Threshold - 1 => Curve[n] <= Curve[n + d]}
<1>0. /\ Threshold \in Nat \ {0} /\ \A n \in 0..Threshold - 1 : Curve[n] \in Nat
  BY Numbers, CurveGrows
<1>1. 0 \in S
  BY <1>0
<1>2. ASSUME NEW d \in S PROVE d + 1 \in S
  <2> SUFFICES ASSUME NEW n \in 0..Threshold - 1, n + (d + 1) <= Threshold - 1
               PROVE  Curve[n] <= Curve[n + (d + 1)]
    OBVIOUS
  <2>1. n + d <= Threshold - 1 /\ n + d \in 0..Threshold - 1
    BY <1>0
  <2>2. n + d + 1 \in 1..Threshold - 1 /\ (n + d + 1) - 1 = n + d /\ n + (d + 1) = n + d + 1
    BY <1>0, <2>1
  <2>3. Curve[n + d + 1] >= Curve[n + d]
    BY <2>2, CurveGrows
  <2>4. Curve[n] <= Curve[n + d]
    BY <2>1
  <2>5. Curve[n] \in Nat /\ Curve[n + d] \in Nat /\ Curve[n + d + 1] \in Nat
    BY <1>0, <2>1, <2>2
  <2>6. QED BY <2>2, <2>3, <2>4, <2>5
<1>3. S = Nat
  <2>1. S \in SUBSET Nat
    OBVIOUS
  <2> HIDE DEF S
  <2>2. QED BY <1>1, <1>2, <2>1, NatInduct
<1>4. j - i \in S /\ i + (j - i) = j /\ j <= Threshold - 1
  <2>1. j - i \in Nat /\ i + (j - i) = j /\ j <= Threshold - 1
    BY <1>0
  <2> HIDE DEF S
  <2>2. QED BY <1>3, <2>1
<1>5. \A n \in 0..Threshold - 1 : n + (j - i) <= Threshold - 1 => Curve[n] <= Curve[n + (j - i)]
  BY <1>4
<1>6. QED BY <1>4, <1>5

(* The recursion of CurveSum has a solution, by induction on its domain. *)
LEMMA SumsExist ==
  ASSUME NEW n \in Nat, n < Threshold
  PROVE  \E f : f = [k \in 0..n |-> IF k = 0 THEN 0 ELSE f[k - 1] + Curve[k]]
<1> DEFINE S == {m \in Nat : \E f : f = [k \in 0..m |-> IF k = 0 THEN 0 ELSE f[k - 1] + Curve[k]]}
<1>1. 0 \in S
  <2> DEFINE f == [k \in 0..0 |-> 0]
  <2>1. f = [k \in 0..0 |-> IF k = 0 THEN 0 ELSE f[k - 1] + Curve[k]]
    OBVIOUS
  <2>2. QED BY <2>1
<1>2. ASSUME NEW m \in S PROVE m + 1 \in S
  <2>1. PICK f : f = [k \in 0..m |-> IF k = 0 THEN 0 ELSE f[k - 1] + Curve[k]]
    OBVIOUS
  <2> DEFINE g == [k \in 0..m + 1 |-> IF k = m + 1 THEN f[m] + Curve[k] ELSE f[k]]
  <2>2. m \in Nat
    OBVIOUS
  <2>3. ASSUME NEW k \in 0..m + 1
        PROVE  g[k] = IF k = 0 THEN 0 ELSE g[k - 1] + Curve[k]
    <3>1. CASE k = 0
      BY <2>1, <2>2, <3>1
    <3>2. CASE k \in 1..m
      <4>1. g[k] = f[k] /\ g[k - 1] = f[k - 1] /\ k # 0
        BY <2>2, <3>2
      <4>2. f[k] = f[k - 1] + Curve[k]
        BY <2>1, <2>2, <3>2
      <4>3. QED BY <4>1, <4>2
    <3>3. CASE k = m + 1
      <4>1. g[k] = f[m] + Curve[k] /\ k # 0 /\ k - 1 = m
        BY <2>2, <3>3
      <4>2. g[m] = f[m]
        BY <2>2
      <4>3. QED BY <4>1, <4>2
    <3>4. QED BY <2>2, <3>1, <3>2, <3>3
  <2>4. g = [k \in 0..m + 1 |-> IF k = 0 THEN 0 ELSE g[k - 1] + Curve[k]]
    <3>1. g = [k \in 0..m + 1 |-> g[k]]
      OBVIOUS
    <3> HIDE DEF g
    <3>2. QED BY <2>3, <3>1
  <2> HIDE DEF g
  <2>5. \E h : h = [k \in 0..m + 1 |-> IF k = 0 THEN 0 ELSE h[k - 1] + Curve[k]]
    BY <2>4
  <2>6. QED BY <2>2, <2>5
<1>3. S = Nat
  <2>1. S \in SUBSET Nat
    OBVIOUS
  <2> HIDE DEF S
  <2>2. QED BY <1>1, <1>2, <2>1, NatInduct
<1>4. QED BY <1>3

(* What CurveSum computes. *)
LEMMA SumsAdd ==
  /\ CurveSum[0] = 0
  /\ \A k \in 1..Threshold - 1 : CurveSum[k] = CurveSum[k - 1] + Curve[k]
  /\ \A k \in 0..Threshold - 1 : CurveSum[k] \in Nat
<1>0. Threshold \in Nat \ {0} /\ \A n \in 0..Threshold - 1 : Curve[n] \in Nat
  BY Numbers, CurveGrows
<1>1. CurveSum = [k \in 0..Threshold - 1 |-> IF k = 0 THEN 0 ELSE CurveSum[k - 1] + Curve[k]]
  <2>1. Threshold - 1 \in Nat /\ Threshold - 1 < Threshold
    BY <1>0
  <2>2. \E f : f = [k \in 0..Threshold - 1 |-> IF k = 0 THEN 0 ELSE f[k - 1] + Curve[k]]
    BY <2>1, SumsExist
  <2>3. QED BY <2>2 DEF CurveSum
<1>2. /\ CurveSum[0] = 0
      /\ \A k \in 1..Threshold - 1 : CurveSum[k] = CurveSum[k - 1] + Curve[k]
  BY <1>0, <1>1
<1> DEFINE S == {n \in Nat : n < Threshold => CurveSum[n] \in Nat}
<1>3. 0 \in S
  BY <1>2
<1>4. ASSUME NEW n \in S PROVE n + 1 \in S
  <2>1. CASE n + 1 < Threshold
    <3>1. n + 1 \in 1..Threshold - 1 /\ (n + 1) - 1 = n /\ n < Threshold
      BY <1>0, <2>1
    <3>2. CurveSum[n + 1] = CurveSum[n] + Curve[n + 1] /\ CurveSum[n] \in Nat
      BY <1>2, <3>1
    <3>3. Curve[n + 1] \in Nat
      BY <1>0, <3>1
    <3>4. QED BY <3>1, <3>2, <3>3
  <2>2. QED BY <2>1
<1>5. S = Nat
  <2>1. S \in SUBSET Nat
    OBVIOUS
  <2> HIDE DEF S
  <2>2. QED BY <1>3, <1>4, <2>1, NatInduct
<1>6. \A k \in 0..Threshold - 1 : CurveSum[k] \in Nat
  BY <1>0, <1>5
<1>7. QED BY <1>2, <1>6

(* The least of some numbers. *)
LEMMA MinIsLeast ==
  ASSUME NEW S \in SUBSET Nat, S # {} PROVE Min(S) \in S /\ \A n \in S : Min(S) <= n
<1>1. \E x \in S : \A y \in S : x <= y
  BY NatMin
<1>2. QED BY <1>1 DEF Min

(* After this long, whatever the curve says, an attempt no longer counts. *)
Forgotten == Min({Window + 1, Breaker})

(* A span is never longer than what is forgotten, and one more admission adds
   at most its delay. *)
LEMMA LeastSpans ==
  /\ Forgotten \in Nat \ {0} /\ Forgotten <= Window + 1 /\ Forgotten <= Breaker
  /\ \A k \in Nat : LeastSpan(k) \in Nat /\ LeastSpan(k) <= Forgotten
  /\ LeastSpan(0) = 0
  /\ \A k \in 1..Threshold - 1 : LeastSpan(k) <= LeastSpan(k - 1) + Curve[k]
<1>0. /\ Window \in Nat /\ Threshold \in Nat \ {0} /\ Breaker \in Nat \ {0}
      /\ \A n \in 0..Threshold - 1 : Curve[n] \in Nat
  BY Numbers, CurveGrows
<1>1. /\ Forgotten \in {Window + 1, Breaker}
      /\ \A n \in {Window + 1, Breaker} : Forgotten <= n
  <2>1. {Window + 1, Breaker} \in SUBSET Nat /\ {Window + 1, Breaker} # {}
    BY <1>0
  <2>2. QED BY <2>1, MinIsLeast DEF Forgotten
<1>2. Forgotten \in Nat \ {0} /\ Forgotten <= Window + 1 /\ Forgotten <= Breaker
  BY <1>0, <1>1
<1> DEFINE Bounds(k) == {Window + 1, Breaker} \cup (IF k < Threshold THEN {CurveSum[k]} ELSE {})
<1>3. ASSUME NEW k \in Nat
      PROVE  /\ LeastSpan(k) \in Bounds(k) /\ \A n \in Bounds(k) : LeastSpan(k) <= n
             /\ Bounds(k) \in SUBSET Nat
  <2>1. k < Threshold => CurveSum[k] \in Nat
    BY <1>0, SumsAdd
  <2>2. Bounds(k) \in SUBSET Nat /\ Bounds(k) # {}
    BY <1>0, <2>1
  <2>3. LeastSpan(k) = Min(Bounds(k))
    BY DEF LeastSpan
  <2> HIDE DEF Bounds
  <2>4. QED BY <2>2, <2>3, MinIsLeast
<1>4. ASSUME NEW k \in Nat PROVE LeastSpan(k) \in Nat /\ LeastSpan(k) <= Forgotten
  <2>1. Forgotten \in Bounds(k)
    BY <1>1
  <2> HIDE DEF Bounds
  <2>2. QED BY <1>3, <2>1
<1>5. LeastSpan(0) = 0
  <2>1. 0 \in Bounds(0)
    BY <1>0, SumsAdd
  <2> HIDE DEF Bounds
  <2>2. LeastSpan(0) \in Nat /\ LeastSpan(0) <= 0
    BY <1>3, <2>1
  <2>3. QED BY <2>2
<1>6. ASSUME NEW k \in 1..Threshold - 1 PROVE LeastSpan(k) <= LeastSpan(k - 1) + Curve[k]
  <2>1. k \in Nat /\ k - 1 \in Nat /\ k \in 0..Threshold - 1 /\ k < Threshold
        /\ k - 1 \in 0..Threshold - 1 /\ k - 1 < Threshold
    BY <1>0
  <2>2. /\ Curve[k] \in Nat /\ CurveSum[k] = CurveSum[k - 1] + Curve[k]
        /\ CurveSum[k] \in Nat /\ CurveSum[k - 1] \in Nat
    BY <1>0, <2>1, SumsAdd
  <2>3. /\ Window + 1 \in Bounds(k) /\ Breaker \in Bounds(k) /\ CurveSum[k] \in Bounds(k)
    BY <2>1
  <2>4. LeastSpan(k - 1) \in {Window + 1, Breaker, CurveSum[k - 1]}
    BY <1>3, <2>1
  <2>5. LeastSpan(k) <= Window + 1 /\ LeastSpan(k) <= Breaker /\ LeastSpan(k) <= CurveSum[k]
        /\ LeastSpan(k) \in Nat
    <3> HIDE DEF Bounds
    <3>1. QED BY <1>3, <1>4, <2>1, <2>3
  <2>6. QED BY <1>0, <2>2, <2>4, <2>5
<1>7. QED BY <1>2, <1>4, <1>5, <1>6

(* What KeepLast keeps. *)
LEMMA KeepLastShifts ==
  ASSUME NEW s \in Seq(Nat), NEW n \in Nat \ {0}
  PROVE  \E d \in Nat : /\ Len(KeepLast(s, n)) + d = Len(s)
                        /\ \A i \in 1..Len(KeepLast(s, n)) : KeepLast(s, n)[i] = s[i + d]
<1>1. CASE Len(s) <= n
  <2>1. KeepLast(s, n) = s /\ Len(s) + 0 = Len(s) /\ \A i \in 1..Len(s) : s[i + 0] = s[i]
    BY <1>1 DEF KeepLast
  <2>2. QED BY <2>1
<1>2. CASE Len(s) > n
  <2> DEFINE d == Len(s) - n
  <2>1. d \in Nat /\ d + 1 \in 1..Len(s) /\ Len(s) \in Nat
    BY <1>2
  <2>2. \A i \in d + 1..Len(s) : s[i] \in Nat
    BY <2>1
  <2>3. KeepLast(s, n) = SubSeq(s, d + 1, Len(s))
    BY <1>2 DEF KeepLast
  <2>4. /\ Len(SubSeq(s, d + 1, Len(s))) = IF d + 1 <= Len(s) THEN Len(s) - (d + 1) + 1 ELSE 0
        /\ \A i \in 1..Len(s) - (d + 1) + 1 : SubSeq(s, d + 1, Len(s))[i] = s[(d + 1) + i - 1]
    BY <2>1, <2>2, SubSeqProperties
  <2>5. Len(KeepLast(s, n)) = n /\ n + d = Len(s) /\ Len(s) - (d + 1) + 1 = n
    BY <2>1, <2>3, <2>4
  <2>6. \A i \in 1..n : (d + 1) + i - 1 = i + d
    BY <2>1
  <2>7. \A i \in 1..n : KeepLast(s, n)[i] = s[i + d]
    BY <2>3, <2>4, <2>5, <2>6
  <2>8. QED BY <2>1, <2>5, <2>7
<1>3. QED BY <1>1, <1>2

----------------------------------------------------------------------------
(* ... the breaker, with a clock that goes forward *)

(* The clock is not set back, and a breaker is no longer than the clamp: both are
   3600 s (outcome.sh:304-305, 406). *)
ClockGoesForward == ~ClockMayJumpBack /\ Breaker <= Clamp

(* A breaker never ends later than it could have been opened to, so no read
   clamps it, and the deciding process decides on the file that is on disk. *)
BreakerIsNear == st.openUntil <= now + Breaker
ViewIsExact   == inside # None => view.file = st

(* Loading a file then changes nothing of it. *)
LEMMA NothingIsClamped ==
  ASSUME ClockGoesForward, TypeOK, BreakerIsNear
  PROVE  Read = st /\ (WriteFails => st' = st) /\ \A file : Write(file) => st' \in {st, file}
<1>1. /\ st \in Files /\ now \in Nat /\ st.openUntil \in Nat /\ Breaker \in Nat /\ Clamp \in Nat
      /\ Breaker <= Clamp
  BY Numbers DEF TypeOK, Files, ClockGoesForward
<1>2. ~(st.openUntil > now + Clamp)
  BY <1>1 DEF BreakerIsNear
<1>3. Read = [st EXCEPT !.openUntil = st.openUntil]
  BY <1>2 DEF Read
<1>4. Read = st
  BY <1>1, <1>3 DEF Files
<1>5. QED BY <1>4 DEF Write, WriteFails

(* Time passes only between the steps of the processes. *)
LEMMA ClockSteps ==
  ASSUME ClockGoesForward, IndInv, [Next]_vars
  PROVE  now' \in Nat /\ now <= now' /\ (now' # now => UNCHANGED <<st, grants, inside, view>>)
<1>0. TypeOK /\ now \in Nat
  BY DEF IndInv, TypeOK
<1>1. now' = now \/ Tick \/ JumpBack
  BY <1>0, TimeSteps
<1>2. Tick => now' = now + 1 /\ UNCHANGED <<st, grants, inside, view>>
  BY DEF Tick, SetClock, history
<1>3. ~JumpBack
  BY DEF JumpBack, ClockGoesForward
<1>4. QED BY <1>0, <1>1, <1>2, <1>3

(* BreakerIsNear and ViewIsExact are inductive. *)
LEMMA BreakerStaysNear ==
  ASSUME ClockGoesForward, IndInv, BreakerIsNear, ViewIsExact, [Next]_vars
  PROVE  BreakerIsNear' /\ ViewIsExact'
<1>0. /\ TypeOK /\ now \in Nat /\ now' \in Nat /\ now <= now' /\ Breaker \in Nat /\ Clamp \in Nat
      /\ st.openUntil \in Nat /\ st'.openUntil \in Nat /\ st.openUntil <= now + Breaker
  BY ClockSteps, Numbers, StepKeepsType DEF IndInv, TypeOK, Files, BreakerIsNear
<1>1. BreakerIsNear'
  <2>1. ASSUME NEW p \in Services, OpenBreaker(p) PROVE st'.openUntil \in {st.openUntil, now + Breaker}
    <3> DEFINE file == [Pruned EXCEPT !.openUntil = now + Breaker]
    <3>1. file.openUntil = now + Breaker
      BY <1>0, ViewTypes DEF Files
    <3>2. st' \in {st, file}
      BY <1>0, <2>1, NothingIsClamped DEF OpenBreaker
    <3> HIDE DEF file
    <3>3. QED BY <3>1, <3>2
  <2>2. CASE \E p \in Services : OpenBreaker(p)
    BY <1>0, <2>1, <2>2 DEF BreakerIsNear
  <2>3. CASE ~\E p \in Services : OpenBreaker(p)
    <3>1. st'.openUntil <= st.openUntil
      BY <2>3, BreakerMoves
    <3>2. QED BY <1>0, <3>1 DEF BreakerIsNear
  <2>4. QED BY <2>2, <2>3
<1>2. ViewIsExact'
  <2>1. ASSUME NEW p \in Pids, AdmitBegin(p) PROVE ViewIsExact'
    <3>1. st' = st /\ view'.file = st
      BY <1>0, <2>1, NothingIsClamped DEF AdmitBegin
    <3>2. QED BY <3>1 DEF ViewIsExact
  <2>2. CASE ~\E p \in Pids : AdmitBegin(p)
    BY <2>2, FileStands DEF ViewIsExact
  <2>3. QED BY <2>1, <2>2
<1>3. QED BY <1>1, <1>2

(* Who opens and ends a breaker, and who starts the history of grants anew. *)
LEMMA OpenSteps ==
  ASSUME ClockGoesForward, IndInv, BreakerIsNear, ViewIsExact, [Next]_vars, ~ClearHistory
  PROVE  /\ (~\E p \in Services : Grant(p)) => grants' = grants
         /\ (~\E p \in Pids : RetireWindow(p) \/ Escalate(p) \/ OpenBreaker(p))
              => st'.openUntil = st.openUntil
<1> DEFINE Same == st'.openUntil = st.openUntil
<1>0. TypeOK /\ st \in Files
  BY DEF IndInv, TypeOK
<1>1. /\ Read = st /\ (WriteFails => Same)
      /\ \A file : Write(file) /\ file.openUntil = st.openUntil => Same
  <2>1. Read = st /\ (WriteFails => st' = st) /\ \A file : Write(file) => st' \in {st, file}
    BY <1>0, NothingIsClamped
  <2>2. QED BY <2>1
<1>2. ASSUME NEW p \in Pids, Admission(p)
      PROVE  /\ grants' = grants \/ (p \in Services /\ Grant(p))
             /\ ~(RetireWindow(p) \/ Escalate(p) \/ OpenBreaker(p)) => Same
  <2>1. pc[p] = "decide" /\ inside # None
    BY <1>0, <1>2, AdmissionMoves, DeciderSees, Processes
  <2>2. view.file = st
    BY <2>1 DEF ViewIsExact
  <2>3. grants' = grants \/ (p \in Services /\ Grant(p))
    BY <1>2 DEF Admission, TunnelIsUp, OwnerIsAlive, IsPaused, BreakerIsOpen, RetireWindow,
       Escalate,
       OpenBreaker, TooSoon, Grant, GrantFails, Poll
  <2>4. Grant(p) => Same
    <3>1. Unowned \in Files /\ Pruned \in Files
      BY <1>0, ViewTypes
    <3>2. Unowned.openUntil = st.openUntil
      BY <1>0, <2>2 DEF Unowned, Files
    <3>3. Pruned.openUntil = st.openUntil
      BY <3>1, <3>2 DEF Pruned, Files
    <3>4. Owned(p).openUntil = st.openUntil /\ Charged(p).openUntil = st.openUntil
      BY <3>1, <3>2, <3>3 DEF Owned, Charged, Files
    <3>5. QED BY <3>4 DEF Grant
  <2>5. GrantFails(p) => Same
    BY <1>1 DEF GrantFails
  <2>6. TunnelIsUp(p) \/ OwnerIsAlive(p) \/ IsPaused(p) \/ BreakerIsOpen(p) \/ TooSoon(p) => Same
    BY DEF TunnelIsUp, OwnerIsAlive, IsPaused, BreakerIsOpen, TooSoon
  <2>7. QED BY <1>2, <2>3, <2>4, <2>5, <2>6 DEF Admission
<1>3. ASSUME NEW p \in Pids, Attempt(p) PROVE Same /\ grants' = grants
  <2>0. grants' = grants
    BY <1>0, <1>3, AttemptMoves
  <2>1. CASE Reserve(p)
    BY <1>0, <1>1, <2>0, <2>1 DEF Reserve, Files
  <2>2. CASE ReserveFails(p)
    BY <1>1, <2>0, <2>2 DEF ReserveFails
  <2>3. CASE RecordVerdict(p)
    <3> DEFINE streak == IF my[p].verdict = "1" THEN 0 ELSE Read.streak + 1
    <3> DEFINE file == [Read EXCEPT !.streak = streak]
    <3>1. file.openUntil = st.openUntil
      BY <1>0, <1>1 DEF Files
    <3>2. UNCHANGED st \/ Write(file)
      BY <2>3 DEF RecordVerdict
    <3> HIDE DEF file
    <3>3. QED BY <1>1, <2>0, <3>1, <3>2
  <2>4. CASE Release(p)
    <3> DEFINE file == [Read EXCEPT !.owner = None]
    <3>1. file.openUntil = st.openUntil
      BY <1>0, <1>1 DEF Files
    <3>2. Write(Read) \/ Write(file)
      BY <2>4 DEF Release
    <3> HIDE DEF file
    <3>3. QED BY <1>1, <2>0, <3>1, <3>2
  <2>5. CASE UNCHANGED st
    BY <2>0, <2>5
  <2>6. QED
    BY <1>3, <2>1, <2>2, <2>3, <2>4, <2>5 DEF Attempt, GenerateFails, SessionOver, Prepare,
       PrepareFails, Generate,
       Fruitless, Connect, Daemonize
<1>4. ASSUME SetSecret PROVE Same /\ grants' = grants
  <2>1. CASE ClearReservation
    <3> DEFINE file == [Read EXCEPT !.totpStep = 0]
    <3>1. file.openUntil = st.openUntil
      BY <1>0, <1>1 DEF Files
    <3>2. Write(file) /\ grants' = grants
      BY <2>1 DEF ClearReservation
    <3> HIDE DEF file
    <3>3. QED BY <1>1, <3>1, <3>2
  <2>2. QED BY <1>4, <2>1 DEF SetSecret, StorePassword, StoreToken, Store, history
<1>5. ASSUME NEW p \in Pids, AdmitBegin(p) PROVE Same /\ grants' = grants
  BY <1>1, <1>5 DEF AdmitBegin
<1>6. ASSUME NEW p \in Pids, Start(p) \/ RecordPid(p) \/ TunnelEnds(p) \/ Kill(p)
      PROVE  Same /\ grants' = grants
  BY <1>6 DEF Start, RecordPid, TunnelEnds, Kill, history
<1>7. Tick \/ JumpBack \/ Looking \/ UNCHANGED vars => Same /\ grants' = grants
  BY <1>0, LookingMoves DEF Tick, JumpBack, SetClock, vars, history
<1> HIDE DEF Same
<1>8. /\ (~\E p \in Services : Grant(p)) => grants' = grants
      /\ (~\E p \in Pids : RetireWindow(p) \/ Escalate(p) \/ OpenBreaker(p)) => Same
  BY <1>2, <1>3, <1>4, <1>5, <1>6, <1>7 DEF Next
<1>9. QED BY <1>8 DEF Same

----------------------------------------------------------------------------
(* ... and the admissions *)

(* Admissions s in a row up to time t, with the state file that remembers them:
   each one is long past, or waits behind an open breaker, or is still listed
   together with all later ones. *)
Spaced(s, file, t) ==
  /\ \A i \in 1..Len(s) : s[i] <= t
  /\ \A i, j \in 1..Len(s) : i < j => s[i] < s[j] /\ s[j] - s[i] >= LeastSpan(j - i)
  /\ file.openUntil > 0 => \A i \in 1..Len(s) : s[i] + Breaker <= file.openUntil
  /\ \A i \in 1..Len(s) : \/ t >= s[i] + Forgotten
                          \/ file.openUntil > 0
                          \/ \A l \in i..Len(s) : s[l] \in file.attempts

(* The inductive invariant of AttemptRate. *)
AttemptsAreSpaced ==
  Spaced(grants, st, now) /\ \A a \in st.attempts : a <= now

(* What is said of all admissions holds of the last ones. *)
LEMMA SuffixIsSpaced ==
  ASSUME NEW s \in Seq(Nat), NEW kept \in Seq(Nat), NEW d \in Nat, Len(kept) + d = Len(s),
         \A i \in 1..Len(kept) : kept[i] = s[i + d],
         NEW file, NEW t, Spaced(s, file, t)
  PROVE  Spaced(kept, file, t)
<1>1. Len(s) \in Nat /\ Len(kept) \in Nat
  OBVIOUS
<1>2. \A i \in 1..Len(kept) : i + d \in 1..Len(s)
  BY <1>1
<1>3. \A i \in 1..Len(kept) : kept[i] <= t
  BY <1>2 DEF Spaced
<1>4. ASSUME NEW i \in 1..Len(kept), NEW j \in 1..Len(kept), i < j
      PROVE  kept[i] < kept[j] /\ kept[j] - kept[i] >= LeastSpan(j - i)
  <2>1. i + d < j + d /\ (j + d) - (i + d) = j - i
    BY <1>1, <1>4
  <2>2. s[i + d] < s[j + d] /\ s[j + d] - s[i + d] >= LeastSpan((j + d) - (i + d))
    BY <1>2, <2>1 DEF Spaced
  <2>3. QED BY <2>1, <2>2
<1>5. file.openUntil > 0 => \A i \in 1..Len(kept) : kept[i] + Breaker <= file.openUntil
  BY <1>2 DEF Spaced
<1>6. ASSUME NEW i \in 1..Len(kept)
      PROVE  \/ t >= kept[i] + Forgotten
             \/ file.openUntil > 0
             \/ \A l \in i..Len(kept) : kept[l] \in file.attempts
  <2>1. \/ t >= s[i + d] + Forgotten \/ file.openUntil > 0
        \/ \A l \in i + d..Len(s) : s[l] \in file.attempts
    BY <1>2 DEF Spaced
  <2>2. \A l \in i..Len(kept) : l + d \in i + d..Len(s) /\ kept[l] = s[l + d]
    BY <1>1
  <2>3. QED BY <2>1, <2>2
<1>7. QED BY <1>3, <1>4, <1>5, <1>6 DEF Spaced

(* The admission of a service: as many entries in the ring as admissions that
   count, so the delay before it is at least the one of the curve. *)
LEMMA ChargeIsSpaced ==
  ASSUME ClockGoesForward, IndInv, ViewIsFaithful, AttemptsAreFew, BreakerIsNear, ViewIsExact,
         AttemptsAreSpaced, [Next]_vars, NEW p \in Services, Grant(p)
  PROVE  Spaced(Append(grants, now), st', now)
<1> DEFINE recent == Recent(st.attempts)
<1> DEFINE c == Cardinality(recent)
<1> DEFINE n == Len(grants)
<1> DEFINE s == Append(grants, now)
<1>0. /\ TypeOK /\ now \in Nat /\ grants \in Seq(Nat) /\ n \in Nat /\ Window \in Nat
      /\ Threshold \in Nat \ {0} /\ Breaker \in Nat \ {0} /\ st \in Files /\ st.attempts \in SUBSET Nat
  BY Numbers DEF IndInv, TypeOK, Files
<1>1. /\ pc[p] = "decide" /\ recent \in SUBSET Nat /\ IsFiniteSet(recent) /\ c \in 0..Threshold - 1
      /\ \A a \in recent : a + Curve[c] <= now /\ a < now
      /\ st'.attempts = recent \cup {now}
  BY ChargeAddsOne
<1>2. \A a \in st.attempts : a \in recent \/ now >= a + Window + 1
  <2>1. ASSUME NEW a \in st.attempts, a \notin recent PROVE now >= a + Window + 1
    <3>1. a <= now /\ a \in Nat
      BY <1>0 DEF AttemptsAreSpaced
    <3>2. ~(now - a <= Window)
      BY <2>1, <3>1 DEF Recent
    <3>3. QED BY <1>0, <3>1, <3>2
  <2>2. QED BY <2>1
<1>3. st'.openUntil = 0 /\ st.openUntil = 0
  <2>1. Pruned.openUntil = 0 /\ st' = Charged(p) /\ p \in Pids
    BY DEF Grant, Admissible, Pids
  <2>2. Charged(p).openUntil = view.file.openUntil /\ Pruned.openUntil = view.file.openUntil
    BY <1>1, <2>1, ViewFields
  <2>3. view.file = st
    BY <1>0, <1>1, <2>1, DeciderSees, Processes DEF ViewIsExact
  <2>4. QED BY <2>1, <2>2, <2>3
<1>4. /\ Forgotten \in Nat \ {0} /\ Forgotten <= Window + 1 /\ Forgotten <= Breaker
      /\ \A k \in Nat : LeastSpan(k) \in Nat /\ LeastSpan(k) <= Forgotten
      /\ LeastSpan(0) = 0 /\ \A k \in 1..Threshold - 1 : LeastSpan(k) <= LeastSpan(k - 1) + Curve[k]
  BY LeastSpans
<1>5. /\ s \in Seq(Nat) /\ Len(s) = n + 1 /\ s[n + 1] = now
      /\ \A i \in 1..n : s[i] = grants[i] /\ grants[i] \in Nat
  BY <1>0
<1> HIDE DEF recent, c, n, s
<1>6. /\ \A i \in 1..n : grants[i] <= now
      /\ \A i, j \in 1..n : i < j => grants[i] < grants[j] /\ grants[j] - grants[i] >= LeastSpan(j - i)
      /\ \A i \in 1..n : now >= grants[i] + Forgotten \/ \A l \in i..n : grants[l] \in st.attempts
  BY <1>3 DEF AttemptsAreSpaced, Spaced, n
(* An admission that still counts is listed with all later ones. *)
<1>7. ASSUME NEW i \in 1..n
      PROVE  now >= grants[i] + Forgotten \/ \A l \in i..n : grants[l] \in recent
  <2>1. ASSUME NEW l \in i..n, grants[l] \in st.attempts, grants[l] \notin recent
        PROVE  now >= grants[i] + Forgotten
    <3>1. now >= grants[l] + Window + 1
      BY <1>2, <2>1
    <3>2. l \in 1..n /\ (i = l \/ i < l)
      BY <1>0
    <3>3. grants[i] <= grants[l] /\ grants[i] \in Nat /\ grants[l] \in Nat
      BY <1>5, <1>6, <3>2
    <3>4. now \in Nat /\ Window \in Nat /\ Forgotten \in Nat /\ Forgotten <= Window + 1
      BY <1>0, <1>4
    <3>5. QED BY <3>1, <3>3, <3>4
  <2>2. QED BY <1>6, <2>1
<1>8. ASSUME NEW i \in 1..n
      PROVE  grants[i] < now /\ now - grants[i] >= LeastSpan((n + 1) - i)
  <2>0. (n + 1) - i \in Nat /\ grants[i] \in Nat
    BY <1>0, <1>5
  <2>1. CASE now >= grants[i] + Forgotten
    <3> DEFINE least == LeastSpan((n + 1) - i)
    <3>1. least \in Nat /\ least <= Forgotten /\ Forgotten \in Nat \ {0} /\ now \in Nat
      BY <1>0, <1>4, <2>0
    <3> HIDE DEF least
    <3>2. grants[i] < now /\ now - grants[i] >= least
      BY <2>0, <2>1, <3>1
    <3>3. QED BY <3>2 DEF least
  <2>2. CASE \A l \in i..n : grants[l] \in recent
    <3> DEFINE k == (n + 1) - i
    <3> DEFINE f == [l \in i..n |-> grants[l]]
    <3>1. f \in [i..n -> recent]
      BY <2>2
    <3>2. ASSUME NEW a \in i..n, NEW b \in i..n, f[a] = f[b] PROVE a = b
      <4>1. a \in 1..n /\ b \in 1..n /\ grants[a] = grants[b]
        BY <1>0, <3>2
      <4>2. ~(a < b) /\ ~(b < a)
        BY <1>5, <1>6, <4>1
      <4>3. QED BY <1>0, <4>1, <4>2
    <3>3. f \in Injection(i..n, recent)
      <4> HIDE DEF f
      <4>1. QED BY <3>1, <3>2 DEF Injection, IsInjective
    <3>4. Cardinality(i..n) <= c
      BY <1>1, <3>3, FS_Injection DEF c
    <3>5. Cardinality(i..n) = k
      BY <1>0, FS_Interval
    <3>6. k \in 1..Threshold - 1 /\ k \in 0..Threshold - 1 /\ k <= c
      BY <1>0, <1>1, <3>4, <3>5
    <3>7. Curve[k] <= Curve[c] /\ Curve[k] \in Nat /\ Curve[c] \in Nat
      BY <1>1, <3>6, CurveIsMonotone, CurveGrows
    <3>8. grants[n] \in recent /\ n \in 1..n /\ grants[n] \in Nat
      <4>1. n \in i..n /\ n \in 1..n
        BY <1>0
      <4>2. QED BY <1>5, <2>2, <4>1
    <3>9. grants[n] + Curve[c] <= now /\ grants[n] < now
      BY <1>1, <3>8
    <3>10. grants[n] - grants[i] >= LeastSpan(k - 1) /\ grants[i] <= grants[n]
      <4>1. CASE i = n
        <5>1. k - 1 = 0
          BY <1>0, <4>1
        <5>2. grants[n] - grants[i] = 0
          BY <3>8, <4>1
        <5>3. QED BY <1>4, <3>8, <4>1, <5>1, <5>2
      <4>2. CASE i # n
        <5>1. i < n /\ k - 1 = n - i
          BY <1>0, <4>2
        <5>2. QED BY <1>6, <2>0, <3>8, <5>1
      <4>3. QED BY <4>1, <4>2
    <3>11. k - 1 \in Nat /\ LeastSpan(k) <= LeastSpan(k - 1) + Curve[k]
           /\ LeastSpan(k) \in Nat /\ LeastSpan(k - 1) \in Nat
      BY <1>4, <3>6, <2>0
    <3> HIDE DEF k, f
    <3> DEFINE before == LeastSpan(k - 1)
    <3> DEFINE least == LeastSpan(k)
    <3>12. /\ before \in Nat /\ least \in Nat /\ least <= before + Curve[k]
           /\ grants[n] - grants[i] >= before
      BY <3>10, <3>11
    <3> HIDE DEF before, least
    <3>13. now - grants[i] >= least /\ grants[i] < now
      <4>1. now \in Nat /\ grants[i] \in Nat /\ grants[n] \in Nat /\ grants[i] <= grants[n]
        BY <1>0, <2>0, <3>8, <3>10
      <4>2. grants[n] + Curve[k] <= now /\ grants[n] < now /\ Curve[k] \in Nat
        BY <3>7, <3>9, <4>1
      <4>3. QED BY <3>12, <4>1, <4>2
    <3>14. QED BY <3>13 DEF k, least
  <2>3. QED BY <1>7, <2>1, <2>2
<1>9. \A i \in 1..n + 1 : i = n + 1 \/ i \in 1..n
  BY <1>0
<1>10. \A i \in 1..Len(s) : s[i] <= now
  <2>1. \A i \in 1..n : s[i] <= now
    BY <1>5, <1>6
  <2>2. s[n + 1] <= now
    BY <1>0, <1>5
  <2>3. QED BY <1>5, <1>9, <2>1, <2>2
<1>11. ASSUME NEW i \in 1..Len(s), NEW j \in 1..Len(s), i < j
       PROVE  s[i] < s[j] /\ s[j] - s[i] >= LeastSpan(j - i)
  <2>1. i \in 1..n /\ (j = n + 1 \/ j \in 1..n)
    BY <1>0, <1>5, <1>11
  <2>2. CASE j = n + 1
    <3>1. s[i] = grants[i] /\ s[j] = now
      BY <1>5, <2>1, <2>2
    <3>2. QED BY <1>8, <2>1, <2>2, <3>1
  <2>3. CASE j \in 1..n
    <3>1. s[i] = grants[i] /\ s[j] = grants[j]
      BY <1>5, <2>1, <2>3
    <3>2. QED BY <1>6, <1>11, <2>1, <2>3, <3>1
  <2>4. QED BY <2>1, <2>2, <2>3
<1>12. ASSUME NEW i \in 1..Len(s)
       PROVE  \/ now >= s[i] + Forgotten
              \/ \A l \in i..Len(s) : s[l] \in st'.attempts
  <2>1. CASE i = n + 1
    <3>1. \A l \in i..Len(s) : l = n + 1
      BY <1>0, <1>5, <2>1
    <3>2. QED BY <1>1, <1>5, <3>1
  <2>2. CASE i \in 1..n
    <3>1. \A l \in i..Len(s) : l = n + 1 \/ (l \in i..n /\ l \in 1..n)
      BY <1>0, <1>5, <2>2
    <3>2. QED BY <1>1, <1>5, <1>7, <2>2, <3>1
  <2>3. QED BY <1>5, <1>9, <2>1, <2>2
<1>13. ~(st'.openUntil > 0)
  BY <1>3
<1>14. Spaced(s, st', now)
  BY <1>10, <1>11, <1>12, <1>13 DEF Spaced
<1>15. QED BY <1>14 DEF s

(* Whoever leaves the grants alone and only shortens the ring, and that only
   behind a breaker or after it. *)
LEMMA WaitIsSpaced ==
  ASSUME IndInv, TypeOK', AttemptsAreSpaced, grants' = grants, now' >= now,
         st'.attempts \in SUBSET st.attempts,
         \/ st'.openUntil = st.openUntil /\ st'.attempts = st.attempts
         \/ st.openUntil = 0 /\ st'.openUntil = now + Breaker
         \/ st.openUntil \in 1..now /\ st'.openUntil = 0
  PROVE  AttemptsAreSpaced'
<1>a. TypeOK /\ st' \in Files
  BY DEF IndInv, TypeOK
<1>b. now' \in Nat
  BY DEF TypeOK
<1>c. st'.openUntil \in Nat
  BY <1>a DEF Files
<1>d. now \in Nat /\ grants \in Seq(Nat) /\ st.attempts \in SUBSET Nat /\ st.openUntil \in Nat
  BY <1>a DEF TypeOK, Files
<1>e. Len(grants) \in Nat /\ \A i \in 1..Len(grants) : grants[i] \in Nat
  BY <1>d
<1>0. /\ TypeOK /\ now \in Nat /\ now' \in Nat /\ grants \in Seq(Nat) /\ Len(grants) \in Nat
      /\ Breaker \in Nat \ {0} /\ st.attempts \in SUBSET Nat /\ st.openUntil \in Nat
      /\ st'.openUntil \in Nat /\ Forgotten \in Nat /\ Forgotten <= Breaker
      /\ \A i \in 1..Len(grants) : grants[i] \in Nat
  BY <1>a, <1>b, <1>c, <1>d, <1>e, Numbers, LeastSpans
<1>1. /\ \A i \in 1..Len(grants) : grants[i] <= now
      /\ st.openUntil > 0 => \A i \in 1..Len(grants) : grants[i] + Breaker <= st.openUntil
      /\ \A i, j \in 1..Len(grants) :
           i < j => grants[i] < grants[j] /\ grants[j] - grants[i] >= LeastSpan(j - i)
      /\ \A i \in 1..Len(grants) : \/ now >= grants[i] + Forgotten
                                   \/ st.openUntil > 0
                                   \/ \A l \in i..Len(grants) : grants[l] \in st.attempts
      /\ \A a \in st.attempts : a <= now
  BY DEF AttemptsAreSpaced, Spaced
<1>2. /\ \A i \in 1..Len(grants) : grants[i] <= now'
      /\ \A a \in st'.attempts : a <= now'
  BY <1>0, <1>1
<1>3. ASSUME st'.openUntil > 0, NEW i \in 1..Len(grants) PROVE grants[i] + Breaker <= st'.openUntil
  BY <1>0, <1>1, <1>3
<1>4. ASSUME NEW i \in 1..Len(grants)
      PROVE  \/ now' >= grants[i] + Forgotten
             \/ st'.openUntil > 0
             \/ \A l \in i..Len(grants) : grants[l] \in st'.attempts
  <2>1. CASE st'.openUntil = st.openUntil /\ st'.attempts = st.attempts
    BY <1>0, <1>1, <2>1
  <2>2. CASE st'.openUntil = now + Breaker
    BY <1>0, <2>2
  <2>3. CASE st.openUntil \in 1..now
    <3>1. grants[i] + Breaker <= st.openUntil
      BY <1>0, <1>1, <2>3
    <3>2. QED BY <1>0, <2>3, <3>1
  <2>4. QED BY <2>1, <2>2, <2>3
<1>5. Spaced(grants, st', now')
  BY <1>1, <1>2, <1>3, <1>4 DEF Spaced
<1>6. QED BY <1>2, <1>5 DEF AttemptsAreSpaced

(* AttemptsAreSpaced is inductive. *)
LEMMA AttemptsStaySpaced ==
  ASSUME ClockGoesForward, IndInv, ViewIsFaithful, AttemptsAreFew, BreakerIsNear, ViewIsExact,
         AttemptsAreSpaced, [Next]_vars
  PROVE  AttemptsAreSpaced'
<1>0. /\ TypeOK /\ TypeOK' /\ now \in Nat /\ now' \in Nat /\ now' >= now
      /\ now' # now => UNCHANGED <<st, grants, inside, view>>
      /\ st \in Files /\ st.attempts \in SUBSET Nat /\ st.openUntil \in Nat
  BY StepKeepsType, ClockSteps DEF IndInv, TypeOK, Files
<1>1. ASSUME NEW p \in Services, Grant(p) PROVE AttemptsAreSpaced'
  <2>0. p \in Pids /\ Threshold + 1 \in Nat \ {0} /\ grants \in Seq(Nat)
    BY <1>0, Numbers DEF Pids, TypeOK
  <2>1. now' = now
    BY <1>0, <1>1, <2>0, AdmissionMoves DEF Admission
  <2> DEFINE s == Append(grants, now)
  <2>2. Spaced(s, st', now) /\ s \in Seq(Nat)
    BY <1>0, <1>1, <2>0, ChargeIsSpaced
  <2>3. grants' = KeepLast(s, Threshold + 1)
    BY <1>1 DEF Grant
  <2>4. grants' \in Seq(Nat)
    BY <1>0 DEF TypeOK
  <2> HIDE DEF s
  <2>5. \E d \in Nat : Len(grants') + d = Len(s) /\ \A i \in 1..Len(grants') : grants'[i] = s[i + d]
    BY <2>0, <2>2, <2>3, KeepLastShifts
  <2>6. Spaced(grants', st', now')
    BY <2>1, <2>2, <2>4, <2>5, SuffixIsSpaced
  <2>7. \A a \in st'.attempts : a <= now'
    <3>1. st'.attempts = Recent(st.attempts) \cup {now}
      BY <1>1, ChargeAddsOne
    <3>2. QED BY <1>0, <2>1, <3>1 DEF Recent
  <2>8. QED BY <2>6, <2>7 DEF AttemptsAreSpaced
<1>2. ASSUME ClearHistory PROVE AttemptsAreSpaced'
  <2>1. Len(grants') = 0 /\ now' = now
    BY <1>2 DEF ClearHistory
  <2>2. Spaced(grants', st', now')
    BY <2>1 DEF Spaced
  <2>3. st'.attempts \in SUBSET st.attempts
    <3>1. ~\E p \in Services : Grant(p)
      BY <1>0, <1>2 DEF ClearHistory, Grant, Decide, locals, Pids, TypeOK
    <3>2. QED BY <3>1, RingSteps DEF Recent
  <2>4. QED BY <1>0, <2>1, <2>2, <2>3 DEF AttemptsAreSpaced
<1>3. ASSUME ~ClearHistory, ~\E p \in Services : Grant(p) PROVE AttemptsAreSpaced'
  <2>1. grants' = grants /\ st'.attempts \in SUBSET st.attempts
    BY <1>3, OpenSteps, RingSteps DEF Recent
  <2>2. CASE ~\E p \in Pids : RetireWindow(p) \/ Escalate(p) \/ OpenBreaker(p)
    <3>1. st'.openUntil = st.openUntil /\ st'.attempts = st.attempts
      BY <1>3, <2>2, OpenSteps, RingSteps
    <3>2. QED BY <1>0, <2>1, <3>1, WaitIsSpaced
  <2>3. ASSUME NEW p \in Pids, RetireWindow(p) \/ Escalate(p) \/ OpenBreaker(p)
        PROVE  AttemptsAreSpaced'
    <3>1. pc[p] = "decide" /\ Admission(p)
      BY <2>3 DEF RetireWindow, Escalate, OpenBreaker, Poll, Decide, Admission
    <3>2. now' = now /\ view.file = st
      BY <1>0, <3>1, AdmissionMoves, DeciderSees, Processes DEF ViewIsExact
    <3>3. /\ Pruned.openUntil = st.openUntil /\ Retired.openUntil = 0
          /\ Pruned \in Files /\ Retired \in Files
      BY <3>1, <3>2, ViewFields
    <3>4. ASSUME NEW file, Write(file), st' # file PROVE AttemptsAreSpaced'
      <4>1. st' = st
        BY <1>0, <3>4, NothingIsClamped
      <4>2. QED BY <1>0, <2>1, <4>1, WaitIsSpaced
    <3>5. CASE RetireWindow(p)
      <4>1. Write(Retired) /\ st.openUntil \in 1..now
        BY <3>3, <3>5 DEF RetireWindow, BreakerExpired
      <4>2. st' = Retired => AttemptsAreSpaced'
        BY <1>0, <2>1, <3>3, <4>1, WaitIsSpaced
      <4>3. QED BY <3>4, <4>1, <4>2
    <3>6. CASE Escalate(p)
      <4> DEFINE file == [Retired EXCEPT !.paused = TRUE, !.streak = 0]
      <4>1. Write(file) /\ st.openUntil \in 1..now
        BY <3>3, <3>6 DEF Escalate, BreakerExpired
      <4>2. file.openUntil = 0
        BY <3>3 DEF Files
      <4> HIDE DEF file
      <4>3. st' = file => AttemptsAreSpaced'
        BY <1>0, <2>1, <4>1, <4>2, WaitIsSpaced
      <4>4. QED BY <3>4, <4>1, <4>3
    <3>7. CASE OpenBreaker(p)
      <4> DEFINE file == [Pruned EXCEPT !.openUntil = now + Breaker]
      <4>1. Write(file) /\ st.openUntil = 0
        BY <3>3, <3>7 DEF OpenBreaker, Throttled
      <4>2. file.openUntil = now + Breaker
        BY <3>3 DEF Files
      <4> HIDE DEF file
      <4>3. st' = file => AttemptsAreSpaced'
        BY <1>0, <2>1, <4>1, <4>2, WaitIsSpaced
      <4>4. QED BY <3>4, <4>1, <4>3
    <3>8. QED BY <2>3, <3>5, <3>6, <3>7
  <2>4. QED BY <2>2, <2>3
<1>4. QED BY <1>1, <1>2, <1>3

(* outcome.sh:384-407, 470-568: k+1 admissions of services in a row take at
   least the k first delays of the curve, a breaker, or a whole window, whatever
   is killed, fails to be written, or is pruned, retired and escalated between
   them, as long as the clock goes forward. *)
THEOREM AttemptsKeepTheirDistance == ASSUME ClockGoesForward PROVE Spec => []AttemptRate
<1>1. Init => BreakerIsNear /\ ViewIsExact /\ AttemptsAreSpaced
  <2> SUFFICES ASSUME Init PROVE BreakerIsNear /\ ViewIsExact /\ AttemptsAreSpaced
    OBVIOUS
  <2>1. NewFile.openUntil = 0 /\ NewFile.attempts = {}
    BY DEF NewFile
  <2>2. st.openUntil = 0 /\ st.attempts = {} /\ now = 1 /\ inside = None /\ grants = <<>>
    BY <2>1 DEF Init
  <2>3. Len(grants) = 0
    BY <2>2
  <2>4. Spaced(grants, st, now)
    BY <2>2, <2>3 DEF Spaced
  <2>5. QED BY <2>2, <2>4, Numbers DEF BreakerIsNear, ViewIsExact, AttemptsAreSpaced
<1>2. AttemptsAreSpaced => AttemptRate
  BY DEF AttemptsAreSpaced, Spaced, AttemptRate
<1>3. QED
  BY <1>1, <1>2, BreakerStaysNear, AttemptsStaySpaced, IndInvAlways, FaithfulAlways, FewAlways,
     PTL DEF Spec
=============================================================================
