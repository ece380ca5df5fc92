----------------------------- MODULE ClosureProofs -----------------------------
(***************************************************************************)
(* Proof that the verdict of the trusted execution closure is sound.  The  *)
(* invariant, ClosureInv, says of every point of the walk what the rows so *)
(* far show as long as none of them is a refusal; the lemmas before it say *)
(* that of one section of the walk, by the lists of names it runs over.    *)
(* Then what was looked at holds whatever the meaning of the objects leads *)
(* to, and every name in it is harmless.                                   *)
(***************************************************************************)
EXTENDS Closure, WellFoundedInduction, FiniteSetTheorems, TLAPS

(* Lists, by the elements they have.                                       *)
LEMMA ListDomain ==
  ASSUME NEW s, IsList(s)
  PROVE  /\ Len(s) \in Nat /\ DOMAIN s = 1..Len(s)
         /\ \A i \in 1..Len(s) : s[i] \in ToSet(s)
         /\ \A x \in ToSet(s) : \E i \in 1..Len(s) : x = s[i]
BY DEF IsList, ToSet

(* A function of 1..n is a list.                                           *)
LEMMA IsAList ==
  ASSUME NEW n \in Nat, NEW s, s = [i \in 1..n |-> s[i]]
  PROVE  IsList(s) /\ Len(s) = n
<1> DEFINE S == ToSet(s)
<1>1. \A i \in 1..n : s[i] \in S
  BY DEF ToSet
<1> HIDE DEF S
<1>2. s \in [1..n -> S]
  BY <1>1
<1>3. s \in Seq(S) /\ Len(s) = n
  BY <1>2
<1>4. QED BY <1>3 DEF IsList, S

(* So is a sequence of the elements of any set.                            *)
LEMMA ListOf ==
  ASSUME NEW S, NEW s \in Seq(S)
  PROVE  IsList(s) /\ ToSet(s) \subseteq S
<1>1. Len(s) \in Nat /\ s = [i \in 1..Len(s) |-> s[i]]
  OBVIOUS
<1>2. QED BY <1>1, IsAList DEF ToSet

(* The empty list and the list of one.                                     *)
LEMMA ShortLists ==
  /\ IsList(<< >>) /\ ToSet(<< >>) = {}
  /\ \A x : IsList(<< x >>) /\ ToSet(<< x >>) = {x}
<1>1. IsList(<< >>) /\ ToSet(<< >>) = {}
  BY DEF IsList, ToSet
<1>2. ASSUME NEW x PROVE IsList(<< x >>) /\ ToSet(<< x >>) = {x}
  BY DEF IsList, ToSet
<1>3. QED BY <1>1, <1>2

(* One list after another has the elements of both.                        *)
LEMMA JoinTwo ==
  ASSUME NEW s, NEW t, IsList(s), IsList(t)
  PROVE  IsList(s \o t) /\ ToSet(s \o t) = ToSet(s) \cup ToSet(t) /\ Len(s \o t) = Len(s) + Len(t)
<1> DEFINE S == ToSet(s) \cup ToSet(t)
<1>1. s \in Seq(S) /\ t \in Seq(S)
  BY ListDomain DEF IsList
<1> HIDE DEF S
<1>2. s \o t \in Seq(S) /\ Len(s \o t) = Len(s) + Len(t)
  BY <1>1
<1>3. ToSet(s \o t) \subseteq S
  BY <1>2, ListOf
<1>4. ASSUME NEW x \in S PROVE x \in ToSet(s \o t)
  <2>1. /\ Len(s) \in Nat /\ Len(t) \in Nat
        /\ \A i \in 1..Len(s) : (s \o t)[i] = s[i]
        /\ \A i \in 1..Len(t) : (s \o t)[Len(s) + i] = t[i]
    BY <1>1
  <2>2. DOMAIN (s \o t) = 1..(Len(s) + Len(t))
    BY <1>2
  <2>3. CASE x \in ToSet(s)
    <3>1. PICK i \in 1..Len(s) : x = s[i]
      BY <2>3, ListDomain
    <3>2. i \in DOMAIN (s \o t)
      BY <2>1, <2>2
    <3>3. QED BY <2>1, <3>1, <3>2 DEF ToSet
  <2>4. CASE x \in ToSet(t)
    <3>1. PICK i \in 1..Len(t) : x = t[i]
      BY <2>4, ListDomain
    <3>2. Len(s) + i \in DOMAIN (s \o t)
      BY <2>1, <2>2
    <3>3. QED BY <2>1, <3>1, <3>2 DEF ToSet
  <2>5. QED BY <2>3, <2>4 DEF S
<1>5. QED BY <1>2, <1>3, <1>4, ListOf DEF S

(* A set of numbers has a least one: their initial segments are finite sets,
   and inclusion is well-founded on those. *)
LEMMA NatMin ==
  ASSUME NEW S \in SUBSET Nat, S # {}
  PROVE \E n \in S : \A j \in S : n <= j
<1> DEFINE Below(n) == 0..n
<1> DEFINE T == {Below(n) : n \in S}
<1>1. ASSUME NEW n \in S PROVE Below(n) \in FiniteSubsetsOf(Nat)
  <2>1. n \in Int /\ 0 \in Int OBVIOUS
  <2>2. IsFiniteSet(0..n) BY <2>1, FS_Interval
  <2>3. 0..n \in SUBSET Nat OBVIOUS
  <2>4. QED BY <2>2, <2>3 DEF FiniteSubsetsOf
<1>2. T \subseteq FiniteSubsetsOf(Nat) /\ T # {}
  BY <1>1
<1>3. IsWellFoundedOn(StrictSubsetOrdering(Nat), FiniteSubsetsOf(Nat))
  BY FS_StrictSubsetOrderingWellFounded
<1>4. PICK x \in T : \A y \in T : ~(<<y, x>> \in StrictSubsetOrdering(Nat))
  <2> HIDE DEF T
  <2>1. QED BY <1>2, <1>3, WFMin
<1>5. PICK n \in S : x = Below(n)
  OBVIOUS
<1>6. ASSUME NEW j \in S, j < n PROVE FALSE
  <2>1. j \in Nat /\ n \in Nat OBVIOUS
  <2>2. Below(j) \subseteq Below(n) BY <2>1, <1>6
  <2>3. n \in Below(n) /\ n \notin Below(j) BY <2>1, <1>6
  <2>4. Below(j) \in SUBSET Nat /\ Below(n) \in SUBSET Nat BY <2>1
  <2>5. <<Below(j), Below(n)>> \in StrictSubsetOrdering(Nat)
    <3> HIDE DEF Below
    <3>1. Below(j) # Below(n) BY <2>3
    <3>2. QED BY <2>2, <2>4, <3>1 DEF StrictSubsetOrdering
  <2>6. QED BY <1>4, <1>5, <2>5
<1>7. ASSUME NEW j \in S PROVE n <= j
  <2>1. j \in Nat /\ n \in Nat OBVIOUS
  <2>2. QED BY <2>1, <1>6
<1>8. QED BY <1>7

(* Induction, said of a set.                                               *)
LEMMA NatInduct ==
  ASSUME NEW S \in SUBSET Nat, 0 \in S, \A n \in S : n + 1 \in S
  PROVE S = Nat
<1> SUFFICES ASSUME NEW x \in Nat \ S PROVE FALSE
  OBVIOUS
<1>1. PICK n \in Nat \ S : \A j \in Nat \ S : n <= j
  BY NatMin
<1>2. n # 0 /\ n - 1 \in Nat
  BY <1>1
<1>3. n - 1 \in S
  BY <1>1, <1>2
<1>4. (n - 1) + 1 \in S
  BY <1>3
<1>5. QED BY <1>1, <1>4

(* The recursion of Flat has a solution, by induction on its domain.       *)
LEMMA FlatExists ==
  ASSUME NEW ss, NEW n \in Nat
  PROVE  \E f : f = [i \in 0..n |-> IF i = 0 THEN << >> ELSE f[i - 1] \o ss[i]]
<1> DEFINE Solved(k) == \E f : f = [i \in 0..k |-> IF i = 0 THEN << >> ELSE f[i - 1] \o ss[i]]
<1> DEFINE S == {k \in Nat : Solved(k)}
<1>1. 0 \in S
  <2> DEFINE f == [i \in 0..0 |-> << >>]
  <2>1. f = [i \in 0..0 |-> IF i = 0 THEN << >> ELSE f[i - 1] \o ss[i]]
    OBVIOUS
  <2>2. QED BY <2>1
<1>2. ASSUME NEW k \in S PROVE k + 1 \in S
  <2>1. k \in Nat /\ Solved(k)
    OBVIOUS
  <2>2. PICK f : f = [i \in 0..k |-> IF i = 0 THEN << >> ELSE f[i - 1] \o ss[i]]
    BY <2>1
  <2> DEFINE g == [i \in 0..k + 1 |-> IF i = k + 1 THEN f[k] \o ss[i] ELSE f[i]]
  <2>3. ASSUME NEW i \in 0..k + 1
        PROVE  g[i] = IF i = 0 THEN << >> ELSE g[i - 1] \o ss[i]
    <3>1. CASE i = 0
      BY <2>1, <2>2, <3>1
    <3>2. CASE i \in 1..k
      <4>1. g[i] = f[i] /\ g[i - 1] = f[i - 1] /\ i # 0
        BY <2>1, <3>2
      <4>2. f[i] = f[i - 1] \o ss[i]
        BY <2>1, <2>2, <3>2
      <4>3. QED BY <4>1, <4>2
    <3>3. CASE i = k + 1
      <4>1. g[i] = f[k] \o ss[i] /\ i # 0 /\ i - 1 = k
        BY <2>1, <3>3
      <4>2. g[k] = f[k]
        BY <2>1
      <4>3. QED BY <4>1, <4>2
    <3>4. QED BY <2>1, <3>1, <3>2, <3>3
  <2>4. g = [i \in 0..k + 1 |-> IF i = 0 THEN << >> ELSE g[i - 1] \o ss[i]]
    <3>1. g = [i \in 0..k + 1 |-> g[i]]
      OBVIOUS
    <3> HIDE DEF g
    <3>2. QED BY <2>3, <3>1
  <2> HIDE DEF g
  <2>5. \E h : h = [i \in 0..k + 1 |-> IF i = 0 THEN << >> ELSE h[i - 1] \o ss[i]]
    BY <2>4
  <2>6. Solved(k + 1)
    BY <2>5
  <2> HIDE DEF Solved
  <2>7. QED BY <2>1, <2>6
<1>3. S = Nat
  <2>1. S \in SUBSET Nat
    OBVIOUS
  <2> HIDE DEF S
  <2>2. QED BY <1>1, <1>2, <2>1, NatInduct
<1>4. n \in S
  BY <1>3
<1>5. QED BY <1>4

(* What Joined, and so Concat, makes of lists: a list of what is in them.  *)
LEMMA JoinedLists ==
  ASSUME NEW n \in Nat, NEW ss, ss = [i \in 1..n |-> ss[i]], \A i \in 1..n : IsList(ss[i])
  PROVE  IsList(Joined(ss)) /\ \A x : x \in ToSet(Joined(ss)) <=> \E i \in 1..n : x \in ToSet(ss[i])
<1>1. Len(ss) = n
  BY IsAList
<1>2. PICK f : f = [i \in 0..n |-> IF i = 0 THEN << >> ELSE f[i - 1] \o ss[i]] /\ Joined(ss) = f[n]
  <2> DEFINE P(g) == g = [i \in 0..n |-> IF i = 0 THEN << >> ELSE g[i - 1] \o ss[i]]
  <2> DEFINE g == CHOOSE h : P(h)
  <2>1. Joined(ss) = Flat(ss)
    BY DEF Joined, Given
  <2>2. Flat(ss) = g[n]
    BY <1>1 DEF Flat
  <2>3. P(g)
    <3>1. \E h : P(h)
      BY FlatExists
    <3> HIDE DEF P
    <3>2. QED BY <3>1
  <2> HIDE DEF g
  <2>4. QED BY <2>1, <2>2, <2>3
<1>3. f[0] = << >> /\ \A i \in 1..n : f[i] = f[i - 1] \o ss[i]
  <2> DEFINE Def(i) == IF i = 0 THEN << >> ELSE f[i - 1] \o ss[i]
  <2>1. f = [i \in 0..n |-> Def(i)]
    BY <1>2
  <2> HIDE DEF Def
  <2>2. \A i \in 0..n : f[i] = Def(i)
    BY <2>1
  <2>3. 0 \in 0..n /\ \A i \in 1..n : i \in 0..n /\ i # 0
    OBVIOUS
  <2>4. QED BY <2>2, <2>3 DEF Def
<1> DEFINE S == {k \in Nat : k <= n => /\ IsList(f[k])
                                        /\ \A x : x \in ToSet(f[k]) <=> \E i \in 1..k : x \in ToSet(ss[i])}
<1>4. 0 \in S
  BY <1>3, ShortLists
<1>5. ASSUME NEW k \in S PROVE k + 1 \in S
  <2>1. CASE k + 1 <= n
    <3>1. k \in Nat /\ k + 1 \in 1..n /\ (k + 1) - 1 = k /\ k <= n
      BY <2>1
    <3>2. IsList(f[k]) /\ \A x : x \in ToSet(f[k]) <=> \E i \in 1..k : x \in ToSet(ss[i])
      BY <3>1
    <3>3. f[k + 1] = f[k] \o ss[k + 1] /\ IsList(ss[k + 1])
      BY <1>3, <3>1
    <3>4. IsList(f[k + 1]) /\ ToSet(f[k + 1]) = ToSet(f[k]) \cup ToSet(ss[k + 1])
      BY <3>2, <3>3, JoinTwo
    <3>5. \A i : i \in 1..k + 1 <=> i \in 1..k \/ i = k + 1
      BY <3>1
    <3>6. \A x : x \in ToSet(f[k + 1]) <=> \E i \in 1..k + 1 : x \in ToSet(ss[i])
      BY <3>2, <3>4, <3>5
    <3>7. QED BY <3>1, <3>4, <3>6
  <2>2. QED BY <2>1
<1>6. S = Nat
  <2>1. S \in SUBSET Nat
    OBVIOUS
  <2> HIDE DEF S
  <2>2. QED BY <1>4, <1>5, <2>1, NatInduct
<1>7. QED BY <1>2, <1>6

(* Closed begins with Ground and adds to it round by round.                *)
Ground(base) == [all |-> base, new |-> base]

Added(s, next) == (UNION {next[p] : p \in s.new \cap DOMAIN next}) \ s.all

Grown(s, next) == [all |-> s.all \cup Added(s, next), new |-> Added(s, next)]

Rounds(f, n, base, next) ==
  f = [i \in 0..n |-> IF i = 0 THEN Ground(base) ELSE Grown(f[i - 1], next)]

(* The recursion of Closed has a solution, by induction on its domain.     *)
LEMMA ClosedExists ==
  ASSUME NEW base, NEW next, NEW n \in Nat
  PROVE  \E f : Rounds(f, n, base, next)
<1> DEFINE Solved(k) == \E f : f = [i \in 0..k |-> IF i = 0 THEN Ground(base) ELSE Grown(f[i - 1], next)]
<1> DEFINE S == {k \in Nat : Solved(k)}
<1>1. 0 \in S
  <2> DEFINE f == [i \in 0..0 |-> Ground(base)]
  <2>1. f = [i \in 0..0 |-> IF i = 0 THEN Ground(base) ELSE Grown(f[i - 1], next)]
    OBVIOUS
  <2>2. QED BY <2>1
<1>2. ASSUME NEW k \in S PROVE k + 1 \in S
  <2>1. k \in Nat /\ Solved(k)
    OBVIOUS
  <2>2. PICK f : f = [i \in 0..k |-> IF i = 0 THEN Ground(base) ELSE Grown(f[i - 1], next)]
    BY <2>1
  <2> DEFINE g == [i \in 0..k + 1 |-> IF i = k + 1 THEN Grown(f[k], next) ELSE f[i]]
  <2>3. ASSUME NEW i \in 0..k + 1
        PROVE  g[i] = IF i = 0 THEN Ground(base) ELSE Grown(g[i - 1], next)
    <3>1. CASE i = 0
      BY <2>1, <2>2, <3>1
    <3>2. CASE i \in 1..k
      <4>1. g[i] = f[i] /\ g[i - 1] = f[i - 1] /\ i # 0
        BY <2>1, <3>2
      <4>2. f[i] = Grown(f[i - 1], next)
        BY <2>1, <2>2, <3>2
      <4>3. QED BY <4>1, <4>2
    <3>3. CASE i = k + 1
      <4>1. g[i] = Grown(f[k], next) /\ i # 0 /\ i - 1 = k
        BY <2>1, <3>3
      <4>2. g[k] = f[k]
        BY <2>1
      <4>3. QED BY <4>1, <4>2
    <3>4. QED BY <2>1, <3>1, <3>2, <3>3
  <2>4. g = [i \in 0..k + 1 |-> IF i = 0 THEN Ground(base) ELSE Grown(g[i - 1], next)]
    <3>1. g = [i \in 0..k + 1 |-> g[i]]
      OBVIOUS
    <3> HIDE DEF g
    <3>2. QED BY <2>3, <3>1
  <2> HIDE DEF g
  <2>5. \E h : h = [i \in 0..k + 1 |-> IF i = 0 THEN Ground(base) ELSE Grown(h[i - 1], next)]
    BY <2>4
  <2>6. Solved(k + 1)
    BY <2>5
  <2> HIDE DEF Solved
  <2>7. QED BY <2>1, <2>6
<1>3. S = Nat
  <2>1. S \in SUBSET Nat
    OBVIOUS
  <2> HIDE DEF S
  <2>2. QED BY <1>1, <1>2, <2>1, NatInduct
<1>4. n \in S
  BY <1>3
<1>5. QED BY <1>4 DEF Rounds

InRounds(f, N, base, next) ==
  /\ f[0].all = base /\ f[0].new = base
  /\ \A i \in 1..N : /\ f[i].new = Added(f[i - 1], next)
                     /\ f[i].all = f[i - 1].all \cup f[i].new

(* A round adds what comes next of the last one, and is not there yet.     *)
LEMMA WhatIsAdded ==
  ASSUME NEW s, NEW next
  PROVE  \A x : x \in Added(s, next) <=> x \notin s.all /\ \E p \in s.new \cap DOMAIN next : x \in next[p]
BY DEF Added

(* What its rounds are: each adds what comes next after the names the last
   one added, and Closed is what there is after the last of them. *)
LEMMA ClosedRounds ==
  ASSUME NEW base, NEW next, NEW N, N = Cardinality(DOMAIN next), N \in Nat
  PROVE  \E f : Closed(base, next) = f[N].all /\ InRounds(f, N, base, next)
<1>1. PICK f : Rounds(f, N, base, next) /\ Closed(base, next) = f[N].all
  <2> DEFINE g == CHOOSE h : Rounds(h, N, base, next)
  <2>1. \E h : Rounds(h, N, base, next)
    BY ClosedExists
  <2>2. Closed(base, next) = g[N].all
    BY DEF Closed, Grown, Added, Ground, Rounds
  <2>3. Rounds(g, N, base, next)
    BY <2>1
  <2> HIDE DEF g
  <2>4. QED BY <2>2, <2>3
<1>2. f[0] = Ground(base) /\ \A i \in 1..N : f[i] = Grown(f[i - 1], next)
  <2> DEFINE Def(i) == IF i = 0 THEN Ground(base) ELSE Grown(f[i - 1], next)
  <2>1. f = [i \in 0..N |-> Def(i)]
    BY <1>1 DEF Rounds
  <2> HIDE DEF Def
  <2>2. \A i \in 0..N : f[i] = Def(i)
    BY <2>1
  <2>3. 0 \in 0..N /\ \A i \in 1..N : i \in 0..N /\ i # 0
    OBVIOUS
  <2>4. QED BY <2>2, <2>3 DEF Def
<1>3. ASSUME NEW i \in 1..N
      PROVE  /\ f[i].new = Added(f[i - 1], next)
             /\ f[i].all = f[i - 1].all \cup f[i].new
  <2> DEFINE s == f[i - 1]
  <2>1. f[i] = Grown(s, next)
    BY <1>2
  <2> HIDE DEF s
  <2>2. f[i].new = Added(s, next) /\ f[i].all = s.all \cup Added(s, next)
    BY <2>1 DEF Grown
  <2>3. QED BY <2>2 DEF s
<1>4. f[0].all = base /\ f[0].new = base
  BY <1>2 DEF Ground
<1>5. QED BY <1>1, <1>3, <1>4 DEF InRounds

(* Closed stays within whatever holds its base and, of each name it reaches,
   what comes next. *)
LEMMA ClosedWithin ==
  ASSUME NEW base, NEW next, IsFiniteSet(DOMAIN next), NEW S, base \subseteq S,
         \A p \in S \cap Closed(base, next) \cap DOMAIN next : next[p] \subseteq S
  PROVE  Closed(base, next) \subseteq S /\ base \subseteq Closed(base, next)
<1> DEFINE N == Cardinality(DOMAIN next)
<1>0. N \in Nat
  BY FS_CardinalityType
<1>1. PICK f : Closed(base, next) = f[N].all /\ InRounds(f, N, base, next)
  BY <1>0, ClosedRounds
<1>2. /\ f[0].all = base /\ f[0].new = base
      /\ \A i \in 1..N : f[i].new = Added(f[i - 1], next) /\ f[i].all = f[i - 1].all \cup f[i].new
  BY <1>1 DEF InRounds
<1> HIDE DEF N
<1>3. \A i \in 1..N : /\ f[i - 1].all \subseteq f[i].all /\ f[i].new \subseteq f[i].all
                      /\ f[i].all = f[i - 1].all \cup f[i].new
                      /\ \A x \in f[i].new : \E p \in f[i - 1].new \cap DOMAIN next : x \in next[p]
  BY <1>2, WhatIsAdded
<1> DEFINE T == {d \in Nat : d <= N => f[N - d].all \subseteq f[N].all}
<1>4. T = Nat
  <2>1. 0 \in T
    BY <1>0
  <2>2. ASSUME NEW d \in T PROVE d + 1 \in T
    <3>1. CASE d + 1 <= N
      <4>1. d \in Nat /\ d <= N /\ N - d \in 1..N /\ N - (d + 1) = (N - d) - 1
        BY <1>0, <3>1
      <4>2. f[N - d].all \subseteq f[N].all
        BY <4>1
      <4>3. f[N - (d + 1)].all \subseteq f[N - d].all
        BY <1>3, <4>1
      <4>4. QED BY <4>1, <4>2, <4>3
    <3>2. QED BY <3>1
  <2>3. T \in SUBSET Nat
    OBVIOUS
  <2> HIDE DEF T
  <2>4. QED BY <2>1, <2>2, <2>3, NatInduct
<1>5. \A i \in 0..N : f[i].all \subseteq f[N].all
  <2> SUFFICES ASSUME NEW i \in 0..N PROVE f[i].all \subseteq f[N].all
    OBVIOUS
  <2>1. N - i \in Nat /\ N - i <= N /\ N - (N - i) = i
    BY <1>0
  <2>2. QED BY <1>4, <2>1
<1> HIDE DEF T
<1> DEFINE U == {k \in Nat : k <= N => f[k].all \subseteq S /\ f[k].new \subseteq S \cap f[N].all}
<1>6. 0 \in U
  <2>1. f[0].all = base /\ f[0].new = base /\ 0 \in 0..N
    BY <1>0, <1>2
  <2>2. QED BY <1>5, <2>1
<1>7. ASSUME NEW k \in U PROVE k + 1 \in U
  <2>1. CASE k + 1 <= N
    <3>1. k \in Nat /\ k <= N /\ k + 1 \in 1..N /\ k + 1 \in 0..N /\ (k + 1) - 1 = k
      BY <1>0, <2>1
    <3>2. f[k].all \subseteq S /\ f[k].new \subseteq S \cap f[N].all
      BY <3>1
    <3>3. /\ f[k + 1].new \subseteq f[k + 1].all /\ f[k + 1].all = f[k].all \cup f[k + 1].new
          /\ \A x \in f[k + 1].new : \E p \in f[k].new \cap DOMAIN next : x \in next[p]
      BY <1>3, <3>1
    <3>4. f[k + 1].new \subseteq S
      BY <1>1, <3>2, <3>3
    <3>5. f[k + 1].new \subseteq f[N].all
      BY <1>5, <3>1, <3>3
    <3>6. QED BY <3>1, <3>2, <3>3, <3>4, <3>5
  <2>2. QED BY <2>1
<1>8. U = Nat
  <2>1. U \in SUBSET Nat
    OBVIOUS
  <2> HIDE DEF U
  <2>2. QED BY <1>6, <1>7, <2>1, NatInduct
<1>9. base \subseteq f[N].all
  <2>1. f[0].all = base /\ 0 \in 0..N
    BY <1>0, <1>2
  <2>2. QED BY <1>5, <2>1
<1>10. f[N].all \subseteq S
  BY <1>0, <1>8
<1>11. QED BY <1>1, <1>9, <1>10

(* And it is closed: as long as a round adds names that have a next, there
   are more of those than rounds so far. *)
LEMMA ClosedIsClosed ==
  ASSUME NEW base, NEW next, IsFiniteSet(DOMAIN next), NEW p \in Closed(base, next) \cap DOMAIN next
  PROVE  next[p] \subseteq Closed(base, next)
<1> DEFINE D == DOMAIN next
<1> DEFINE N == Cardinality(D)
<1>0. N \in Nat
  BY FS_CardinalityType
<1>1. PICK f : Closed(base, next) = f[N].all /\ InRounds(f, N, base, next)
  BY <1>0, ClosedRounds
<1>2. /\ f[0].all = base /\ f[0].new = base
      /\ \A i \in 1..N : f[i].new = Added(f[i - 1], next) /\ f[i].all = f[i - 1].all \cup f[i].new
  BY <1>1 DEF InRounds
<1>3. \A X : IsFiniteSet(X \cap D) /\ Cardinality(X \cap D) \in Nat /\ Cardinality(X \cap D) <= N
  <2>1. \A X : X \cap D \in SUBSET D
    OBVIOUS
  <2>2. QED BY <2>1, FS_Subset, FS_CardinalityType
<1> HIDE DEF N, D
<1> DEFINE S == {k \in Nat : k <= N => \A q \in f[k].all \cap D : q \in f[k].new \/ next[q] \subseteq f[k].all}
<1>4. S = Nat
  <2>1. 0 \in S
    BY <1>2
  <2>2. ASSUME NEW k \in S PROVE k + 1 \in S
    <3>1. CASE k + 1 <= N
      <4>1. k \in Nat /\ k <= N /\ k + 1 \in 1..N /\ (k + 1) - 1 = k
        BY <1>0, <3>1
      <4>2. \A q \in f[k].all \cap D : q \in f[k].new \/ next[q] \subseteq f[k].all
        BY <4>1
      <4>3. f[k + 1].new = Added(f[k], next) /\ f[k + 1].all = f[k].all \cup f[k + 1].new
        BY <1>2, <4>1
      <4>4. \A q \in f[k].new \cap D : next[q] \subseteq f[k + 1].all
        BY <4>3, WhatIsAdded DEF D
      <4>5. \A q \in f[k + 1].all \cap D : q \in f[k + 1].new \/ next[q] \subseteq f[k + 1].all
        BY <4>2, <4>3, <4>4
      <4>6. QED BY <4>1, <4>5
    <3>2. QED BY <3>1
  <2>3. S \in SUBSET Nat
    OBVIOUS
  <2> HIDE DEF S
  <2>4. QED BY <2>1, <2>2, <2>3, NatInduct
<1> DEFINE T == {k \in Nat : k <= N => (f[k].new \cap D # {} => Cardinality(f[k].all \cap D) >= k + 1)}
<1>5. T = Nat
  <2>1. 0 \in T
    <3>1. f[0].new \cap D # {} => Cardinality(f[0].all \cap D) >= 1
      <4>1. SUFFICES ASSUME base \cap D # {} PROVE Cardinality(base \cap D) >= 1
        BY <1>2
      <4>2. Cardinality(base \cap D) # 0
        BY <1>3, <4>1, FS_EmptySet
      <4>3. QED BY <1>3, <4>2
    <3>2. QED BY <3>1
  <2>2. ASSUME NEW k \in T PROVE k + 1 \in T
    <3> SUFFICES ASSUME k + 1 <= N, f[k + 1].new \cap D # {}
                 PROVE  Cardinality(f[k + 1].all \cap D) >= (k + 1) + 1
      OBVIOUS
    <3>1. k \in Nat /\ k <= N /\ k + 1 \in 1..N /\ (k + 1) - 1 = k
      BY <1>0
    <3>2. f[k + 1].new = Added(f[k], next) /\ f[k + 1].all = f[k].all \cup f[k + 1].new
      BY <1>2, <3>1
    <3>3. f[k].new \cap D # {} /\ f[k + 1].new \cap f[k].all = {}
      BY <3>2, WhatIsAdded DEF D
    <3>4. Cardinality(f[k].all \cap D) >= k + 1
      BY <3>1, <3>3
    <3> DEFINE A == f[k].all \cap D
    <3> DEFINE B == f[k + 1].all \cap D
    <3>5. A \in SUBSET B /\ A # B
      BY <3>2, <3>3
    <3>6. IsFiniteSet(B) /\ Cardinality(A) \in Nat /\ Cardinality(B) \in Nat
      BY <1>3
    <3> HIDE DEF A, B
    <3>7. Cardinality(A) <= Cardinality(B) /\ Cardinality(A) # Cardinality(B)
      BY <3>5, <3>6, FS_Subset
    <3>8. Cardinality(A) >= k + 1
      BY <3>4 DEF A
    <3>9. Cardinality(B) >= (k + 1) + 1
      BY <3>1, <3>6, <3>7, <3>8
    <3>10. QED BY <3>9 DEF B
  <2>3. T \in SUBSET Nat
    OBVIOUS
  <2> HIDE DEF T
  <2>4. QED BY <2>1, <2>2, <2>3, NatInduct
<1>6. f[N].new \cap D = {}
  <2>1. f[N].new \cap D # {} => Cardinality(f[N].all \cap D) >= N + 1
    BY <1>0, <1>5
  <2>2. Cardinality(f[N].all \cap D) \in Nat /\ Cardinality(f[N].all \cap D) <= N
    BY <1>3
  <2>3. QED BY <1>0, <2>1, <2>2
<1>7. p \in f[N].all \cap D
  BY <1>1 DEF D
<1>8. p \in f[N].new \/ next[p] \subseteq f[N].all
  BY <1>0, <1>4, <1>7
<1>9. QED BY <1>1, <1>6, <1>7, <1>8

(* Every row of a list is a success.                                       *)
AllOk(rows) == \A r \in ToSet(rows) : r.ok

(* Rows are good one after the other if they are good apart.               *)
LEMMA RowsOfTwo ==
  ASSUME NEW s, NEW t, IsList(s), IsList(t)
  PROVE  IsList(s \o t) /\ (AllOk(s \o t) => AllOk(s) /\ AllOk(t))
BY JoinTwo DEF AllOk

(* No rows refuse nothing.                                                 *)
LEMMA NoRows == IsList(<< >>) /\ AllOk(<< >>)
BY ShortLists DEF AllOk

(* One row is good if what it asked was.                                   *)
LEMMA OneRow ==
  ASSUME NEW p, NEW ok \in BOOLEAN, NEW checked
  PROVE  IsList(<< Row(p, ok, checked) >>) /\ (AllOk(<< Row(p, ok, checked) >>) => ok)
<1>1. Row(p, ok, checked).ok = ok
  BY DEF Row
<1>2. IsList(<< Row(p, ok, checked) >>) /\ Row(p, ok, checked) \in ToSet(<< Row(p, ok, checked) >>)
  BY ShortLists
<1>3. QED BY <1>1, <1>2 DEF AllOk

(* check_file.                                                             *)
LEMMA FileRow ==
  ASSUME NEW p, NEW owner, NEW want_exec
  PROVE  /\ IsList(CheckFile(p, owner, want_exec))
         /\ AllOk(CheckFile(p, owner, want_exec)) => PathTrusted(p, owner, want_exec)
<1>1. PathTrusted(p, owner, want_exec) \in BOOLEAN
  BY DEF PathTrusted
<1>2. QED BY <1>1, OneRow DEF CheckFile

(* check_dir.                                                              *)
LEMMA DirRow ==
  ASSUME NEW p
  PROVE  IsList(CheckDir(p)) /\ (AllOk(CheckDir(p)) => DirTrusted(p, 0))
<1>1. DirTrusted(p, 0) \in BOOLEAN
  BY DEF DirTrusted, TrustedWalk
<1>2. QED BY <1>1, OneRow DEF CheckDir

(* The rows of the elements of a list.                                     *)
LEMMA RowsOfEach ==
  ASSUME NEW s, IsList(s), NEW rows, rows = [i \in DOMAIN s |-> rows[i]], \A i \in DOMAIN s : IsList(rows[i])
  PROVE  IsList(Joined(rows)) /\ (AllOk(Joined(rows)) => \A i \in DOMAIN s : AllOk(rows[i]))
<1>1. Len(s) \in Nat /\ DOMAIN s = 1..Len(s)
  BY ListDomain
<1>2. IsList(Joined(rows)) /\ \A x : x \in ToSet(Joined(rows)) <=> \E i \in 1..Len(s) : x \in ToSet(rows[i])
  BY <1>1, JoinedLists
<1>3. QED BY <1>1, <1>2 DEF AllOk

(* check_dir of the directories that exist.                                *)
LEMMA IfExistsRows ==
  ASSUME NEW dirs, IsList(dirs)
  PROVE  /\ IsList(Concat(dirs, CheckIfExists))
         /\ AllOk(Concat(dirs, CheckIfExists)) => \A d \in ToSet(dirs) : Exists(d) => DirTrusted(d, 0)
<1> DEFINE rows == [i \in DOMAIN dirs |-> CheckIfExists(dirs[i])]
<1>1. Concat(dirs, CheckIfExists) = Joined(rows)
  BY DEF Concat, Given
<1>2. ASSUME NEW d PROVE IsList(CheckIfExists(d)) /\ (AllOk(CheckIfExists(d)) => (Exists(d) => DirTrusted(d, 0)))
  BY DirRow, NoRows DEF CheckIfExists
<1>3. /\ rows = [i \in DOMAIN dirs |-> rows[i]]
      /\ \A i \in DOMAIN dirs : rows[i] = CheckIfExists(dirs[i])
  OBVIOUS
<1> HIDE DEF rows
<1>4. IsList(Joined(rows)) /\ (AllOk(Joined(rows)) => \A i \in DOMAIN dirs : AllOk(rows[i]))
  BY <1>2, <1>3, RowsOfEach
<1>5. QED BY <1>1, <1>2, <1>3, <1>4 DEF ToSet

(* What Those keeps of a list.                                             *)
LEMMA VisibleNames ==
  ASSUME NEW dir, IsList(Object(dir).holds)
  PROVE  IsList(Visible(dir))
<1> DEFINE s == Object(dir).holds
<1> DEFINE ss == [i \in DOMAIN s |-> IF s[i] # ".hidden" THEN << s[i] >> ELSE << >>]
<1>1. Visible(dir) = Joined(ss)
  BY DEF Visible, Those, Concat, Given
<1> HIDE DEF s
<1>2. Len(s) \in Nat /\ DOMAIN s = 1..Len(s)
  BY ListDomain DEF s
<1>3. ss = [i \in 1..Len(s) |-> ss[i]] /\ \A i \in 1..Len(s) : IsList(ss[i])
  BY <1>2, ShortLists
<1> HIDE DEF ss
<1>4. QED BY <1>1, <1>2, <1>3, JoinedLists

(* The dylibs the walk follows are the absolute ones of the image.         *)
LEMMA NeededNames ==
  ASSUME IsList(info.names)
  PROVE  IsList(Needed) /\ ToSet(Needed) = {d \in ToSet(info.names) : Absolute(d)}
<1> DEFINE s == info.names
<1> DEFINE ss == [i \in DOMAIN s |-> IF Absolute(s[i]) THEN << s[i] >> ELSE << >>]
<1>1. Needed = Joined(ss)
  BY DEF Needed, Those, Concat, Given
<1> HIDE DEF s
<1>2. Len(s) \in Nat /\ DOMAIN s = 1..Len(s)
  BY ListDomain DEF s
<1>3. /\ ss = [i \in 1..Len(s) |-> ss[i]]
      /\ \A i \in 1..Len(s) : ss[i] = IF Absolute(s[i]) THEN << s[i] >> ELSE << >>
  BY <1>2
<1> HIDE DEF ss
<1>4. ASSUME NEW i \in 1..Len(s)
      PROVE  IsList(ss[i]) /\ \A x : x \in ToSet(ss[i]) <=> x = s[i] /\ Absolute(x)
  <2>1. CASE Absolute(s[i])
    BY <1>3, <2>1, ShortLists
  <2>2. CASE ~ Absolute(s[i])
    BY <1>3, <2>2, ShortLists
  <2>3. QED BY <2>1, <2>2
<1>5. IsList(Joined(ss)) /\ \A x : x \in ToSet(Joined(ss)) <=> \E i \in 1..Len(s) : x \in ToSet(ss[i])
  BY <1>2, <1>3, <1>4, JoinedLists
<1>6. \A x : x \in ToSet(s) <=> \E i \in 1..Len(s) : x = s[i]
  BY <1>2 DEF ToSet
<1>7. \A x : x \in ToSet(Joined(ss)) <=> x \in ToSet(s) /\ Absolute(x)
  BY <1>4, <1>5, <1>6
<1>8. QED BY <1>1, <1>5, <1>7 DEF s

(* The .d directories of the hooks root.                                   *)
LEMMA HookDirsList ==
  ASSUME NEW root, IsList(Object(root).holds)
  PROVE  IsList(HookDirs(root))
<1> DEFINE s == Visible(root)
<1> DEFINE dirs == [i \in DOMAIN s |-> Append(root, s[i])]
<1> DEFINE ss == [i \in DOMAIN dirs |->
                    IF Last(dirs[i]) \in DotD /\ m.at[dirs[i]].kind = "dir" THEN << dirs[i] >> ELSE << >>]
<1>1. HookDirs(root) = DotDirs(m.at, dirs)
  BY DEF HookDirs
<1> HIDE DEF s
<1>2. Len(s) \in Nat /\ DOMAIN s = 1..Len(s)
  BY VisibleNames, ListDomain DEF s
<1>3. DOMAIN dirs = 1..Len(s)
  BY <1>2
<1> HIDE DEF dirs
<1>4. DotDirs(m.at, dirs) = Joined(ss)
  BY DEF DotDirs, Those, Concat, Given
<1>5. ss = [i \in 1..Len(s) |-> ss[i]] /\ \A i \in 1..Len(s) : IsList(ss[i])
  BY <1>3, ShortLists
<1> HIDE DEF ss
<1>6. QED BY <1>1, <1>2, <1>4, <1>5, JoinedLists

-----------------------------------------------------------------------------
(* What the sections of the walk have looked at, when their rows are good  *)

(* A directory root can list has a list of names.                          *)
LEMMA ListedDirs ==
  ASSUME WellMade, NEW dir, Lists(dir)
  PROVE  IsList(Object(dir).holds)
BY DEF WellMade, Lists, Opens, Leads, Exists

(* check_shebang.                                                          *)
LEMMA ShebangRows ==
  ASSUME NEW script, NEW owner
  PROVE  /\ IsList(CheckShebang(script, owner))
         /\ AllOk(CheckShebang(script, owner)) => \A p \in Interpreter(script) : PathTrusted(p, owner, TRUE)
BY FileRow, NoRows DEF CheckShebang, Interpreter

(* The files of a directory that is read.                                  *)
FileRows(dir) == Concat(Visible(dir), LAMBDA name : CheckFile(Append(dir, name), 0, FALSE))

(* Each of them is checked as a file.                                      *)
LEMMA FileRowsOk ==
  ASSUME WellMade, NEW dir, Lists(dir)
  PROVE  /\ IsList(FileRows(dir))
         /\ AllOk(FileRows(dir)) => \A p \in Sees(dir) : PathTrusted(p, 0, FALSE)
<1> DEFINE s == Visible(dir)
<1> DEFINE rows == [i \in DOMAIN s |-> CheckFile(Append(dir, s[i]), 0, FALSE)]
<1>1. FileRows(dir) = Joined(rows)
  BY DEF FileRows, Concat, Given
<1>2. IsList(s)
  BY ListedDirs, VisibleNames
<1>3. \A p \in Sees(dir) : \E i \in DOMAIN s : p = Append(dir, s[i])
  BY DEF Sees, ToSet
<1> HIDE DEF s
<1>4. /\ rows = [i \in DOMAIN s |-> rows[i]]
      /\ \A i \in DOMAIN s : rows[i] = CheckFile(Append(dir, s[i]), 0, FALSE)
  OBVIOUS
<1> HIDE DEF rows
<1>5. IsList(Joined(rows)) /\ (AllOk(Joined(rows)) => \A i \in DOMAIN s : AllOk(rows[i]))
  <2>1. ASSUME NEW i \in DOMAIN s PROVE IsList(rows[i])
    <3>1. IsList(CheckFile(Append(dir, s[i]), 0, FALSE))
      BY FileRow
    <3>2. QED BY <1>4, <3>1
  <2>2. QED BY <1>2, <1>4, <2>1, RowsOfEach
<1>6. ASSUME AllOk(Joined(rows)), NEW p \in Sees(dir) PROVE PathTrusted(p, 0, FALSE)
  <2>1. PICK i \in DOMAIN s : p = Append(dir, s[i])
    BY <1>3
  <2>2. rows[i] = CheckFile(p, 0, FALSE) /\ AllOk(rows[i])
    BY <1>4, <1>5, <1>6, <2>1
  <2>3. QED BY <2>2, FileRow
<1>7. QED BY <1>1, <1>5, <1>6

(* One hook directory.                                                     *)
HookRows(sub) == CheckDir(sub) \o (IF Lists(sub) THEN FileRows(sub) ELSE << >>)

(* It is checked as a directory, and what is in it as files.               *)
LEMMA HookRowsOk ==
  ASSUME WellMade, NEW sub
  PROVE  /\ IsList(HookRows(sub))
         /\ AllOk(HookRows(sub)) => DirTrusted(sub, 0) /\ \A p \in Sees(sub) : PathTrusted(p, 0, FALSE)
<1> DEFINE rows == IF Lists(sub) THEN FileRows(sub) ELSE << >>
<1>1. IsList(rows) /\ (AllOk(rows) => \A p \in Sees(sub) : PathTrusted(p, 0, FALSE))
  <2>1. CASE Lists(sub)
    BY <2>1, FileRowsOk
  <2>2. CASE ~ Lists(sub)
    BY <2>2, NoRows DEF Sees
  <2>3. QED BY <2>1, <2>2
<1>2. HookRows(sub) = CheckDir(sub) \o rows
  BY DEF HookRows
<1> HIDE DEF rows
<1>3. QED BY <1>1, <1>2, DirRow, RowsOfTwo

(* What exists under a name is looked at: the file or the directory, and
   the way to it. *)
Vetted(p) == Exists(p) => TrustedWalk(p, 0, "file") \/ TrustedWalk(p, 0, "dir")

(* A trusted file was looked at.                                           *)
LEMMA VettedFiles ==
  ASSUME NEW p, NEW want_exec, PathTrusted(p, 0, want_exec)
  PROVE  Vetted(p)
BY DEF PathTrusted, Vetted

(* And so was a trusted directory.                                         *)
LEMMA VettedDirs ==
  ASSUME NEW p, DirTrusted(p, 0)
  PROVE  Vetted(p)
BY DEF DirTrusted, Vetted

(* The hooks: their root, the directories in it and the files in those.    *)
HooksSeen ==
  /\ Vetted(m.hooks_root)
  /\ \A sub \in HookSubs : Vetted(sub) /\ \A p \in Sees(sub) : Vetted(p)

(* check_hooks.                                                            *)
LEMMA HooksRows ==
  ASSUME WellMade
  PROVE  IsList(CheckHooks(m.hooks_root)) /\ (AllOk(CheckHooks(m.hooks_root)) => HooksSeen)
<1> DEFINE root == m.hooks_root
<1> DEFINE s == HookDirs(root)
<1> DEFINE rows == [i \in DOMAIN s |-> HookRows(s[i])]
<1> DEFINE under == IF Lists(root) THEN Joined(rows) ELSE << Row(root, FALSE, FALSE) >>
<1>1. CheckHooks(root) = IF ~ Exists(root) THEN << Row(root, TRUE, TRUE) >> ELSE CheckDir(root) \o under
  <2>1. Concat(s, HookRows) = Joined(rows)
    BY DEF Concat, Given
  <2> HIDE DEF s, rows
  <2>2. CheckHooks(root) = IF ~ Exists(root) THEN << Row(root, TRUE, TRUE) >>
                           ELSE CheckDir(root) \o
                                (IF Lists(root) THEN Concat(HookDirs(root), HookRows)
                                 ELSE << Row(root, FALSE, FALSE) >>)
    BY DEF CheckHooks, HookRows, FileRows
  <2>3. QED BY <2>1, <2>2 DEF s
<1>2. Lists(root) => Exists(root)
  BY DEF Lists, Opens, Leads
<1>3. HookSubs = IF Lists(root) THEN ToSet(s) ELSE {}
  BY DEF HookSubs
<1>4. CASE Lists(root)
  <2>1. IsList(s)
    BY <1>4, ListedDirs, HookDirsList
  <2> HIDE DEF s
  <2>2. rows = [i \in DOMAIN s |-> rows[i]] /\ \A i \in DOMAIN s : rows[i] = HookRows(s[i])
    OBVIOUS
  <2> HIDE DEF rows
  <2>3. IsList(Joined(rows)) /\ (AllOk(Joined(rows)) => \A i \in DOMAIN s : AllOk(rows[i]))
    BY <2>1, <2>2, HookRowsOk, RowsOfEach
  <2>4. AllOk(Joined(rows)) =>
          \A sub \in HookSubs : Vetted(sub) /\ \A p \in Sees(sub) : Vetted(p)
    BY <1>3, <1>4, <2>2, <2>3, HookRowsOk, VettedFiles, VettedDirs DEF ToSet
  <2>5. CheckHooks(root) = CheckDir(root) \o Joined(rows)
    BY <1>1, <1>2, <1>4
  <2> HIDE DEF under
  <2>6. QED BY <2>3, <2>4, <2>5, DirRow, VettedDirs, RowsOfTwo DEF HooksSeen
<1>5. CASE ~ Lists(root) /\ Exists(root)
  <2>1. CheckHooks(root) = CheckDir(root) \o << Row(root, FALSE, FALSE) >>
    BY <1>1, <1>5
  <2>2. IsList(<< Row(root, FALSE, FALSE) >>) /\ ~ AllOk(<< Row(root, FALSE, FALSE) >>)
    BY OneRow
  <2>3. QED BY <2>1, <2>2, DirRow, RowsOfTwo
<1>6. CASE ~ Exists(root)
  <2>1. CheckHooks(root) = << Row(root, TRUE, TRUE) >> /\ HookSubs = {}
    BY <1>1, <1>2, <1>3, <1>6
  <2>2. QED BY <1>6, <2>1, OneRow DEF HooksSeen, Vetted
<1>7. QED BY <1>4, <1>5, <1>6

(* The directories of PATH.                                                *)
EntryRows(dir) ==
  IF dir = << >> \/ ~ Absolute(dir) THEN << Row(dir, FALSE, TRUE) >>
  ELSE IF Exists(dir) THEN CheckDir(dir)
  ELSE << Row(dir, DirTrusted(DirnameOf(dir), 0), TRUE) >>

PathSeen == m.path_env # << >> /\ \A dir \in ToSet(PathEntries) : Absolute(dir) /\ Vetted(Parent(dir))

(* The entries are those of PATH, save perhaps an empty last one.          *)
LEMMA PathEntriesListed ==
  ASSUME WellMade
  PROVE  IsList(PathEntries) /\ ToSet(m.path_env) \subseteq ToSet(PathEntries) \cup {<< >>}
<1> DEFINE s == m.path_env
<1> DEFINE S == ToSet(s)
<1>1. IsList(s) /\ s \in Seq(S)
  BY DEF WellMade, IsList
<1>2. PathEntries = IF Len(s) > 1 /\ Last(s) = << >> THEN Front(s) ELSE s
  BY DEF PathEntries
<1> HIDE DEF S, s
<1>3. CASE Len(s) > 1 /\ Last(s) = << >>
  <2>1. Len(s) \in Nat /\ Front(s) \in Seq(S) /\ Len(Front(s)) = Len(s) - 1
        /\ \A i \in 1..Len(s) - 1 : Front(s)[i] = s[i]
    BY <1>1, <1>3 DEF Front
  <2>2. IsList(Front(s))
    BY <2>1, ListOf
  <2>3. ASSUME NEW x \in ToSet(s), x # << >> PROVE x \in ToSet(Front(s))
    <3>1. PICK i \in 1..Len(s) : x = s[i]
      BY <1>1, ListDomain
    <3>2. i # Len(s)
      BY <1>3, <2>3, <3>1 DEF Last
    <3>3. i \in 1..Len(s) - 1 /\ i \in 1..Len(Front(s))
      BY <2>1, <3>2
    <3>4. Front(s)[i] = x
      BY <2>1, <3>1, <3>3
    <3>5. QED BY <2>2, <3>3, <3>4, ListDomain
  <2>4. QED BY <1>2, <1>3, <2>2, <2>3 DEF s
<1>4. CASE ~ (Len(s) > 1 /\ Last(s) = << >>)
  BY <1>1, <1>2, <1>4 DEF s
<1>5. QED BY <1>3, <1>4

(* An entry is absolute, and it or its parent a trusted directory.         *)
LEMMA EntryRowsOk ==
  ASSUME NEW dir
  PROVE  IsList(EntryRows(dir)) /\ (AllOk(EntryRows(dir)) => Absolute(dir) /\ Vetted(Parent(dir)))
<1>1. CASE dir = << >> \/ ~ Absolute(dir)
  BY <1>1, OneRow DEF EntryRows
<1>2. CASE dir # << >> /\ Absolute(dir) /\ Exists(dir)
  BY <1>2, DirRow, VettedDirs DEF EntryRows, Parent
<1>3. CASE dir # << >> /\ Absolute(dir) /\ ~ Exists(dir)
  <2>1. DirTrusted(DirnameOf(dir), 0) \in BOOLEAN
    BY DEF DirTrusted, TrustedWalk
  <2>2. EntryRows(dir) = << Row(dir, DirTrusted(DirnameOf(dir), 0), TRUE) >> /\ Parent(dir) = DirnameOf(dir)
    BY <1>3 DEF EntryRows, Parent
  <2>3. QED BY <1>3, <2>1, <2>2, OneRow, VettedDirs
<1>4. QED BY <1>1, <1>2, <1>3

(* check_path_entries.                                                     *)
LEMMA PathRows ==
  ASSUME WellMade
  PROVE  IsList(CheckPathEntries) /\ (AllOk(CheckPathEntries) => PathSeen)
<1>1. CASE m.path_env = << >>
  BY <1>1, OneRow DEF CheckPathEntries
<1>2. CASE m.path_env # << >>
  <2> DEFINE s == PathEntries
  <2> DEFINE rows == [i \in DOMAIN s |-> EntryRows(s[i])]
  <2>1. CheckPathEntries = Joined(rows)
    <3>1. Concat(s, EntryRows) = Joined(rows)
      BY DEF Concat, Given
    <3> HIDE DEF rows
    <3>2. CheckPathEntries = Concat(PathEntries, EntryRows)
      BY <1>2 DEF CheckPathEntries, EntryRows
    <3>3. QED BY <3>1, <3>2
  <2>2. IsList(s)
    BY PathEntriesListed
  <2> HIDE DEF s
  <2>3. rows = [i \in DOMAIN s |-> rows[i]] /\ \A i \in DOMAIN s : rows[i] = EntryRows(s[i])
    OBVIOUS
  <2> HIDE DEF rows
  <2>4. IsList(Joined(rows)) /\ (AllOk(Joined(rows)) => \A i \in DOMAIN s : AllOk(rows[i]))
    BY <2>2, <2>3, EntryRowsOk, RowsOfEach
  <2>5. AllOk(Joined(rows)) => \A dir \in ToSet(s) : Absolute(dir) /\ Vetted(Parent(dir))
    BY <2>3, <2>4, EntryRowsOk DEF ToSet
  <2>6. QED BY <1>2, <2>1, <2>4, <2>5 DEF PathSeen, s
<1>3. QED BY <1>1, <1>2

(* A file of the loader's, and what its lines name.                        *)
LineRows(s, files) ==
  IF s = <<"include">> THEN << Row(s, TRUE, FALSE) >>
  ELSE IF ~ Absolute(s) THEN << Row(s, FALSE, TRUE) >>
  ELSE IF ~ Exists(s) THEN << >>
  ELSE IF files THEN CheckFile(s, 0, FALSE) ELSE CheckDir(s)

(* A line is an include, or what it names was looked at.                   *)
LEMMA LineRowsOk ==
  ASSUME NEW s, NEW files \in BOOLEAN
  PROVE  /\ IsList(LineRows(s, files))
         /\ AllOk(LineRows(s, files)) => (s # <<"include">> => Vetted(s))
<1>1. CASE s = <<"include">>
  <2>1. LineRows(s, files) = << Row(s, TRUE, FALSE) >>
    BY <1>1 DEF LineRows
  <2>2. QED BY <1>1, <2>1, OneRow
<1>2. CASE s # <<"include">> /\ ~ Absolute(s)
  <2>1. LineRows(s, files) = << Row(s, FALSE, TRUE) >>
    BY <1>2 DEF LineRows
  <2>2. QED BY <2>1, OneRow
<1>3. CASE s # <<"include">> /\ Absolute(s) /\ ~ Exists(s)
  <2>1. LineRows(s, files) = << >>
    BY <1>3 DEF LineRows
  <2>2. QED BY <1>3, <2>1, NoRows DEF Vetted
<1>4. CASE s # <<"include">> /\ Absolute(s) /\ Exists(s)
  <2>1. LineRows(s, files) = IF files THEN CheckFile(s, 0, FALSE) ELSE CheckDir(s)
    BY <1>4 DEF LineRows
  <2>2. QED BY <2>1, FileRow, DirRow, VettedFiles, VettedDirs
<1>5. QED BY <1>1, <1>2, <1>3, <1>4

FileSeen(file) == Vetted(file) /\ \A s \in Lines(file) : Vetted(s)

(* check_ldso_list.                                                        *)
LEMMA LdsoRows ==
  ASSUME NEW file, NEW files \in BOOLEAN, Reads(file) => IsList(Object(file).holds)
  PROVE  /\ IsList(CheckLdsoList(file, files))
         /\ AllOk(CheckLdsoList(file, files)) => FileSeen(file)
<1> DEFINE s == Object(file).holds
<1> DEFINE rows == [i \in DOMAIN s |-> LineRows(s[i], files)]
<1> DEFINE under == IF ~ Opens(file) THEN << Row(file, FALSE, FALSE) >> ELSE IF Reads(file) THEN Joined(rows) ELSE << >>
<1>1. CheckLdsoList(file, files) = IF ~ Exists(file) THEN << Row(file, TRUE, TRUE) >>
                                   ELSE CheckFile(file, 0, FALSE) \o under
  <2>1. Concat(s, LAMBDA x : LineRows(x, files)) = Joined(rows)
    BY DEF Concat, Given
  <2> HIDE DEF rows
  <2>2. CheckLdsoList(file, files) =
          IF ~ Exists(file) THEN << Row(file, TRUE, TRUE) >>
          ELSE CheckFile(file, 0, FALSE)
               \o (IF ~ Opens(file) THEN << Row(file, FALSE, FALSE) >>
                   ELSE IF Reads(file) THEN Concat(s, LAMBDA x : LineRows(x, files)) ELSE << >>)
    BY DEF CheckLdsoList, LineRows
  <2>3. QED BY <2>1, <2>2
<1>2. Reads(file) => Opens(file) /\ Exists(file)
  BY DEF Reads, Opens, Leads
<1>3. Lines(file) = IF Reads(file) THEN {x \in ToSet(s) : x # <<"include">> /\ Absolute(x)} ELSE {}
  BY DEF Lines
<1>4. CASE ~ Exists(file)
  <2>1. CheckLdsoList(file, files) = << Row(file, TRUE, TRUE) >> /\ Lines(file) = {}
    BY <1>1, <1>2, <1>3, <1>4
  <2>2. QED BY <1>4, <2>1, OneRow DEF FileSeen, Vetted
<1>5. CASE Exists(file) /\ ~ Opens(file)
  <2>1. CheckLdsoList(file, files) = CheckFile(file, 0, FALSE) \o << Row(file, FALSE, FALSE) >>
    BY <1>1, <1>5
  <2>2. IsList(<< Row(file, FALSE, FALSE) >>) /\ ~ AllOk(<< Row(file, FALSE, FALSE) >>)
    BY OneRow
  <2>3. QED BY <2>1, <2>2, FileRow, RowsOfTwo
<1>6. CASE Exists(file) /\ Opens(file) /\ ~ Reads(file)
  <2>1. CheckLdsoList(file, files) = CheckFile(file, 0, FALSE) \o << >> /\ Lines(file) = {}
    BY <1>1, <1>3, <1>6
  <2>2. QED BY <2>1, FileRow, NoRows, RowsOfTwo, VettedFiles DEF FileSeen
<1>7. CASE Reads(file)
  <2>1. CheckLdsoList(file, files) = CheckFile(file, 0, FALSE) \o Joined(rows)
    BY <1>1, <1>2, <1>7
  <2>2. IsList(s)
    BY <1>7
  <2> HIDE DEF s, under
  <2>3. rows = [i \in DOMAIN s |-> rows[i]] /\ \A i \in DOMAIN s : rows[i] = LineRows(s[i], files)
    OBVIOUS
  <2> HIDE DEF rows
  <2>4. IsList(Joined(rows)) /\ (AllOk(Joined(rows)) => \A i \in DOMAIN s : AllOk(rows[i]))
    BY <2>2, <2>3, LineRowsOk, RowsOfEach
  <2>5. AllOk(Joined(rows)) => \A x \in Lines(file) : Vetted(x)
    BY <1>3, <2>3, <2>4, LineRowsOk DEF ToSet
  <2>6. QED BY <2>1, <2>4, <2>5, FileRow, VettedFiles, RowsOfTwo DEF FileSeen
<1>8. QED BY <1>4, <1>5, <1>6, <1>7, <1>2

(* /etc/ld.so.conf.d.                                                      *)
ConfDirSeen == Vetted(m.conf_dir) /\ \A file \in Sees(m.conf_dir) : FileSeen(file)

(* Every file of the directory is checked as one of the loader's.          *)
LEMMA ConfDirRows ==
  ASSUME WellMade, m.loader = "elf"
  PROVE  IsList(CheckConfDir(m.conf_dir)) /\ (AllOk(CheckConfDir(m.conf_dir)) => ConfDirSeen)
<1> DEFINE dir == m.conf_dir
<1> DEFINE s == Visible(dir)
<1> DEFINE rows == [i \in DOMAIN s |-> CheckLdsoList(Append(dir, s[i]), FALSE)]
<1> DEFINE under == IF Lists(dir) THEN Joined(rows) ELSE << >>
<1>1. CheckConfDir(dir) = IF ~ Exists(dir) THEN << >> ELSE CheckDir(dir) \o under
  <2>1. Concat(s, LAMBDA name : CheckLdsoList(Append(dir, name), FALSE)) = Joined(rows)
    BY DEF Concat, Given
  <2> HIDE DEF rows
  <2>2. CheckConfDir(dir) =
          IF ~ Exists(dir) THEN << >>
          ELSE CheckDir(dir) \o
               (IF Lists(dir) THEN Concat(s, LAMBDA name : CheckLdsoList(Append(dir, name), FALSE)) ELSE << >>)
    BY DEF CheckConfDir
  <2>3. QED BY <2>1, <2>2
<1>2. Lists(dir) => Exists(dir)
  BY DEF Lists, Opens, Leads
<1>3. Sees(dir) = IF Lists(dir) THEN {Append(dir, name) : name \in ToSet(s)} ELSE {}
  BY DEF Sees
<1>4. CASE ~ Exists(dir)
  <2>1. CheckConfDir(dir) = << >> /\ Sees(dir) = {}
    BY <1>1, <1>2, <1>3, <1>4
  <2>2. QED BY <1>4, <2>1, NoRows DEF ConfDirSeen, Vetted
<1>5. CASE Exists(dir) /\ ~ Lists(dir)
  <2>1. CheckConfDir(dir) = CheckDir(dir) \o << >> /\ Sees(dir) = {}
    BY <1>1, <1>3, <1>5
  <2>2. QED BY <2>1, DirRow, NoRows, RowsOfTwo, VettedDirs DEF ConfDirSeen
<1>6. CASE Lists(dir)
  <2>1. CheckConfDir(dir) = CheckDir(dir) \o Joined(rows)
    BY <1>1, <1>2, <1>6
  <2>2. IsList(s)
    BY <1>6, ListedDirs, VisibleNames
  <2> HIDE DEF s, under
  <2>3. /\ rows = [i \in DOMAIN s |-> rows[i]]
        /\ \A i \in DOMAIN s : rows[i] = CheckLdsoList(Append(dir, s[i]), FALSE)
    OBVIOUS
  <2> HIDE DEF rows
  <2>4. \A file \in Sees(dir) : \E i \in DOMAIN s : file = Append(dir, s[i])
    BY <1>3, <1>6 DEF ToSet
  <2>5. ASSUME NEW i \in DOMAIN s
        PROVE  IsList(rows[i]) /\ (AllOk(rows[i]) => FileSeen(Append(dir, s[i])))
    <3> DEFINE file == Append(dir, s[i])
    <3>1. file \in LoaderFiles
      BY <1>3, <1>6 DEF LoaderFiles, ToSet
    <3>2. Reads(file) => IsList(Object(file).holds)
      BY <3>1 DEF WellMade
    <3> HIDE DEF file
    <3>3. IsList(CheckLdsoList(file, FALSE)) /\ (AllOk(CheckLdsoList(file, FALSE)) => FileSeen(file))
      BY <3>2, LdsoRows
    <3>4. rows[i] = CheckLdsoList(file, FALSE)
      BY <2>3 DEF file
    <3>5. QED BY <3>3, <3>4 DEF file
  <2>6. IsList(Joined(rows)) /\ (AllOk(Joined(rows)) => \A i \in DOMAIN s : AllOk(rows[i]))
    BY <2>2, <2>3, <2>5, RowsOfEach
  <2>7. AllOk(Joined(rows)) => \A file \in Sees(dir) : FileSeen(file)
    BY <2>4, <2>5, <2>6
  <2>8. QED BY <2>1, <2>6, <2>7, DirRow, VettedDirs, RowsOfTwo DEF ConfDirSeen
<1>7. QED BY <1>4, <1>5, <1>6

(* A binary: what it says is read to the end, and its search path good.    *)
LEMMA MarkedRows ==
  ASSUME NEW path
  PROVE  IsList(Marked(path)) /\ (AllOk(Marked(path)) => ~ info.truncated)
<1>1. CASE info.truncated
  BY <1>1, OneRow DEF Marked
<1>2. CASE ~ info.truncated
  BY <1>2, NoRows DEF Marked
<1>3. QED BY <1>1, <1>2

(* The directories of a search path that exist were looked at.             *)
LEMMA VettedDirLists ==
  ASSUME NEW dirs, IsList(dirs)
  PROVE  /\ IsList(Concat(dirs, CheckIfExists))
         /\ AllOk(Concat(dirs, CheckIfExists)) => \A d \in ToSet(dirs) : Vetted(d)
BY IfExistsRows, VettedDirs DEF Vetted

(* Rows that only say that a name is not followed.                         *)
NameRows(names) == Concat(names, LAMBDA name : << Row(<<name>>, TRUE, FALSE) >>)

(* They are rows.                                                          *)
LEMMA NameRowsList ==
  ASSUME NEW names, IsList(names)
  PROVE  IsList(NameRows(names))
<1> DEFINE rows == [i \in DOMAIN names |-> << Row(<<names[i]>>, TRUE, FALSE) >>]
<1>1. NameRows(names) = Joined(rows)
  BY DEF NameRows, Concat, Given
<1>2. rows = [i \in DOMAIN names |-> rows[i]] /\ \A i \in DOMAIN names : IsList(rows[i])
  BY OneRow
<1> HIDE DEF rows
<1>3. QED BY <1>1, <1>2, RowsOfEach

UnfollowedRows(names) ==
  Concat(Those(names, LAMBDA d : ~ Absolute(d)), LAMBDA d : << Row(d, TRUE, FALSE) >>)

(* They are rows too.                                                      *)
LEMMA UnfollowedRowsList ==
  ASSUME NEW names, IsList(names)
  PROVE  IsList(UnfollowedRows(names))
<1> DEFINE ss == [i \in DOMAIN names |-> IF ~ Absolute(names[i]) THEN << names[i] >> ELSE << >>]
<1> DEFINE t == Joined(ss)
<1> DEFINE rows == [i \in DOMAIN t |-> << Row(t[i], TRUE, FALSE) >>]
<1>1. Those(names, LAMBDA d : ~ Absolute(d)) = t
  BY DEF Those, Concat, Given
<1>2. IsList(t)
  <2>1. ss = [i \in DOMAIN names |-> ss[i]] /\ \A i \in DOMAIN names : IsList(ss[i])
    BY ShortLists
  <2> HIDE DEF ss
  <2>2. QED BY <2>1, RowsOfEach
<1> HIDE DEF t
<1>3. Concat(t, LAMBDA d : << Row(d, TRUE, FALSE) >>) = Joined(rows)
  BY DEF Concat, Given
<1>4. rows = [i \in DOMAIN t |-> rows[i]] /\ \A i \in DOMAIN t : IsList(rows[i])
  BY OneRow
<1> HIDE DEF rows
<1>5. UnfollowedRows(names) = Joined(rows)
  BY <1>1, <1>3 DEF UnfollowedRows
<1>6. QED BY <1>2, <1>4, <1>5, RowsOfEach

(* A Mach-O image was read to its end, and its search path is good.        *)
LEMMA MachoRows ==
  ASSUME NEW path, IsList(info.rpaths), IsList(info.names)
  PROVE  /\ IsList(CheckMacho(path))
         /\ AllOk(CheckMacho(path)) => ~ info.truncated /\ \A d \in ToSet(info.rpaths) : Vetted(d)
<1> DEFINE a == Marked(path)
<1> DEFINE b == Concat(info.rpaths, CheckIfExists)
<1> DEFINE c == UnfollowedRows(info.names)
<1>1. CheckMacho(path) = a \o b \o c
  BY DEF CheckMacho, UnfollowedRows
<1>2. IsList(a) /\ (AllOk(a) => ~ info.truncated)
  BY MarkedRows
<1>3. IsList(b) /\ (AllOk(b) => \A d \in ToSet(info.rpaths) : Vetted(d))
  BY VettedDirLists
<1>4. IsList(c)
  BY UnfollowedRowsList
<1> HIDE DEF a, b, c
<1>5. IsList(a \o b) /\ (AllOk(a \o b) => AllOk(a) /\ AllOk(b))
  BY <1>2, <1>3, RowsOfTwo
<1>6. QED BY <1>1, <1>2, <1>3, <1>4, <1>5, RowsOfTwo

ElfSeen ==
  /\ FileSeen(m.preload) /\ FileSeen(m.conf) /\ ConfDirSeen
  /\ \A d \in ToSet(m.libdirs) : Vetted(d)

(* check_elf: the binary, the files of the loader and its directories.     *)
LEMMA ElfRows ==
  ASSUME WellMade, m.loader = "elf", IsList(info.rpaths), IsList(info.names)
  PROVE  /\ IsList(CheckElf)
         /\ AllOk(CheckElf) => ElfSeen /\ ~ info.truncated /\ \A d \in ToSet(info.rpaths) : Vetted(d)
<1> DEFINE a == Marked(m.openconnect)
<1> DEFINE b == Concat(info.rpaths, CheckIfExists)
<1> DEFINE c == CheckLdsoList(m.preload, TRUE)
<1> DEFINE d == CheckLdsoList(m.conf, FALSE)
<1> DEFINE e == CheckConfDir(m.conf_dir)
<1> DEFINE f == Concat(m.libdirs, CheckIfExists)
<1> DEFINE g == NameRows(info.names)
<1>1. CheckElf = a \o b \o c \o d \o e \o f \o g
  BY DEF CheckElf, NameRows
<1>2. IsList(a) /\ (AllOk(a) => ~ info.truncated)
  BY MarkedRows
<1>3. IsList(b) /\ (AllOk(b) => \A x \in ToSet(info.rpaths) : Vetted(x))
  BY VettedDirLists
<1>4. /\ IsList(c) /\ (AllOk(c) => FileSeen(m.preload))
      /\ IsList(d) /\ (AllOk(d) => FileSeen(m.conf))
  <2>1. \A file \in {m.preload, m.conf} : Reads(file) => IsList(Object(file).holds)
    BY DEF WellMade, LoaderFiles
  <2>2. QED BY <2>1, LdsoRows
<1>5. IsList(e) /\ (AllOk(e) => ConfDirSeen)
  BY ConfDirRows
<1>6. IsList(f) /\ (AllOk(f) => \A x \in ToSet(m.libdirs) : Vetted(x))
  BY VettedDirLists DEF WellMade
<1>7. IsList(g)
  BY NameRowsList
<1> HIDE DEF a, b, c, d, e, f, g
<1>8. IsList(a \o b) /\ (AllOk(a \o b) => AllOk(a) /\ AllOk(b))
  BY <1>2, <1>3, RowsOfTwo
<1>9. IsList(a \o b \o c) /\ (AllOk(a \o b \o c) => AllOk(a \o b) /\ AllOk(c))
  BY <1>4, <1>8, RowsOfTwo
<1>10. IsList(a \o b \o c \o d) /\ (AllOk(a \o b \o c \o d) => AllOk(a \o b \o c) /\ AllOk(d))
  BY <1>4, <1>9, RowsOfTwo
<1>11. IsList(a \o b \o c \o d \o e) /\ (AllOk(a \o b \o c \o d \o e) => AllOk(a \o b \o c \o d) /\ AllOk(e))
  BY <1>5, <1>10, RowsOfTwo
<1>12. /\ IsList(a \o b \o c \o d \o e \o f)
       /\ AllOk(a \o b \o c \o d \o e \o f) => AllOk(a \o b \o c \o d \o e) /\ AllOk(f)
  BY <1>6, <1>11, RowsOfTwo
<1>13. /\ IsList(CheckElf)
       /\ AllOk(CheckElf) => AllOk(a \o b \o c \o d \o e \o f)
  BY <1>1, <1>7, <1>12, RowsOfTwo
<1>14. QED BY <1>2, <1>3, <1>4, <1>5, <1>6, <1>8, <1>9, <1>10, <1>11, <1>12, <1>13 DEF ElfSeen

(* The ACLs of the fixed objects.                                          *)
ProbeRows(p) == IF Exists(p) THEN << Row(p, ~ (Leads(p) /\ Object(p).acl), TRUE) >> ELSE << >>

Fixed == {m.openconnect, m.script, m.shell}

(* None of them that is there is open to the caller.                       *)
LEMMA AclRows ==
  /\ IsList(CheckAcls)
  /\ AllOk(CheckAcls) => \A p \in Fixed : Leads(p) => ~ Object(p).acl
<1> DEFINE s == << m.openconnect, m.script, m.shell >>
<1> DEFINE rows == [i \in DOMAIN s |-> ProbeRows(s[i])]
<1>1. CheckAcls = Joined(rows)
  <2>1. Concat(s, ProbeRows) = Joined(rows)
    BY DEF Concat, Given
  <2> HIDE DEF rows
  <2>2. CheckAcls = Concat(s, ProbeRows)
    BY DEF CheckAcls, ProbeRows
  <2>3. QED BY <2>1, <2>2
<1>2. ASSUME NEW p PROVE IsList(ProbeRows(p)) /\ (AllOk(ProbeRows(p)) => (Leads(p) => ~ Object(p).acl))
  <2> DEFINE ok == ~ (Leads(p) /\ Object(p).acl)
  <2>1. ok \in BOOLEAN
    OBVIOUS
  <2>2. ProbeRows(p) = IF Exists(p) THEN << Row(p, ok, TRUE) >> ELSE << >>
    BY DEF ProbeRows
  <2>3. ok => (Leads(p) => ~ Object(p).acl)
    OBVIOUS
  <2> HIDE DEF ok
  <2>4. Leads(p) => Exists(p)
    BY DEF Leads
  <2>5. CASE Exists(p)
    BY <2>1, <2>2, <2>3, <2>5, OneRow
  <2>6. CASE ~ Exists(p)
    BY <2>2, <2>4, <2>6, NoRows
  <2>7. QED BY <2>5, <2>6
<1>3. IsList(s) /\ \A p \in Fixed : \E i \in DOMAIN s : p = s[i]
  <2>1. s \in Seq({m.openconnect, m.script, m.shell})
    OBVIOUS
  <2>2. DOMAIN s = 1..3 /\ s[1] = m.openconnect /\ s[2] = m.script /\ s[3] = m.shell
    OBVIOUS
  <2> HIDE DEF s
  <2>3. QED BY <2>1, <2>2, ListOf DEF Fixed
<1> HIDE DEF s
<1>4. rows = [i \in DOMAIN s |-> rows[i]] /\ \A i \in DOMAIN s : rows[i] = ProbeRows(s[i])
  OBVIOUS
<1> HIDE DEF rows
<1>5. IsList(Joined(rows)) /\ (AllOk(Joined(rows)) => \A i \in DOMAIN s : AllOk(rows[i]))
  BY <1>2, <1>3, <1>4, RowsOfEach
<1>6. QED BY <1>1, <1>2, <1>3, <1>4, <1>5

(* Script, interpreters, hooks and the rest of what Files looks at.        *)
FilesSeen ==
  /\ PathTrusted(m.shell, 0, TRUE) /\ PathTrusted(m.script, 0, TRUE)
  /\ \A p \in Interpreter(m.script) : Vetted(p)
  /\ HooksSeen /\ PathSeen
  /\ m.euid = 0 /\ m.caller # 0 => \A p \in Fixed : Leads(p) => ~ Object(p).acl

WrapperSeen ==
  m.candidate = << >> => PathTrusted(WrapperPath, 0, TRUE) /\ \A p \in Interpreter(WrapperPath) : Vetted(p)

-----------------------------------------------------------------------------
(* The machine does not change, and so nothing that is said of it does     *)

(* The objects.                                                            *)
LEMMA SteadyNames ==
  ASSUME UNCHANGED m
  PROVE  \A p : /\ Exists(p)' <=> Exists(p)
                /\ Leads(p)' <=> Leads(p)
                /\ Object(p)' = Object(p)
                /\ Opens(p)' <=> Opens(p)
                /\ Reads(p)' <=> Reads(p)
                /\ Lists(p)' <=> Lists(p)
<1> SUFFICES ASSUME NEW p
             PROVE  /\ Exists(p)' <=> Exists(p)
                    /\ Leads(p)' <=> Leads(p)
                    /\ Object(p)' = Object(p)
                    /\ Opens(p)' <=> Opens(p)
                    /\ Reads(p)' <=> Reads(p)
                    /\ Lists(p)' <=> Lists(p)
  OBVIOUS
<1>1. (Exists(p)' <=> Exists(p)) /\ (Leads(p)' <=> Leads(p)) /\ Object(p)' = Object(p)
  BY DEF Exists, Leads, Object
<1>2. Opens(p)' <=> Opens(p)
  BY <1>1 DEF Opens
<1>3. QED BY <1>1, <1>2 DEF Reads, Lists

(* What is trusted.                                                        *)
LEMMA SteadyTrust ==
  ASSUME UNCHANGED m
  PROVE  \A p : /\ \A kind : TrustedWalk(p, 0, kind)' <=> TrustedWalk(p, 0, kind)
                /\ \A x : PathTrusted(p, 0, x)' <=> PathTrusted(p, 0, x)
                /\ Vetted(p)' <=> Vetted(p)
<1> SUFFICES ASSUME NEW p
             PROVE  /\ \A kind : TrustedWalk(p, 0, kind)' <=> TrustedWalk(p, 0, kind)
                    /\ \A x : PathTrusted(p, 0, x)' <=> PathTrusted(p, 0, x)
                    /\ Vetted(p)' <=> Vetted(p)
  OBVIOUS
<1>1. ASSUME NEW kind PROVE TrustedWalk(p, 0, kind)' <=> TrustedWalk(p, 0, kind)
  BY SteadyNames DEF TrustedWalk, TrustedComponent
<1>2. ASSUME NEW x PROVE PathTrusted(p, 0, x)' <=> PathTrusted(p, 0, x)
  BY <1>1, SteadyNames DEF PathTrusted
<1>3. Vetted(p)' <=> Vetted(p)
  BY <1>1, SteadyNames DEF Vetted
<1>4. QED BY <1>1, <1>2, <1>3

(* What binaries say.                                                      *)
LEMMA SteadyImages ==
  ASSUME UNCHANGED m
  PROVE  /\ \A p : Image(p)' = Image(p) /\ RpathsOf(p)' = RpathsOf(p) /\ NamesOf(p)' = NamesOf(p)
         /\ Binaries' = Binaries
<1>1. ASSUME NEW p PROVE Image(p)' = Image(p)
  BY SteadyNames DEF Image
<1>2. ASSUME NEW p PROVE RpathsOf(p)' = RpathsOf(p)
  BY <1>1 DEF RpathsOf
<1>3. ASSUME NEW p PROVE NamesOf(p)' = NamesOf(p)
  BY <1>1 DEF NamesOf
<1>4. Binaries' = Binaries
  BY <1>3 DEF Binaries
<1>5. QED BY <1>1, <1>2, <1>3, <1>4

(* What objects hold.                                                      *)
LEMMA SteadyContents ==
  ASSUME UNCHANGED m
  PROVE  /\ \A p : /\ Sees(p)' = Sees(p) /\ Lines(p)' = Lines(p) /\ Interpreter(p)' = Interpreter(p)
                   /\ Parent(p)' = Parent(p) /\ (FileSeen(p)' <=> FileSeen(p))
         /\ HookSubs' = HookSubs /\ WrapperPath' = WrapperPath
<1>1. ASSUME NEW p PROVE Visible(p)' = Visible(p)
  BY SteadyNames DEF Visible, Those, Concat, Given
<1>2. ASSUME NEW p PROVE Sees(p)' = Sees(p)
  BY <1>1, SteadyNames DEF Sees
<1>3. ASSUME NEW p PROVE Lines(p)' = Lines(p)
  BY SteadyNames DEF Lines
<1>4. ASSUME NEW p PROVE Interpreter(p)' = Interpreter(p)
  BY SteadyNames DEF Interpreter
<1>5. ASSUME NEW p PROVE Parent(p)' = Parent(p)
  BY SteadyNames DEF Parent
<1>6. ASSUME NEW p PROVE FileSeen(p)' <=> FileSeen(p)
  BY <1>3, SteadyTrust DEF FileSeen
<1>7. ASSUME NEW p PROVE HookDirs(p)' = HookDirs(p)
  <2>1. m'.at = m.at
    OBVIOUS
  <2>2. QED BY <1>1, <2>1 DEF HookDirs
<1>8. HookSubs' = HookSubs
  BY <1>7, SteadyNames DEF HookSubs
<1>9. WrapperPath' = WrapperPath
  BY DEF WrapperPath
<1>10. QED BY <1>2, <1>3, <1>4, <1>5, <1>6, <1>8, <1>9

(* What the sections of the walk have looked at.                           *)
LEMMA SteadySections ==
  ASSUME UNCHANGED m
  PROVE  /\ ElfSeen' <=> ElfSeen
         /\ FilesSeen' <=> FilesSeen
         /\ WrapperSeen' <=> WrapperSeen
<1>1. ConfDirSeen' <=> ConfDirSeen
  BY SteadyTrust, SteadyContents DEF ConfDirSeen
<1>2. ElfSeen' <=> ElfSeen
  BY <1>1, SteadyTrust, SteadyContents DEF ElfSeen
<1>3. HooksSeen' <=> HooksSeen
  BY SteadyTrust, SteadyContents DEF HooksSeen
<1>4. PathSeen' <=> PathSeen
  <2>1. m'.path_env = m.path_env /\ PathEntries' = PathEntries
    BY DEF PathEntries
  <2>2. QED BY <2>1, SteadyTrust, SteadyContents DEF PathSeen
<1>5. FilesSeen' <=> FilesSeen
  BY <1>3, <1>4, SteadyNames, SteadyTrust, SteadyContents DEF FilesSeen, Fixed
<1>6. WrapperSeen' <=> WrapperSeen
  BY SteadyTrust, SteadyContents DEF WrapperSeen
<1>7. QED BY <1>2, <1>5, <1>6

-----------------------------------------------------------------------------
(* The walk of the libraries                                               *)

(* The rest of a call stack.                                               *)
LEMMA TailOfList ==
  ASSUME NEW s, IsList(s), s # << >>
  PROVE  IsList(Tail(s)) /\ ToSet(s) = {s[1]} \cup ToSet(Tail(s))
<1> DEFINE S == ToSet(s)
<1>1. s \in Seq(S)
  BY DEF IsList
<1> HIDE DEF S
<1>2. Tail(s) \in Seq(S) /\ Len(s) \in Nat \ {0} /\ Len(Tail(s)) = Len(s) - 1
  BY <1>1
<1>3. IsList(Tail(s))
  BY <1>2, ListOf
<1>4. \A i \in 1..Len(s) - 1 : Tail(s)[i] = s[i + 1]
  BY <1>1
<1>5. ASSUME NEW x \in ToSet(s) PROVE x = s[1] \/ x \in ToSet(Tail(s))
  <2>1. PICK i \in 1..Len(s) : x = s[i]
    BY ListDomain
  <2>2. CASE i # 1
    <3>1. i - 1 \in 1..Len(Tail(s)) /\ (i - 1) + 1 = i /\ i - 1 \in 1..Len(s) - 1
      BY <1>2, <2>2
    <3>2. Tail(s)[i - 1] = x
      BY <1>4, <2>1, <3>1
    <3>3. QED BY <1>3, <3>1, <3>2, ListDomain
  <2>3. QED BY <2>1, <2>2
<1>6. ASSUME NEW x \in ToSet(Tail(s)) PROVE x \in ToSet(s)
  <2>1. PICK i \in 1..Len(Tail(s)) : x = Tail(s)[i]
    BY <1>3, ListDomain
  <2>2. i + 1 \in 1..Len(s) /\ x = s[i + 1]
    BY <1>2, <1>4, <2>1
  <2>3. QED BY <2>2, ListDomain
<1>7. s[1] \in ToSet(s)
  BY <1>2, ListDomain
<1>8. QED BY <1>3, <1>5, <1>6, <1>7

(* A report that is still good after rows were added was good before, and
   so are the rows: one that is cut off is longer than ClosureMax. *)
LEMMA RecordGood ==
  ASSUME IsList(report), NEW rows, IsList(rows), Record(rows)
  PROVE  IsList(report') /\ (Verdict' => Verdict /\ AllOk(rows))
<1> DEFINE all == report \o rows
<1>1. IsList(all) /\ ToSet(all) = ToSet(report) \cup ToSet(rows) /\ Len(all) = Len(report) + Len(rows)
  BY JoinTwo
<1>2. Len(report) \in Nat /\ Len(rows) \in Nat
  BY ListDomain
<1>3. report' = IF Len(all) <= ClosureMax + 1 THEN all ELSE SubSeq(all, 1, ClosureMax + 1)
  BY DEF Record, Most
<1>4. ClosureMax \in Nat
  BY ClosureNumbers
<1> HIDE DEF all
<1>5. CASE Len(all) <= ClosureMax + 1
  <2>1. report' = all
    BY <1>3, <1>5
  <2>2. Verdict' <=> Len(report') <= ClosureMax /\ \A r \in ToSet(report') : r.ok
    BY DEF Verdict, Failed
  <2>3. Verdict <=> Len(report) <= ClosureMax /\ \A r \in ToSet(report) : r.ok
    BY DEF Verdict, Failed
  <2>4. QED BY <1>1, <1>2, <1>4, <2>1, <2>2, <2>3 DEF AllOk
<1>6. CASE Len(all) > ClosureMax + 1
  <2>1. all \in Seq(ToSet(all))
    BY <1>1 DEF IsList
  <2>2. report' = SubSeq(all, 1, ClosureMax + 1)
    BY <1>2, <1>1, <1>3, <1>4, <1>6
  <2>3. report' \in Seq(ToSet(all)) /\ Len(report') = ClosureMax + 1
    BY <1>1, <1>2, <1>4, <1>6, <2>1, <2>2
  <2>4. ~ Verdict'
    BY <1>4, <2>3 DEF Verdict
  <2>5. QED BY <2>3, <2>4, ListOf
<1>7. QED BY <1>1, <1>2, <1>4, <1>5, <1>6

(* What the walk has still to enter, or entered already.                   *)
Known == visited \cup ToSet(todo)

(* A binary was read to its end, everything on its search path is good,
   and its libraries are known. *)
BinarySeen(p) ==
  /\ Image(p).ok /\ (Image(p).is => ~ Image(p).truncated)
  /\ \A d \in RpathsOf(p) : Vetted(d)
  /\ m.loader = "macho" => NamesOf(p) \subseteq Known

(* It stays so while the machine does not change and names are added.      *)
LEMMA BinaryStaysSeen ==
  ASSUME UNCHANGED m, Known \subseteq Known', NEW p, BinarySeen(p)
  PROVE  BinarySeen(p)'
BY SteadyTrust, SteadyImages DEF BinarySeen

(* The control of the walk.                                                *)
WalkInv ==
  /\ IsList(report) /\ IsList(todo)
  /\ pc \in {"binary", "libraries"} => todo = << >> /\ visited = {}
  /\ pc \in {"dylibs", "image"} => m.loader = "macho"
  /\ pc \in {"files", "verdict", "wrapper", "end"} => todo = << >>
  /\ m.loader # "macho" => visited = {}
  /\ pc = "libraries" => info = IF m.loader = "none" THEN Unreadable ELSE Image(m.openconnect)
  /\ pc = "image" => todo # << >> /\ todo[1] \in visited /\ info = Image(todo[1])
  /\ pc = "wrapper" => answer \in {<< TRUE >>, << FALSE >>}
  /\ Known \subseteq Binaries

(* The answer is yes so far.                                               *)
Accepting == CASE pc = "wrapper" -> answer = << TRUE >>
               [] pc = "end" -> answer = << TRUE, TRUE >>
               [] OTHER -> Verdict

(* As long as it is, what was passed is as good as the rows say.           *)
SeenInv ==
  Accepting =>
    /\ pc # "binary" => PathTrusted(m.openconnect, 0, TRUE)
    /\ pc \notin {"binary", "libraries"} =>
         m.loader # "none" /\ BinarySeen(m.openconnect) /\ (m.loader = "elf" => ElfSeen)
    /\ \A p \in visited : \/ p \in m.cached
                          \/ PathTrusted(p, 0, FALSE) /\ (BinarySeen(p) \/ (pc = "image" /\ p = todo[1]))
    /\ pc \in {"verdict", "wrapper", "end"} => FilesSeen
    /\ pc = "end" => WrapperSeen

ClosureInv == WalkInv /\ SeenInv

(* What the image of a binary the walk comes to is.                        *)
LEMMA ImagesListed ==
  ASSUME WellMade, NEW p \in Binaries, Image(p).ok, Image(p).is
  PROVE  /\ IsList(Image(p).rpaths) /\ IsList(Image(p).names)
         /\ RpathsOf(p) = ToSet(Image(p).rpaths)
         /\ NamesOf(p) = {d \in ToSet(Image(p).names) : Absolute(d)}
         /\ m.loader = "macho" => NamesOf(p) \subseteq Binaries
<1>1. p \in DOMAIN m.at
  <2>1. Reads(p)
    BY DEF Image, Unreadable
  <2>2. QED BY <2>1 DEF Reads, Opens, Leads, Exists
<1>2. IsList(Image(p).rpaths) /\ IsList(Image(p).names)
  BY <1>1 DEF WellMade
<1>3. RpathsOf(p) = ToSet(Image(p).rpaths) /\ NamesOf(p) = {d \in ToSet(Image(p).names) : Absolute(d)}
  BY DEF RpathsOf, NamesOf
<1>4. ASSUME m.loader = "macho" PROVE NamesOf(p) \subseteq Binaries
  <2> DEFINE next == [q \in DOMAIN m.at |-> NamesOf(q)]
  <2>1. Binaries = Closed({m.openconnect}, next)
    BY <1>4 DEF Binaries
  <2>2. DOMAIN next = DOMAIN m.at /\ next[p] = NamesOf(p) /\ IsFiniteSet(DOMAIN m.at)
    BY <1>1 DEF WellMade
  <2> HIDE DEF next
  <2>3. next[p] \subseteq Closed({m.openconnect}, next)
    BY <1>1, <2>1, <2>2, ClosedIsClosed
  <2>4. QED BY <2>1, <2>2, <2>3
<1>5. QED BY <1>2, <1>3, <1>4

(* The walk of the libraries begins with openconnect.                      *)
LEMMA BinaryZero ==
  ASSUME WellMade
  PROVE  m.openconnect \in Binaries
<1>1. CASE m.loader = "macho"
  <2> DEFINE next == [q \in DOMAIN m.at |-> NamesOf(q)]
  <2>1. Binaries = Closed({m.openconnect}, next)
    BY <1>1 DEF Binaries
  <2>2. IsFiniteSet(DOMAIN next)
    BY DEF WellMade
  <2> HIDE DEF next
  <2> DEFINE all == Closed({m.openconnect}, next)
  <2>3. \A q \in all \cap DOMAIN next : next[q] \subseteq all
    BY <2>2, ClosedIsClosed
  <2>4. {m.openconnect} \subseteq {m.openconnect} \cup all
    OBVIOUS
  <2> DEFINE S == {m.openconnect} \cup all \cup UNION {next[q] : q \in DOMAIN next}
  <2>5. {m.openconnect} \subseteq S /\ \A q \in S \cap all \cap DOMAIN next : next[q] \subseteq S
    OBVIOUS
  <2> HIDE DEF S
  <2>6. {m.openconnect} \subseteq all
    BY <2>2, <2>5, ClosedWithin
  <2>7. QED BY <2>1, <2>6
<1>2. CASE m.loader # "macho"
  BY <1>2 DEF Binaries
<1>3. QED BY <1>1, <1>2

-----------------------------------------------------------------------------
(* Every step keeps the invariant                                          *)

(* What the parts of SeenInv that are about the machine become.            *)
LEMMA SteadySeen ==
  ASSUME UNCHANGED m, Known \subseteq Known'
  PROVE  /\ PathTrusted(m.openconnect, 0, TRUE) => PathTrusted(m.openconnect, 0, TRUE)'
         /\ BinarySeen(m.openconnect) => BinarySeen(m.openconnect)'
         /\ (m.loader = "elf" => ElfSeen) => (m.loader = "elf" => ElfSeen)'
         /\ \A p : PathTrusted(p, 0, FALSE) => PathTrusted(p, 0, FALSE)'
         /\ \A p : BinarySeen(p) => BinarySeen(p)'
<1>1. \A p, x : PathTrusted(p, 0, x)' <=> PathTrusted(p, 0, x)
  BY SteadyTrust
<1>2. \A p : BinarySeen(p) => BinarySeen(p)'
  BY BinaryStaysSeen
<1>3. ElfSeen' <=> ElfSeen
  BY SteadySections
<1>4. m'.openconnect = m.openconnect /\ m'.loader = m.loader
  OBVIOUS
<1>5. QED BY <1>1, <1>2, <1>3, <1>4

(* At first nothing was passed.                                            *)
LEMMA InitSeen ==
  ASSUME WellMade, Init
  PROVE  ClosureInv
<1>1. WalkInv
  <2>1. IsList(report) /\ IsList(todo) /\ Known \subseteq Binaries
    BY ShortLists DEF Init, Known
  <2>2. QED BY <2>1 DEF Init, WalkInv
<1>2. SeenInv
  BY DEF Init, SeenInv
<1>3. QED BY <1>1, <1>2 DEF ClosureInv

(* Binary: its row is good only if openconnect is trusted.                 *)
LEMMA BinaryKeeps ==
  ASSUME WellMade, ClosureInv, Binary
  PROVE  ClosureInv'
<1>1. UNCHANGED <<m, todo, visited>> /\ pc' = "libraries" /\ todo = << >> /\ visited = {}
  BY DEF Binary, Go, ClosureInv, WalkInv
<1>2. IsList(report') /\ (Verdict' => Verdict /\ PathTrusted(m.openconnect, 0, TRUE))
  <2>1. Record(CheckFile(m.openconnect, 0, TRUE)) /\ IsList(report)
    BY DEF Binary, ClosureInv, WalkInv
  <2>2. QED BY <2>1, FileRow, RecordGood
<1>3. WalkInv'
  <2>1. info' = IF m.loader = "none" THEN Unreadable ELSE Image(m.openconnect)
    BY DEF Binary
  <2>2. Image(m.openconnect)' = Image(m.openconnect) /\ Binaries' = Binaries
    BY <1>1, SteadyImages
  <2>3. Unreadable' = Unreadable
    BY DEF Unreadable
  <2>4. info' = IF m'.loader = "none" THEN Unreadable' ELSE Image(m.openconnect)'
    BY <1>1, <2>1, <2>2, <2>3
  <2>5. IsList(todo') /\ Known' \subseteq Binaries'
    BY <1>1, ShortLists DEF Known
  <2>6. QED BY <1>1, <1>2, <2>4, <2>5 DEF WalkInv
<1>4. SeenInv'
  <2>1. Accepting' <=> Verdict'
    BY <1>1 DEF Accepting
  <2>2. PathTrusted(m.openconnect, 0, TRUE) => PathTrusted(m.openconnect, 0, TRUE)'
    BY <1>1, SteadySeen DEF Known
  <2>3. QED BY <1>1, <1>2, <2>1, <2>2 DEF SeenInv
<1>5. QED BY <1>3, <1>4 DEF ClosureInv

(* NoLibraries: its row is a refusal.                                      *)
LEMMA NoLibrariesKeeps ==
  ASSUME WellMade, ClosureInv, NoLibraries
  PROVE  ClosureInv'
<1>1. /\ UNCHANGED <<m, info, todo, visited>> /\ pc = "libraries" /\ pc' = "files"
      /\ todo = << >> /\ visited = {} /\ IsList(todo) /\ Known \subseteq Binaries
  BY DEF NoLibraries, Go, ClosureInv, WalkInv
<1>2. IsList(report') /\ ~ Verdict'
  <2>1. /\ IsList(<< Row(m.openconnect, FALSE, info.ok) >>)
        /\ ~ AllOk(<< Row(m.openconnect, FALSE, info.ok) >>)
    BY OneRow
  <2>2. Record(<< Row(m.openconnect, FALSE, info.ok) >>) /\ IsList(report)
    BY DEF NoLibraries, ClosureInv, WalkInv
  <2>3. QED BY <2>1, <2>2, RecordGood
<1>3. WalkInv'
  <2>1. Binaries' = Binaries /\ Known' = Known
    BY <1>1, SteadyImages DEF Known
  <2>2. QED BY <1>1, <1>2, <2>1 DEF WalkInv
<1>4. SeenInv'
  <2>1. Accepting' <=> Verdict'
    BY <1>1 DEF Accepting
  <2>2. QED BY <1>2, <2>1 DEF SeenInv
<1>5. QED BY <1>3, <1>4 DEF ClosureInv

(* The image of openconnect itself, when it could be read.                 *)
LEMMA LibrariesKnown ==
  ASSUME WellMade, ClosureInv, Libraries
  PROVE  /\ UNCHANGED <<m, visited>> /\ pc = "libraries" /\ m.loader \in {"elf", "macho"}
         /\ todo = << >> /\ visited = {} /\ IsList(report)
         /\ info = Image(m.openconnect) /\ info.ok /\ info.is
         /\ IsList(info.rpaths) /\ IsList(info.names)
         /\ RpathsOf(m.openconnect) = ToSet(info.rpaths)
         /\ NamesOf(m.openconnect) = {d \in ToSet(info.names) : Absolute(d)}
         /\ m.loader = "macho" => NamesOf(m.openconnect) \subseteq Binaries
<1>1. /\ UNCHANGED <<m, visited>> /\ pc = "libraries" /\ info.ok /\ info.is
      /\ todo = << >> /\ visited = {} /\ IsList(report)
      /\ info = IF m.loader = "none" THEN Unreadable ELSE Image(m.openconnect)
  BY DEF Libraries, Go, ClosureInv, WalkInv
<1>2. m.loader # "none"
  BY <1>1 DEF Unreadable
<1>3. info = Image(m.openconnect)
  BY <1>1, <1>2
<1>4. m.openconnect \in Binaries
  BY BinaryZero
<1>5. QED BY <1>1, <1>2, <1>3, <1>4, ImagesListed DEF WellMade

(* Libraries, of an ELF binary: CheckElf is all there is.                  *)
LEMMA ElfKeeps ==
  ASSUME WellMade, ClosureInv, Libraries, m.loader = "elf"
  PROVE  ClosureInv'
<1>1. Record(CheckElf) /\ pc' = "files" /\ UNCHANGED <<m, todo, visited>>
  BY DEF Libraries, Go
<1>2. IsList(info.rpaths) /\ IsList(info.names) /\ IsList(report)
  BY LibrariesKnown
<1>3. /\ IsList(CheckElf)
      /\ AllOk(CheckElf) => ElfSeen /\ ~ info.truncated /\ \A d \in ToSet(info.rpaths) : Vetted(d)
  BY <1>2, ElfRows
<1>4. IsList(report') /\ (Verdict' => Verdict /\ AllOk(CheckElf))
  BY <1>1, <1>2, <1>3, RecordGood
<1>5. WalkInv'
  <2>1. Binaries' = Binaries /\ Known' = Known /\ m'.loader = m.loader
    BY <1>1, SteadyImages DEF Known
  <2>2. todo' = << >> /\ visited' = {}
    BY <1>1, LibrariesKnown
  <2>3. QED BY <1>1, <1>4, <2>1, <2>2 DEF WalkInv, ClosureInv
<1>6. SeenInv'
  <2>1. SUFFICES ASSUME Verdict'
                 PROVE  /\ PathTrusted(m.openconnect, 0, TRUE)'
                        /\ m'.loader # "none" /\ BinarySeen(m.openconnect)' /\ ElfSeen' /\ visited' = {}
    BY <1>1 DEF SeenInv, Accepting
  <2>2. Verdict /\ ElfSeen /\ ~ info.truncated /\ \A d \in ToSet(info.rpaths) : Vetted(d)
    BY <1>3, <1>4, <2>1
  <2>3. PathTrusted(m.openconnect, 0, TRUE)
    BY <2>2, LibrariesKnown DEF ClosureInv, SeenInv, Accepting
  <2>4. BinarySeen(m.openconnect)
    BY <2>2, LibrariesKnown DEF BinarySeen
  <2>5. Known \subseteq Known'
    BY <1>1 DEF Known
  <2>6. QED BY <1>1, <2>2, <2>3, <2>4, <2>5, SteadySeen, LibrariesKnown
<1>7. QED BY <1>5, <1>6 DEF ClosureInv

(* Libraries, of a Mach-O binary: its dylibs become known.                 *)
LEMMA MachoKeeps ==
  ASSUME WellMade, ClosureInv, Libraries, m.loader # "elf"
  PROVE  ClosureInv'
<1>1. Record(CheckMacho(m.openconnect)) /\ pc' = "dylibs" /\ todo' = Needed /\ UNCHANGED <<m, visited>>
  BY DEF Libraries, Go
<1>2. IsList(info.rpaths) /\ IsList(info.names) /\ IsList(report) /\ m.loader = "macho" /\ visited = {} /\ todo = << >>
  BY LibrariesKnown
<1>3. /\ IsList(CheckMacho(m.openconnect))
      /\ AllOk(CheckMacho(m.openconnect)) => ~ info.truncated /\ \A d \in ToSet(info.rpaths) : Vetted(d)
  BY <1>2, MachoRows
<1>4. IsList(report') /\ (Verdict' => Verdict /\ AllOk(CheckMacho(m.openconnect)))
  BY <1>1, <1>2, <1>3, RecordGood
<1>5. IsList(todo') /\ ToSet(todo') = NamesOf(m.openconnect) /\ NamesOf(m.openconnect) \subseteq Binaries
  BY <1>1, <1>2, NeededNames, LibrariesKnown
<1>6. Known = {} /\ Known' = NamesOf(m.openconnect)
  BY <1>1, <1>2, <1>5, ShortLists DEF Known
<1>7. WalkInv'
  <2>1. Binaries' = Binaries /\ m'.loader = "macho"
    BY <1>1, <1>2, SteadyImages
  <2>2. QED BY <1>1, <1>4, <1>5, <1>6, <2>1 DEF WalkInv
<1>8. SeenInv'
  <2>1. SUFFICES ASSUME Verdict'
                 PROVE  /\ PathTrusted(m.openconnect, 0, TRUE)'
                        /\ m'.loader = "macho" /\ BinarySeen(m.openconnect)' /\ visited' = {}
    BY <1>1 DEF SeenInv, Accepting
  <2>2. Verdict /\ ~ info.truncated /\ \A d \in ToSet(info.rpaths) : Vetted(d)
    BY <1>3, <1>4, <2>1
  <2>3. PathTrusted(m.openconnect, 0, TRUE)
    BY <2>2, LibrariesKnown DEF ClosureInv, SeenInv, Accepting
  <2>4. PathTrusted(m.openconnect, 0, TRUE)'
    BY <1>1, <1>6, <2>3, SteadySeen
  <2>5. BinarySeen(m.openconnect)'
    <3>1. Image(m.openconnect).ok /\ ~ Image(m.openconnect).truncated /\ \A d \in RpathsOf(m.openconnect) : Vetted(d)
      BY <2>2, LibrariesKnown
    <3>2. /\ Image(m.openconnect)' = Image(m.openconnect) /\ RpathsOf(m.openconnect)' = RpathsOf(m.openconnect)
          /\ NamesOf(m.openconnect)' = NamesOf(m.openconnect)
      BY <1>1, SteadyImages
    <3>3. \A d : Vetted(d)' <=> Vetted(d)
      BY <1>1, SteadyTrust
    <3>4. QED BY <1>6, <3>1, <3>2, <3>3 DEF BinarySeen
  <2>6. QED BY <1>1, <1>2, <2>4, <2>5
<1>9. QED BY <1>7, <1>8 DEF ClosureInv

(* What was said of the libraries stays said.                              *)
LEMMA StaysSeen ==
  ASSUME UNCHANGED m, Known \subseteq Known', SeenInv, Accepting, pc \notin {"binary", "libraries"}
  PROVE  /\ PathTrusted(m.openconnect, 0, TRUE)'
         /\ m'.loader # "none" /\ BinarySeen(m.openconnect)' /\ (m.loader = "elf" => ElfSeen)'
         /\ \A p \in visited : \/ p \in m'.cached
                               \/ PathTrusted(p, 0, FALSE)' /\ (BinarySeen(p)' \/ (pc = "image" /\ p = todo[1]))
<1>1. /\ PathTrusted(m.openconnect, 0, TRUE)
      /\ m.loader # "none" /\ BinarySeen(m.openconnect) /\ (m.loader = "elf" => ElfSeen)
      /\ \A p \in visited : \/ p \in m.cached
                            \/ PathTrusted(p, 0, FALSE) /\ (BinarySeen(p) \/ (pc = "image" /\ p = todo[1]))
  BY DEF SeenInv
<1>2. m'.cached = m.cached /\ m'.loader = m.loader
  OBVIOUS
<1>3. QED BY <1>1, <1>2, SteadySeen

(* Skip: the dylib was entered before, or one too many is a refusal.       *)
LEMMA SkipKeeps ==
  ASSUME WellMade, ClosureInv, Skip
  PROVE  ClosureInv'
<1>1. /\ UNCHANGED <<m, info, visited>> /\ pc = "dylibs" /\ pc' = "dylibs" /\ todo # << >> /\ todo' = Tail(todo)
      /\ IsList(report) /\ IsList(todo) /\ m.loader = "macho" /\ Known \subseteq Binaries
  BY DEF Skip, Go, ClosureInv, WalkInv
<1>2. IsList(todo') /\ ToSet(todo) = {todo[1]} \cup ToSet(todo')
  BY <1>1, TailOfList
<1>3. IsList(report') /\ (Verdict' => Verdict /\ todo[1] \in visited)
  <2>1. CASE todo[1] \in visited /\ UNCHANGED report
    BY <1>1, <2>1 DEF Verdict, Failed
  <2>2. CASE Record(<< Row(todo[1], FALSE, FALSE) >>)
    <3>1. /\ IsList(<< Row(todo[1], FALSE, FALSE) >>)
          /\ ~ AllOk(<< Row(todo[1], FALSE, FALSE) >>)
      BY OneRow
    <3>2. QED BY <1>1, <2>2, <3>1, RecordGood
  <2>3. QED BY <2>1, <2>2 DEF Skip
<1>4. WalkInv'
  <2>1. Binaries' = Binaries /\ Known' \subseteq Known /\ m'.loader = "macho"
    BY <1>1, <1>2, SteadyImages DEF Known
  <2>2. QED BY <1>1, <1>2, <1>3, <2>1 DEF WalkInv
<1>5. SeenInv'
  <2>1. CASE Verdict'
    <3>1. Known \subseteq Known' /\ Accepting
      BY <1>1, <1>2, <1>3, <2>1 DEF Known, Accepting
    <3>2. QED BY <1>1, <3>1, StaysSeen DEF SeenInv, ClosureInv
  <2>2. CASE ~ Verdict'
    BY <1>1, <2>2 DEF SeenInv, Accepting
  <2>3. QED BY <2>1, <2>2
<1>6. QED BY <1>4, <1>5 DEF ClosureInv

(* Enter: the dylib is cached, or trusted and read next, or refused.       *)
LEMMA EnterKeeps ==
  ASSUME WellMade, ClosureInv, Enter
  PROVE  ClosureInv'
<1>0. PICK path : path = todo[1]
  OBVIOUS
<1> DEFINE taken == path \in m.cached \/ PathTrusted(path, 0, FALSE)
<1>1. /\ UNCHANGED m /\ pc = "dylibs" /\ todo # << >> /\ visited' = visited \cup {path}
      /\ IsList(report) /\ IsList(todo) /\ m.loader = "macho" /\ Known \subseteq Binaries
      /\ IF taken /\ path \notin m.cached
         THEN info' = Image(path) /\ pc' = "image" /\ UNCHANGED todo
         ELSE todo' = Tail(todo) /\ pc' = "dylibs"
  BY <1>0 DEF Enter, Go, ClosureInv, WalkInv
<1>2. IsList(Tail(todo)) /\ ToSet(todo) = {path} \cup ToSet(Tail(todo))
  BY <1>0, <1>1, TailOfList
<1>3. IsList(report') /\ (Verdict' => Verdict /\ taken)
  <2>1. taken \in BOOLEAN
    BY DEF PathTrusted
  <2>2. Record(<< Row(path, taken, TRUE) >>)
    BY <1>0 DEF Enter
  <2> HIDE DEF taken
  <2>3. IsList(<< Row(path, taken, TRUE) >>) /\ (AllOk(<< Row(path, taken, TRUE) >>) => taken)
    BY <2>1, OneRow
  <2>4. QED BY <1>1, <2>2, <2>3, RecordGood
<1>4. IsList(todo') /\ Known' = Known /\ Known \subseteq Known'
  BY <1>0, <1>1, <1>2 DEF Known
<1>5. WalkInv'
  <2>1. Binaries' = Binaries /\ m'.loader = "macho"
    BY <1>1, SteadyImages
  <2>2. CASE taken /\ path \notin m.cached
    <3>1. \A p : Image(p)' = Image(p)
      BY <1>1, SteadyImages
    <3>2. todo' = todo /\ todo'[1] = path /\ path \in visited'
      BY <1>0, <1>1, <2>2
    <3>3. info' = Image(todo[1])'
      BY <1>1, <2>2, <3>1, <3>2
    <3>4. QED BY <1>1, <1>3, <1>4, <2>1, <2>2, <3>2, <3>3 DEF WalkInv
  <2>3. CASE ~ (taken /\ path \notin m.cached)
    BY <1>1, <1>3, <1>4, <2>1, <2>3 DEF WalkInv
  <2>4. QED BY <2>2, <2>3
<1>6. SeenInv'
  <2>1. CASE Verdict'
    <3>1. taken /\ Accepting
      BY <1>1, <1>3, <2>1 DEF Accepting
    <3>2. /\ PathTrusted(m.openconnect, 0, TRUE)'
          /\ m'.loader # "none" /\ BinarySeen(m.openconnect)' /\ (m.loader = "elf" => ElfSeen)'
          /\ \A p \in visited : p \in m'.cached \/ (PathTrusted(p, 0, FALSE)' /\ BinarySeen(p)')
      BY <1>1, <1>4, <3>1, StaysSeen DEF ClosureInv
    <3>3. PathTrusted(path, 0, FALSE) => PathTrusted(path, 0, FALSE)'
      BY <1>1, SteadyTrust
    <3>4. path \in m'.cached \/ (PathTrusted(path, 0, FALSE)' /\ pc' = "image" /\ path = todo'[1])
      BY <1>0, <1>1, <3>1, <3>3
    <3>5. pc' \in {"dylibs", "image"}
      BY <1>1
    <3> HIDE DEF taken
    <3>6. QED BY <1>1, <3>2, <3>4, <3>5 DEF SeenInv
  <2>2. CASE ~ Verdict'
    <3>1. ~ Accepting'
      BY <1>1, <2>2 DEF Accepting
    <3>2. QED BY <3>1 DEF SeenInv
  <2>3. QED BY <2>1, <2>2
<1>7. QED BY <1>5, <1>6 DEF ClosureInv

(* The rows of a binary that was read.                                     *)
WalkRows == IF ~ info.ok THEN << Row(todo[1], FALSE, FALSE) >> ELSE IF info.is THEN CheckMacho(todo[1]) ELSE << >>

(* They and the names that follow, in each of the three cases.             *)
LEMMA WalkKnown ==
  ASSUME WellMade, ClosureInv, Walk
  PROVE  /\ IsList(WalkRows)
         /\ AllOk(WalkRows) => /\ Image(todo[1]).ok /\ (Image(todo[1]).is => ~ Image(todo[1]).truncated)
                               /\ \A d \in RpathsOf(todo[1]) : Vetted(d)
         /\ IsList(todo') /\ ToSet(todo') = NamesOf(todo[1]) \cup ToSet(Tail(todo))
         /\ NamesOf(todo[1]) \subseteq Binaries
<1> DEFINE path == todo[1]
<1>1. /\ todo # << >> /\ path \in visited /\ info = Image(path) /\ IsList(todo)
      /\ m.loader = "macho" /\ path \in Binaries
      /\ todo' = (IF info.ok /\ info.is THEN Needed ELSE << >>) \o Tail(todo)
  BY DEF Walk, ClosureInv, WalkInv, Known
<1>2. IsList(Tail(todo))
  BY <1>1, TailOfList
<1> HIDE DEF path
<1>3. CASE ~ info.ok
  <2>1. WalkRows = << Row(path, FALSE, FALSE) >>
    BY <1>3 DEF WalkRows, path
  <2>2. IsList(WalkRows) /\ ~ AllOk(WalkRows)
    BY <2>1, OneRow
  <2>3. NamesOf(path) = {}
    BY <1>1, <1>3 DEF NamesOf
  <2>4. IsList(todo') /\ ToSet(todo') = {} \cup ToSet(Tail(todo))
    BY <1>1, <1>2, <1>3, ShortLists, JoinTwo
  <2>5. QED BY <2>2, <2>3, <2>4 DEF path
<1>4. CASE info.ok /\ ~ info.is
  <2>1. IsList(WalkRows)
    BY <1>4, NoRows DEF WalkRows
  <2>2. NamesOf(path) = {} /\ RpathsOf(path) = {} /\ Image(path).ok /\ ~ Image(path).is
    BY <1>1, <1>4 DEF NamesOf, RpathsOf
  <2>3. IsList(todo') /\ ToSet(todo') = {} \cup ToSet(Tail(todo))
    BY <1>1, <1>2, <1>4, ShortLists, JoinTwo
  <2>4. QED BY <2>1, <2>2, <2>3 DEF path
<1>5. CASE info.ok /\ info.is
  <2>1. /\ IsList(info.rpaths) /\ IsList(info.names) /\ RpathsOf(path) = ToSet(info.rpaths)
        /\ NamesOf(path) = {d \in ToSet(info.names) : Absolute(d)} /\ NamesOf(path) \subseteq Binaries
    BY <1>1, <1>5, ImagesListed
  <2>2. WalkRows = CheckMacho(path)
    BY <1>5 DEF WalkRows, path
  <2>3. IsList(WalkRows) /\ (AllOk(WalkRows) => ~ info.truncated /\ \A d \in ToSet(info.rpaths) : Vetted(d))
    BY <2>1, <2>2, MachoRows
  <2>4. IsList(Needed) /\ ToSet(Needed) = NamesOf(path)
    BY <2>1, NeededNames
  <2>5. IsList(todo') /\ ToSet(todo') = ToSet(Needed) \cup ToSet(Tail(todo))
    BY <1>1, <1>2, <1>5, <2>4, JoinTwo
  <2>6. QED BY <1>1, <1>5, <2>1, <2>3, <2>4, <2>5 DEF path
<1>6. QED BY <1>3, <1>4, <1>5

(* Walk: the dylib is seen now, and what it needs is known.                *)
LEMMA WalkKeeps ==
  ASSUME WellMade, ClosureInv, Walk
  PROVE  ClosureInv'
<1>0. PICK path : path = todo[1]
  OBVIOUS
<1>1. /\ UNCHANGED <<m, visited>> /\ pc = "image" /\ pc' = "dylibs" /\ todo # << >> /\ path \in visited
      /\ IsList(report) /\ IsList(todo) /\ m.loader = "macho" /\ Known \subseteq Binaries
      /\ Record(WalkRows)
  BY <1>0 DEF Walk, WalkRows, Go, ClosureInv, WalkInv
<1>2. IsList(Tail(todo)) /\ ToSet(todo) = {path} \cup ToSet(Tail(todo))
  BY <1>0, <1>1, TailOfList
<1>3. IsList(todo') /\ ToSet(todo') = NamesOf(path) \cup ToSet(Tail(todo)) /\ NamesOf(path) \subseteq Binaries
  BY <1>0, WalkKnown
<1>4. IsList(report') /\ (Verdict' => Verdict /\ AllOk(WalkRows))
  BY <1>1, WalkKnown, RecordGood
<1>5. Known' = Known \cup NamesOf(path) /\ Known \subseteq Known'
  BY <1>1, <1>2, <1>3 DEF Known
<1>6. WalkInv'
  <2>1. Binaries' = Binaries /\ m'.loader = "macho"
    BY <1>1, SteadyImages
  <2>2. QED BY <1>1, <1>3, <1>4, <1>5, <2>1 DEF WalkInv
<1>7. SeenInv'
  <2>1. CASE Verdict'
    <3>1. AllOk(WalkRows) /\ Accepting
      BY <1>1, <1>4, <2>1 DEF Accepting
    <3>2. /\ PathTrusted(m.openconnect, 0, TRUE)'
          /\ m'.loader # "none" /\ BinarySeen(m.openconnect)' /\ (m.loader = "elf" => ElfSeen)'
          /\ \A p \in visited : \/ p \in m'.cached
                                \/ PathTrusted(p, 0, FALSE)' /\ (BinarySeen(p)' \/ p = path)
      BY <1>0, <1>1, <1>5, <3>1, StaysSeen DEF ClosureInv
    <3>3. BinarySeen(path)'
      <4>1. /\ Image(path).ok /\ (Image(path).is => ~ Image(path).truncated)
            /\ \A d \in RpathsOf(path) : Vetted(d)
        BY <1>0, <3>1, WalkKnown
      <4>2. \A p : Image(p)' = Image(p) /\ RpathsOf(p)' = RpathsOf(p) /\ NamesOf(p)' = NamesOf(p)
        BY <1>1, SteadyImages
      <4>3. \A d : Vetted(d)' <=> Vetted(d)
        BY <1>1, SteadyTrust
      <4>4. QED BY <1>5, <4>1, <4>2, <4>3 DEF BinarySeen
    <3>4. \A p \in visited' : p \in m'.cached \/ (PathTrusted(p, 0, FALSE)' /\ BinarySeen(p)')
      BY <1>1, <3>2, <3>3
    <3>5. QED BY <1>1, <3>2, <3>4 DEF SeenInv
  <2>2. CASE ~ Verdict'
    BY <1>1, <2>2 DEF SeenInv, Accepting
  <2>3. QED BY <2>1, <2>2
<1>8. QED BY <1>6, <1>7 DEF ClosureInv

(* Return: every dylib is done.                                            *)
LEMMA ReturnKeeps ==
  ASSUME WellMade, ClosureInv, Return
  PROVE  ClosureInv'
<1>1. UNCHANGED <<m, info, todo, visited, report, answer>> /\ pc = "dylibs" /\ pc' = "files" /\ todo = << >>
  BY DEF Return, Go
<1>2. Known' = Known /\ (Accepting' <=> Accepting)
  BY <1>1 DEF Known, Accepting, Verdict, Failed
<1>3. WalkInv'
  <2>1. Binaries' = Binaries
    BY <1>1, SteadyImages
  <2>2. QED BY <1>1, <1>2, <2>1 DEF WalkInv, ClosureInv
<1>4. SeenInv'
  <2>1. CASE Accepting
    <3>1. /\ PathTrusted(m.openconnect, 0, TRUE)'
          /\ m'.loader # "none" /\ BinarySeen(m.openconnect)' /\ (m.loader = "elf" => ElfSeen)'
          /\ \A p \in visited : p \in m'.cached \/ (PathTrusted(p, 0, FALSE)' /\ BinarySeen(p)')
      BY <1>1, <1>2, <2>1, StaysSeen DEF ClosureInv
    <3>2. QED BY <1>1, <3>1 DEF SeenInv
  <2>2. CASE ~ Accepting
    BY <1>2, <2>2 DEF SeenInv
  <2>3. QED BY <2>1, <2>2
<1>5. QED BY <1>3, <1>4 DEF ClosureInv

(* The rows of Files.                                                      *)
FilesRows ==
  CheckFile(m.shell, 0, TRUE) \o CheckFile(m.script, 0, TRUE) \o CheckShebang(m.script, 0)
  \o CheckHooks(m.hooks_root) \o CheckPathEntries
  \o (IF m.euid = 0 /\ m.caller # 0 THEN CheckAcls ELSE << >>)

(* They are good only if everything but the libraries was looked at.       *)
LEMMA FilesRowsOk ==
  ASSUME WellMade
  PROVE  IsList(FilesRows) /\ (AllOk(FilesRows) => FilesSeen)
<1> DEFINE a == CheckFile(m.shell, 0, TRUE)
<1> DEFINE b == CheckFile(m.script, 0, TRUE)
<1> DEFINE c == CheckShebang(m.script, 0)
<1> DEFINE d == CheckHooks(m.hooks_root)
<1> DEFINE e == CheckPathEntries
<1> DEFINE acls == m.euid = 0 /\ m.caller # 0
<1> DEFINE f == IF acls THEN CheckAcls ELSE << >>
<1>1. FilesRows = a \o b \o c \o d \o e \o f
  BY DEF FilesRows
<1>2. /\ IsList(a) /\ (AllOk(a) => PathTrusted(m.shell, 0, TRUE))
      /\ IsList(b) /\ (AllOk(b) => PathTrusted(m.script, 0, TRUE))
  BY FileRow
<1>3. IsList(c) /\ (AllOk(c) => \A p \in Interpreter(m.script) : Vetted(p))
  BY ShebangRows, VettedFiles
<1>4. IsList(d) /\ (AllOk(d) => HooksSeen)
  BY HooksRows
<1>5. IsList(e) /\ (AllOk(e) => PathSeen)
  BY PathRows
<1>6. IsList(f) /\ (AllOk(f) => (acls => \A p \in Fixed : Leads(p) => ~ Object(p).acl))
  BY AclRows, NoRows
<1> HIDE DEF a, b, c, d, e, f
<1>7. IsList(a \o b) /\ (AllOk(a \o b) => AllOk(a) /\ AllOk(b))
  BY <1>2, RowsOfTwo
<1>8. IsList(a \o b \o c) /\ (AllOk(a \o b \o c) => AllOk(a \o b) /\ AllOk(c))
  BY <1>3, <1>7, RowsOfTwo
<1>9. IsList(a \o b \o c \o d) /\ (AllOk(a \o b \o c \o d) => AllOk(a \o b \o c) /\ AllOk(d))
  BY <1>4, <1>8, RowsOfTwo
<1>10. IsList(a \o b \o c \o d \o e) /\ (AllOk(a \o b \o c \o d \o e) => AllOk(a \o b \o c \o d) /\ AllOk(e))
  BY <1>5, <1>9, RowsOfTwo
<1>11. IsList(FilesRows) /\ (AllOk(FilesRows) => AllOk(a \o b \o c \o d \o e) /\ AllOk(f))
  BY <1>1, <1>6, <1>10, RowsOfTwo
<1>12. QED BY <1>2, <1>3, <1>4, <1>5, <1>6, <1>7, <1>8, <1>9, <1>10, <1>11 DEF FilesSeen

(* Files: what is left is looked at.                                       *)
LEMMA FilesKeeps ==
  ASSUME WellMade, ClosureInv, Files
  PROVE  ClosureInv'
<1>1. UNCHANGED <<m, info, todo, visited>> /\ pc = "files" /\ pc' = "verdict" /\ Record(FilesRows) /\ IsList(report)
  BY DEF Files, FilesRows, Go, ClosureInv, WalkInv
<1>2. IsList(report') /\ (Verdict' => Verdict /\ FilesSeen)
  BY <1>1, FilesRowsOk, RecordGood
<1>3. Known' = Known
  BY <1>1 DEF Known
<1>4. WalkInv'
  <2>1. Binaries' = Binaries
    BY <1>1, SteadyImages
  <2>2. QED BY <1>1, <1>2, <1>3, <2>1 DEF WalkInv, ClosureInv
<1>5. SeenInv'
  <2>1. CASE Verdict'
    <3>1. Accepting /\ FilesSeen
      BY <1>1, <1>2, <2>1 DEF Accepting
    <3>2. /\ PathTrusted(m.openconnect, 0, TRUE)'
          /\ m'.loader # "none" /\ BinarySeen(m.openconnect)' /\ (m.loader = "elf" => ElfSeen)'
          /\ \A p \in visited : p \in m'.cached \/ (PathTrusted(p, 0, FALSE)' /\ BinarySeen(p)')
      BY <1>1, <1>3, <3>1, StaysSeen DEF ClosureInv
    <3>3. FilesSeen'
      BY <1>1, <3>1, SteadySections
    <3>4. QED BY <1>1, <3>2, <3>3 DEF SeenInv
  <2>2. CASE ~ Verdict'
    BY <1>1, <2>2 DEF SeenInv, Accepting
  <2>3. QED BY <2>1, <2>2
<1>6. QED BY <1>4, <1>5 DEF ClosureInv

(* Judge: the answer is the verdict.                                       *)
LEMMA JudgeKeeps ==
  ASSUME WellMade, ClosureInv, Judge
  PROVE  ClosureInv'
<1>1. /\ UNCHANGED <<m, info, todo, visited>> /\ pc = "verdict" /\ answer' = << Verdict >>
      /\ \/ pc' = "wrapper" /\ report' = << >>
         \/ pc' = "end" /\ UNCHANGED report
  BY DEF Judge
<1>2. Verdict \in BOOLEAN
  BY DEF Verdict
<1>3. Known' = Known
  BY <1>1 DEF Known
<1>4. answer' \in {<< TRUE >>, << FALSE >>} /\ (answer' = << TRUE >> => Verdict) /\ answer' # << TRUE, TRUE >>
  <2>1. CASE Verdict
    <3>1. answer' = << TRUE >>
      BY <1>1, <1>2, <2>1
    <3>2. QED BY <2>1, <3>1
  <2>2. CASE ~ Verdict
    <3>1. answer' = << FALSE >>
      BY <1>1, <1>2, <2>2
    <3>2. QED BY <3>1
  <2>3. QED BY <2>1, <2>2
<1>5. WalkInv'
  <2>1. Binaries' = Binaries
    BY <1>1, SteadyImages
  <2>2. IsList(report')
    BY <1>1, ShortLists DEF ClosureInv, WalkInv
  <2>3. QED BY <1>1, <1>3, <1>4, <2>1, <2>2 DEF WalkInv, ClosureInv
<1>6. SeenInv'
  <2>1. CASE pc' = "wrapper" /\ answer' = << TRUE >>
    <3>1. Accepting
      BY <1>1, <1>4, <2>1 DEF Accepting
    <3>2. /\ PathTrusted(m.openconnect, 0, TRUE)'
          /\ m'.loader # "none" /\ BinarySeen(m.openconnect)' /\ (m.loader = "elf" => ElfSeen)'
          /\ \A p \in visited : p \in m'.cached \/ (PathTrusted(p, 0, FALSE)' /\ BinarySeen(p)')
      BY <1>1, <1>3, <3>1, StaysSeen DEF ClosureInv
    <3>3. FilesSeen'
      BY <1>1, <3>1, SteadySections DEF ClosureInv, SeenInv
    <3>4. QED BY <1>1, <2>1, <3>2, <3>3 DEF SeenInv
  <2>2. CASE ~ (pc' = "wrapper" /\ answer' = << TRUE >>)
    <3>1. ~ Accepting'
      BY <1>1, <1>4, <2>2 DEF Accepting
    <3>2. QED BY <3>1 DEF SeenInv
  <2>3. QED BY <2>1, <2>2
<1>7. QED BY <1>5, <1>6 DEF ClosureInv

(* Two answers of yes are a yes and another yes.                           *)
LEMMA Appended ==
  ASSUME NEW a, NEW b, NEW c, NEW d, Append(<< a >>, b) = << c, d >>
  PROVE  a = c /\ b = d
<1> DEFINE S == {a, b}
<1> DEFINE t == << a >>
<1>1. t \in Seq(S) /\ Len(t) = 1 /\ t[1] = a /\ b \in S
  OBVIOUS
<1>2. Append(t, b) = << c, d >>
  OBVIOUS
<1> HIDE DEF S, t
<1>3. Append(t, b)[1] = t[1] /\ Append(t, b)[2] = b
  <2>1. /\ \A i \in 1..Len(t) : Append(t, b)[i] = t[i]
        /\ Append(t, b)[Len(t) + 1] = b
    <3>1. t \in Seq(S) /\ b \in S
      BY <1>1
    <3>2. QED BY <3>1
  <2>2. 1 \in 1..Len(t) /\ Len(t) + 1 = 2
    BY <1>1
  <2>3. QED BY <2>1, <2>2
<1>4. << c, d >>[1] = c /\ << c, d >>[2] = d
  OBVIOUS
<1>5. QED BY <1>1, <1>2, <1>3, <1>4

(* The first and the second of two equal answers.                          *)
LEMMA BothYes ==
  ASSUME NEW s, NEW yes, NEW no, yes # no, s \in {<< yes >>, << no >>}, NEW last, Append(s, last) = << yes, yes >>
  PROVE  s = << yes >> /\ last = yes
<1>1. PICK first : s = << first >>
  OBVIOUS
<1>2. QED BY <1>1, Appended

(* The same of the two Boolean answers.                                    *)
LEMMA BothTrue ==
  ASSUME NEW s \in {<< TRUE >>, << FALSE >>}, NEW last, Append(s, last) = << TRUE, TRUE >>
  PROVE  s = << TRUE >> /\ last = TRUE
BY BothYes, Zenon

(* Wrapper: the second answer covers it and its interpreter.               *)
LEMMA WrapperKeeps ==
  ASSUME WellMade, ClosureInv, Wrapper
  PROVE  ClosureInv'
<1>0. PICK owner : owner = IF m.candidate = << >> THEN 0 ELSE m.euid
  OBVIOUS
<1>1. /\ UNCHANGED <<m, info, todo, visited>> /\ pc = "wrapper" /\ pc' = "end"
      /\ report' = CheckFile(WrapperPath, owner, TRUE) \o CheckShebang(WrapperPath, owner)
      /\ answer' = Append(answer, AllOk(report'))
      /\ answer \in {<< TRUE >>, << FALSE >>}
  BY <1>0 DEF Wrapper, AllOk, ClosureInv, WalkInv
<1>2. /\ IsList(report')
      /\ AllOk(report') => /\ PathTrusted(WrapperPath, owner, TRUE)
                           /\ \A p \in Interpreter(WrapperPath) : PathTrusted(p, owner, TRUE)
  BY <1>1, FileRow, ShebangRows, RowsOfTwo
<1>3. AllOk(report') => WrapperSeen
  BY <1>0, <1>2, VettedFiles DEF WrapperSeen
<1>4. answer' = << TRUE, TRUE >> => answer = << TRUE >> /\ AllOk(report')
  <2>1. PICK ok : ok = AllOk(report')
    OBVIOUS
  <2>2. SUFFICES ASSUME answer' = << TRUE, TRUE >> PROVE answer = << TRUE >> /\ ok = TRUE
    BY <2>1
  <2>3. Append(answer, ok) = << TRUE, TRUE >>
    BY <1>1, <2>1, <2>2, Zenon
  <2>4. answer \in {<< TRUE >>, << FALSE >>}
    BY <1>1
  <2>5. QED BY <2>3, <2>4, BothTrue, Zenon
<1>5. Known' = Known
  BY <1>1 DEF Known
<1>6. WalkInv'
  <2>1. Binaries' = Binaries
    BY <1>1, SteadyImages
  <2>2. QED BY <1>1, <1>2, <1>5, <2>1 DEF WalkInv, ClosureInv
<1>7. SeenInv'
  <2>1. CASE answer' = << TRUE, TRUE >>
    <3>1. Accepting /\ WrapperSeen
      BY <1>1, <1>3, <1>4, <2>1 DEF Accepting
    <3>2. /\ PathTrusted(m.openconnect, 0, TRUE)'
          /\ m'.loader # "none" /\ BinarySeen(m.openconnect)' /\ (m.loader = "elf" => ElfSeen)'
          /\ \A p \in visited : p \in m'.cached \/ (PathTrusted(p, 0, FALSE)' /\ BinarySeen(p)')
      BY <1>1, <1>5, <3>1, StaysSeen DEF ClosureInv
    <3>3. FilesSeen' /\ WrapperSeen'
      BY <1>1, <3>1, SteadySections DEF ClosureInv, SeenInv
    <3>4. QED BY <1>1, <3>2, <3>3 DEF SeenInv
  <2>2. CASE answer' # << TRUE, TRUE >>
    BY <1>1, <2>2 DEF SeenInv, Accepting
  <2>3. QED BY <2>1, <2>2
<1>8. QED BY <1>6, <1>7 DEF ClosureInv

(* Every step keeps the invariant, and so does no step.                    *)
LEMMA StepKeeps ==
  ASSUME WellMade, ClosureInv, [Next]_vars
  PROVE  ClosureInv'
<1>1. CASE UNCHANGED vars
  <2>1. UNCHANGED m /\ UNCHANGED <<pc, info, todo, visited, report, answer>>
    BY <1>1 DEF vars
  <2>2. Known' = Known /\ (Accepting' <=> Accepting)
    BY <2>1 DEF Known, Accepting, Verdict, Failed
  <2>3. WalkInv'
    <3>1. Binaries' = Binaries /\ (\A p : Image(p)' = Image(p))
      BY <2>1, SteadyImages
    <3>2. (IF m.loader = "none" THEN Unreadable ELSE Image(m.openconnect))'
          = IF m.loader = "none" THEN Unreadable ELSE Image(m.openconnect)
      BY <2>1, <3>1 DEF Unreadable
    <3>3. Image(todo[1])' = Image(todo[1])
      BY <2>1, <3>1
    <3>4. QED BY <2>1, <2>2, <3>1, <3>2, <3>3 DEF ClosureInv, WalkInv
  <2>4. SeenInv'
    <3>1. CASE Accepting
      <4>1. /\ PathTrusted(m.openconnect, 0, TRUE)' <=> PathTrusted(m.openconnect, 0, TRUE)
            /\ \A p : PathTrusted(p, 0, FALSE)' <=> PathTrusted(p, 0, FALSE)
            /\ FilesSeen' <=> FilesSeen
            /\ WrapperSeen' <=> WrapperSeen
            /\ ElfSeen' <=> ElfSeen
        <5>1. \A p, x : PathTrusted(p, 0, x)' <=> PathTrusted(p, 0, x)
          BY <2>1, SteadyTrust
        <5>2. QED BY <2>1, <5>1, SteadySections
      <4>2. \A p : BinarySeen(p) => BinarySeen(p)'
        BY <2>1, <2>2, BinaryStaysSeen
      <4>3. BinarySeen(m.openconnect) => BinarySeen(m.openconnect)'
        BY <2>1, <4>2
      <4>4. QED BY <2>1, <2>2, <3>1, <4>1, <4>2, <4>3 DEF ClosureInv, SeenInv
    <3>2. CASE ~ Accepting
      BY <2>2, <3>2 DEF SeenInv
    <3>3. QED BY <3>1, <3>2
  <2>5. QED BY <2>3, <2>4 DEF ClosureInv
<1>2. CASE Next
  BY <1>2, BinaryKeeps, NoLibrariesKeeps, ElfKeeps, MachoKeeps, SkipKeeps, EnterKeeps, WalkKeeps, ReturnKeeps,
     FilesKeeps, JudgeKeeps, WrapperKeeps DEF Next
<1>3. QED BY <1>1, <1>2

-----------------------------------------------------------------------------
(* What a yes says of all that root reaches                                *)

(* What the invariant says when root is told yes.                          *)
LEMMA AcceptedSeen ==
  ASSUME ClosureInv, Accepted
  PROVE  /\ PathTrusted(m.openconnect, 0, TRUE) /\ m.loader # "none" /\ BinarySeen(m.openconnect)
         /\ m.loader = "elf" => ElfSeen
         /\ \A p \in visited : p \in m.cached \/ (PathTrusted(p, 0, FALSE) /\ BinarySeen(p))
         /\ FilesSeen
         /\ PathTrusted(WrapperPath, 0, TRUE) /\ \A p \in Interpreter(WrapperPath) : Vetted(p)
         /\ Known = visited
<1>1. Accepting
  BY DEF Accepted, Accepting
<1>2. Known = visited
  BY ShortLists DEF Accepted, ClosureInv, WalkInv, Known
<1>3. QED BY <1>1, <1>2 DEF Accepted, ClosureInv, SeenInv, WrapperSeen

(* A library that exists is not one the loader has only in its cache.      *)
LEMMA CachedIsAbsent ==
  ASSUME WellMade
  PROVE  \A p \in m.cached : ~ Exists(p) /\ Vetted(p) /\ ~ Image(p).ok
<1> SUFFICES ASSUME NEW p \in m.cached PROVE ~ Exists(p) /\ Vetted(p) /\ ~ Image(p).ok
  OBVIOUS
<1>1. ~ Exists(p)
  BY DEF WellMade, Exists
<1>2. Image(p) = Unreadable
  BY <1>1 DEF Image, Reads, Opens, Leads
<1>3. QED BY <1>1, <1>2 DEF Vetted, Unreadable

(* Every binary there is was walked.                                       *)
LEMMA BinariesSeen ==
  ASSUME WellMade, ClosureInv, Accepted
  PROVE  \A p \in Binaries : Vetted(p) /\ (BinarySeen(p) \/ ~ Exists(p))
<1>1. \A p \in {m.openconnect} \cup visited : Vetted(p) /\ (BinarySeen(p) \/ ~ Exists(p))
  BY AcceptedSeen, CachedIsAbsent, VettedFiles
<1>2. CASE m.loader = "macho"
  <2> DEFINE next == [q \in DOMAIN m.at |-> NamesOf(q)]
  <2> DEFINE S == {m.openconnect} \cup visited
  <2>1. Binaries = Closed({m.openconnect}, next)
    BY <1>2 DEF Binaries
  <2>2. DOMAIN next = DOMAIN m.at /\ IsFiniteSet(DOMAIN next) /\ \A q \in DOMAIN m.at : next[q] = NamesOf(q)
    BY DEF WellMade
  <2>3. \A q \in S \cap DOMAIN m.at : NamesOf(q) \subseteq S
    BY <1>1, <1>2, AcceptedSeen DEF BinarySeen, Exists
  <2>4. {m.openconnect} \subseteq S
    OBVIOUS
  <2> HIDE DEF next, S
  <2>5. Closed({m.openconnect}, next) \subseteq S
    BY <2>2, <2>3, <2>4, ClosedWithin
  <2>6. QED BY <1>1, <2>1, <2>5 DEF S
<1>3. CASE m.loader # "macho"
  BY <1>1, <1>3 DEF Binaries
<1>4. QED BY <1>2, <1>3

(* All that is followed from anything is looked at.                        *)
LEMMA FollowedVetted ==
  ASSUME WellMade, ClosureInv, Accepted, NEW p, NEW q \in Followed(p)
  PROVE  Vetted(q)
<1>1. CASE p \in {m.script, WrapperPath} /\ q \in Interpreter(p)
  BY <1>1, AcceptedSeen DEF FilesSeen
<1>2. CASE q \in HookSubs
  BY <1>2, AcceptedSeen DEF FilesSeen, HooksSeen
<1>3. CASE p \in HookSubs /\ q \in Sees(p)
  BY <1>3, AcceptedSeen DEF FilesSeen, HooksSeen
<1>4. CASE m.loader = "elf" /\ p = m.conf_dir /\ q \in Sees(p)
  BY <1>4, AcceptedSeen DEF ElfSeen, ConfDirSeen, FileSeen
<1>5. CASE m.loader = "elf" /\ p \in LoaderFiles /\ q \in Lines(p)
  BY <1>5, AcceptedSeen DEF ElfSeen, ConfDirSeen, FileSeen, LoaderFiles
<1>6. CASE p \in Binaries /\ q \in RpathsOf(p)
  <2>1. Exists(p)
    BY <1>6 DEF RpathsOf, Image, Unreadable, Reads, Opens, Leads
  <2>2. QED BY <1>6, <2>1, BinariesSeen DEF BinarySeen
<1>7. CASE p \in Binaries /\ m.loader = "macho" /\ q \in NamesOf(p)
  <2>1. Exists(p)
    BY <1>7 DEF NamesOf, Image, Unreadable, Reads, Opens, Leads
  <2>2. q \in visited
    BY <1>7, <2>1, BinariesSeen, AcceptedSeen DEF BinarySeen
  <2>3. QED BY <2>2, AcceptedSeen, CachedIsAbsent, VettedFiles
<1>8. QED BY <1>1, <1>2, <1>3, <1>4, <1>5, <1>6, <1>7 DEF Followed

(* The pinned names were looked at.                                        *)
LEMMA RootsVetted ==
  ASSUME WellMade, ClosureInv, Accepted, NEW p \in Roots
  PROVE  Vetted(p)
<1>1. CASE p \in {m.openconnect, m.shell, m.script, WrapperPath, m.hooks_root}
  BY <1>1, AcceptedSeen, VettedFiles DEF FilesSeen, HooksSeen
<1>2. CASE p \in {Parent(dir) : dir \in ToSet(m.path_env)}
  <2>1. PICK dir \in ToSet(m.path_env) : p = Parent(dir)
    BY <1>2
  <2>2. Parent(<< >>) = << >> /\ Vetted(<< >>)
    BY DEF Parent, Absolute, Vetted, Exists, WellMade
  <2>3. dir \in ToSet(PathEntries) \/ dir = << >>
    BY PathEntriesListed
  <2>4. QED BY <2>1, <2>2, <2>3, AcceptedSeen DEF FilesSeen, PathSeen
<1>3. CASE m.loader = "elf" /\ p \in {m.preload, m.conf, m.conf_dir} \cup ToSet(m.libdirs)
  BY <1>3, AcceptedSeen DEF ElfSeen, FileSeen, ConfDirSeen
<1>4. QED BY <1>1, <1>2, <1>3 DEF Roots

(* What was looked at is harmless, and within sight of root.               *)
LEMMA WholePath ==
  ASSUME NEW real, IsList(real), Len(real) > 1
  PROVE  SubSeq(real, 1, Len(real)) = real
<1> DEFINE S == ToSet(real)
<1>1. real \in Seq(S)
  BY DEF IsList
<1> HIDE DEF S
<1>2. QED BY <1>1

(* What was looked at and exists is harmless, and in sight of root.        *)
LEMMA VettedHarmless ==
  ASSUME WellMade, ClosureInv, Accepted, NEW p, Vetted(p), Exists(p)
  PROVE  Harmless(p) /\ Sighted(p)
<1>1. PICK kind \in {"file", "dir"} : TrustedWalk(p, 0, kind)
  BY DEF Vetted
<1>2. /\ Leads(p)
      /\ \A k \in 2..Len(m.at[p].real) :
           TrustedComponent(SubSeq(m.at[p].real, 1, k), 0, IF k = Len(m.at[p].real) THEN kind ELSE "dir")
  BY <1>1 DEF TrustedWalk
<1>3. Harmless(p)
  BY <1>2 DEF Harmless, TrustedComponent
<1>4. Object(p).kind = kind
  <2> DEFINE real == m.at[p].real
  <2>1. IsList(real) /\ Len(real) > 1
    BY <1>2 DEF WellMade, Leads, Exists
  <2>2. Len(real) \in Nat
    BY <2>1, ListDomain
  <2>3. Len(real) \in 2..Len(real)
    BY <2>1, <2>2
  <2>4. SubSeq(real, 1, Len(real)) = real
    BY <2>1, WholePath
  <2>5. TrustedComponent(SubSeq(real, 1, Len(real)), 0, kind)
    BY <1>2, <2>3
  <2>6. TrustedComponent(real, 0, kind)
    BY <2>4, <2>5
  <2>7. QED BY <2>6 DEF TrustedComponent, Object
<1>5. Opens(p)
  BY <1>2 DEF Opens, Accepted
<1>6. Reads(p) \/ Lists(p)
  BY <1>4, <1>5 DEF Reads, Lists
<1>7. p \in Binaries => Image(p).ok /\ (Image(p).is => ~ Image(p).truncated)
  BY BinariesSeen DEF BinarySeen
<1>8. QED BY <1>3, <1>6, <1>7 DEF Sighted

(* What leads from the pinned names only where the check follows was looked
   at, all of it. *)
LEMMA ClosedVetted ==
  ASSUME WellMade, ClosureInv, Accepted,
         NEW next, DOMAIN next = Names,
         \A p \in Names \cap Closed(Roots, next) : Vetted(p) => next[p] \subseteq Followed(p)
  PROVE  \A p \in Closed(Roots, next) : Vetted(p)
<1> DEFINE S == Roots \cup {q \in UNION {next[p] : p \in DOMAIN next} : Vetted(q)}
<1>1. IsFiniteSet(DOMAIN next)
  <2>1. DOMAIN next \in SUBSET DOMAIN m.at
    BY DEF Names
  <2>2. QED BY <2>1, FS_Subset DEF WellMade
<1>2. \A p \in S : Vetted(p)
  BY RootsVetted
<1>3. ASSUME NEW p \in S \cap Closed(Roots, next) \cap DOMAIN next PROVE next[p] \subseteq S
  <2>1. next[p] \subseteq Followed(p)
    BY <1>2, <1>3
  <2>2. \A q \in next[p] : Vetted(q)
    BY <2>1, FollowedVetted
  <2>3. QED BY <1>3, <2>2
<1>4. Roots \subseteq S
  OBVIOUS
<1> HIDE DEF S
<1>5. Closed(Roots, next) \subseteq S
  BY <1>1, <1>3, <1>4, ClosedWithin
<1>6. QED BY <1>2, <1>5

(* So it is with what the check follows itself ...                         *)
WalkedIsHarmless == Accepted => \A p \in Walked : Exists(p) => Harmless(p)

LEMMA AcceptedIsWalked ==
  ASSUME WellMade, ClosureInv
  PROVE  WalkedIsHarmless
<1> SUFFICES ASSUME Accepted PROVE \A p \in Walked : Exists(p) => Harmless(p)
  BY DEF WalkedIsHarmless
<1> DEFINE next == [p \in Names |-> Followed(p)]
<1>1. Walked = Closed(Roots, next)
  BY DEF Walked
<1>2. DOMAIN next = Names /\ \A p \in Names \cap Closed(Roots, next) : Vetted(p) => next[p] \subseteq Followed(p)
  OBVIOUS
<1> HIDE DEF next
<1>3. \A p \in Walked : Vetted(p)
  BY <1>1, <1>2, ClosedVetted
<1>4. QED BY <1>3, VettedHarmless

(* ... and with what root takes within its sight.                          *)
LEMMA InSightVetted ==
  ASSUME WellMade, ReadAsMeant, ClosureInv, Accepted
  PROVE  \A p \in InSight : Vetted(p)
<1> DEFINE next == [p \in Names |-> Object(p).means \ Blind(p)]
<1>1. InSight = Closed(Roots, next)
  BY DEF InSight
<1>2. DOMAIN next = Names /\ \A p \in Names : next[p] = Object(p).means \ Blind(p) /\ Leads(p) /\ Exists(p)
  BY DEF Names, Leads
<1> HIDE DEF next
<1>3. ASSUME NEW p \in Names \cap Closed(Roots, next), Vetted(p) PROVE next[p] \subseteq Followed(p)
  BY <1>1, <1>2, <1>3, VettedHarmless DEF ReadAsMeant
<1>4. QED BY <1>1, <1>2, <1>3, ClosedVetted

(* The verdict is sound wherever the invariant holds.                      *)
LEMMA AcceptedIsSound ==
  ASSUME WellMade, ReadAsMeant, ClosureInv
  PROVE  VerdictIsSound
<1> SUFFICES ASSUME Accepted
             PROVE  /\ \A p \in InSight : Exists(p) => Harmless(p)
                    /\ m.path_env # << >> /\ \A dir \in ToSet(PathEntries) : Absolute(dir)
                    /\ m.loader # "none"
                    /\ m.caller # 0 => \A p \in {m.openconnect, m.script, m.shell} : ~ Object(p).acl
  BY DEF VerdictIsSound, Accepted
<1>1. \A p \in InSight : Exists(p) => Harmless(p)
  BY InSightVetted, VettedHarmless
<1>2. m.path_env # << >> /\ (\A dir \in ToSet(PathEntries) : Absolute(dir)) /\ m.loader # "none"
  BY AcceptedSeen DEF FilesSeen, PathSeen
<1>3. ASSUME m.caller # 0, NEW p \in {m.openconnect, m.script, m.shell} PROVE ~ Object(p).acl
  <2>1. PathTrusted(p, 0, TRUE)
    BY AcceptedSeen DEF FilesSeen
  <2>2. Leads(p)
    BY <2>1 DEF PathTrusted, TrustedWalk
  <2>3. QED BY <1>3, <2>2, AcceptedSeen DEF FilesSeen, Fixed, Accepted
<1>4. QED BY <1>1, <1>2, <1>3

-----------------------------------------------------------------------------

(* The machine was well made if it is.                                     *)
LEMMA SteadyMade ==
  ASSUME UNCHANGED m, WellMade'
  PROVE  WellMade
<1>1. /\ \A p : (Leads(p)' <=> Leads(p)) /\ (Lists(p)' <=> Lists(p)) /\ (Reads(p)' <=> Reads(p))
                /\ Object(p)' = Object(p) /\ Image(p)' = Image(p)
      /\ Binaries' = Binaries
  BY SteadyNames, SteadyImages
<1>2. LoaderFiles' = LoaderFiles
  BY SteadyContents DEF LoaderFiles
<1>3. QED BY <1>1, <1>2 DEF WellMade

(* The invariant holds in every behaviour on a machine that is well made.  *)
LEMMA InvAlways ==
  Spec => [](WellMade => ClosureInv)
<1> DEFINE Inv == WellMade => ClosureInv
<1>1. Init => Inv
  BY InitSeen
<1>2. Inv /\ [Next]_vars => Inv'
  <2> SUFFICES ASSUME Inv, [Next]_vars, WellMade' PROVE ClosureInv'
    OBVIOUS
  <2>1. UNCHANGED m
    BY DEF Next, vars, Binary, NoLibraries, Libraries, Skip, Enter, Walk, Return, Files, Judge, Wrapper, Go
  <2>2. WellMade
    BY <2>1, SteadyMade
  <2>3. QED BY <2>2, StepKeeps
<1>3. QED BY <1>1, <1>2, PTL DEF Spec

(* Whatever the objects mean: once the check as root has said yes, all that
   it follows from the pinned names, however far that leads over scripts,
   hooks, loader files and the libraries of libraries, and whatever limits
   were met on the way, is harmless along the whole path its links lead to
   (vu_closure_check, check_dylib_closure, trusted_walk). *)
THEOREM WhatIsWalkedIsHarmless ==
  Spec => [](WellMade => WalkedIsHarmless)
<1>1. (WellMade => ClosureInv) => (WellMade => WalkedIsHarmless)
  BY AcceptedIsWalked
<1>2. QED BY <1>1, InvAlways, PTL

(* And if the check, its blind spots apart, follows all that root takes, as
   NothingElseIsOverlooked says, then its yes covers all of that: what it
   does not cover is in Blind, or yet to be made (vu_closure_check). *)
THEOREM TheVerdictIsSound ==
  Spec => [](WellMade /\ ReadAsMeant => VerdictIsSound)
<1>1. (WellMade => ClosureInv) => (WellMade /\ ReadAsMeant => VerdictIsSound)
  BY AcceptedIsSound
<1>2. QED BY <1>1, InvAlways, PTL
================================================================================
