-------------------------- MODULE CapabilityProofs --------------------------
(***************************************************************************)
(* Proofs about Capability.  From the bottom: sequences, numbers and names *)
(* (Inputs); URLs, endpoints and --resolve, each of which reads back what  *)
(* was written; the scan of an argument list, pair by pair, and so what    *)
(* the helper reads of the lists the shell builds; the record, the policy  *)
(* and the command line, item by item; then the three theorems.            *)
(*                                                                         *)
(* The parsers are recursive functions and CHOOSE over sequences of any    *)
(* length: a function is named by the equations it solves (Solves, Sums,   *)
(* Counts, Scans), a solution is shown to exist by induction over its      *)
(* domain, and the definition is that solution.                            *)
(***************************************************************************)
EXTENDS Capability, WellFoundedInduction, FiniteSetTheorems, TLAPS

(* A set of numbers has a least one: their initial segments are finite sets,
   and inclusion is well-founded on those. *)
LEMMA NatMin ==
  ASSUME NEW S \in SUBSET Nat, S # {}
  PROVE \E n \in S : \A j \in S : n <= j
<1> DEFINE Below(n) == 0..n
<1> DEFINE T == {Below(n) : n \in S}
<1>1. ASSUME NEW n \in S PROVE Below(n) \in FiniteSubsetsOf(Nat)
  <2>1. n \in Int /\ 0 \in Int OBVIOUS
  <2>2. IsFiniteSet(0..n) BY <2>1, FS_Interval
  <2>3. 0..n \in SUBSET Nat OBVIOUS
  <2>4. QED BY <2>2, <2>3 DEF FiniteSubsetsOf
<1>2. T \subseteq FiniteSubsetsOf(Nat) /\ T # {}
  BY <1>1
<1>3. IsWellFoundedOn(StrictSubsetOrdering(Nat), FiniteSubsetsOf(Nat))
  BY FS_StrictSubsetOrderingWellFounded
<1>4. PICK x \in T : \A y \in T : ~(<<y, x>> \in StrictSubsetOrdering(Nat))
  <2> HIDE DEF T
  <2>1. QED BY <1>2, <1>3, WFMin
<1>5. PICK n \in S : x = Below(n)
  OBVIOUS
<1>6. ASSUME NEW j \in S, j < n PROVE FALSE
  <2>1. j \in Nat /\ n \in Nat OBVIOUS
  <2>2. Below(j) \subseteq Below(n) BY <2>1, <1>6
  <2>3. n \in Below(n) /\ n \notin Below(j) BY <2>1, <1>6
  <2>4. Below(j) \in SUBSET Nat /\ Below(n) \in SUBSET Nat BY <2>1
  <2>5. <<Below(j), Below(n)>> \in StrictSubsetOrdering(Nat)
    <3> HIDE DEF Below
    <3>1. Below(j) # Below(n) BY <2>3
    <3>2. QED BY <2>2, <2>4, <3>1 DEF StrictSubsetOrdering
  <2>6. QED BY <1>4, <1>5, <2>5
<1>7. ASSUME NEW j \in S PROVE n <= j
  <2>1. j \in Nat /\ n \in Nat OBVIOUS
  <2>2. QED BY <2>1, <1>6
<1>8. QED BY <1>7

(* Induction, said of a set.                                               *)
LEMMA NatInduct ==
  ASSUME NEW S \in SUBSET Nat, 0 \in S, \A n \in S : n + 1 \in S
  PROVE S = Nat
<1> SUFFICES ASSUME NEW x \in Nat \ S PROVE FALSE
  OBVIOUS
<1>1. PICK n \in Nat \ S : \A j \in Nat \ S : n <= j
  BY NatMin
<1>2. n # 0 /\ n - 1 \in Nat
  BY <1>1
<1>3. n - 1 \in S
  BY <1>1, <1>2
<1>4. (n - 1) + 1 \in S
  BY <1>3
<1>5. QED BY <1>1, <1>4


(* So a set of numbers up to some n has a greatest one.                    *)
LEMMA NatMax ==
  ASSUME NEW n \in Nat, NEW S \in SUBSET (0..n), S # {}
  PROVE  \E m \in S : \A j \in S : j <= m
<1> DEFINE T == {n - j : j \in S}
<1>0. \A j \in S : j \in 0..n
  OBVIOUS
<1>1. T \in SUBSET Nat /\ T # {}
  <2>1. \A j \in S : n - j \in Nat
    BY <1>0
  <2>2. QED BY <2>1
<1>2. PICK t \in T : \A j \in T : t <= j
  <2> HIDE DEF T
  <2>1. QED BY <1>1, NatMin
<1>3. PICK m \in S : t = n - m
  OBVIOUS
<1>4. ASSUME NEW j \in S PROVE j <= m
  <2>1. t <= n - j
    BY <1>2
  <2>2. j \in 0..n /\ m \in 0..n
    BY <1>0
  <2>3. QED BY <2>1, <2>2, <1>3
<1>5. QED BY <1>4

(* A recursion over 0..n has a solution, by induction on n.                *)
IsStep(step, S, n) == step \in [S \X (1..n) -> S]

Solves(f, n, S, base, step) ==
  f \in [0..n -> S] /\ f[0] = base /\ \A i \in 1..n : f[i] = step[<<f[i - 1], i>>]

(* A recursion over 0..n whose steps stay in a set has a solution.         *)
LEMMA RecursionExists ==
  ASSUME NEW n \in Nat, NEW S, NEW base \in S, NEW step, IsStep(step, S, n)
  PROVE  \E f : Solves(f, n, S, base, step)
<1>0. step \in [S \X (1..n) -> S]
  BY DEF IsStep
<1> DEFINE Partly(k, f) == f \in [0..k -> S] /\ f[0] = base /\ \A i \in 1..k : f[i] = step[<<f[i - 1], i>>]
<1> DEFINE T == {k \in Nat : k <= n => \E f : Partly(k, f)}
<1>1. 0 \in T
  <2>1. Partly(0, [i \in 0..0 |-> base])
    OBVIOUS
  <2> HIDE DEF Solves
  <2>2. QED BY <2>1
<1>2. ASSUME NEW k \in T PROVE k + 1 \in T
  <2> SUFFICES ASSUME k + 1 <= n PROVE \E f : Partly(k + 1, f)
    OBVIOUS
  <2>1. k \in Nat /\ k <= n
    OBVIOUS
  <2>2. PICK f : Partly(k, f)
    <3> HIDE DEF Solves
    <3>1. QED BY <2>1
  <2> DEFINE g == [i \in 0..k + 1 |-> IF i = k + 1 THEN step[<<f[k], k + 1>>] ELSE f[i]]
  <2>3. f[k] \in S /\ step[<<f[k], k + 1>>] \in S
    BY <1>0, <2>1, <2>2
  <2>4. g \in [0..k + 1 -> S]
    BY <2>1, <2>2, <2>3
  <2>5. g[0] = base
    BY <2>1, <2>2
  <2>6. ASSUME NEW i \in 1..k + 1 PROVE g[i] = step[<<g[i - 1], i>>]
    <3>1. CASE i = k + 1
      <4>1. g[i] = step[<<f[k], k + 1>>] /\ g[i - 1] = f[k] /\ i - 1 = k
        BY <2>1, <3>1
      <4> HIDE DEF g
      <4>2. QED BY <3>1, <4>1
    <3>2. CASE i \in 1..k
      <4>1. g[i] = f[i] /\ g[i - 1] = f[i - 1]
        BY <2>1, <3>2
      <4>2. QED BY <2>2, <3>2, <4>1
    <3>3. QED BY <2>1, <3>1, <3>2
  <2> HIDE DEF g
  <2>7. Partly(k + 1, g)
    BY <2>4, <2>5, <2>6
  <2> HIDE DEF Solves
  <2>8. QED BY <2>7
<1>3. T = Nat
  <2>1. T \in SUBSET Nat
    OBVIOUS
  <2> HIDE DEF T
  <2>2. QED BY <1>1, <1>2, <2>1, NatInduct
<1>4. n \in T
  BY <1>3
<1>5. \E f : Partly(n, f)
  <2> HIDE DEF Solves
  <2>1. QED BY <1>4
<1>6. QED BY <1>5 DEF Solves

-----------------------------------------------------------------------------
(* Texts: what is found in them and what is cut out of them.               *)

(* The beginning of a sequence: its type, its length and its elements.     *)
LEMMA UptoFacts ==
  ASSUME NEW S, NEW s \in Seq(S), NEW i \in Nat
  PROVE  /\ Upto(s, i) \in Seq(S)
         /\ Len(Upto(s, i)) = IF i < Len(s) THEN i ELSE Len(s)
         /\ \A j \in 1..Len(Upto(s, i)) : Upto(s, i)[j] = s[j]
BY DEF Upto

(* The rest of a sequence from a place on: type, length and elements.      *)
LEMMA FromFacts ==
  ASSUME NEW S, NEW s \in Seq(S), NEW i \in Nat \ {0}
  PROVE  /\ From(s, i) \in Seq(S)
         /\ Len(From(s, i)) = IF i <= Len(s) THEN Len(s) - i + 1 ELSE 0
         /\ \A j \in 1..Len(From(s, i)) : From(s, i)[j] = s[i + j - 1]
BY DEF From

(* Find is the first place of a token of a set, or 0 when there is none.   *)
LEMMA FindFacts ==
  ASSUME NEW S, NEW s \in Seq(S), NEW T
  PROVE  /\ Find(s, T) \in 0..Len(s)
         /\ Find(s, T) = 0 => \A i \in 1..Len(s) : s[i] \notin T
         /\ Find(s, T) # 0 => s[Find(s, T)] \in T /\ \A i \in 1..Len(s) : i < Find(s, T) => s[i] \notin T
<1> DEFINE I == {i \in 1..Len(s) : s[i] \in T}
<1>1. Find(s, T) = IF I # {} THEN Min(I) ELSE 0
  BY DEF Find, SelectInSeq
<1>2. CASE I = {}
  BY <1>1, <1>2
<1>3. CASE I # {}
  <2>1. PICK n \in I : \A j \in I : n <= j
    <3>1. I \in SUBSET Nat
      OBVIOUS
    <3> HIDE DEF I
    <3>2. QED BY <1>3, <3>1, NatMin
  <2>2. Min(I) \in I /\ \A j \in I : Min(I) <= j
    <3> HIDE DEF I
    <3>1. QED BY <2>1 DEF Min
  <2>3. Find(s, T) \in I /\ \A j \in I : Find(s, T) <= j
    BY <1>1, <1>3, <2>2
  <2>4. Find(s, T) \in 1..Len(s) /\ s[Find(s, T)] \in T /\ \A j \in 1..Len(s) : s[j] \in T => Find(s, T) <= j
    BY <2>3
  <2>5. QED BY <2>4
<1>4. QED BY <1>2, <1>3

(* FindLast is the last place of a token of a set, or 0.                   *)
LEMMA FindLastFacts ==
  ASSUME NEW S, NEW s \in Seq(S), NEW T
  PROVE  /\ FindLast(s, T) \in 0..Len(s)
         /\ FindLast(s, T) = 0 => \A i \in 1..Len(s) : s[i] \notin T
         /\ FindLast(s, T) # 0 => s[FindLast(s, T)] \in T /\ \A i \in 1..Len(s) : i > FindLast(s, T) => s[i] \notin T
<1> DEFINE I == {i \in 1..Len(s) : s[i] \in T}
<1>1. FindLast(s, T) = IF I # {} THEN Max(I) ELSE 0
  BY DEF FindLast, SelectLastInSeq
<1>2. CASE I = {}
  BY <1>1, <1>2
<1>3. CASE I # {}
  <2>1. PICK n \in I : \A j \in I : j <= n
    <3>1. I \in SUBSET (0..Len(s)) /\ Len(s) \in Nat
      OBVIOUS
    <3> HIDE DEF I
    <3>2. QED BY <1>3, <3>1, NatMax
  <2>2. Max(I) \in I /\ \A j \in I : j <= Max(I)
    <3>1. \A j \in I : j \in Nat
      OBVIOUS
    <3> HIDE DEF I
    <3>2. QED BY <2>1, <3>1 DEF Max
  <2>3. FindLast(s, T) \in I /\ \A j \in I : j <= FindLast(s, T)
    BY <1>1, <1>3, <2>2
  <2>4. FindLast(s, T) \in 1..Len(s) /\ s[FindLast(s, T)] \in T /\ \A j \in 1..Len(s) : s[j] \in T => j <= FindLast(s, T)
    BY <2>3
  <2>5. QED BY <2>4
<1>4. QED BY <1>2, <1>3

(* The first one is the one before which there is none.                    *)
LEMMA FindIs ==
  ASSUME NEW S, NEW s \in Seq(S), NEW T, NEW k \in 1..Len(s), s[k] \in T, \A i \in 1..k - 1 : s[i] \notin T
  PROVE  Find(s, T) = k
<1>1. Find(s, T) # 0 /\ Find(s, T) \in 1..Len(s)
  BY FindFacts
<1>2. ~ (k < Find(s, T)) /\ ~ (Find(s, T) < k)
  BY <1>1, FindFacts
<1>3. QED BY <1>1, <1>2

(* A place after which there is no such token is the last one.             *)
LEMMA FindLastIs ==
  ASSUME NEW S, NEW s \in Seq(S), NEW T, NEW k \in 1..Len(s), s[k] \in T, \A i \in k + 1..Len(s) : s[i] \notin T
  PROVE  FindLast(s, T) = k
<1>1. FindLast(s, T) # 0 /\ FindLast(s, T) \in 1..Len(s)
  BY FindLastFacts
<1>2. ~ (k < FindLast(s, T)) /\ ~ (FindLast(s, T) < k)
  BY <1>1, FindLastFacts
<1>3. QED BY <1>1, <1>2

(* Without such a token both searches find nothing.                        *)
LEMMA FindNone ==
  ASSUME NEW S, NEW s \in Seq(S), NEW T, \A i \in 1..Len(s) : s[i] \notin T
  PROVE  Find(s, T) = 0 /\ FindLast(s, T) = 0
BY FindFacts, FindLastFacts

(* Two sequences with the same elements are the same.                      *)
LEMMA SameText ==
  ASSUME NEW S, NEW s \in Seq(S), NEW R, NEW t \in Seq(R), Len(s) = Len(t), \A i \in 1..Len(s) : s[i] = t[i]
  PROVE  s = t
OBVIOUS

(* y is t after s.                                                         *)
Joins(y, s, t) == /\ Len(y) = Len(s) + Len(t)
                  /\ \A i \in 1..Len(s) : y[i] = s[i]
                  /\ \A i \in 1..Len(t) : y[Len(s) + i] = t[i]

(* A concatenation is its first part followed by its second.               *)
LEMMA Joint ==
  ASSUME NEW S, NEW s \in Seq(S), NEW t \in Seq(S)
  PROVE  s \o t \in Seq(S) /\ Joins(s \o t, s, t)
BY DEF Joins

(* The set of a sequence holds its elements and nothing else.              *)
LEMMA ToSetFacts ==
  ASSUME NEW S, NEW s \in Seq(S)
  PROVE  /\ \A x : x \in ToSet(s) <=> \E i \in 1..Len(s) : s[i] = x
         /\ ToSet(s) \subseteq S
BY DEF ToSet

(* A text is empty exactly when its length is 0.                           *)
LEMMA EmptyText ==
  ASSUME NEW S, NEW s \in Seq(S)
  PROVE  s = << >> <=> Len(s) = 0
OBVIOUS

-----------------------------------------------------------------------------
(* The alphabet.  The provers are not told that a literal is a STRING, so  *)
(* the tokens the operators write themselves are added here.               *)

Other  == {".", ":", "[", "]", "-", "=", "@", "sp", "ctl", "?", "#", "'", "--", "vpn", "VPN", "l63", "l64",
           "https://", "HTTPS://", "http://", "socks5://", "2001:db8::1", "2001:DB8::1", "sha1:", "sha256:", "pin-sha256:"}
Words  == Flags \cup Booleans \cup {"mtu", "base-mtu", "reconnect-timeout", "force-dpd", "useragent", "os", "NONE",
           "openconnect", "--cookie-on-stdin", "--non-inter", "--servercert", "--script", "wrapper", "-q"}
Token  == STRING \cup ToSet(Alphabet) \cup Other \cup Words
Tokens == Seq(Token)

(* b64_val knows no character twice.                                       *)
LEMMA AlphabetInjective ==
  \A i, j \in 1..64 : Alphabet[i] = Alphabet[j] => i = j
BY SMTT(120) DEF Alphabet

(* No base64 character is one of the other tokens.                         *)
LEMMA NoOther ==
  \A i \in 1..64 : Alphabet[i] \notin Other
BY SMTT(60) DEF Alphabet, Other

(* No base64 character is a flag.                                          *)
LEMMA NoFlag ==
  \A i \in 1..64 : Alphabet[i] \notin Flags
BY SMTT(60) DEF Alphabet, Flags

(* Only the last base64 character is a slash.                              *)
LEMMA NoSlash ==
  \A i \in 1..63 : Alphabet[i] # "/"
BY DEF Alphabet

(* The tokens that stand for long texts are no base64 characters.          *)
LEMMA LongTokens ==
  \A i \in 1..64 : Alphabet[i] # "path" /\ Alphabet[i] # "ua128"
BY DEF Alphabet

(* The values of the characters.                                           *)
LEMMA LetterFacts ==
  /\ \A v \in 0..63 : Letter(v) \in Token /\ Letter(v) \notin Other /\ Letter(v) \notin Flags
  /\ \A v \in 0..62 : Letter(v) # "/"
  /\ \A v, w \in 0..63 : Letter(v) = Letter(w) => v = w
  /\ \A v \in 0..63 : Letter(v) \in DOMAIN Sextet /\ Sextet[Letter(v)] = v
  /\ \A c \in DOMAIN Sextet : Sextet[c] \in 0..63 /\ Letter(Sextet[c]) = c
<1>0. Len(Alphabet) = 64
  BY DEF Alphabet
<1>1. \A c : c \in ToSet(Alphabet) <=> \E i \in 1..64 : Alphabet[i] = c
  BY DEF ToSet, Alphabet
<1>2. \A v \in 0..63 : v + 1 \in 1..64
  OBVIOUS
<1>3. \A v \in 0..63 : Letter(v) \in ToSet(Alphabet)
  BY <1>1, <1>2 DEF Letter
<1>4. DOMAIN Sextet = ToSet(Alphabet)
  BY DEF Sextet
<1>5. \A v, w \in 0..63 : Letter(v) = Letter(w) => v = w
  BY <1>2, AlphabetInjective DEF Letter
<1>6. ASSUME NEW v \in 0..63 PROVE Letter(v) \in DOMAIN Sextet /\ Sextet[Letter(v)] = v
  <2> DEFINE k == CHOOSE i \in 1..64 : Alphabet[i] = Letter(v)
  <2>1. k = v + 1
    <3>1. Alphabet[v + 1] = Letter(v) /\ v + 1 \in 1..64
      BY DEF Letter
    <3>2. \A i \in 1..64 : Alphabet[i] = Letter(v) => i = v + 1
      BY <3>1, AlphabetInjective
    <3>3. QED BY <3>1, <3>2
  <2>2. Sextet[Letter(v)] = k - 1
    BY <1>3 DEF Sextet
  <2> HIDE DEF k
  <2>3. QED BY <1>3, <1>4, <2>1, <2>2
<1>7. ASSUME NEW c \in DOMAIN Sextet PROVE Sextet[c] \in 0..63 /\ Letter(Sextet[c]) = c
  <2>1. PICK i \in 1..64 : Alphabet[i] = c
    BY <1>1, <1>4
  <2>2. i - 1 \in 0..63 /\ Letter(i - 1) = c
    BY <2>1 DEF Letter
  <2>3. QED BY <2>2, <1>6
<1>8. \A v \in 0..63 : Letter(v) \notin Other /\ Letter(v) \notin Flags
  BY <1>2, NoOther, NoFlag DEF Letter
<1>9. \A v \in 0..62 : Letter(v) # "/"
  BY NoSlash DEF Letter
<1>10. QED BY <1>3, <1>5, <1>6, <1>7, <1>8, <1>9 DEF Token

(* Letters chosen by their values are those characters.                    *)
LEMMA AmongFacts ==
  ASSUME NEW S \in SUBSET (0..63)
  PROVE  /\ \A v \in 0..63 : Letter(v) \in Among(S) <=> v \in S
         /\ \A c : c \in Among(S) <=> c \in DOMAIN Sextet /\ Sextet[c] \in S
<1>1. \A v, w \in 0..63 : Letter(v) = Letter(w) => v = w
  BY LetterFacts
<1>2. \A v \in 0..63 : Letter(v) \in DOMAIN Sextet /\ Sextet[Letter(v)] = v
  BY LetterFacts
<1>3. \A c \in DOMAIN Sextet : Sextet[c] \in 0..63 /\ Letter(Sextet[c]) = c
  BY LetterFacts
<1>4. \A c : c \in Among(S) <=> \E v \in S : c = Letter(v)
  BY DEF Among
<1>5. \A v \in S : v \in 0..63
  OBVIOUS
<1>6. ASSUME NEW v \in 0..63 PROVE Letter(v) \in Among(S) <=> v \in S
  BY <1>1, <1>4, <1>5, <1>6
<1>7. ASSUME NEW c, c \in Among(S) PROVE c \in DOMAIN Sextet /\ Sextet[c] \in S
  <2>1. PICK v \in S : c = Letter(v)
    BY <1>4, <1>7
  <2>2. QED BY <2>1, <1>2, <1>5
<1>8. ASSUME NEW c, c \in DOMAIN Sextet, Sextet[c] \in S PROVE c \in Among(S)
  BY <1>3, <1>4, <1>8
<1>9. QED BY <1>6, <1>7, <1>8

(* Every token is at least one byte long.                                  *)
LEMMA WidthFacts ==
  ASSUME NEW t
  PROVE  Width(t) \in Nat \ {0}
BY DEF Width

(* Lower case: of the letters and of the tokens that have one.             *)
LEMMA LowFacts ==
  ASSUME NEW c \in Token
  PROVE  /\ Low(c) \in Token /\ Low(Low(c)) = Low(c) /\ Width(Low(c)) = Width(c)
         /\ Low(c) \in Digits <=> c \in Digits
         /\ Low(c) \in Hex <=> c \in Hex
         /\ Low(c) \in LabelChars <=> c \in LabelChars
         /\ Low(c) \in V6 <=> c \in V6
         /\ c \in V6 => Low(c) = "2001:db8::1"
         /\ \A x \in Other \ {"https://", "HTTPS://", "vpn", "VPN", "2001:db8::1", "2001:DB8::1"} : Low(c) = x <=> c = x
<1>1. \A x \in Other : x \notin DOMAIN Sextet /\ x \notin Among(0..25) /\ x \notin Among(26..31) /\ x \notin Among(0..5)
                        /\ x \notin Among(52..61) /\ x \notin Among(0..61)
  BY LetterFacts, AmongFacts
<1>2. \A w \in 0..63 : Width(Letter(w)) = 1
  <2>1. SUFFICES ASSUME NEW w \in 0..63 PROVE Width(Letter(w)) = 1
    OBVIOUS
  <2>2. Letter(w) \notin Other
    BY LetterFacts
  <2>3. Letter(w) # "path" /\ Letter(w) # "ua128"
    BY LongTokens DEF Letter
  <2>4. QED BY <2>2, <2>3 DEF Width, Other
<1>3. CASE c \in Among(0..25)
  <2>1. PICK v \in 0..25 : c = Letter(v)
    BY <1>3 DEF Among
  <2>2. Sextet[c] = v
    BY <2>1, LetterFacts
  <2>3. Low(c) = Letter(v + 26)
    <3>1. Low(c) = Letter(Sextet[c] + 26)
      BY <1>1, <1>3 DEF Low, Other
    <3>2. Sextet[c] + 26 = v + 26
      BY <2>2
    <3>3. QED BY <3>1, <3>2
  <2>4. v + 26 \in 0..63 /\ v + 26 \in 26..51
    OBVIOUS
  <2>5. Letter(v + 26) \notin Among(0..25) /\ Letter(v + 26) \notin Other
    BY <2>4, LetterFacts, AmongFacts
  <2>6. Low(Letter(v + 26)) = Letter(v + 26)
    BY <2>5 DEF Low, Other
  <2>7. Letter(v + 26) \in Token /\ Width(Letter(v + 26)) = 1 /\ Width(c) = 1
    BY <1>2, <2>1, <2>4, LetterFacts
  <2>8. Letter(v + 26) \notin Digits /\ c \notin Digits
    BY <2>1, <2>4, AmongFacts DEF Digits
  <2>9. Letter(v + 26) \in Hex <=> c \in Hex
    BY <2>1, <2>4, AmongFacts DEF Hex, LowerHex, Digits
  <2>10. Letter(v + 26) \in LabelChars /\ c \in LabelChars
    BY <2>1, <2>4, AmongFacts DEF LabelChars
  <2>11. c \notin Other
    BY <2>1, LetterFacts
  <2>12. Letter(v + 26) \notin V6 /\ c \notin V6
    BY <2>5, <2>11 DEF V6, Other
  <2>13. QED BY <2>3, <2>5, <2>6, <2>7, <2>8, <2>9, <2>10, <2>11, <2>12
<1>4. CASE c \in {"HTTPS://", "VPN", "2001:DB8::1"}
  <2>1. c \in Other /\ Low(c) \in Other
    BY <1>1, <1>4 DEF Low, Other
  <2>2. c \notin Among(0..25) /\ Low(c) \notin Among(0..25)
    BY <1>1, <2>1
  <2>3. Low(c) = IF c = "HTTPS://" THEN "https://" ELSE IF c = "VPN" THEN "vpn" ELSE "2001:db8::1"
    BY <1>4, <2>2 DEF Low
  <2>4. Low(Low(c)) = Low(c)
    BY <2>2, <2>3 DEF Low
  <2>5. Low(c) \in Token /\ Width(Low(c)) = Width(c)
    BY <2>1, <2>3, <1>4 DEF Width, Token
  <2>6. c \notin Digits /\ Low(c) \notin Digits /\ c \notin Hex /\ Low(c) \notin Hex
    BY <1>1, <2>1 DEF Digits, Hex, LowerHex
  <2>7. c \in LabelChars <=> Low(c) \in LabelChars
    <3>1. c \notin Among(0..61) /\ Low(c) \notin Among(0..61)
      BY <1>1, <2>1
    <3>2. QED BY <3>1, <2>3, <1>4 DEF LabelChars
  <2>8. QED BY <2>3, <2>4, <2>5, <2>6, <2>7, <1>4 DEF V6, Other
<1>5. CASE c \notin Among(0..25) /\ c \notin {"HTTPS://", "VPN", "2001:DB8::1"}
  <2>1. Low(c) = c
    BY <1>5 DEF Low
  <2>2. c \in V6 => c = "2001:db8::1"
    BY <1>5 DEF V6
  <2>3. QED BY <2>1, <2>2
<1>6. QED BY <1>3, <1>4, <1>5

(* Two recursions that agree at the start and step by step agree.          *)
LEMMA StepByStep ==
  ASSUME NEW n \in Nat, NEW f, NEW g, f[0] = g[0], \A i \in 1..n : f[i - 1] = g[i - 1] => f[i] = g[i]
  PROVE  \A i \in 0..n : f[i] = g[i]
<1> DEFINE T == {k \in Nat : k <= n => f[k] = g[k]}
<1>1. 0 \in T
  OBVIOUS
<1>2. ASSUME NEW k \in T PROVE k + 1 \in T
  <2> SUFFICES ASSUME k + 1 <= n PROVE f[k + 1] = g[k + 1]
    OBVIOUS
  <2>1. k \in Nat /\ k + 1 \in 1..n /\ (k + 1) - 1 = k /\ f[k] = g[k]
    OBVIOUS
  <2>2. QED BY <2>1
<1>3. T = Nat
  <2>1. T \in SUBSET Nat
    OBVIOUS
  <2> HIDE DEF T
  <2>2. QED BY <1>1, <1>2, <2>1, NatInduct
<1>4. QED BY <1>3

(* The sizes of the beginnings of a text.                                  *)
Sums(text, f) == /\ f \in [0..Len(text) -> Nat]
                 /\ f[0] = 0
                 /\ \A i \in 1..Len(text) : f[i] = f[i - 1] + Width(text[i])

(* The sizes of the beginnings of a text exist.                            *)
LEMMA SumsExist ==
  ASSUME NEW text \in Tokens
  PROVE  \E f : Sums(text, f)
<1> DEFINE n    == Len(text)
           step == [p \in Nat \X (1..n) |-> p[1] + Width(text[p[2]])]
<1>1. n \in Nat
  BY DEF Tokens
<1>2. IsStep(step, Nat, n)
  BY WidthFacts DEF IsStep
<1>3. PICK f : Solves(f, n, Nat, 0, step)
  <2> HIDE DEF n, step
  <2>1. QED BY <1>1, <1>2, RecursionExists
<1>4. ASSUME NEW i \in 1..n PROVE f[i] = f[i - 1] + Width(text[i])
  <2>1. f[i - 1] \in Nat
    BY <1>1, <1>3 DEF Solves
  <2>2. QED BY <1>3, <2>1 DEF Solves
<1>5. QED BY <1>3, <1>4 DEF Sums, Solves

(* The size of a text is the last of them.                                 *)
LEMMA SizeIs ==
  ASSUME NEW text \in Tokens, NEW f, Sums(text, f)
  PROVE  Size(text) = f[Len(text)]
<1> DEFINE Is(g) == g = [i \in 0..Len(text) |-> IF i = 0 THEN 0 ELSE g[i - 1] + Width(text[i])]
<1> DEFINE sum == CHOOSE g : Is(g)
<1>0. Len(text) \in Nat
  BY DEF Tokens
<1>1. Size(text) = sum[Len(text)]
  BY DEF Size, Once, Total
<1>2. Is(f)
  BY <1>0 DEF Sums
<1>3. Is(sum)
  <2> HIDE DEF Is
  <2>1. QED BY <1>2
<1>4. \A i \in 0..Len(text) : sum[i] = f[i]
  <2> HIDE DEF sum
  <2>1. sum[0] = 0 /\ \A i \in 1..Len(text) : sum[i] = sum[i - 1] + Width(text[i])
    BY <1>0, <1>3
  <2>2. sum[0] = f[0] /\ \A i \in 1..Len(text) : sum[i - 1] = f[i - 1] => sum[i] = f[i]
    BY <2>1 DEF Sums
  <2>3. QED BY <1>0, <2>2, StepByStep
<1>5. QED BY <1>0, <1>1, <1>4

(* A size is a number, and that of the empty text is 0.                    *)
LEMMA SizeFacts ==
  ASSUME NEW text \in Tokens
  PROVE  Size(text) \in Nat /\ (Len(text) = 0 => Size(text) = 0)
<1>1. PICK f : Sums(text, f)
  BY SumsExist
<1>2. Size(text) = f[Len(text)] /\ Len(text) \in 0..Len(text) /\ f \in [0..Len(text) -> Nat]
  BY <1>1, SizeIs DEF Sums, Tokens
<1>3. f[0] = 0
  BY <1>1 DEF Sums
<1>4. QED BY <1>2, <1>3

(* A text of one token has the size of the token.                          *)
LEMMA SizeOne ==
  ASSUME NEW text \in Tokens, Len(text) = 1
  PROVE  Size(text) = Width(text[1])
<1> DEFINE f == [i \in 0..1 |-> IF i = 0 THEN 0 ELSE Width(text[1])]
<1>1. f \in [0..1 -> Nat] /\ f[0] = 0 /\ f[1] = f[0] + Width(text[1])
  BY WidthFacts
<1>2. f[1] = Width(text[1])
  OBVIOUS
<1> HIDE DEF f
<1>3. Sums(text, f)
  <2>1. \A i \in 1..1 : i = 1 /\ i - 1 = 0
    OBVIOUS
  <2>2. QED BY <1>1, <2>1 DEF Sums
<1>4. QED BY <1>2, <1>3, SizeIs

(* The size of a whole is the sum of the sizes of its parts.               *)
LEMMA SizeJoint ==
  ASSUME NEW s \in Tokens, NEW t \in Tokens
  PROVE  s \o t \in Tokens /\ Size(s \o t) = Size(s) + Size(t)
<1>1. s \o t \in Tokens /\ Len(s) \in Nat /\ Len(t) \in Nat /\ Len(s \o t) = Len(s) + Len(t)
  BY DEF Tokens
<1>2. PICK f : Sums(s, f)
  BY SumsExist
<1>3. PICK g : Sums(t, g)
  BY SumsExist
<1> DEFINE n == Len(s)
           m == Len(t)
           h == [i \in 0..(n + m) |-> IF i <= n THEN f[i] ELSE f[n] + g[i - n]]
<1>4. f \in [0..n -> Nat] /\ g \in [0..m -> Nat] /\ f[0] = 0 /\ g[0] = 0
  BY <1>2, <1>3 DEF Sums
<1>5. \A i \in 0..n : f[i] \in Nat
  BY <1>1, <1>4
<1>6. \A i \in 0..m : g[i] \in Nat
  BY <1>1, <1>4
<1>7. \A i \in 0..n : h[i] = f[i]
  BY <1>1
<1>8. ASSUME NEW i \in 0..m PROVE h[n + i] = f[n] + g[i]
  <2>1. CASE i = 0
    BY <1>1, <1>4, <1>5, <2>1
  <2>2. CASE i # 0
    <3>1. n + i \in 0..(n + m) /\ ~ (n + i <= n) /\ (n + i) - n = i
      BY <1>1, <2>2
    <3>2. QED BY <3>1
  <2>3. QED BY <2>1, <2>2
<1>9. ASSUME NEW i \in 0..(n + m) PROVE h[i] \in Nat
  <2>1. CASE i <= n
    BY <1>1, <1>5, <2>1
  <2>2. CASE ~ (i <= n)
    <3>1. i - n \in 0..m /\ n \in 0..n
      BY <1>1, <2>2
    <3>2. f[n] \in Nat /\ g[i - n] \in Nat
      BY <3>1, <1>5, <1>6
    <3>3. QED BY <2>2, <3>2
  <2>3. QED BY <2>1, <2>2
<1>10. h \in [0..(n + m) -> Nat]
  BY <1>9
<1> HIDE DEF h
<1>11. ASSUME NEW i \in 1..(n + m) PROVE h[i] = h[i - 1] + Width((s \o t)[i])
  <2>1. CASE i <= n
    <3>1. i \in 1..n /\ i - 1 \in 0..n /\ i \in 0..n /\ (s \o t)[i] = s[i]
      BY <1>1, <2>1 DEF Tokens
    <3>2. f[i] = f[i - 1] + Width(s[i])
      BY <1>2, <3>1 DEF Sums
    <3>3. QED BY <1>7, <3>1, <3>2
  <2>2. CASE ~ (i <= n)
    <3> DEFINE j == i - n
    <3>1. j \in 1..m /\ j - 1 \in 0..m /\ j \in 0..m /\ i = n + j /\ i - 1 = n + (j - 1) /\ (s \o t)[i] = t[j]
      BY <1>1, <2>2 DEF Tokens
    <3> HIDE DEF j
    <3>2. g[j] = g[j - 1] + Width(t[j])
      BY <1>3, <3>1 DEF Sums
    <3>3. h[i] = f[n] + g[j] /\ h[i - 1] = f[n] + g[j - 1]
      BY <1>8, <3>1
    <3>4. f[n] \in Nat /\ g[j] \in Nat /\ g[j - 1] \in Nat /\ Width(t[j]) \in Nat
      <4>1. Width(t[j]) \in Nat
        BY WidthFacts
      <4>2. n \in 0..n
        BY <1>1
      <4>3. QED BY <1>5, <1>6, <3>1, <4>1, <4>2
    <3>5. QED BY <3>1, <3>2, <3>3, <3>4
  <2>3. QED BY <2>1, <2>2
<1>12. Sums(s \o t, h)
  <2>1. h[0] = 0
    BY <1>1, <1>4, <1>7
  <2>2. QED BY <1>1, <1>10, <1>11, <2>1 DEF Sums
<1>13. Size(s \o t) = h[n + m] /\ Size(s) = f[n] /\ Size(t) = g[m]
  BY <1>1, <1>2, <1>3, <1>12, SizeIs
<1>14. h[n + m] = f[n] + g[m]
  <2>1. m \in 0..m
    BY <1>1
  <2>2. QED BY <1>8, <2>1
<1>15. QED BY <1>1, <1>13, <1>14

(* A text in lower case is as long, and in lower case.                     *)
LEMMA LoweredFacts ==
  ASSUME NEW text \in Tokens
  PROVE  /\ Lowered(text) \in Tokens /\ Len(Lowered(text)) = Len(text)
         /\ \A i \in 1..Len(text) : Lowered(text)[i] = Low(text[i]) /\ text[i] \in Token
         /\ Lowered(Lowered(text)) = Lowered(text)
         /\ Size(Lowered(text)) = Size(text)
<1>1. DOMAIN text = 1..Len(text) /\ Len(text) \in Nat /\ \A i \in 1..Len(text) : text[i] \in Token
  BY DEF Tokens
<1>2. \A i \in 1..Len(text) : Low(text[i]) \in Token
  BY <1>1, LowFacts
<1>3. Lowered(text) \in Tokens /\ Len(Lowered(text)) = Len(text)
  BY <1>1, <1>2 DEF Lowered, Tokens
<1>4. \A i \in 1..Len(text) : Lowered(text)[i] = Low(text[i])
  BY <1>1 DEF Lowered
<1>5. DOMAIN Lowered(text) = 1..Len(text)
  BY <1>1 DEF Lowered
<1>6. Lowered(Lowered(text)) = Lowered(text)
  <2>1. \A i \in 1..Len(text) : Low(Lowered(text)[i]) = Lowered(text)[i]
    BY <1>1, <1>4, LowFacts
  <2>2. Lowered(Lowered(text)) = [i \in 1..Len(text) |-> Low(Lowered(text)[i])]
    BY <1>5 DEF Lowered
  <2>3. Lowered(text) = [i \in 1..Len(text) |-> Lowered(text)[i]]
    BY <1>1 DEF Lowered
  <2>4. QED BY <2>1, <2>2, <2>3
<1>7. Size(Lowered(text)) = Size(text)
  <2>1. PICK f : Sums(text, f)
    BY SumsExist
  <2>2. \A i \in 1..Len(text) : Width(Lowered(text)[i]) = Width(text[i])
    BY <1>1, <1>4, LowFacts
  <2>3. Sums(Lowered(text), f)
    BY <1>3, <2>1, <2>2 DEF Sums
  <2>4. QED BY <1>3, <2>1, <2>3, SizeIs
<1>8. QED BY <1>1, <1>3, <1>4, <1>6, <1>7

(* A text of single characters has the size of its length.                 *)
LEMMA SizeOfCharacters ==
  ASSUME NEW text \in Tokens, \A i \in 1..Len(text) : Width(text[i]) = 1
  PROVE  Size(text) = Len(text)
<1> DEFINE f == [i \in 0..Len(text) |-> i]
<1>1. Len(text) \in Nat
  BY DEF Tokens
<1>2. f \in [0..Len(text) -> Nat] /\ f[0] = 0 /\ \A i \in 1..Len(text) : f[i] = f[i - 1] + Width(text[i])
  BY <1>1
<1>3. f[Len(text)] = Len(text)
  BY <1>1
<1> HIDE DEF f
<1>4. Sums(text, f)
  BY <1>2 DEF Sums
<1>5. QED BY <1>3, <1>4, SizeIs

(* The values of the beginnings of a number.                               *)
Counts(text, f) == /\ DOMAIN f = 0..Len(text)
                   /\ f[0] = 0
                   /\ f = [i \in 0..Len(text) |-> f[i]]
                   /\ \A i \in 1..Len(text) : f[i] = Counted(f[i - 1], text[i])

(* The value of a number is the last of the values of its beginnings.      *)
LEMMA NumberIs ==
  ASSUME NEW text \in Tokens, NEW f, Counts(text, f)
  PROVE  Number(text) = f[Len(text)]
<1> DEFINE Is(g) == g = [i \in 0..Len(text) |-> IF i = 0 THEN 0 ELSE Counted(g[i - 1], text[i])]
<1> DEFINE n == CHOOSE g : Is(g)
<1>0. Len(text) \in Nat
  BY DEF Tokens
<1>1. Number(text) = n[Len(text)]
  BY DEF Number, Once, Value10
<1>2. Is(f)
  BY <1>0 DEF Counts
<1>3. Is(n)
  <2> HIDE DEF Is
  <2>1. QED BY <1>2
<1>4. \A i \in 0..Len(text) : n[i] = f[i]
  <2> HIDE DEF n
  <2>1. n[0] = 0 /\ \A i \in 1..Len(text) : n[i] = Counted(n[i - 1], text[i])
    BY <1>0, <1>3
  <2>2. n[0] = f[0]
    BY <2>1 DEF Counts
  <2>3. \A i \in 1..Len(text) : n[i - 1] = f[i - 1] => n[i] = f[i]
    BY <2>1 DEF Counts
  <2>4. QED BY <1>0, <2>2, <2>3, StepByStep
<1>5. QED BY <1>0, <1>1, <1>4

(* Dividing by the next power of ten is dividing by ten once more.         *)
LEMMA DivTens ==
  ASSUME NEW n \in Nat, NEW j \in 1..4
  PROVE  n \div Tens[j + 1] = (n \div Tens[j]) \div 10
<1>1. n \div 10 = (n \div 1) \div 10 /\ n \div 100 = (n \div 10) \div 10
  OBVIOUS
<1>2. n \div 1000 = (n \div 100) \div 10 /\ n \div 10000 = (n \div 1000) \div 10
  OBVIOUS
<1>3. CASE j = 1
  BY <1>1, <1>3 DEF Tens
<1>4. CASE j = 2
  BY <1>1, <1>4 DEF Tens
<1>5. CASE j = 3
  BY <1>2, <1>5 DEF Tens
<1>6. CASE j = 4
  BY <1>2, <1>6 DEF Tens
<1>7. QED BY <1>3, <1>4, <1>5, <1>6

(* A number divided by a power of ten is a number.                         *)
LEMMA DivTensType ==
  ASSUME NEW n \in Nat, NEW j \in 1..5
  PROVE  n \div Tens[j] \in Nat /\ Tens[j] \in Nat \ {0}
<1>1. n \div 1 \in Nat /\ n \div 10 \in Nat /\ n \div 100 \in Nat /\ n \div 1000 \in Nat /\ n \div 10000 \in Nat
  OBVIOUS
<1>2. QED BY <1>1 DEF Tens

(* What is written of a number reads back as the number.                   *)
LEMMA DecimalFacts ==
  ASSUME NEW n \in Nat, n < 10 * Tens[5]
  PROVE  /\ Decimal(n) \in Tokens /\ Len(Decimal(n)) \in 1..5
         /\ \A i \in 1..Len(Decimal(n)) : Decimal(n)[i] \in Digits
         /\ Decimal(n)[1] = "0" => Len(Decimal(n)) = 1
         /\ Number(Decimal(n)) = n
<1> DEFINE Has(j) == n < 10 * Tens[j] /\ (j = 1 \/ n >= Tens[j])
<1> DEFINE k == CHOOSE j \in 1..5 : Has(j)
<1>1. \E j \in 1..5 : Has(j)
  <2>1. Has(1) \/ Has(2) \/ Has(3) \/ Has(4) \/ Has(5)
    <3>1. Tens[1] = 1 /\ Tens[2] = 10 /\ Tens[3] = 100 /\ Tens[4] = 1000 /\ Tens[5] = 10000
      BY DEF Tens
    <3>2. QED BY <3>1
  <2> HIDE DEF Has
  <2>2. QED BY <2>1
<1>2. k \in 1..5 /\ Has(k)
  <2> HIDE DEF Has
  <2>1. QED BY <1>1
<1> DEFINE d == Decimal(n)
           Val(i) == n \div Tens[k - i + 1]
<1>3. d = [i \in 1..k |-> Letter(52 + (Val(i) % 10))]
  BY DEF Decimal
<1> HIDE DEF k, d
<1>4. \A i \in 1..k : k - i + 1 \in 1..5
  BY <1>2
<1>5. \A i \in 1..k : Val(i) \in Nat
  BY <1>4, DivTensType
<1>6. \A i \in 2..k : Val(i - 1) = Val(i) \div 10
  <2>1. SUFFICES ASSUME NEW i \in 2..k PROVE Val(i - 1) = Val(i) \div 10
    OBVIOUS
  <2>2. k - i + 1 \in 1..4 /\ k - (i - 1) + 1 = (k - i + 1) + 1
    BY <1>2
  <2>3. QED BY <2>2, DivTens
<1>7. Val(1) \in 0..9 /\ (k # 1 => Val(1) # 0)
  <2>1. CASE k = 1
    BY <1>2, <2>1 DEF Tens
  <2>2. CASE k = 2
    BY <1>2, <2>2 DEF Tens
  <2>3. CASE k = 3
    BY <1>2, <2>3 DEF Tens
  <2>4. CASE k = 4
    BY <1>2, <2>4 DEF Tens
  <2>5. CASE k = 5
    BY <1>2, <2>5 DEF Tens
  <2>6. QED BY <1>2, <2>1, <2>2, <2>3, <2>4, <2>5
<1>8. Val(k) = n
  BY <1>2 DEF Tens
<1> HIDE DEF Val
<1> DEFINE dg(i) == Val(i) % 10
<1>9. \A i \in 1..k : dg(i) \in 0..9 /\ Val(i) = 10 * (Val(i) \div 10) + dg(i)
  BY <1>5
<1>10. Len(d) = k /\ d \in Tokens
  <2>1. \A i \in 1..k : Letter(52 + (Val(i) % 10)) \in Token
    <3>1. \A i \in 1..k : 52 + (Val(i) % 10) \in 0..63
      BY <1>9
    <3>2. QED BY <3>1, LetterFacts
  <2>2. QED BY <1>2, <1>3, <2>1 DEF Tokens
<1>11. \A i \in 1..k : d[i] = Letter(52 + dg(i)) /\ 52 + dg(i) \in 52..61 /\ 52 + dg(i) \in 0..63
  <2>1. \A i \in 1..k : d[i] = Letter(52 + dg(i))
    BY <1>3
  <2> HIDE DEF dg
  <2>2. QED BY <1>9, <2>1
<1> HIDE DEF dg
<1>12. \A i \in 1..k : d[i] \in Digits /\ Sextet[d[i]] - 52 = dg(i)
  <2>1. \A i \in 1..k : d[i] \in Digits
    BY <1>11, AmongFacts DEF Digits
  <2>2. \A i \in 1..k : Sextet[d[i]] = 52 + dg(i)
    BY <1>11, LetterFacts
  <2>3. QED BY <1>9, <2>1, <2>2
<1>13. d[1] = "0" => k = 1
  <2> SUFFICES ASSUME d[1] = "0", k # 1 PROVE FALSE
    OBVIOUS
  <2>1. Letter(52) = "0"
    BY DEF Letter, Alphabet
  <2>2. 1 \in 1..k
    BY <1>2
  <2>3. dg(1) = 0
    <3>1. Letter(52 + dg(1)) = Letter(52) /\ 52 + dg(1) \in 0..63 /\ 52 \in 0..63
      BY <1>11, <2>1, <2>2
    <3>2. 52 + dg(1) = 52
      BY <3>1, LetterFacts
    <3>3. dg(1) \in 0..9
      BY <1>9, <2>2
    <3>4. QED BY <3>2, <3>3
  <2>4. dg(1) = Val(1) % 10
    BY DEF dg
  <2>5. QED BY <1>7, <2>3, <2>4
<1> DEFINE f == [i \in 0..k |-> IF i = 0 THEN 0 ELSE Val(i)]
<1>14. ASSUME NEW i \in 1..k PROVE f[i] = Counted(f[i - 1], d[i])
  <2>1. f[i] = Val(i) /\ Val(i) \in Nat /\ dg(i) \in 0..9
    BY <1>5, <1>9
  <2>2. f[i - 1] = Val(i) \div 10
    <3>1. CASE i = 1
      BY <1>2, <1>7, <3>1
    <3>2. CASE i \in 2..k
      BY <1>2, <1>6, <3>2
    <3>3. QED BY <3>1, <3>2
  <2>3. Val(i) <= 100000
    <3>1. Tens[k - i + 1] \in {1, 10, 100, 1000, 10000} /\ 10 * Tens[5] = 100000
      BY <1>4 DEF Tens
    <3>2. QED BY <3>1 DEF Val
  <2>4. Counted(f[i - 1], d[i]) = 10 * f[i - 1] + dg(i)
    <3>1. ~ (f[i - 1] > 100000) /\ f[i - 1] \in Nat
      BY <2>1, <2>2, <2>3
    <3>2. Counted(f[i - 1], d[i]) = 10 * f[i - 1] + Sextet[d[i]] - 52
      BY <3>1 DEF Counted
    <3>3. Sextet[d[i]] = 52 + dg(i)
      BY <1>11, LetterFacts
    <3>4. QED BY <2>1, <3>1, <3>2, <3>3
  <2>5. QED BY <1>9, <2>1, <2>2, <2>4
<1>15. Number(d) = f[k]
  <2>1. DOMAIN f = 0..k /\ f[0] = 0 /\ f = [i \in 0..k |-> f[i]]
    BY <1>2
  <2> HIDE DEF f
  <2>2. Counts(d, f)
    BY <1>10, <1>14, <2>1 DEF Counts
  <2>3. QED BY <1>10, <2>2, NumberIs
<1>16. f[k] = n
  BY <1>2, <1>8
<1>17. QED BY <1>2, <1>10, <1>12, <1>13, <1>15, <1>16 DEF d

(* vu_parse_bounded reads a number in decimal back as itself.              *)
LEMMA ReadBackNumber ==
  ASSUME NEW lo \in Nat, NEW hi \in Nat, hi < 10 * Tens[5], NEW n \in lo..hi
  PROVE  ParseBounded(Decimal(n), lo, hi) = n
<1>1. n \in Nat /\ n < 10 * Tens[5]
  <2>1. 10 * Tens[5] \in Nat
    BY DEF Tens
  <2>2. QED BY <2>1
<1> DEFINE d == Decimal(n)
<1>2. d \in Tokens /\ Len(d) \in 1..5 /\ (\A i \in 1..Len(d) : d[i] \in Digits) /\ (d[1] = "0" => Len(d) = 1) /\ Number(d) = n
  BY <1>1, DecimalFacts
<1> HIDE DEF d
<1>3. d # << >>
  BY <1>2
<1>4. \A x \in ToSet(d) : \E i \in 1..Len(d) : d[i] = x
  BY <1>2, ToSetFacts DEF Tokens
<1>5. ToSet(d) \subseteq Digits
  BY <1>2, <1>4
<1>6. ParseBounded(d, lo, hi) = n
  BY <1>2, <1>3, <1>5 DEF ParseBounded
<1>7. QED BY <1>6 DEF d

-----------------------------------------------------------------------------
(* Labels and hosts.                                                       *)

(* The dots of a name are the places that hold a dot.                      *)
LEMMA DotsFacts ==
  ASSUME NEW name \in Tokens
  PROVE  /\ Dots(name) \in SUBSET (1..Len(name))
         /\ \A i \in 1..Len(name) : i \in Dots(name) <=> name[i] = "."
         /\ Len(name) \in Nat
BY DEF Dots, Tokens

Ends(name) == {0, Len(name) + 1} \cup Dots(name)

Between(name, a, b) == a \in Ends(name) /\ b \in Ends(name) /\ a < b /\ \A k \in Dots(name) : k <= a \/ b <= k

Cut(name, a, b) == SubSeq(name, a + 1, b - 1)

(* The labels of a name are what stands between neighbouring dots.         *)
LEMMA LabelsDef ==
  ASSUME NEW name
  PROVE  /\ \A a, b : Between(name, a, b) => Cut(name, a, b) \in Labels(name)
         /\ \A l \in Labels(name) : \E a, b : Between(name, a, b) /\ l = Cut(name, a, b)
<1>1. Labels(name) = {Cut(name, p[1], p[2]) :
        p \in {q \in Ends(name) \X Ends(name) : q[1] < q[2] /\ \A k \in Dots(name) : k <= q[1] \/ q[2] <= k}}
  BY DEF Labels, Ends, Cut
<1>2. ASSUME NEW a, NEW b, Between(name, a, b) PROVE Cut(name, a, b) \in Labels(name)
  <2> DEFINE p == <<a, b>>
  <2>1. p \in Ends(name) \X Ends(name) /\ p[1] = a /\ p[2] = b
    BY <1>2 DEF Between
  <2>2. QED BY <1>1, <1>2, <2>1 DEF Between
<1>3. ASSUME NEW l \in Labels(name) PROVE \E a, b : Between(name, a, b) /\ l = Cut(name, a, b)
  <2>1. PICK p \in Ends(name) \X Ends(name) :
               p[1] < p[2] /\ (\A k \in Dots(name) : k <= p[1] \/ p[2] <= k) /\ l = Cut(name, p[1], p[2])
    BY <1>1
  <2>2. Between(name, p[1], p[2])
    BY <2>1 DEF Between
  <2>3. QED BY <2>1, <2>2
<1>4. QED BY <1>2, <1>3

(* A label is a part of the name, token by token.                          *)
LEMMA LabelFacts ==
  ASSUME NEW name \in Tokens, NEW a, NEW b, Between(name, a, b)
  PROVE  /\ Cut(name, a, b) \in Labels(name) /\ Cut(name, a, b) \in Tokens
         /\ a \in 0..Len(name) /\ b \in 1..Len(name) + 1 /\ a < b
         /\ Len(Cut(name, a, b)) = b - a - 1
         /\ \A i \in 1..Len(Cut(name, a, b)) : Cut(name, a, b)[i] = name[a + i]
<1>1. a \in 0..Len(name) /\ b \in 1..Len(name) + 1 /\ a < b
  BY DotsFacts DEF Between, Ends
<1>2. Cut(name, a, b) \in Labels(name)
  BY LabelsDef
<1>3. QED BY <1>1, <1>2 DEF Tokens, Cut

(* Every token that is not a dot is in a label; around a dot at an end the *)
(* label is empty.                                                         *)
Holds(l, name, i) == /\ l \in Labels(name) /\ l \in Tokens
                     /\ \E j \in 1..Len(l) : l[j] = name[i] /\ (i = 1 => j = 1) /\ (i = Len(name) => j = Len(l))

(* Every token that is not a dot is in some label.                         *)
LEMMA LabelAt ==
  ASSUME NEW name \in Tokens, NEW i \in 1..Len(name), name[i] # "."
  PROVE  \E l : Holds(l, name, i)
<1>1. /\ Dots(name) \in SUBSET (1..Len(name)) /\ Len(name) \in Nat
      /\ \A j \in 1..Len(name) : j \in Dots(name) <=> name[j] = "."
  BY DotsFacts
<1> DEFINE L == {j \in {0} \cup Dots(name) : j < i}
           R == {j \in {Len(name) + 1} \cup Dots(name) : i < j}
<1>2. PICK a \in L : \A j \in L : j <= a
  <2>1. L \in SUBSET (0..Len(name)) /\ L # {} /\ Len(name) \in Nat
    BY <1>1
  <2> HIDE DEF L
  <2>2. QED BY <2>1, NatMax
<1>3. PICK b \in R : \A j \in R : b <= j
  <2>1. R \in SUBSET Nat /\ R # {}
    BY <1>1
  <2> HIDE DEF R
  <2>2. QED BY <2>1, NatMin
<1>4. a \in Ends(name) /\ b \in Ends(name) /\ a < i /\ i < b /\ a \in Nat /\ b \in Nat
  BY <1>1, <1>2, <1>3 DEF Ends
<1>5. ASSUME NEW k \in Dots(name) PROVE k <= a \/ b <= k
  <2>1. k \in 1..Len(name) /\ k # i
    BY <1>1
  <2>2. k < i => k \in L
    OBVIOUS
  <2>3. i < k => k \in R
    OBVIOUS
  <2> HIDE DEF L, R
  <2>4. QED BY <1>1, <1>2, <1>3, <2>1, <2>2, <2>3
<1>6. Between(name, a, b)
  BY <1>4, <1>5 DEF Between
<1>7. i = 1 => a = 0
  BY <1>4
<1>8. i = Len(name) => b = Len(name) + 1
  BY <1>1, <1>3, <1>4
<1> HIDE DEF L, R
<1> DEFINE l == Cut(name, a, b)
<1>9. /\ l \in Labels(name) /\ l \in Tokens /\ Len(l) = b - a - 1
      /\ \A j \in 1..Len(l) : l[j] = name[a + j]
  BY <1>6, LabelFacts
<1> HIDE DEF l
<1>10. PICK j \in 1..Len(l) : j = i - a
  BY <1>1, <1>4, <1>9
<1>11. a + j = i /\ l[j] = name[a + j]
  BY <1>1, <1>4, <1>9, <1>10
<1>12. (i = 1 => j = 1) /\ (i = Len(name) => j = Len(l))
  BY <1>1, <1>4, <1>7, <1>8, <1>9, <1>10
<1>13. Holds(l, name, i)
  BY <1>9, <1>11, <1>12 DEF Holds
<1>14. QED BY <1>13

(* A dot at either end leaves an empty label.                              *)
LEMMA EmptyLabel ==
  ASSUME NEW name \in Tokens, name # << >>, name[1] = "." \/ name[Len(name)] = "."
  PROVE  << >> \in Labels(name)
<1>1. /\ Dots(name) \in SUBSET (1..Len(name)) /\ Len(name) \in Nat \ {0}
      /\ \A j \in 1..Len(name) : j \in Dots(name) <=> name[j] = "."
  BY DotsFacts, EmptyText DEF Tokens
<1>2. CASE name[1] = "."
  <2>1. Between(name, 0, 1)
    BY <1>1, <1>2 DEF Between, Ends
  <2>2. Cut(name, 0, 1) \in Labels(name) /\ Cut(name, 0, 1) \in Tokens /\ Len(Cut(name, 0, 1)) = 1 - 0 - 1
    BY <2>1, LabelFacts
  <2>3. QED BY <2>2, EmptyText DEF Tokens
<1>3. CASE name[Len(name)] = "."
  <2>1. Between(name, Len(name), Len(name) + 1)
    BY <1>1, <1>3 DEF Between, Ends
  <2> DEFINE l == Cut(name, Len(name), Len(name) + 1)
  <2>2. l \in Labels(name) /\ l \in Tokens /\ Len(l) = (Len(name) + 1) - Len(name) - 1
    BY <2>1, LabelFacts
  <2> HIDE DEF l
  <2>3. QED BY <1>1, <2>2, EmptyText DEF Tokens
<1>4. QED BY <1>2, <1>3

(* What the tokens of a name are when all its labels are of some kind.     *)
LEMMA TokensOfLabels ==
  ASSUME NEW name \in Tokens, NEW S, \A l \in Labels(name) : ToSet(l) \subseteq S
  PROVE  \A i \in 1..Len(name) : name[i] = "." \/ name[i] \in S
<1> SUFFICES ASSUME NEW i \in 1..Len(name), name[i] # "." PROVE name[i] \in S
  OBVIOUS
<1>1. PICK l : Holds(l, name, i)
  BY LabelAt
<1>2. l \in Labels(name) /\ name[i] \in ToSet(l)
  BY <1>1, ToSetFacts DEF Tokens, Holds
<1>3. QED BY <1>2

(* A dotted quad has digits and dots and nothing else.                     *)
LEMMA QuadFacts ==
  ASSUME NEW host \in Tokens, IsQuad(host)
  PROVE  /\ host # << >>
         /\ \A i \in 1..Len(host) : host[i] = "." \/ host[i] \in Digits
<1>1. host # << >>
  <2> SUFFICES ASSUME host = << >> PROVE FALSE
    OBVIOUS
  <2>1. Dots(host) = {}
    BY DotsFacts
  <2>2. Cardinality(Dots(host)) = 0
    BY <2>1, FS_EmptySet
  <2>3. QED BY <2>2 DEF IsQuad
<1>2. \A l \in Labels(host) : ToSet(l) \subseteq Digits
  BY DEF IsQuad, ParseBounded
<1>3. QED BY <1>1, <1>2, TokensOfLabels

(* A name of valid labels has only their characters and dots, and begins   *)
(* and ends with a label.                                                  *)
LEMMA NameFacts ==
  ASSUME NEW name \in Tokens, Size(name) \in 1..253, ValidLabels(name)
  PROVE  /\ name # << >>
         /\ \A i \in 1..Len(name) : name[i] = "." \/ name[i] \in LabelChars
         /\ name[1] \in LabelChars \ {"-"} /\ name[Len(name)] # "."
<1>1. name # << >>
  <2>1. Size(name) > 0
    OBVIOUS
  <2>2. Len(name) # 0
    <3>1. Size(name) > 0 => Len(name) # 0
      BY SizeFacts
    <3>2. QED BY <2>1, <3>1
  <2>3. QED BY <2>2
<1>2. \A i \in 1..Len(name) : name[i] = "." \/ name[i] \in LabelChars
  <2>1. \A l \in Labels(name) : ToSet(l) \subseteq LabelChars
    BY DEF ValidLabels, ValidLabel
  <2>2. QED BY <2>1, TokensOfLabels
<1>3. name[1] # "." /\ name[Len(name)] # "."
  <2>1. << >> \notin Labels(name)
    BY DEF ValidLabels, ValidLabel
  <2>2. QED BY <1>1, <2>1, EmptyLabel
<1>4. Len(name) \in Nat \ {0} /\ 1 \in 1..Len(name)
  BY <1>1, EmptyText DEF Tokens
<1>5. PICK l \in Labels(name) : l[1] = name[1]
  <2>1. PICK l : Holds(l, name, 1)
    BY <1>3, <1>4, LabelAt
  <2>2. QED BY <2>1 DEF Holds
<1>6. l[1] # "-"
  BY DEF ValidLabels, ValidLabel
<1>7. QED BY <1>1, <1>2, <1>3, <1>4, <1>5, <1>6

HostChars == LabelChars \cup {"."}
Named(h)  == h \in Tokens /\ h # << >> /\ (\A i \in 1..Len(h) : h[i] \in HostChars) /\ h[1] # "-"
Literal6  == <<"[", "2001:db8::1", "]">>

(* The characters of a host are no separators, flags or prefixes.          *)
LEMMA HostCharsFacts ==
  /\ HostChars \cap {":", "/", "?", "@", "sp", "ctl", "#", "[", "]", "=", "--", "2001:db8::1", "2001:DB8::1", "https://", "HTTPS://"} = {}
  /\ HostChars \cap Flags = {}
  /\ Digits \subseteq HostChars /\ "-" \notin Digits /\ "." \notin Digits /\ Digits \subseteq LabelChars
<1>1. \A v \in 0..61 : Letter(v) \notin Other /\ Letter(v) \notin Flags /\ Letter(v) # "/"
  BY LetterFacts
<1>2. \A c \in Among(0..61) : c \notin Other /\ c \notin Flags /\ c # "/"
  BY <1>1 DEF Among
<1>3. Digits \subseteq Among(0..61)
  BY DEF Digits, Among
<1>4. \A c \in HostChars : c \in Among(0..61) \/ c \in {"vpn", "VPN", "l63", "l64", "-", "."}
  BY DEF HostChars, LabelChars
<1>5. HostChars \cap Flags = {}
  BY <1>2, <1>4 DEF Flags
<1>6. \A c \in HostChars : c \notin {":", "/", "?", "@", "sp", "ctl", "#", "[", "]", "=", "--", "2001:db8::1", "2001:DB8::1", "https://", "HTTPS://"}
  <2>1. SUFFICES ASSUME NEW c \in Among(0..61)
        PROVE c \notin {":", "/", "?", "@", "sp", "ctl", "#", "[", "]", "=", "--", "2001:db8::1", "2001:DB8::1", "https://", "HTTPS://"}
    BY <1>4
  <2>2. QED BY <1>2 DEF Other
<1>7. Digits \subseteq HostChars /\ Digits \subseteq LabelChars
  BY <1>3 DEF HostChars, LabelChars
<1>8. "-" \notin Digits /\ "." \notin Digits
  BY <1>2, <1>3 DEF Other
<1>9. QED BY <1>5, <1>6, <1>7, <1>8

(* An accepted IPv6 address becomes its one canonical form.                *)
LEMMA CanonV6Facts ==
  ASSUME NEW addr \in Tokens
  PROVE  CanonV6(addr) # << >> => CanonV6(addr) = <<"2001:db8::1">>
<1> SUFFICES ASSUME CanonV6(addr) # << >> PROVE CanonV6(addr) = <<"2001:db8::1">>
  OBVIOUS
<1>1. Len(addr) = 1 /\ ToSet(addr) \subseteq V6 /\ CanonV6(addr) = Lowered(addr)
  BY DEF CanonV6, Refused
<1>2. addr[1] \in V6 /\ addr[1] \in Token
  BY <1>1, ToSetFacts DEF Tokens
<1>3. Lowered(addr) \in Tokens /\ Len(Lowered(addr)) = 1 /\ Lowered(addr)[1] = Low(addr[1])
  BY <1>1, LoweredFacts
<1>4. Low(addr[1]) = "2001:db8::1"
  BY <1>2, LowFacts
<1>5. QED BY <1>1, <1>3, <1>4 DEF Tokens

(* The canonical form of an IPv6 address is its own canonical form.        *)
LEMMA CanonV6Stable ==
  CanonV6(<<"2001:db8::1">>) = <<"2001:db8::1">>
<1> DEFINE six == <<"2001:db8::1">>
<1>1. six \in Tokens /\ Len(six) = 1 /\ six[1] = "2001:db8::1"
  BY DEF Tokens, Token, Other
<1>2. ToSet(six) \subseteq V6
  BY DEF ToSet, V6
<1>3. CanonV6(six) = Lowered(six)
  BY <1>1, <1>2 DEF CanonV6
<1>4. Low("2001:db8::1") = "2001:db8::1"
  <2>1. "2001:db8::1" \in Token /\ "2001:db8::1" \in V6
    BY DEF Token, Other, V6
  <2>2. QED BY <2>1, LowFacts
<1> HIDE DEF six
<1>5. Lowered(six) \in Tokens /\ Len(Lowered(six)) = 1 /\ Lowered(six)[1] = "2001:db8::1"
  BY <1>1, <1>4, LoweredFacts
<1>6. Lowered(six) = six
  BY <1>1, <1>5 DEF Tokens
<1>7. CanonV6(six) = six
  BY <1>3, <1>6
<1>8. QED BY <1>7 DEF six

(* Three texts of one token, joined.                                       *)
LEMMA JoinThree ==
  ASSUME NEW S, NEW a \in S, NEW b \in S, NEW c \in S
  PROVE  <<a>> \o <<b>> \o <<c>> = <<a, b, c>>
<1> DEFINE x == <<a>> \o <<b>>
<1>1. x \in Seq(S) /\ Len(x) = 2 /\ x[1] = a /\ x[2] = b
  OBVIOUS
<1> HIDE DEF x
<1> DEFINE z == <<c>>
<1>2. z \in Seq(S) /\ Len(z) = 1 /\ z[1] = c
  OBVIOUS
<1> HIDE DEF z
<1> DEFINE y == x \o z
<1>3. y \in Seq(S) /\ Joins(y, x, z)
  BY <1>1, <1>2, Joint
<1> HIDE DEF y
<1>4. Len(y) = 3 /\ y[1] = a /\ y[2] = b /\ y[3] = c
  <2>1. Len(y) = Len(x) + Len(z) /\ y[Len(x) + 1] = z[1] /\ y[1] = x[1] /\ y[2] = x[2]
    BY <1>1, <1>2, <1>3 DEF Joins
  <2>2. QED BY <1>1, <1>2, <2>1
<1>5. y = <<a, b, c>>
  BY <1>3, <1>4
<1>6. QED BY <1>5 DEF x, y, z

(* What is between the brackets of three tokens.                           *)
LEMMA MiddleOfThree ==
  ASSUME NEW S, NEW s \in Seq(S), Len(s) = 3
  PROVE  SubSeq(s, 2, Len(s) - 1) = <<s[2]>>
<1> DEFINE x == SubSeq(s, 2, Len(s) - 1)
<1>1. x \in Seq(S) /\ Len(x) = 1 /\ x[1] = s[2]
  OBVIOUS
<1> HIDE DEF x
<1>2. x = <<s[2]>>
  BY <1>1
<1>3. QED BY <1>2 DEF x

(* The bracketed IPv6 literal is a host in canonical form.                 *)
LEMMA Literal6Facts ==
  /\ Literal6 \in Tokens /\ Len(Literal6) = 3 /\ Literal6 # << >>
  /\ Literal6[1] = "[" /\ Literal6[2] = "2001:db8::1" /\ Literal6[3] = "]"
  /\ Size(Literal6) < HostMax
  /\ CanonHost(Literal6) = Literal6
<1>1. /\ Literal6 \in Tokens /\ Len(Literal6) = 3 /\ Literal6 # << >>
      /\ Literal6[1] = "[" /\ Literal6[2] = "2001:db8::1" /\ Literal6[3] = "]"
  BY DEF Literal6, Tokens, Token, Other
<1>2. Size(Literal6) = 13
  <2> DEFINE f == [i \in 0..3 |-> IF i = 0 THEN 0 ELSE IF i = 1 THEN 1 ELSE IF i = 2 THEN 12 ELSE 13]
  <2>1. Width("[") = 1 /\ Width("]") = 1 /\ Width("2001:db8::1") = 11
    BY DEF Width
  <2>2. f \in [0..3 -> Nat] /\ f[0] = 0 /\ f[1] = 1 /\ f[2] = 12 /\ f[3] = 13
    OBVIOUS
  <2> HIDE DEF f
  <2>3. \A i \in 1..3 : f[i] = f[i - 1] + Width(Literal6[i])
    <3>1. f[1] = f[0] + Width(Literal6[1]) /\ f[2] = f[1] + Width(Literal6[2]) /\ f[3] = f[2] + Width(Literal6[3])
      BY <1>1, <2>1, <2>2
    <3>2. \A i \in 1..3 : (i = 1 /\ i - 1 = 0) \/ (i = 2 /\ i - 1 = 1) \/ (i = 3 /\ i - 1 = 2)
      OBVIOUS
    <3>3. QED BY <3>1, <3>2
  <2>4. Sums(Literal6, f)
    BY <1>1, <2>2, <2>3 DEF Sums
  <2>5. QED BY <1>1, <2>2, <2>4, SizeIs
<1>3. SubSeq(Literal6, 2, Len(Literal6) - 1) = <<"2001:db8::1">>
  BY <1>1, MiddleOfThree DEF Tokens
<1>4. CanonLiteral(Literal6) = <<"[">> \o <<"2001:db8::1">> \o <<"]">>
  <2>1. Last(Literal6) = "]"
    BY <1>1 DEF Last
  <2>2. CanonV6(SubSeq(Literal6, 2, Len(Literal6) - 1)) = <<"2001:db8::1">>
    BY <1>1, <1>3, CanonV6Stable
  <2>3. QED BY <2>1, <2>2 DEF CanonLiteral, Refused
<1>5. <<"[">> \o <<"2001:db8::1">> \o <<"]">> = Literal6
  <2>1. "[" \in Token /\ "]" \in Token /\ "2001:db8::1" \in Token
    BY DEF Token, Other
  <2>2. QED BY <2>1, JoinThree DEF Literal6
<1>6. Size(Literal6) < HostMax /\ ~ (Size(Literal6) >= HostMax)
  BY <1>2 DEF HostMax
<1>7. CanonHost(Literal6) = CanonLiteral(Literal6)
  BY <1>1, <1>6 DEF CanonHost
<1>8. QED BY <1>1, <1>4, <1>5, <1>6, <1>7

(* Lower case keeps the labels of a name.                                  *)
LEMMA LoweredLabels ==
  ASSUME NEW name \in Tokens
  PROVE  /\ \A l \in Labels(Lowered(name)) : \E k \in Labels(name) : k \in Tokens /\ l = Lowered(k)
         /\ FindLast(Lowered(name), {"."}) = FindLast(name, {"."})
<1> DEFINE low == Lowered(name)
<1>1. low \in Tokens /\ Len(low) = Len(name) /\ \A i \in 1..Len(name) : low[i] = Low(name[i]) /\ name[i] \in Token
  BY LoweredFacts
<1>2. \A i \in 1..Len(name) : low[i] = "." <=> name[i] = "."
  <2>1. "." \in Other \ {"https://", "HTTPS://", "vpn", "VPN", "2001:db8::1", "2001:DB8::1"}
    BY DEF Other
  <2>2. QED BY <1>1, <2>1, LowFacts
<1> HIDE DEF low
<1>3. Len(name) \in Nat /\ Dots(low) = Dots(name)
  BY <1>1, <1>2 DEF Dots, Tokens
<1>4. ASSUME NEW l \in Labels(low) PROVE \E k \in Labels(name) : k \in Tokens /\ l = Lowered(k)
  <2>1. PICK a, b : Between(low, a, b) /\ l = Cut(low, a, b)
    BY LabelsDef
  <2>2. Between(name, a, b)
    BY <1>1, <1>3, <2>1 DEF Between, Ends
  <2> DEFINE k == Cut(name, a, b)
  <2>3. /\ k \in Labels(name) /\ k \in Tokens /\ Len(k) = b - a - 1
        /\ \A i \in 1..Len(k) : k[i] = name[a + i]
        /\ a \in 0..Len(name) /\ b \in 1..Len(name) + 1 /\ a < b
    BY <2>2, LabelFacts
  <2>4. /\ l \in Tokens /\ Len(l) = b - a - 1
        /\ \A i \in 1..Len(l) : l[i] = low[a + i]
    BY <1>1, <2>1, LabelFacts
  <2> HIDE DEF k
  <2>5. Lowered(k) \in Tokens /\ Len(Lowered(k)) = Len(k) /\ \A i \in 1..Len(k) : Lowered(k)[i] = Low(k[i])
    BY <2>3, LoweredFacts
  <2>6. ASSUME NEW i \in 1..Len(l) PROVE l[i] = Lowered(k)[i]
    <3>1. i \in 1..Len(k) /\ a + i \in 1..Len(name)
      BY <1>3, <2>3, <2>4
    <3>2. l[i] = low[a + i] /\ k[i] = name[a + i] /\ Lowered(k)[i] = Low(k[i]) /\ low[a + i] = Low(name[a + i])
      BY <1>1, <2>3, <2>4, <2>5, <3>1
    <3>3. QED BY <3>2
  <2>7. l = Lowered(k)
    BY <2>3, <2>4, <2>5, <2>6, SameText DEF Tokens
  <2>8. QED BY <2>3, <2>7
<1>5. FindLast(low, {"."}) = FindLast(name, {"."})
  <2>1. name \in Seq(Token) /\ low \in Seq(Token)
    BY <1>1 DEF Tokens
  <2> DEFINE k == FindLast(name, {"."})
  <2>2. /\ k \in 0..Len(name) /\ (k = 0 => \A i \in 1..Len(name) : name[i] # ".")
        /\ (k # 0 => name[k] = "." /\ \A i \in 1..Len(name) : i > k => name[i] # ".")
    BY <2>1, FindLastFacts
  <2> HIDE DEF k
  <2>3. CASE k = 0
    <3>1. \A i \in 1..Len(low) : low[i] \notin {"."}
      BY <1>1, <1>2, <2>2, <2>3
    <3>2. QED BY <2>1, <2>3, <3>1, FindNone DEF k
  <2>4. CASE k # 0
    <3>1. k \in 1..Len(low) /\ low[k] \in {"."} /\ \A i \in k + 1..Len(low) : low[i] \notin {"."}
      BY <1>1, <1>2, <1>3, <2>2, <2>4
    <3>2. QED BY <2>1, <3>1, FindLastIs DEF k
  <2>5. QED BY <2>3, <2>4
<1>6. QED BY <1>4, <1>5 DEF low

(* A valid label stays valid in lower case.                                *)
LEMMA LoweredLabel ==
  ASSUME NEW l \in Tokens, ValidLabel(l)
  PROVE  ValidLabel(Lowered(l))
<1> DEFINE low == Lowered(l)
<1>1. low \in Tokens /\ Len(low) = Len(l) /\ Size(low) = Size(l) /\ \A i \in 1..Len(l) : low[i] = Low(l[i]) /\ l[i] \in Token
  BY LoweredFacts
<1> HIDE DEF low
<1>2. Len(l) \in Nat /\ Len(l) # 0 /\ l \in Seq(Token) /\ low \in Seq(Token)
  BY <1>1, EmptyText DEF ValidLabel, Tokens
<1>3. low # << >> /\ Size(low) <= 63
  BY <1>1, <1>2, EmptyText DEF ValidLabel
<1>4. \A i \in 1..Len(l) : low[i] \in LabelChars
  <2>1. \A i \in 1..Len(l) : l[i] \in LabelChars
    BY <1>2, ToSetFacts DEF ValidLabel
  <2>2. QED BY <1>1, <2>1, LowFacts
<1>5. ToSet(low) \subseteq LabelChars
  <2>1. \A x \in ToSet(low) : \E i \in 1..Len(low) : low[i] = x
    BY <1>2, ToSetFacts
  <2>2. QED BY <1>1, <1>4, <2>1
<1>6. \A i \in 1..Len(l) : low[i] = "-" <=> l[i] = "-"
  <2>1. "-" \in Other \ {"https://", "HTTPS://", "vpn", "VPN", "2001:db8::1", "2001:DB8::1"}
    BY DEF Other
  <2>2. QED BY <1>1, <2>1, LowFacts
<1>7. low[1] # "-" /\ Last(low) # "-"
  BY <1>1, <1>2, <1>6 DEF ValidLabel, Last
<1>8. ValidLabel(low)
  BY <1>3, <1>5, <1>7 DEF ValidLabel
<1>9. QED BY <1>8 DEF low

(* So do all the labels of a name.                                         *)
LEMMA LoweredName ==
  ASSUME NEW name \in Tokens, ValidLabels(name)
  PROVE  ValidLabels(Lowered(name))
<1> DEFINE low == Lowered(name)
           k   == FindLast(name, {"."}) + 1
<1>1. low \in Tokens /\ Len(low) = Len(name) /\ \A i \in 1..Len(name) : low[i] = Low(name[i]) /\ name[i] \in Token
  BY LoweredFacts
<1>2. FindLast(low, {"."}) = FindLast(name, {"."}) /\ k \in Nat \ {0} /\ Len(name) \in Nat
  <2>1. FindLast(name, {"."}) \in 0..Len(name) /\ Len(name) \in Nat
    BY FindLastFacts DEF Tokens
  <2>2. QED BY <2>1, LoweredLabels
<1> HIDE DEF low, k
<1>3. ASSUME NEW l \in Labels(low) PROVE ValidLabel(l)
  <2>1. PICK m \in Labels(name) : m \in Tokens /\ l = Lowered(m)
    BY LoweredLabels DEF low
  <2>2. QED BY <2>1, LoweredLabel DEF ValidLabels
<1>4. ~ ToSet(From(low, k)) \subseteq Digits
  <2> SUFFICES ASSUME ToSet(From(low, k)) \subseteq Digits PROVE ToSet(From(name, k)) \subseteq Digits
    BY DEF ValidLabels, k
  <2>1. /\ From(low, k) \in Seq(Token) /\ From(name, k) \in Seq(Token) /\ Len(From(low, k)) = Len(From(name, k))
        /\ \A j \in 1..Len(From(low, k)) : From(low, k)[j] = low[k + j - 1]
        /\ \A j \in 1..Len(From(name, k)) : From(name, k)[j] = name[k + j - 1]
        /\ Len(From(name, k)) = IF k <= Len(name) THEN Len(name) - k + 1 ELSE 0
    BY <1>1, <1>2, FromFacts DEF Tokens
  <2>2. ASSUME NEW j \in 1..Len(From(name, k)) PROVE From(name, k)[j] \in Digits
    <3>1. k + j - 1 \in 1..Len(name)
      BY <1>2, <2>1
    <3>2. From(low, k)[j] \in Digits
      BY <2>1, ToSetFacts
    <3>3. Low(name[k + j - 1]) \in Digits
      BY <1>1, <2>1, <3>1, <3>2
    <3>4. QED BY <1>1, <2>1, <3>1, <3>3, LowFacts
  <2>3. QED BY <2>1, <2>2, ToSetFacts
<1>5. ValidLabels(low)
  BY <1>2, <1>3, <1>4 DEF ValidLabels, k
<1>6. QED BY <1>5 DEF low

-----------------------------------------------------------------------------
(* Lines: what FieldOf reads when a key is given once.                     *)

OnlyOne(lines, i) == \A j \in 1..Len(lines) : lines[j].key = lines[i].key => j = i

(* A key is there when some line has it.                                   *)
LEMMA KeyFacts ==
  ASSUME NEW S, NEW lines \in Seq(S), NEW key
  PROVE  HasKey(lines, key) <=> \E i \in 1..Len(lines) : lines[i].key = key
BY ToSetFacts DEF HasKey

(* A key that is given once has the value of its line.                     *)
LEMMA FieldIs ==
  ASSUME NEW S, NEW lines \in Seq(S), NEW i \in 1..Len(lines), OnlyOne(lines, i)
  PROVE  FieldOf(lines, lines[i].key) = lines[i].val
<1> DEFINE key == lines[i].key
<1> DEFINE l == CHOOSE x \in ToSet(lines) : x.key = key
<1>1. lines[i] \in ToSet(lines)
  BY ToSetFacts
<1>2. l \in ToSet(lines) /\ l.key = key
  BY <1>1
<1>3. PICK j \in 1..Len(lines) : lines[j] = l
  <2> HIDE DEF l
  <2>1. QED BY <1>2, ToSetFacts
<1>4. j = i
  <2> HIDE DEF l
  <2>1. QED BY <1>2, <1>3 DEF OnlyOne
<1>5. FieldOf(lines, key) = l.val
  BY DEF FieldOf
<1>6. l = lines[i]
  BY <1>3, <1>4
<1> HIDE DEF l
<1>7. QED BY <1>5, <1>6

(* What $( ) keeps: the lines up to the last one that is not blank.        *)
LEMMA CapturedFacts ==
  ASSUME NEW S, NEW lines \in Seq(S)
  PROVE  /\ Captured(lines) \in Seq(S) /\ Len(Captured(lines)) <= Len(lines)
         /\ \A i \in 1..Len(Captured(lines)) : lines[i] = Captured(lines)[i]
         /\ \A i \in 1..Len(lines) : lines[i] # BlankLine => i <= Len(Captured(lines))
         /\ Len(Captured(lines)) > 0 => lines[Len(Captured(lines))] # BlankLine
<1> DEFINE I == {i \in 1..Len(lines) : lines[i] # BlankLine}
<1> DEFINE end == SelectLastInSeq(lines, LAMBDA l : l # BlankLine)
<1>0. Len(lines) \in Nat
  OBVIOUS
<1>1. end = IF I # {} THEN Max(I) ELSE 0
  BY DEF SelectLastInSeq
<1>2. end \in 0..Len(lines) /\ (\A i \in I : i <= end) /\ (end # 0 => end \in I)
  <2>1. CASE I = {}
    <3>1. end = 0
      BY <1>1, <2>1
    <3> HIDE DEF end
    <3>2. QED BY <1>0, <2>1, <3>1
  <2>2. CASE I # {}
    <3>1. PICK n \in I : \A j \in I : j <= n
      <4>1. I \in SUBSET (0..Len(lines))
        OBVIOUS
      <4> HIDE DEF I
      <4>2. QED BY <1>0, <2>2, <4>1, NatMax
    <3>2. Max(I) \in I /\ \A j \in I : j <= Max(I)
      <4>1. \A j \in I : j \in Nat
        OBVIOUS
      <4> HIDE DEF I
      <4>2. QED BY <3>1, <4>1 DEF Max
    <3>3. end = Max(I)
      BY <1>1, <2>2
    <3>4. I \subseteq 1..Len(lines)
      OBVIOUS
    <3> HIDE DEF end, I
    <3>5. end \in I /\ \A j \in I : j <= end
      BY <3>2, <3>3
    <3>6. end \in 0..Len(lines)
      BY <1>0, <3>4, <3>5
    <3>7. QED BY <3>5, <3>6
  <2>3. QED BY <2>1, <2>2
<1>3. Captured(lines) = Upto(lines, end)
  BY DEF Captured
<1> HIDE DEF end
<1>4. end \in Nat /\ ~ (Len(lines) < end)
  BY <1>0, <1>2
<1>5. Len(Upto(lines, end)) = end /\ Upto(lines, end) \in Seq(S) /\ \A j \in 1..Len(Upto(lines, end)) : Upto(lines, end)[j] = lines[j]
  BY <1>0, <1>2, <1>4, UptoFacts
<1>6. QED BY <1>0, <1>2, <1>3, <1>5

-----------------------------------------------------------------------------
(* The two decoders.                                                       *)

LineSet == [key : STRING, val : Tokens]

(* The blank line has no key of the output, and every cap is positive.     *)
LEMMA BlankIsNoKey ==
  /\ BlankLine.key \notin AuthKeys
  /\ \A key \in AuthKeys : AuthCaps[key] \in Nat /\ AuthCaps[key] > 0
<1>1. \A key \in AuthKeys : AuthCaps[key] \in Nat /\ AuthCaps[key] > 0
  BY DEF AuthKeys, AuthCaps, HostMax, UrlMax, FprMax
<1>2. QED BY <1>1 DEF BlankLine, Line, AuthKeys

(* What both decoders take for a key.                                      *)
Read(lines, key) == IF HasKey(lines, key) THEN FieldOf(lines, key) ELSE << >>

(* Read returns the value of the one line of a key, or nothing.            *)
LEMMA ReadFacts ==
  ASSUME NEW lines \in Seq(LineSet), \A i \in 1..Len(lines) : lines[i].key \in AuthKeys => OnlyOne(lines, i), NEW key \in AuthKeys
  PROVE  /\ \A i \in 1..Len(lines) : lines[i].key = key => Read(lines, key) = lines[i].val
         /\ ~ HasKey(lines, key) => Read(lines, key) = << >>
         /\ Read(lines, key) \in Tokens
         /\ HasKey(lines, key) => \E i \in 1..Len(lines) : lines[i].key = key /\ Read(lines, key) = lines[i].val
<1>1. ASSUME NEW i \in 1..Len(lines), lines[i].key = key PROVE Read(lines, key) = lines[i].val
  <2>1. HasKey(lines, key)
    BY <1>1, KeyFacts
  <2>2. OnlyOne(lines, i)
    BY <1>1
  <2>3. FieldOf(lines, key) = lines[i].val
    BY <1>1, <2>2, FieldIs
  <2>4. QED BY <2>1, <2>3 DEF Read
<1>2. ~ HasKey(lines, key) => Read(lines, key) = << >>
  BY DEF Read
<1>3. HasKey(lines, key) => \E i \in 1..Len(lines) : lines[i].key = key /\ Read(lines, key) = lines[i].val
  BY <1>1, KeyFacts
<1>4. \A i \in 1..Len(lines) : lines[i].val \in Tokens
  <2>1. \A l \in LineSet : l.val \in Tokens
    BY DEF LineSet
  <2>2. \A i \in 1..Len(lines) : lines[i] \in LineSet
    OBVIOUS
  <2>3. QED BY <2>1, <2>2
<1>5. << >> \in Tokens
  BY DEF Tokens
<1>6. Read(lines, key) \in Tokens
  BY <1>2, <1>3, <1>4, <1>5
<1>7. QED BY <1>1, <1>2, <1>3, <1>6

(* The shared loop, place by place.                                        *)
LEMMA WellFormedIs ==
  ASSUME NEW S, NEW lines \in Seq(S), NEW keys
  PROVE  WellFormed(lines, keys) <=>
           \A i \in 1..Len(lines) :
             \/ lines[i] = BlankLine /\ i = Len(lines)
             \/ lines[i] # BlankLine /\ lines[i].key \in keys /\ "ctl" \notin ToSet(lines[i].val)
                /\ \A j \in 1..(i - 1) : lines[j].key # lines[i].key
BY DEF WellFormed

(* Keys that are never given again are given once.                         *)
LEMMA GivenOnce ==
  ASSUME NEW S, NEW lines \in Seq(S), NEW keys,
         \A i \in 1..Len(lines) : lines[i].key \in keys => \A j \in 1..(i - 1) : lines[j].key # lines[i].key
  PROVE  \A i \in 1..Len(lines) : lines[i].key \in keys => OnlyOne(lines, i)
<1> SUFFICES ASSUME NEW i \in 1..Len(lines), lines[i].key \in keys, NEW j \in 1..Len(lines), lines[j].key = lines[i].key, j # i
             PROVE FALSE
  BY DEF OnlyOne
<1>1. CASE j \in 1..(i - 1)
  BY <1>1
<1>2. CASE i \in 1..(j - 1)
  BY <1>2
<1>3. QED BY <1>1, <1>2

(* Where the lines are well formed, the shell reads the same values.       *)
LEMMA ReadCaptured ==
  ASSUME NEW lines \in Seq(LineSet), WellFormed(lines, AuthKeys)
  PROVE  /\ \A i \in 1..Len(lines) : lines[i].key \in AuthKeys => OnlyOne(lines, i)
         /\ \A i \in 1..Len(Captured(lines)) : lines[i] # BlankLine
         /\ \A key \in AuthKeys : /\ HasKey(lines, key) <=> HasKey(Captured(lines), key)
                                  /\ Read(lines, key) = Read(Captured(lines), key)
<1> DEFINE text == Captured(lines)
<1>0. text \in Seq(LineSet) /\ Len(text) \in Nat /\ Len(lines) \in Nat /\ Len(text) <= Len(lines)
  BY CapturedFacts
<1>1. /\ \A i \in 1..Len(text) : lines[i] = text[i]
      /\ \A i \in 1..Len(lines) : lines[i] # BlankLine => i <= Len(text)
      /\ Len(text) > 0 => lines[Len(text)] # BlankLine
  BY CapturedFacts
<1> HIDE DEF text
<1>2. \A i \in 1..Len(lines) :
             \/ lines[i] = BlankLine /\ i = Len(lines)
             \/ lines[i] # BlankLine /\ lines[i].key \in AuthKeys /\ "ctl" \notin ToSet(lines[i].val)
                /\ \A j \in 1..(i - 1) : lines[j].key # lines[i].key
  BY WellFormedIs
<1>3. \A i \in 1..Len(lines) : lines[i].key \in AuthKeys => OnlyOne(lines, i)
  BY <1>2, BlankIsNoKey, GivenOnce
<1>4. ASSUME NEW i \in 1..Len(text) PROVE lines[i] # BlankLine /\ lines[i] = text[i] /\ i \in 1..Len(lines)
  BY <1>0, <1>1, <1>2
<1>5. \A i \in 1..Len(text) : text[i].key \in AuthKeys => OnlyOne(text, i)
  BY <1>0, <1>3, <1>4 DEF OnlyOne
<1>6. ASSUME NEW key \in AuthKeys
      PROVE  (HasKey(lines, key) <=> HasKey(text, key)) /\ Read(lines, key) = Read(text, key)
  <2>1. ASSUME HasKey(lines, key)
        PROVE  \E i \in 1..Len(text) : text[i].key = key /\ text[i].val = lines[i].val /\ lines[i].key = key /\ i \in 1..Len(lines)
    <3>1. PICK i \in 1..Len(lines) : lines[i].key = key
      BY <2>1, KeyFacts
    <3>2. lines[i] # BlankLine
      BY <3>1, BlankIsNoKey
    <3>3. i \in 1..Len(text)
      BY <1>0, <1>1, <3>2
    <3>4. QED BY <3>1, <3>3, <1>4
  <2>2. HasKey(text, key) => HasKey(lines, key)
    BY <1>0, <1>4, KeyFacts
  <2>3. HasKey(lines, key) => HasKey(text, key)
    BY <1>0, <2>1, KeyFacts
  <2>4. CASE HasKey(lines, key)
    <3>1. PICK i \in 1..Len(text) : text[i].key = key /\ text[i].val = lines[i].val /\ lines[i].key = key /\ i \in 1..Len(lines)
      BY <2>1, <2>4
    <3>2. Read(lines, key) = lines[i].val
      BY <1>3, <3>1, ReadFacts
    <3>3. Read(text, key) = text[i].val
      BY <1>0, <1>5, <3>1, ReadFacts
    <3>4. QED BY <2>2, <2>3, <3>1, <3>2, <3>3
  <2>5. CASE ~ HasKey(lines, key)
    BY <2>2, <2>5 DEF Read
  <2>6. QED BY <2>2, <2>3, <2>4, <2>5
<1>7. QED BY <1>3, <1>4, <1>6 DEF text

(* When vu_parse_auth accepts an output, and what it reads there.          *)
LEMMA ParseAuthIs ==
  ASSUME NEW lines \in Seq(LineSet)
  PROVE  LET c == ParseAuth(lines) IN
         /\ c.ok <=> /\ Len(lines) > 0 /\ WellFormed(lines, AuthKeys)
                     /\ \A key \in AuthKeys : Size(Read(lines, key)) < AuthCaps[key] /\ "'" \notin ToSet(Read(lines, key))
                     /\ HasKey(lines, "FINGERPRINT") => CanonFingerprint(Read(lines, "FINGERPRINT")) # Refused
                     /\ HasKey(lines, "CONNECT_URL") => ParseUrl(Read(lines, "CONNECT_URL")).ok
                     /\ HasKey(lines, "RESOLVE") => CanonResolve(Read(lines, "RESOLVE")) # NoResolve
         /\ c.ok => /\ c.cookie = Read(lines, "COOKIE") /\ c.url = Read(lines, "CONNECT_URL")
                    /\ c.fingerprint = CanonFingerprint(Read(lines, "FINGERPRINT"))
                    /\ c.resolve = Read(lines, "RESOLVE")
<1>1. lines = << >> <=> Len(lines) = 0
  BY EmptyText
<1>2. Len(lines) \in Nat
  OBVIOUS
<1>3. QED BY <1>1, <1>2 DEF ParseAuth, Read, NoAuth

(* When the shell accepts an output, and what it reads there.              *)
LEMMA ShellIs ==
  ASSUME NEW lines \in Seq(LineSet)
  PROVE  LET s == ParseAuthOutput(lines)  text == Captured(lines) IN
         /\ s.ok <=> /\ Len(text) > 0 /\ \A i \in 1..Len(text) : /\ text[i] # BlankLine /\ text[i].key \in AuthKeys
                                                                 /\ "'" \notin ToSet(text[i].val) /\ "ctl" \notin ToSet(text[i].val)
                                                                 /\ \A j \in 1..(i - 1) : text[j].key # text[i].key
         /\ s.ok => /\ s.cookie = Read(text, "COOKIE") /\ s.url = Read(text, "CONNECT_URL")
                    /\ s.fingerprint = Read(text, "FINGERPRINT") /\ s.resolve = Read(text, "RESOLVE")
<1> DEFINE text == Captured(lines)
<1>1. text \in Seq(LineSet)
  BY CapturedFacts
<1>2. /\ text = << >> <=> Len(text) = 0
      /\ Len(text) \in Nat /\ DOMAIN text = 1..Len(text)
      /\ BlankLine \in ToSet(text) <=> \E i \in 1..Len(text) : text[i] = BlankLine
  <2> HIDE DEF text
  <2>1. QED BY <1>1, EmptyText, ToSetFacts
<1> HIDE DEF text
<1> DEFINE Fit == /\ text # << >> /\ BlankLine \notin ToSet(text)
                  /\ \A i \in DOMAIN text :
                       /\ text[i].key \in AuthKeys
                       /\ ToSet(text[i].val) \cap {"'", "ctl"} = {}
                       /\ \A j \in 1..(i - 1) : text[j].key # text[i].key
<1>3. ParseAuthOutput(lines) = IF Fit
     THEN [ok |-> TRUE, cookie |-> Read(text, "COOKIE"), url |-> Read(text, "CONNECT_URL"),
           fingerprint |-> Read(text, "FINGERPRINT"), resolve |-> Read(text, "RESOLVE")]
     ELSE NoAuth
  BY DEF ParseAuthOutput, Read, text
<1>4. Fit <=> /\ Len(text) > 0 /\ \A i \in 1..Len(text) : /\ text[i] # BlankLine /\ text[i].key \in AuthKeys
                                                           /\ "'" \notin ToSet(text[i].val) /\ "ctl" \notin ToSet(text[i].val)
                                                           /\ \A j \in 1..(i - 1) : text[j].key # text[i].key
  <2>1. \A i : ToSet(text[i].val) \cap {"'", "ctl"} = {} <=> "'" \notin ToSet(text[i].val) /\ "ctl" \notin ToSet(text[i].val)
    OBVIOUS
  <2>2. BlankLine \notin ToSet(text) <=> \A i \in 1..Len(text) : text[i] # BlankLine
    BY <1>2
  <2> DEFINE Line1(i) == text[i].key \in AuthKeys /\ ToSet(text[i].val) \cap {"'", "ctl"} = {} /\ \A j \in 1..(i - 1) : text[j].key # text[i].key
             Line2(i) == text[i].key \in AuthKeys /\ "'" \notin ToSet(text[i].val) /\ "ctl" \notin ToSet(text[i].val) /\ \A j \in 1..(i - 1) : text[j].key # text[i].key
  <2>3. \A i : Line1(i) <=> Line2(i)
    BY <2>1
  <2>4. Fit <=> (Len(text) > 0 /\ (\A i \in 1..Len(text) : text[i] # BlankLine) /\ \A i \in 1..Len(text) : Line1(i))
    <3>1. Len(text) > 0 <=> text # << >>
      BY <1>2
    <3>2. QED BY <3>1, <2>2, <1>2
  <2> HIDE DEF Line1, Fit
  <2>5. Fit <=> (Len(text) > 0 /\ (\A i \in 1..Len(text) : text[i] # BlankLine) /\ \A i \in 1..Len(text) : Line2(i))
    <3> HIDE DEF Line2
    <3>1. QED BY <2>3, <2>4
  <2>6. QED BY <2>5
<1> HIDE DEF Fit
<1>5. ParseAuthOutput(lines).ok <=> Fit
  BY <1>3 DEF NoAuth
<1>6. ParseAuthOutput(lines).ok =>
        LET s == ParseAuthOutput(lines)
        IN /\ s.cookie = Read(text, "COOKIE") /\ s.url = Read(text, "CONNECT_URL")
           /\ s.fingerprint = Read(text, "FINGERPRINT") /\ s.resolve = Read(text, "RESOLVE")
  BY <1>3, <1>5
<1>7. QED BY <1>4, <1>5, <1>6 DEF text

(* What vu_parse_auth takes under the contract the shell takes too.        *)
LEMMA ShellTakesIt ==
  ASSUME NEW lines \in Seq(LineSet), MeetsContract(ParseAuth(lines))
  PROVE  LET s == ParseAuthOutput(lines)  c == ParseAuth(lines) IN
         /\ s.ok /\ s.cookie = c.cookie /\ s.url = c.url /\ s.resolve = c.resolve
         /\ CanonFingerprint(s.fingerprint) = c.fingerprint
<1> DEFINE s == ParseAuthOutput(lines)
           c == ParseAuth(lines)
           text == Captured(lines)
<1>1. /\ c.ok /\ c.cookie # << >> /\ WellFormed(lines, AuthKeys)
      /\ c.cookie = Read(lines, "COOKIE") /\ c.url = Read(lines, "CONNECT_URL")
      /\ c.fingerprint = CanonFingerprint(Read(lines, "FINGERPRINT")) /\ c.resolve = Read(lines, "RESOLVE")
      /\ \A key \in AuthKeys : "'" \notin ToSet(Read(lines, key))
  BY ParseAuthIs DEF MeetsContract
<1> HIDE DEF c
<1>2. /\ \A i \in 1..Len(lines) : lines[i].key \in AuthKeys => OnlyOne(lines, i)
      /\ \A i \in 1..Len(text) : lines[i] # BlankLine
      /\ \A key \in AuthKeys : (HasKey(lines, key) <=> HasKey(text, key)) /\ Read(lines, key) = Read(text, key)
  BY <1>1, ReadCaptured
<1>3. /\ text \in Seq(LineSet) /\ Len(text) \in Nat /\ Len(lines) \in Nat /\ Len(text) <= Len(lines)
      /\ \A i \in 1..Len(text) : lines[i] = text[i]
  BY CapturedFacts
<1>4. \A i \in 1..Len(lines) :
             \/ lines[i] = BlankLine /\ i = Len(lines)
             \/ lines[i] # BlankLine /\ lines[i].key \in AuthKeys /\ "ctl" \notin ToSet(lines[i].val)
                /\ \A j \in 1..(i - 1) : lines[j].key # lines[i].key
  BY <1>1, WellFormedIs
<1>5. {"COOKIE", "CONNECT_URL", "FINGERPRINT", "RESOLVE"} \subseteq AuthKeys
  BY DEF AuthKeys
<1>6. s.ok <=> /\ Len(text) > 0
               /\ \A i \in 1..Len(text) : /\ text[i] # BlankLine /\ text[i].key \in AuthKeys
                                                                 /\ "'" \notin ToSet(text[i].val) /\ "ctl" \notin ToSet(text[i].val)
                                                                 /\ \A j \in 1..(i - 1) : text[j].key # text[i].key
  BY ShellIs
<1>7. s.ok => /\ s.cookie = Read(text, "COOKIE") /\ s.url = Read(text, "CONNECT_URL")
              /\ s.fingerprint = Read(text, "FINGERPRINT") /\ s.resolve = Read(text, "RESOLVE")
  BY ShellIs
<1> HIDE DEF s, text
<1>8. Len(text) > 0
  <2>1. HasKey(text, "COOKIE")
    BY <1>1, <1>2, <1>5 DEF Read
  <2>2. \E i \in 1..Len(text) : text[i].key = "COOKIE"
    BY <1>3, <2>1, KeyFacts
  <2>3. QED BY <1>3, <2>2
<1>9. ASSUME NEW i \in 1..Len(text)
      PROVE  /\ text[i] # BlankLine /\ text[i].key \in AuthKeys
             /\ "'" \notin ToSet(text[i].val) /\ "ctl" \notin ToSet(text[i].val)
             /\ \A j \in 1..(i - 1) : text[j].key # text[i].key
  <2>1. i \in 1..Len(lines) /\ lines[i] = text[i] /\ lines[i] # BlankLine
    BY <1>2, <1>3
  <2>2. /\ lines[i].key \in AuthKeys /\ "ctl" \notin ToSet(lines[i].val)
        /\ \A j \in 1..(i - 1) : lines[j].key # lines[i].key
    BY <1>4, <2>1
  <2>3. Read(lines, lines[i].key) = lines[i].val
    BY <1>2, <2>1, <2>2, ReadFacts
  <2>4. "'" \notin ToSet(lines[i].val)
    BY <1>1, <2>2, <2>3
  <2>5. \A j \in 1..(i - 1) : lines[j] = text[j]
    BY <1>3
  <2>6. QED BY <2>1, <2>2, <2>4, <2>5
<1>10. s.ok
  BY <1>6, <1>8, <1>9
<1>11. QED BY <1>1, <1>2, <1>5, <1>7, <1>10 DEF s, c

(* What only the shell takes has a value that is of no use in itself.      *)
LEMMA OnlyTheShell ==
  ASSUME NEW lines \in Seq(LineSet), ParseAuthOutput(lines).ok, ~ ParseAuth(Captured(lines)).ok
  PROVE  LET shell == ParseAuthOutput(lines) IN
            \/ shell.fingerprint # << >> /\ CanonFingerprint(shell.fingerprint) = Refused
            \/ shell.url # << >> /\ ~ ParseUrl(shell.url).ok
            \/ shell.resolve # << >> /\ CanonResolve(shell.resolve) = NoResolve
            \/ \E l \in ToSet(lines) \ {BlankLine} :
                 \/ Size(l.val) >= AuthCaps[l.key]
                 \/ l.val = << >> /\ l.key \in {"FINGERPRINT", "CONNECT_URL", "RESOLVE"}
<1> DEFINE shell == ParseAuthOutput(lines)
           text == Captured(lines)
<1>1. /\ text \in Seq(LineSet) /\ Len(text) \in Nat /\ Len(lines) \in Nat /\ Len(text) <= Len(lines)
      /\ \A i \in 1..Len(text) : lines[i] = text[i]
  BY CapturedFacts
<1>2. /\ Len(text) > 0
      /\ \A i \in 1..Len(text) : /\ text[i] # BlankLine /\ text[i].key \in AuthKeys
                                 /\ "'" \notin ToSet(text[i].val) /\ "ctl" \notin ToSet(text[i].val)
                                 /\ \A j \in 1..(i - 1) : text[j].key # text[i].key
  BY ShellIs
<1>3. /\ shell.cookie = Read(text, "COOKIE") /\ shell.url = Read(text, "CONNECT_URL")
      /\ shell.fingerprint = Read(text, "FINGERPRINT") /\ shell.resolve = Read(text, "RESOLVE")
  BY ShellIs
<1>4. ~ /\ Len(text) > 0 /\ WellFormed(text, AuthKeys)
        /\ \A key \in AuthKeys : Size(Read(text, key)) < AuthCaps[key] /\ "'" \notin ToSet(Read(text, key))
        /\ HasKey(text, "FINGERPRINT") => CanonFingerprint(Read(text, "FINGERPRINT")) # Refused
        /\ HasKey(text, "CONNECT_URL") => ParseUrl(Read(text, "CONNECT_URL")).ok
        /\ HasKey(text, "RESOLVE") => CanonResolve(Read(text, "RESOLVE")) # NoResolve
  BY <1>1, ParseAuthIs
<1> DEFINE Odd == \E l \in ToSet(lines) \ {BlankLine} :
                 \/ Size(l.val) >= AuthCaps[l.key]
                 \/ l.val = << >> /\ l.key \in {"FINGERPRINT", "CONNECT_URL", "RESOLVE"}
<1> SUFFICES \/ shell.fingerprint # << >> /\ CanonFingerprint(shell.fingerprint) = Refused
             \/ shell.url # << >> /\ ~ ParseUrl(shell.url).ok
             \/ shell.resolve # << >> /\ CanonResolve(shell.resolve) = NoResolve
             \/ Odd
  OBVIOUS
<1> HIDE DEF shell, text
<1>5. WellFormed(text, AuthKeys)
  BY <1>1, <1>2, WellFormedIs
<1>6. \A i \in 1..Len(text) : text[i].key \in AuthKeys => OnlyOne(text, i)
  BY <1>1, <1>2, GivenOnce
<1>7. ASSUME NEW key \in AuthKeys, HasKey(text, key)
      PROVE  \E l \in ToSet(lines) \ {BlankLine} : l.key = key /\ l.val = Read(text, key) /\ "'" \notin ToSet(l.val)
  <2>1. PICK i \in 1..Len(text) : text[i].key = key /\ Read(text, key) = text[i].val
    BY <1>1, <1>6, <1>7, ReadFacts
  <2>2. i \in 1..Len(lines) /\ lines[i] = text[i] /\ lines[i] # BlankLine /\ "'" \notin ToSet(text[i].val)
    BY <1>1, <1>2, <2>1
  <2>3. lines[i] \in ToSet(lines)
    BY <2>2, ToSetFacts
  <2>4. QED BY <2>1, <2>2, <2>3
<1>8. ASSUME NEW key \in AuthKeys
      PROVE  "'" \notin ToSet(Read(text, key)) /\ (Odd \/ Size(Read(text, key)) < AuthCaps[key])
  <2>1. CASE HasKey(text, key)
    <3>1. PICK l \in ToSet(lines) \ {BlankLine} : l.key = key /\ l.val = Read(text, key) /\ "'" \notin ToSet(l.val)
      BY <1>7, <2>1
    <3>2. Read(text, key) \in Tokens
      BY <1>1, <1>6, ReadFacts
    <3>3. Size(Read(text, key)) \in Nat /\ AuthCaps[key] \in Nat
      BY <3>2, SizeFacts, BlankIsNoKey
    <3>4. QED BY <3>1, <3>3
  <2>2. CASE ~ HasKey(text, key)
    <3> DEFINE r == Read(text, key)
    <3>1. r = << >>
      BY <2>2 DEF Read
    <3>2. r \in Tokens /\ Len(r) = 0
      BY <3>1 DEF Tokens
    <3> HIDE DEF r
    <3>3. Size(r) = 0 /\ AuthCaps[key] > 0 /\ AuthCaps[key] \in Nat
      BY <3>2, SizeFacts, BlankIsNoKey
    <3>4. \A x : x \notin ToSet(r)
      <4>1. r \in Seq(Token) /\ Len(r) = 0
        BY <3>2 DEF Tokens
      <4>2. \A x : x \in ToSet(r) <=> \E i \in 1..Len(r) : r[i] = x
        BY <4>1, ToSetFacts
      <4>3. 1..Len(r) = {}
        BY <4>1
      <4>4. QED BY <4>2, <4>3
    <3>5. QED BY <3>3, <3>4 DEF r
  <2>3. QED BY <2>1, <2>2
<1>9. ASSUME NEW key \in {"FINGERPRINT", "CONNECT_URL", "RESOLVE"}, HasKey(text, key)
      PROVE  Odd \/ Read(text, key) # << >>
  <2>1. key \in AuthKeys
    BY DEF AuthKeys
  <2>2. PICK l \in ToSet(lines) \ {BlankLine} : l.key = key /\ l.val = Read(text, key)
    BY <1>7, <1>9, <2>1
  <2>3. QED BY <2>2
<1> HIDE DEF Odd
<1>10. CASE HasKey(text, "FINGERPRINT") /\ ~ (CanonFingerprint(Read(text, "FINGERPRINT")) # Refused)
  BY <1>3, <1>9, <1>10
<1>11. CASE HasKey(text, "CONNECT_URL") /\ ~ ParseUrl(Read(text, "CONNECT_URL")).ok
  BY <1>3, <1>9, <1>11
<1>12. CASE HasKey(text, "RESOLVE") /\ ~ (CanonResolve(Read(text, "RESOLVE")) # NoResolve)
  BY <1>3, <1>9, <1>12
<1>13. CASE Odd
  BY <1>13
<1>14. QED BY <1>2, <1>4, <1>5, <1>8, <1>10, <1>11, <1>12, <1>13

-----------------------------------------------------------------------------
(* A file is written or read by a step of its own, so what a command found *)
(* there is still there when its answer is read.                           *)

Answered ==
  /\ last.cmd = "authenticate" => last.lines \in Outputs /\ last.read = ParseAuthOutput(last.lines)
  /\ auth.ok => \E lines \in Outputs : auth = ParseAuthOutput(lines)
  /\ last.cmd = "connect" =>
       /\ last.profile \in Profiles /\ Translates(last.profile.extra)
       /\ last.auth.ok /\ \E lines \in Outputs : last.auth = ParseAuthOutput(lines)
       /\ last.command = Executed(RequestFromArgv(HelperArgs(last.profile, last.auth)))

(* Answers speak of what was there: in every reachable state the session is *)
(* what the shell read of some output, and the last answer is the one its  *)
(* command computed from the files that are still there.                   *)
THEOREM AnsweredHolds == Spec => []Answered
<1>1. Init => Answered
  BY DEF Init, Answered, NoAuth, None
<1>2. ASSUME Answered, [Next]_vars PROVE Answered'
  <2>1. ASSUME NEW a \in Approvals, Approve(a) PROVE Answered'
    <3>1. last'.cmd = "approve" /\ auth' = auth
      BY <2>1 DEF Approve
    <3>2. QED BY <1>2, <3>1 DEF Answered
  <2>2. ASSUME NEW p \in Profiles, ApproveProfile(p) PROVE Answered'
    <3>1. last' = None /\ auth' = NoAuth
      BY <2>2 DEF ApproveProfile
    <3>2. QED BY <3>1 DEF Answered, None, NoAuth
  <2>3. ASSUME NEW p \in Profiles, Connect(p) PROVE Answered'
    <3>1. /\ last'.cmd = "connect" /\ last'.profile = p /\ last'.auth = auth /\ auth.ok
          /\ Translates(p.extra)
          /\ last'.command = Executed(RequestFromArgv(HelperArgs(p, auth)))
          /\ auth' = NoAuth /\ files' = files
      BY <2>3 DEF Connect
    <3>2. QED BY <1>2, <3>1 DEF Answered, NoAuth, Executed, Lookup
  <2>4. ASSUME NEW p \in Profiles, Revoke(<< <<"--profile-id">>, p.id >>) PROVE Answered'
    <3>1. last' = None /\ auth' = auth
      BY <2>4 DEF Revoke
    <3>2. QED BY <1>2, <3>1 DEF Answered, None
  <2>5. ASSUME NEW lines \in Outputs, Authenticate(lines) PROVE Answered'
    <3>1. /\ last'.cmd = "authenticate" /\ last'.lines = lines /\ last'.read = ParseAuthOutput(lines)
          /\ auth' = ParseAuthOutput(lines) \/ auth' = NoAuth
      BY <2>5 DEF Authenticate
    <3>2. QED BY <3>1 DEF Answered, NoAuth
  <2>6. CASE Return
    <3>1. last' = None /\ auth' = auth
      BY <2>6 DEF Return
    <3>2. QED BY <1>2, <3>1 DEF Answered, None
  <2>7. CASE UNCHANGED vars
    <3>1. last' = last /\ auth' = auth /\ files' = files
      BY <2>7 DEF vars
    <3>2. QED BY <1>2, <3>1 DEF Answered, Executed, Lookup
  <2>8. QED BY <1>2, <2>1, <2>2, <2>3, <2>4, <2>5, <2>6, <2>7 DEF Next
<1>3. QED BY <1>1, <1>2, PTL DEF Spec

(* A text over a smaller alphabet is one over a larger.                    *)
LEMMA WiderTexts ==
  ASSUME NEW S, NEW R, R \subseteq S, NEW s \in Seq(R)
  PROVE  s \in Seq(S)
OBVIOUS

(* What OpenConnect prints is a sequence of lines.                         *)
LEMMA OutputsAreLines ==
  ASSUME NEW lines \in Outputs
  PROVE  lines \in Seq(LineSet)
<1>1. Text \subseteq Tokens
  <2>1. STRING \subseteq Token
    BY DEF Token
  <2>2. QED BY <2>1, WiderTexts DEF Text, Tokens
<1>2. [key : STRING, val : Text] \subseteq LineSet
  BY <1>1 DEF LineSet
<1>3. lines \in Seq([key : STRING, val : Text])
  BY TextsAreTexts
<1>4. QED BY <1>2, <1>3, WiderTexts

(* The two decoders of OpenConnect's output agree, on every output.        *)
THEOREM DecodersAgreeHolds == Spec => []DecodersAgree
<1>1. ASSUME Answered PROVE DecodersAgree
  <2> SUFFICES ASSUME last.cmd = "authenticate"
      PROVE  LET shell == last.read
                 c     == ParseAuth(last.lines)
             IN /\ MeetsContract(c) =>
                     /\ shell.ok
                     /\ shell.cookie = c.cookie /\ shell.url = c.url /\ shell.resolve = c.resolve
                     /\ CanonFingerprint(shell.fingerprint) = c.fingerprint
                /\ shell.ok /\ ~ ParseAuth(Captured(last.lines)).ok =>
                     \/ shell.fingerprint # << >> /\ CanonFingerprint(shell.fingerprint) = Refused
                     \/ shell.url # << >> /\ ~ ParseUrl(shell.url).ok
                     \/ shell.resolve # << >> /\ CanonResolve(shell.resolve) = NoResolve
                     \/ \E l \in ToSet(last.lines) \ {BlankLine} :
                          \/ Size(l.val) >= AuthCaps[l.key]
                          \/ l.val = << >> /\ l.key \in {"FINGERPRINT", "CONNECT_URL", "RESOLVE"}
    BY DEF DecodersAgree
  <2>1. last.lines \in Seq(LineSet) /\ last.read = ParseAuthOutput(last.lines)
    BY <1>1, OutputsAreLines DEF Answered
  <2>2. QED BY <2>1, ShellTakesIt, OnlyTheShell
<1>2. QED BY <1>1, AnsweredHolds, PTL

-----------------------------------------------------------------------------
(* A host canon_host returns: the literal or a name, short enough, and     *)
(* itself when it is read again.                                           *)

Canonical(h) == /\ h \in Tokens /\ h # << >> /\ Size(h) < HostMax
                /\ h = Literal6 \/ Named(h)
                /\ CanonHost(h) = h

(* A host with a name begins with a host character and has no colon.       *)
LEMMA NamedFacts ==
  ASSUME NEW h, Named(h)
  PROVE  /\ Len(h) \in Nat \ {0} /\ h \in Seq(Token) /\ h[1] \in HostChars
         /\ h[1] # "["
         /\ Find(h, V6 \cup {":"}) = 0
<1>1. h \in Seq(Token) /\ Len(h) # 0 /\ Len(h) \in Nat
  BY EmptyText DEF Named, Tokens
<1>2. HostChars \cap (V6 \cup {":"}) = {} /\ "[" \notin HostChars
  BY HostCharsFacts DEF V6
<1>3. \A i \in 1..Len(h) : h[i] \notin V6 \cup {":"}
  BY <1>2 DEF Named
<1>4. Find(h, V6 \cup {":"}) = 0
  BY <1>1, <1>3, FindNone
<1>5. h[1] \in HostChars
  BY <1>1 DEF Named
<1>6. QED BY <1>1, <1>2, <1>4, <1>5

(* A dotted quad is its own canonical form.                                *)
LEMMA QuadIsCanonical ==
  ASSUME NEW h \in Tokens, IsQuad(h), Size(h) < HostMax
  PROVE  Canonical(h)
<1>1. h # << >> /\ \A i \in 1..Len(h) : h[i] = "." \/ h[i] \in Digits
  BY QuadFacts
<1>2. Len(h) # 0 /\ Len(h) \in Nat
  BY <1>1, EmptyText DEF Tokens
<1>3. Named(h)
  <2>1. \A i \in 1..Len(h) : h[i] \in HostChars /\ h[i] # "-"
    BY <1>1, HostCharsFacts DEF HostChars
  <2>2. QED BY <1>1, <1>2, <2>1 DEF Named
<1>4. h[1] # "[" /\ Find(h, V6 \cup {":"}) = 0
  BY <1>3, NamedFacts
<1>5. Size(h) \in Nat /\ HostMax \in Nat
  BY SizeFacts DEF HostMax
<1>6. CanonHost(h) = h
  BY <1>1, <1>4, <1>5 DEF CanonHost
<1>7. QED BY <1>1, <1>3, <1>6 DEF Canonical

(* The name of a host: without a dot at its end.                           *)
Undotted(host) == IF Last(host) = "." THEN Front(host) ELSE host

(* Leaving out the dot at the end shortens a name and keeps the rest.      *)
LEMMA UndottedFacts ==
  ASSUME NEW host \in Tokens, host # << >>
  PROVE  /\ Undotted(host) \in Tokens /\ Len(Undotted(host)) <= Len(host)
         /\ Len(host) \in Nat \ {0}
         /\ \A i \in 1..Len(Undotted(host)) : Undotted(host)[i] = host[i]
<1>1. host \in Seq(Token) /\ Len(host) # 0 /\ Len(host) \in Nat
  BY EmptyText DEF Tokens
<1>2. /\ Front(host) \in Seq(Token) /\ Len(Front(host)) = Len(host) - 1
      /\ \A i \in 1..Len(Front(host)) : Front(host)[i] = host[i]
  <2>1. Front(host) = Upto(host, Len(host) - 1)
    BY <1>1 DEF Front, Upto
  <2>2. Len(host) - 1 \in Nat /\ Len(host) - 1 < Len(host)
    BY <1>1
  <2>3. QED BY <1>1, <2>1, <2>2, UptoFacts
<1>3. QED BY <1>1, <1>2 DEF Undotted, Tokens

(* The canonical form of a name is in canonical form.                      *)
LEMMA NameIsCanonical ==
  ASSUME NEW host \in Tokens, host # << >>, CanonName(host) # << >>
  PROVE  Canonical(CanonName(host)) /\ host[1] \in LabelChars \ {"-"}
<1> DEFINE name == Undotted(host)
           low  == Lowered(name)
<1>0. name \in Tokens /\ Len(name) <= Len(host) /\ Len(host) \in Nat \ {0} /\ \A i \in 1..Len(name) : name[i] = host[i]
  BY UndottedFacts
<1>1. Size(name) \in 1..253 /\ ValidLabels(name) /\ CanonName(host) = low
  BY DEF CanonName, Undotted, Refused
<1> HIDE DEF name
<1>2. /\ name # << >>
      /\ \A i \in 1..Len(name) : name[i] = "." \/ name[i] \in LabelChars
      /\ name[1] \in LabelChars \ {"-"} /\ name[Len(name)] # "."
  BY <1>0, <1>1, NameFacts
<1>3. /\ low \in Tokens /\ Len(low) = Len(name) /\ Lowered(low) = low /\ Size(low) = Size(name)
      /\ \A i \in 1..Len(name) : low[i] = Low(name[i]) /\ name[i] \in Token
  BY <1>0, LoweredFacts
<1>4. Len(name) \in Nat \ {0}
  <2>1. Len(name) # 0 /\ Len(name) \in Nat
    BY <1>0, <1>2, EmptyText DEF Tokens
  <2>2. QED BY <2>1
<1>5. ValidLabels(low)
  BY <1>0, <1>1, LoweredName
<1> HIDE DEF low
<1>6. \A i \in 1..Len(name) : /\ low[i] \in HostChars
                              /\ low[i] = "." <=> name[i] = "."
                              /\ low[i] = "-" <=> name[i] = "-"
  <2>1. {".", "-"} \subseteq Other \ {"https://", "HTTPS://", "vpn", "VPN", "2001:db8::1", "2001:DB8::1"}
    BY DEF Other
  <2>2. \A i \in 1..Len(name) : (low[i] = "." <=> name[i] = ".") /\ (low[i] = "-" <=> name[i] = "-")
    BY <1>3, <2>1, LowFacts
  <2>3. \A i \in 1..Len(name) : low[i] \in LabelChars <=> name[i] \in LabelChars
    BY <1>3, LowFacts
  <2>4. QED BY <1>2, <2>2, <2>3 DEF HostChars
<1>7. low # << >> /\ low[1] # "-" /\ low[Len(low)] # "."
  <2>1. 1 \in 1..Len(name) /\ Len(name) \in 1..Len(name)
    BY <1>4
  <2>2. Len(low) # 0 /\ low \in Seq(Token)
    BY <1>3, <1>4 DEF Tokens
  <2>3. QED BY <1>2, <1>3, <1>6, <2>1, <2>2, EmptyText
<1>8. Named(low)
  BY <1>3, <1>6, <1>7 DEF Named
<1>9. Size(low) < HostMax /\ Size(low) \in Nat /\ ~ (Size(low) >= HostMax)
  <2>1. Size(name) \in 1..253
    BY <1>1
  <2> DEFINE n == Size(low)
  <2>2. n \in 1..253
    BY <2>1, <1>3
  <2> HIDE DEF n
  <2>3. n < 256 /\ n \in Nat /\ ~ (n >= 256)
    BY <2>2
  <2>4. QED BY <2>3 DEF n, HostMax
<1>10. CanonName(low) = low
  <2>1. Undotted(low) = low
    BY <1>7 DEF Undotted, Last
  <2>2. QED BY <1>1, <1>3, <1>5, <2>1 DEF CanonName, Undotted
<1>11. CanonHost(low) = low
  <2>1. low[1] # "[" /\ Find(low, V6 \cup {":"}) = 0
    BY <1>8, NamedFacts
  <2>2. QED BY <1>7, <1>9, <1>10, <2>1 DEF CanonHost
<1>12. Canonical(low)
  BY <1>3, <1>7, <1>8, <1>9, <1>11 DEF Canonical
<1>13. host[1] = name[1]
  BY <1>0, <1>4
<1>14. QED BY <1>1, <1>2, <1>12, <1>13

(* What canon_host returns is in canonical form, and what it accepts is    *)
(* short and does not look like a flag.                                    *)
LEMMA CanonHostFacts ==
  ASSUME NEW host \in Tokens, CanonHost(host) # << >>
  PROVE  /\ Canonical(CanonHost(host))
         /\ host # << >> /\ Size(host) < HostMax
         /\ host[1] \notin Flags \cup {"-", "--"}
<1>1. host # << >> /\ ~ (Size(host) >= HostMax) /\ Len(host) \in Nat \ {0}
  <2>1. host # << >> /\ ~ (Size(host) >= HostMax)
    BY DEF CanonHost, Refused
  <2>2. Len(host) # 0 /\ Len(host) \in Nat
    BY <2>1, EmptyText DEF Tokens
  <2>3. QED BY <2>1, <2>2
<1>2. Size(host) < HostMax
  BY <1>1, SizeFacts DEF HostMax
<1>3. CASE host[1] = "["
  <2> DEFINE addr == CanonV6(SubSeq(host, 2, Len(host) - 1))
  <2>1. CanonHost(host) = CanonLiteral(host)
    BY <1>1, <1>3 DEF CanonHost
  <2>2. addr # << >> /\ CanonLiteral(host) = <<"[">> \o addr \o <<"]">>
    BY <2>1 DEF CanonLiteral, Refused
  <2>3. SubSeq(host, 2, Len(host) - 1) \in Tokens
    BY <1>1 DEF Tokens
  <2>4. addr = <<"2001:db8::1">>
    BY <2>2, <2>3, CanonV6Facts
  <2>5. CanonHost(host) = Literal6
    <3>1. "[" \in Token /\ "]" \in Token /\ "2001:db8::1" \in Token
      BY DEF Token, Other
    <3>2. QED BY <2>1, <2>2, <2>4, <3>1, JoinThree DEF Literal6
  <2>6. Canonical(Literal6)
    BY Literal6Facts DEF Canonical
  <2>7. "[" \notin Flags \cup {"-", "--"}
    BY DEF Flags
  <2>8. QED BY <1>1, <1>2, <1>3, <2>5, <2>6, <2>7
<1>4. CASE host[1] # "[" /\ IsQuad(host)
  <2>1. CanonHost(host) = host
    BY <1>1, <1>4 DEF CanonHost, Refused
  <2>2. host[1] = "." \/ host[1] \in Digits
    BY <1>1, <1>4, QuadFacts
  <2>3. host[1] \notin Flags \cup {"-", "--"}
    BY <2>2, HostCharsFacts DEF HostChars
  <2>4. QED BY <1>1, <1>2, <1>4, <2>1, <2>3, QuadIsCanonical
<1>5. CASE host[1] # "[" /\ ~ IsQuad(host)
  <2>1. CanonHost(host) = CanonName(host)
    BY <1>1, <1>5 DEF CanonHost, Refused
  <2>2. Canonical(CanonName(host)) /\ host[1] \in LabelChars \ {"-"}
    BY <1>1, <2>1, NameIsCanonical
  <2>3. host[1] \notin Flags \cup {"-", "--"}
    BY <2>2, HostCharsFacts DEF HostChars
  <2>4. QED BY <1>1, <1>2, <2>1, <2>2, <2>3
<1>6. QED BY <1>3, <1>4, <1>5

-----------------------------------------------------------------------------
(* Host and port, written and read.                                        *)

(* One token and a text: their length, head and tail.                      *)
LEMMA HeadTail ==
  ASSUME NEW S, NEW c \in S, NEW t \in Seq(S)
  PROVE  /\ <<c>> \o t \in Seq(S) /\ Len(<<c>> \o t) = Len(t) + 1
         /\ (<<c>> \o t)[1] = c /\ Tail(<<c>> \o t) = t /\ <<c>> \o t # << >>
         /\ \A i \in 1..Len(t) : (<<c>> \o t)[i + 1] = t[i]
<1> DEFINE y == <<c>> \o t
<1>1. <<c>> \in Seq(S) /\ Len(<<c>>) = 1 /\ <<c>>[1] = c /\ Len(t) \in Nat
  OBVIOUS
<1>2. y \in Seq(S) /\ Joins(y, <<c>>, t)
  BY <1>1, Joint
<1>3. Len(y) = Len(t) + 1 /\ y[1] = c /\ \A i \in 1..Len(t) : y[i + 1] = t[i]
  <2>1. Len(y) = 1 + Len(t) /\ y[1] = c
    BY <1>1, <1>2 DEF Joins
  <2>2. \A i \in 1..Len(t) : y[1 + i] = t[i]
    BY <1>1, <1>2 DEF Joins
  <2>3. QED BY <1>1, <2>1, <2>2
<1> HIDE DEF y
<1>4. Tail(y) \in Seq(S) /\ Len(Tail(y)) = Len(t) /\ \A i \in 1..Len(t) : Tail(y)[i] = t[i]
  <2>1. Len(y) # 0
    BY <1>1, <1>3
  <2>2. y # << >>
    BY <1>2, <2>1, EmptyText
  <2>3. Tail(y) \in Seq(S) /\ Len(Tail(y)) = Len(y) - 1 /\ \A i \in 1..Len(y) - 1 : Tail(y)[i] = y[i + 1]
    BY <1>2, <2>2
  <2>4. QED BY <1>1, <1>3, <2>3
<1>5. Tail(y) = t /\ y # << >>
  BY <1>1, <1>2, <1>3, <1>4, SameText
<1>6. QED BY <1>1, <1>2, <1>3, <1>5 DEF y

(* y is s, c and t: what is before the separator and what is after it.     *)
Parted(y, s, c, t) ==
  /\ Len(y) = Len(s) + 1 + Len(t) /\ y[Len(s) + 1] = c
  /\ \A i \in 1..Len(s) : y[i] = s[i]
  /\ \A i \in 1..Len(t) : y[Len(s) + 1 + i] = t[i]
  /\ Upto(y, Len(s)) = s /\ From(y, Len(s) + 2) = t

(* Two texts and the token between them.                                   *)
LEMMA Separated ==
  ASSUME NEW S, NEW s \in Seq(S), NEW c \in S, NEW t \in Seq(S)
  PROVE  s \o <<c>> \o t \in Seq(S) /\ Parted(s \o <<c>> \o t, s, c, t)
<1> DEFINE z == s \o <<c>>
           y == z \o t
<1>1. <<c>> \in Seq(S) /\ Len(<<c>>) = 1 /\ <<c>>[1] = c /\ Len(t) \in Nat /\ Len(s) \in Nat
  OBVIOUS
<1>2. z \in Seq(S) /\ Joins(z, s, <<c>>)
  BY <1>1, Joint
<1>3. Len(z) = Len(s) + 1 /\ z[Len(s) + 1] = c /\ \A i \in 1..Len(s) : z[i] = s[i]
  BY <1>1, <1>2 DEF Joins
<1> HIDE DEF z
<1>4. y \in Seq(S) /\ Joins(y, z, t)
  BY <1>2, Joint
<1> HIDE DEF y
<1>5. /\ Len(y) = Len(s) + 1 + Len(t) /\ y[Len(s) + 1] = c
      /\ \A i \in 1..Len(s) : y[i] = s[i]
      /\ \A i \in 1..Len(t) : y[Len(s) + 1 + i] = t[i]
  BY <1>1, <1>3, <1>4 DEF Joins
<1>6. Upto(y, Len(s)) = s
  <2>1. /\ Upto(y, Len(s)) \in Seq(S) /\ Len(Upto(y, Len(s))) = Len(s)
        /\ \A j \in 1..Len(s) : Upto(y, Len(s))[j] = y[j]
    BY <1>1, <1>4, <1>5, UptoFacts
  <2>2. QED BY <1>5, <2>1, SameText
<1>7. From(y, Len(s) + 2) = t
  <2> DEFINE k == Len(s) + 2
  <2>1. k \in Nat \ {0}
    BY <1>1
  <2>2. /\ From(y, k) \in Seq(S) /\ Len(From(y, k)) = IF k <= Len(y) THEN Len(y) - k + 1 ELSE 0
        /\ \A j \in 1..Len(From(y, k)) : From(y, k)[j] = y[k + j - 1]
    <3> HIDE DEF k
    <3>1. QED BY <1>4, <2>1, FromFacts
  <2>3. Len(From(y, k)) = Len(t)
    BY <1>1, <1>5, <2>2
  <2>4. \A j \in 1..Len(t) : From(y, k)[j] = t[j]
    <3>1. \A j \in 1..Len(t) : k + j - 1 = Len(s) + 1 + j
      BY <1>1
    <3>2. QED BY <1>5, <2>2, <2>3, <3>1
  <2> HIDE DEF k
  <2>5. From(y, k) = t
    BY <2>2, <2>3, <2>4, SameText
  <2>6. QED BY <2>5 DEF k
<1>8. QED BY <1>4, <1>5, <1>6, <1>7 DEF Parted, y, z

(* What a canonical host and port consist of.                              *)
AddressChars == HostChars \cup {"[", "]", "2001:db8::1"}

(* A digit is one byte long.                                               *)
LEMMA DigitWidth ==
  \A c \in Digits : Width(c) = 1
<1>1. SUFFICES ASSUME NEW c \in Digits PROVE Width(c) = 1
  OBVIOUS
<1>2. PICK v \in 0..63 : c = Letter(v)
  BY DEF Digits, Among
<1>3. c \notin Other
  BY <1>2, LetterFacts
<1>4. v + 1 \in 1..64 /\ c = Alphabet[v + 1]
  BY <1>2 DEF Letter
<1>5. c # "path" /\ c # "ua128"
  BY <1>4, LongTokens
<1>6. QED BY <1>3, <1>5 DEF Width, Other

MaxPort == 65535
Ports   == 1..MaxPort

(* Ports have five digits at most.                                         *)
LEMMA PortRange ==
  MaxPort \in Nat /\ MaxPort < 10 * Tens[5]
BY DEF Tens, MaxPort

(* A number below 100000 is written in at most five digits.                *)
LEMMA ShortNumber ==
  ASSUME NEW n \in Nat, n < 10 * Tens[5]
  PROVE  /\ Decimal(n) \in Tokens /\ Decimal(n) # << >> /\ Size(Decimal(n)) <= 5
         /\ \A i \in 1..Len(Decimal(n)) : Decimal(n)[i] \in Digits
<1> DEFINE d == Decimal(n)
<1>1. /\ d \in Tokens /\ Len(d) \in 1..5 /\ \A i \in 1..Len(d) : d[i] \in Digits
  BY DecimalFacts
<1> HIDE DEF d
<1>2. \A i \in 1..Len(d) : Width(d[i]) = 1
  BY <1>1, DigitWidth
<1>3. Size(d) = Len(d)
  BY <1>1, <1>2, SizeOfCharacters
<1>4. Len(d) # 0 /\ Len(d) <= 5
  BY <1>1
<1>5. d # << >>
  BY <1>1, <1>4, EmptyText DEF Tokens
<1>6. QED BY <1>1, <1>3, <1>4, <1>5 DEF d

(* A port in decimal reads back as the port.                               *)
LEMMA PortFacts ==
  ASSUME NEW n \in Ports
  PROVE  n \in Nat /\ n < 10 * Tens[5] /\ ParseBounded(Decimal(n), 1, 65535) = n
<1> DEFINE lo == 1
           max == 10 * Tens[5]
<1>1. lo \in Nat /\ n \in lo..MaxPort /\ n \in Nat /\ n <= MaxPort /\ MaxPort \in Nat
  BY PortRange DEF Ports
<1>2. max \in Nat /\ MaxPort < max
  BY PortRange DEF Tens
<1> HIDE DEF lo, max
<1>3. n < max
  BY <1>1, <1>2
<1>4. ParseBounded(Decimal(n), lo, MaxPort) = n
  BY <1>1, <1>2, PortRange, ReadBackNumber DEF max
<1>5. QED BY <1>1, <1>3, <1>4 DEF lo, max, MaxPort

(* An end that leads somewhere: a canonical host and a port.               *)
Led(end) == /\ Canonical(end.host) /\ end.port \in Ports
            /\ end = [host |-> end.host, port |-> end.port]

(* Splitting at the port gives texts.                                      *)
LEMMA HostPortType ==
  ASSUME NEW text \in Tokens
  PROVE  HostPort(text).host \in Tokens /\ HostPort(text).has_port \in BOOLEAN
<1> DEFINE close == Find(text, {"]"})
           colon == IF text # << >> /\ text[1] = "["
                    THEN IF close \in 1..(Len(text) - 1) /\ text[close + 1] = ":" THEN close + 1 ELSE 0
                    ELSE FindLast(text, {":"})
<1>1. text \in Seq(Token) /\ Len(text) \in Nat
  BY DEF Tokens
<1>2. close \in 0..Len(text) /\ FindLast(text, {":"}) \in 0..Len(text)
  BY <1>1, FindFacts, FindLastFacts
<1>3. colon \in Nat
  <2> HIDE DEF close
  <2> DEFINE k == FindLast(text, {":"})
  <2>1. k \in 0..Len(text)
    BY <1>2
  <2> HIDE DEF k
  <2>2. CASE text # << >> /\ text[1] = "["
    BY <1>1, <1>2, <2>2
  <2>3. CASE ~ (text # << >> /\ text[1] = "[")
    <3>1. colon = k
      BY <2>3 DEF k
    <3> HIDE DEF colon
    <3>2. QED BY <1>1, <2>1, <3>1
  <2>4. QED BY <2>2, <2>3
<1>4. HostPort(text) = IF colon = 0 THEN [host |-> text, has_port |-> FALSE, port |-> << >>]
     ELSE [host |-> Upto(text, colon - 1), has_port |-> TRUE, port |-> From(text, colon + 1)]
  BY DEF HostPort
<1> HIDE DEF colon
<1>5. CASE colon = 0
  BY <1>4, <1>5
<1>6. CASE colon # 0
  <2>1. colon - 1 \in Nat
    BY <1>3, <1>6
  <2>2. Upto(text, colon - 1) \in Tokens
    BY <1>1, <2>1, UptoFacts DEF Tokens
  <2>3. QED BY <1>4, <1>6, <2>2
<1>7. QED BY <1>5, <1>6

(* A bounded number is refused or within its bounds.                       *)
LEMMA ParseBoundedType ==
  ASSUME NEW text, NEW lo, NEW hi
  PROVE  ParseBounded(text, lo, hi) = Refusal \/ ParseBounded(text, lo, hi) \in lo..hi
BY DEF ParseBounded

(* What parse_endpoint accepts leads to a canonical host and a port.       *)
LEMMA EndpointFacts ==
  ASSUME NEW text \in Tokens, NEW default, default = Refusal \/ default \in Ports, Leads(Endpoint(HostPort(text), default))
  PROVE  /\ Led(Endpoint(HostPort(text), default))
         /\ CanonHost(HostPort(text).host) # << >>
         /\ default = Refusal => HostPort(text).has_port
<1> DEFINE hp  == HostPort(text)
           end == Endpoint(hp, default)
           n   == ParseBounded(hp.port, 1, 65535)
<1>1. hp.host \in Tokens /\ hp.has_port \in BOOLEAN
  BY HostPortType
<1> HIDE DEF hp
<1>2. n = Refusal \/ n \in Ports
  <2> DEFINE p == hp.port
             lo == 1
  <2> HIDE DEF p, lo
  <2>1. ParseBounded(p, lo, MaxPort) = Refusal \/ ParseBounded(p, lo, MaxPort) \in lo..MaxPort
    BY ParseBoundedType
  <2>2. Ports = lo..MaxPort
    BY DEF Ports, lo
  <2>3. n = ParseBounded(p, lo, MaxPort)
    BY DEF p, lo, MaxPort
  <2> HIDE DEF n
  <2>4. QED BY <2>1, <2>2, <2>3
<1>3. end = [host |-> CanonHost(hp.host), port |-> IF hp.has_port THEN n ELSE default]
  BY DEF Endpoint
<1>4. end.host # << >> /\ end.port # Refusal
  BY DEF Leads, Refused, hp
<1> HIDE DEF n, end
<1>5. end.host = CanonHost(hp.host) /\ end.port = IF hp.has_port THEN n ELSE default
  BY <1>3
<1>6. end = [host |-> end.host, port |-> end.port]
  BY <1>3, <1>5
<1>7. end.port \in Ports
  BY <1>2, <1>4, <1>5
<1>8. Canonical(end.host)
  BY <1>1, <1>4, <1>5, CanonHostFacts
<1>9. default = Refusal => hp.has_port
  BY <1>1, <1>4, <1>5
<1>10. QED BY <1>4, <1>5, <1>6, <1>7, <1>8, <1>9 DEF Led, end, hp

(* A canonical host is made of these, and its colon is looked up well.     *)
LEMMA CanonicalChars ==
  ASSUME NEW h, Canonical(h)
  PROVE  /\ h \in Tokens /\ h \in Seq(Token) /\ Len(h) \in Nat \ {0}
         /\ \A i \in 1..Len(h) : h[i] \in AddressChars
         /\ h[1] = "[" => h = Literal6
<1>1. h \in Seq(Token) /\ Len(h) \in Nat \ {0}
  <2>1. Len(h) # 0 /\ Len(h) \in Nat
    BY EmptyText DEF Canonical, Tokens
  <2>2. QED BY <2>1 DEF Canonical, Tokens
<1>2. CASE h = Literal6
  <2>1. \A i \in 1..3 : Literal6[i] \in AddressChars
    <3>1. Literal6[1] \in AddressChars /\ Literal6[2] \in AddressChars /\ Literal6[3] \in AddressChars
      BY Literal6Facts DEF AddressChars
    <3>2. QED BY <3>1
  <2>2. QED BY <1>1, <1>2, <2>1, Literal6Facts DEF Canonical
<1>3. CASE Named(h)
  <2>1. h[1] # "["
    BY <1>3, NamedFacts
  <2>2. QED BY <1>1, <1>3, <2>1 DEF Named, AddressChars, Canonical
<1>4. QED BY <1>2, <1>3 DEF Canonical

(* The characters of an address are no separators or prefixes.             *)
LEMMA AddressCharsFacts ==
  /\ AddressChars \cap {":", "/", "?", "@", "sp", "ctl", "#", "=", "--", "https://", "HTTPS://"} = {}
  /\ Digits \cap {":", "/", "?", "@", "sp", "ctl", "#", "=", "[", "]", "-", "--", "2001:db8::1", "2001:DB8::1"} = {}
<1>1. HostChars \cap {":", "/", "?", "@", "sp", "ctl", "#", "[", "]", "=", "--", "2001:db8::1", "2001:DB8::1", "https://", "HTTPS://"} = {}
  BY HostCharsFacts
<1>2. AddressChars \cap {":", "/", "?", "@", "sp", "ctl", "#", "=", "--", "https://", "HTTPS://"} = {}
  BY <1>1 DEF AddressChars
<1>3. QED BY <1>1, <1>2, HostCharsFacts

(* Host and port as they are written: type, size and parts.                *)
LEMMA AtFacts ==
  ASSUME NEW end, Led(end)
  PROVE  /\ At(end) \in Tokens /\ At(end) # << >> /\ Size(At(end)) < HostMax + 8
         /\ Parted(At(end), end.host, ":", Decimal(end.port))
         /\ \A i \in 1..Len(At(end)) : At(end)[i] \in AddressChars \cup {":"}
<1> DEFINE h == end.host
           d == Decimal(end.port)
           y == h \o <<":">> \o d
<1>1. /\ h \in Tokens /\ h \in Seq(Token) /\ Len(h) \in Nat \ {0} /\ \A i \in 1..Len(h) : h[i] \in AddressChars
      /\ Size(h) < HostMax
  <2>1. Canonical(h)
    BY DEF Led
  <2>2. Size(h) < HostMax
    BY <2>1 DEF Canonical
  <2>3. QED BY <2>1, <2>2, CanonicalChars
<1>2. d \in Tokens /\ d # << >> /\ Size(d) <= 5 /\ \A i \in 1..Len(d) : d[i] \in Digits
  <2>1. end.port \in Nat /\ end.port < 10 * Tens[5]
    BY PortFacts DEF Led
  <2>2. QED BY <2>1, ShortNumber
<1>3. d \in Seq(Token) /\ Len(d) \in Nat /\ ":" \in Token
  BY <1>2 DEF Tokens, Token, Other
<1> HIDE DEF h, d
<1>4. y \in Seq(Token) /\ Parted(y, h, ":", d)
  BY <1>1, <1>3, Separated
<1>5. Size(y) < HostMax + 8
  <2> DEFINE c == <<":">>
             z == h \o c
  <2>1. c \in Tokens /\ Len(c) = 1 /\ c[1] = ":"
    BY <1>3 DEF Tokens
  <2> HIDE DEF c
  <2>2. Size(c) = Width(":")
    BY <2>1, SizeOne
  <2>3. Width(":") = 1
    BY DEF Width
  <2>4. z \in Tokens /\ Size(z) = Size(h) + Size(c)
    BY <1>1, <2>1, SizeJoint
  <2> HIDE DEF z
  <2>5. Size(z \o d) = Size(z) + Size(d)
    BY <1>2, <2>4, SizeJoint
  <2>6. y = z \o d
    BY DEF z, c
  <2>7. Size(h) \in Nat /\ Size(d) \in Nat /\ HostMax \in Nat
    BY <1>1, <1>2, SizeFacts DEF HostMax
  <2> DEFINE sh == Size(h)
             sd == Size(d)
             sy == Size(y)
  <2>8. sy = sh + 1 + sd
    BY <2>2, <2>3, <2>4, <2>5, <2>6
  <2>9. sh < HostMax /\ sd <= 5 /\ sh \in Nat /\ sd \in Nat /\ HostMax \in Nat
    BY <1>1, <1>2, <2>7
  <2> HIDE DEF sh, sd, sy
  <2>10. sy < HostMax + 8
    BY <2>8, <2>9
  <2>11. QED BY <2>10 DEF sy
<1>6. \A i \in 1..Len(y) : y[i] \in AddressChars \cup {":"}
  <2>1. Digits \subseteq AddressChars
    BY HostCharsFacts DEF AddressChars
  <2> SUFFICES ASSUME NEW i \in 1..Len(y) PROVE y[i] \in AddressChars \cup {":"}
    OBVIOUS
  <2>2. /\ Len(y) = Len(h) + 1 + Len(d) /\ y[Len(h) + 1] = ":"
        /\ \A k \in 1..Len(h) : y[k] = h[k]
        /\ \A k \in 1..Len(d) : y[Len(h) + 1 + k] = d[k]
    BY <1>4 DEF Parted
  <2> HIDE DEF y
  <2>3. CASE i \in 1..Len(h)
    BY <1>1, <2>2, <2>3
  <2>4. CASE i = Len(h) + 1
    BY <2>2, <2>4
  <2>5. CASE i - Len(h) - 1 \in 1..Len(d)
    <3> DEFINE k == i - Len(h) - 1
    <3>1. k \in 1..Len(d) /\ i = Len(h) + 1 + k
      BY <1>1, <2>5
    <3> HIDE DEF k
    <3>2. y[i] = d[k]
      BY <2>2, <3>1
    <3>3. QED BY <1>2, <2>1, <3>1, <3>2
  <2>6. QED BY <1>1, <1>3, <2>2, <2>3, <2>4, <2>5
<1>7. y # << >>
  <2>1. Len(y) # 0
    BY <1>1, <1>3, <1>4 DEF Parted
  <2> HIDE DEF y
  <2>2. QED BY <1>4, <2>1, EmptyText
<1>8. At(end) = y
  BY DEF At, h, d
<1> HIDE DEF y
<1>9. QED BY <1>4, <1>5, <1>6, <1>7, <1>8 DEF Tokens, h, d

(* Where the host of a text ends, when it is a canonical one.              *)
LEMMA LiteralBefore ==
  ASSUME NEW y \in Seq(Token), NEW h, NEW t \in Seq(Token), h = Literal6, Parted(y, h, ":", t)
  PROVE  /\ y # << >> /\ y[1] = "[" /\ Len(h) = 3
         /\ Find(y, {"]"}) = 3 /\ 3 \in 1..(Len(y) - 1) /\ y[3 + 1] = ":"
<1>1. Len(h) = 3 /\ h[1] = "[" /\ h[2] = "2001:db8::1" /\ h[3] = "]"
  BY Literal6Facts
<1>2. /\ Len(y) = 3 + 1 + Len(t) /\ y[4] = ":" /\ Len(t) \in Nat /\ Len(y) \in Nat
      /\ y[1] = "[" /\ y[2] = "2001:db8::1" /\ y[3] = "]"
  <2>1. Len(y) = Len(h) + 1 + Len(t) /\ y[Len(h) + 1] = ":" /\ \A i \in 1..Len(h) : y[i] = h[i]
    BY DEF Parted
  <2>2. 1 \in 1..3 /\ 2 \in 1..3 /\ 3 \in 1..3 /\ 3 + 1 = 4
    OBVIOUS
  <2>3. QED BY <1>1, <2>1, <2>2
<1>3. Find(y, {"]"}) = 3
  <2>1. 3 \in 1..Len(y) /\ \A i \in 1..(3 - 1) : y[i] \notin {"]"}
    BY <1>2
  <2>2. y[3] \in {"]"}
    BY <1>2
  <2>3. QED BY <2>1, <2>2, FindIs
<1>4. y # << >>
  BY <1>2
<1>5. 3 \in 1..(Len(y) - 1)
  BY <1>2
<1>6. QED BY <1>1, <1>2, <1>3, <1>4, <1>5

(* Before a host with a name ends, there is no colon.                      *)
LEMMA NameBefore ==
  ASSUME NEW y \in Seq(Token), NEW h, NEW t \in Seq(Token), Named(h), Parted(y, h, ":", t)
  PROVE  /\ y # << >> /\ y[1] # "["
         /\ Find(y, {":"}) = Len(h) + 1
         /\ ":" \notin ToSet(t) => FindLast(y, {":"}) = Len(h) + 1
<1>1. Len(h) \in Nat \ {0} /\ h \in Seq(Token) /\ h[1] # "[" /\ \A i \in 1..Len(h) : h[i] # ":"
  BY NamedFacts, HostCharsFacts DEF Named
<1>2. /\ Len(y) = Len(h) + 1 + Len(t) /\ y[Len(h) + 1] = ":" /\ Len(t) \in Nat /\ Len(y) \in Nat
      /\ \A i \in 1..Len(h) : y[i] = h[i]
      /\ \A i \in 1..Len(t) : y[Len(h) + 1 + i] = t[i]
  BY DEF Parted
<1> DEFINE k == Len(h) + 1
<1>3. k \in 1..Len(y) /\ y[k] \in {":"} /\ \A i \in 1..(k - 1) : y[i] \notin {":"}
  BY <1>1, <1>2
<1>4. Find(y, {":"}) = k
  <2> HIDE DEF k
  <2>1. QED BY <1>3, FindIs
<1>5. ASSUME ":" \notin ToSet(t) PROVE FindLast(y, {":"}) = k
  <2>1. \A i \in 1..Len(t) : t[i] # ":"
    BY <1>5, ToSetFacts
  <2>2. ASSUME NEW i \in k + 1..Len(y) PROVE y[i] \notin {":"}
    <3> DEFINE j == i - k
    <3>1. j \in 1..Len(t) /\ i = Len(h) + 1 + j
      BY <1>1, <1>2
    <3> HIDE DEF j
    <3>2. y[i] = t[j]
      BY <1>2, <3>1
    <3>3. QED BY <2>1, <3>1, <3>2
  <2> HIDE DEF k
  <2>3. QED BY <1>3, <2>2, FindLastIs
<1>6. y # << >> /\ y[1] # "["
  BY <1>1, <1>2
<1>7. QED BY <1>4, <1>5, <1>6

(* A canonical host and port are split where they were joined.             *)
LEMMA HostPortAt ==
  ASSUME NEW end, Led(end)
  PROVE  HostPort(At(end)) = [host |-> end.host, has_port |-> TRUE, port |-> Decimal(end.port)]
<1> DEFINE y == At(end)
           h == end.host
           t == Decimal(end.port)
           close == Find(y, {"]"})
           colon == IF y # << >> /\ y[1] = "["
                    THEN IF close \in 1..(Len(y) - 1) /\ y[close + 1] = ":" THEN close + 1 ELSE 0
                    ELSE FindLast(y, {":"})
<1>1. y \in Seq(Token) /\ Parted(y, h, ":", t) /\ Canonical(h)
  BY AtFacts DEF Tokens, Led
<1>2. t \in Seq(Token) /\ ":" \notin ToSet(t)
  <2>1. end.port \in Nat /\ end.port < 10 * Tens[5]
    BY PortFacts DEF Led
  <2>2. t \in Tokens /\ \A i \in 1..Len(t) : t[i] \in Digits
    BY <2>1, ShortNumber
  <2> HIDE DEF t
  <2>3. t \in Seq(Token)
    BY <2>2 DEF Tokens
  <2>4. QED BY <2>2, <2>3, AddressCharsFacts, ToSetFacts
<1> HIDE DEF y, h, t
<1>3. colon = Len(h) + 1 /\ Len(h) \in Nat \ {0}
  <2>1. Len(h) \in Nat \ {0}
    BY <1>1, CanonicalChars
  <2>2. CASE h = Literal6
    <3>1. /\ y # << >> /\ y[1] = "[" /\ Len(h) = 3
          /\ close = 3 /\ 3 \in 1..(Len(y) - 1) /\ y[3 + 1] = ":"
      BY <1>1, <1>2, <2>2, LiteralBefore
    <3> HIDE DEF close
    <3>2. colon = 3 + 1
      BY <3>1
    <3>3. QED BY <2>1, <3>1, <3>2
  <2>3. CASE Named(h)
    <3>1. y # << >> /\ y[1] # "[" /\ FindLast(y, {":"}) = Len(h) + 1
      BY <1>1, <1>2, <2>3, NameBefore
    <3> HIDE DEF close
    <3>2. QED BY <2>1, <3>1
  <2>4. QED BY <1>1, <2>2, <2>3 DEF Canonical
<1>4. HostPort(y) = IF colon = 0 THEN [host |-> y, has_port |-> FALSE, port |-> << >>]
     ELSE [host |-> Upto(y, colon - 1), has_port |-> TRUE, port |-> From(y, colon + 1)]
  BY DEF HostPort
<1> HIDE DEF colon
<1>5. colon - 1 = Len(h) /\ colon + 1 = Len(h) + 2 /\ colon # 0
  BY <1>3
<1>6. Upto(y, Len(h)) = h /\ From(y, Len(h) + 2) = t
  BY <1>1 DEF Parted
<1>7. QED BY <1>4, <1>5, <1>6 DEF y, h, t

(* A canonical host and port read back as themselves.                      *)
LEMMA EndpointAt ==
  ASSUME NEW end, Led(end), NEW default
  PROVE  Endpoint(HostPort(At(end)), default) = end /\ Leads(end)
<1> DEFINE hp == HostPort(At(end))
<1>1. hp.host = end.host /\ hp.has_port = TRUE /\ hp.port = Decimal(end.port)
  BY HostPortAt
<1> HIDE DEF hp
<1>2. end.port \in Ports /\ CanonHost(end.host) = end.host /\ end.host # << >> /\ end = [host |-> end.host, port |-> end.port]
  BY DEF Led, Canonical
<1>3. ParseBounded(Decimal(end.port), 1, 65535) = end.port
  BY <1>2, PortFacts
<1>4. Endpoint(hp, default) = [host |-> end.host, port |-> end.port]
  BY <1>1, <1>2, <1>3 DEF Endpoint
<1>5. end.port # Refusal
  BY <1>2, PortRange DEF Ports, Refusal
<1>6. QED BY <1>2, <1>4, <1>5 DEF hp, Leads, Refused

(* policy.c finds in an origin the host it was built with.                 *)
LEMMA OriginHostIs ==
  ASSUME NEW end, Led(end)
  PROVE  OriginHost(<<"https://">> \o At(end)) = end.host
<1> DEFINE o == <<"https://">> \o At(end)
           y == At(end)
<1>1. y \in Seq(Token) /\ "https://" \in Token
  BY AtFacts DEF Tokens, Token, Other
<1> HIDE DEF y
<1>2. <<"https://">> \o y # << >> /\ (<<"https://">> \o y)[1] = "https://" /\ Tail(<<"https://">> \o y) = y
  BY <1>1, HeadTail
<1>3. o # << >> /\ o[1] = "https://" /\ Tail(o) = y
  BY <1>2 DEF y
<1> HIDE DEF o
<1>4. HostPort(y).has_port = TRUE /\ HostPort(y).host = end.host
  BY HostPortAt DEF y
<1>5. OriginHost(o) = end.host
  BY <1>3, <1>4 DEF OriginHost
<1>6. QED BY <1>5 DEF o

-----------------------------------------------------------------------------
(* URLs: what an accepted one consists of, and that it reads back.         *)

(* Only the two spellings of https:// are https:// in lower case.          *)
LEMMA HttpsFacts ==
  /\ \A c \in Token : Low(c) = "https://" => c \in {"https://", "HTTPS://"}
  /\ Low("https://") = "https://"
  /\ "https://" \in Token /\ {"https://", "HTTPS://"} \cap (Flags \cup {"-", "--"}) = {}
<1>1. \A c \in Among(0..25) : c \in DOMAIN Sextet /\ Sextet[c] \in 0..25
  BY AmongFacts
<1>2. \A c \in Among(0..25) : Letter(Sextet[c] + 26) \notin Other
  BY <1>1, LetterFacts
<1>3. \A x \in Other : x \notin Among(0..25)
  BY LetterFacts DEF Among
<1>4. "https://" \in Other /\ "HTTPS://" \in Other
  BY DEF Other
<1>5. Low("https://") = "https://"
  BY <1>3, <1>4 DEF Low
<1>6. ASSUME NEW c \in Token, Low(c) = "https://" PROVE c \in {"https://", "HTTPS://"}
  <2>1. CASE c \in Among(0..25)
    <3>1. Letter(Sextet[c] + 26) \notin Other /\ c \notin {"HTTPS://", "VPN", "2001:DB8::1"}
      BY <1>2, <1>3, <2>1 DEF Other
    <3>2. Low(c) = Letter(Sextet[c] + 26)
      BY <2>1, <3>1 DEF Low
    <3>3. QED BY <1>4, <1>6, <3>1, <3>2
  <2>2. CASE c \notin Among(0..25)
    BY <1>6, <2>2 DEF Low
  <2>3. QED BY <2>1, <2>2
<1>7. "https://" \in Token
  BY <1>4 DEF Token
<1>8. {"https://", "HTTPS://"} \cap (Flags \cup {"-", "--"}) = {}
  BY DEF Flags
<1>9. QED BY <1>5, <1>6, <1>7, <1>8

Clean(t) == ToSet(t) \cap {"sp", "ctl", "#"} = {}

UrlShaped(url) ==
  /\ url.ok /\ url.path \in Tokens /\ url.query \in Tokens
  /\ Clean(url.path) /\ Clean(url.query) /\ "?" \notin ToSet(url.path)
  /\ Len(url.path) > 0 => url.path[1] = "/"
  /\ \E end : Led(end) /\ url.host = end.host /\ url.origin = <<"https://">> \o At(end)
  /\ url = [ok |-> TRUE, host |-> url.host, origin |-> url.origin, path |-> url.path, query |-> url.query]

(* A part of a text without control bytes and spaces has none either.      *)
LEMMA CleanParts ==
  ASSUME NEW s \in Tokens, NEW t \in Tokens, ToSet(t) \subseteq ToSet(s), Clean(s)
  PROVE  Clean(t)
BY DEF Clean

(* The parts of a text are texts over its tokens.                          *)
LEMMA PartsOfText ==
  ASSUME NEW s \in Tokens, NEW i \in Nat
  PROVE  /\ Upto(s, i) \in Tokens /\ ToSet(Upto(s, i)) \subseteq ToSet(s)
         /\ i # 0 => From(s, i) \in Tokens /\ ToSet(From(s, i)) \subseteq ToSet(s)
<1>1. s \in Seq(Token) /\ Len(s) \in Nat
  BY DEF Tokens
<1>2. \A j \in 1..Len(s) : s[j] \in ToSet(s)
  BY <1>1, ToSetFacts
<1>3. /\ Upto(s, i) \in Seq(Token) /\ Len(Upto(s, i)) = (IF i < Len(s) THEN i ELSE Len(s))
      /\ \A j \in 1..Len(Upto(s, i)) : Upto(s, i)[j] = s[j]
  BY <1>1, UptoFacts
<1>4. ToSet(Upto(s, i)) \subseteq ToSet(s)
  <2>1. \A x \in ToSet(Upto(s, i)) : \E j \in 1..Len(Upto(s, i)) : Upto(s, i)[j] = x
    BY <1>3, ToSetFacts
  <2>2. \A j \in 1..Len(Upto(s, i)) : j \in 1..Len(s)
    BY <1>1, <1>3
  <2>3. QED BY <1>2, <1>3, <2>1, <2>2
<1>5. ASSUME i # 0 PROVE From(s, i) \in Tokens /\ ToSet(From(s, i)) \subseteq ToSet(s)
  <2>1. /\ From(s, i) \in Seq(Token) /\ Len(From(s, i)) = (IF i <= Len(s) THEN Len(s) - i + 1 ELSE 0)
        /\ \A j \in 1..Len(From(s, i)) : From(s, i)[j] = s[i + j - 1]
    BY <1>1, <1>5, FromFacts
  <2>2. \A x \in ToSet(From(s, i)) : \E j \in 1..Len(From(s, i)) : From(s, i)[j] = x
    BY <2>1, ToSetFacts
  <2>3. \A j \in 1..Len(From(s, i)) : i + j - 1 \in 1..Len(s)
    BY <1>1, <1>5, <2>1
  <2>4. QED BY <1>2, <2>1, <2>2, <2>3 DEF Tokens
<1>6. QED BY <1>3, <1>4, <1>5 DEF Tokens

(* A URL put together of accepted parts has the shape of an accepted URL.  *)
LEMMA UrlOfFacts ==
  ASSUME NEW in, NEW netloc, NEW rest \in Tokens, NEW end, Led(end), UrlOf(in, netloc, rest, end).ok,
         Clean(rest), Len(rest) > 0 => rest[1] \in {"/", "?"}
  PROVE  UrlShaped(UrlOf(in, netloc, rest, end))
<1> DEFINE url  == UrlOf(in, netloc, rest, end)
           mark == Find(rest, {"?"})
<1>1. url = [ok |-> TRUE, host |-> end.host, origin |-> <<"https://">> \o At(end),
             path  |-> IF mark = 0 THEN rest ELSE Upto(rest, mark - 1),
             query |-> IF mark = 0 THEN << >> ELSE From(rest, mark + 1)]
  BY DEF UrlOf, NoUrl
<1>2. rest \in Seq(Token) /\ Len(rest) \in Nat
  BY DEF Tokens
<1>3. /\ mark \in 0..Len(rest) /\ (mark = 0 => \A i \in 1..Len(rest) : rest[i] # "?")
      /\ mark # 0 => rest[mark] = "?" /\ \A i \in 1..Len(rest) : i < mark => rest[i] # "?"
  BY <1>2, FindFacts
<1> HIDE DEF mark
<1>4. CASE mark = 0
  <2>1. url.path = rest /\ url.query = << >>
    BY <1>1, <1>4
  <2>2. "?" \notin ToSet(rest)
    BY <1>2, <1>3, <1>4, ToSetFacts
  <2>3. << >> \in Tokens /\ Clean(<< >>)
    <3>1. << >> \in Tokens
      BY DEF Tokens
    <3>2. ToSet(<< >>) = {}
      BY DEF ToSet
    <3>3. QED BY <3>1, <3>2 DEF Clean
  <2>4. Len(rest) > 0 => rest[1] = "/"
    BY <1>2, <1>3, <1>4
  <2> HIDE DEF url
  <2>5. QED BY <1>1, <2>1, <2>2, <2>3, <2>4 DEF UrlShaped, url
<1>5. CASE mark # 0
  <2> DEFINE p == Upto(rest, mark - 1)
             q == From(rest, mark + 1)
  <2>1. url.path = p /\ url.query = q
    BY <1>1, <1>5
  <2>2. mark - 1 \in Nat /\ mark + 1 \in Nat /\ mark + 1 # 0
    BY <1>2, <1>3, <1>5
  <2>3. p \in Tokens /\ q \in Tokens /\ ToSet(p) \subseteq ToSet(rest) /\ ToSet(q) \subseteq ToSet(rest)
    BY <2>2, PartsOfText
  <2>4. Len(p) = mark - 1 /\ \A j \in 1..Len(p) : p[j] = rest[j]
    <3>1. /\ Len(p) = (IF mark - 1 < Len(rest) THEN mark - 1 ELSE Len(rest))
          /\ \A j \in 1..Len(p) : p[j] = rest[j]
      BY <1>2, <2>2, UptoFacts
    <3>2. mark - 1 < Len(rest)
      BY <1>2, <1>3
    <3> HIDE DEF p
    <3>3. QED BY <3>1, <3>2
  <2> HIDE DEF p, q, url
  <2>5. Clean(p) /\ Clean(q)
    BY <2>3, CleanParts
  <2>6. "?" \notin ToSet(p)
    <3>1. \A j \in 1..Len(p) : p[j] # "?"
      BY <1>2, <1>3, <1>5, <2>4
    <3>2. p \in Seq(Token)
      BY <2>3 DEF Tokens
    <3>3. QED BY <3>1, <3>2, ToSetFacts
  <2>7. Len(p) > 0 => p[1] = "/"
    <3>1. SUFFICES ASSUME Len(p) > 0 PROVE p[1] = "/"
      OBVIOUS
    <3>2. 1 \in 1..Len(p) /\ 1 < mark /\ 1 \in 1..Len(rest) /\ Len(rest) > 0
      BY <1>2, <1>3, <2>2, <2>4, <3>1
    <3>3. p[1] = rest[1] /\ rest[1] # "?"
      BY <1>3, <1>5, <2>4, <3>2
    <3>4. QED BY <3>2, <3>3
  <2>8. url = [ok |-> TRUE, host |-> end.host, origin |-> <<"https://">> \o At(end), path |-> p, query |-> q]
    BY <1>1, <1>5 DEF p, q, url
  <2>9. url.ok = TRUE /\ url.host = end.host /\ url.origin = <<"https://">> \o At(end)
    BY <2>8
  <2>10. UrlShaped(url)
    BY <2>1, <2>3, <2>5, <2>6, <2>7, <2>8, <2>9 DEF UrlShaped
  <2>11. QED BY <2>10 DEF url
<1>6. QED BY <1>4, <1>5

(* ParseUrl, its stop named.                                               *)
StopOf(in) == Find(in, {"/", "?"})
AuthOf(in) == IF StopOf(in) = 0 THEN Tail(in) ELSE SubSeq(in, 2, StopOf(in) - 1)
RestOf(in) == IF StopOf(in) = 0 THEN << >> ELSE From(in, StopOf(in))

(* ParseUrl, by the parts it names.                                        *)
LEMMA ParseUrlIs ==
  ASSUME NEW in
  PROVE  ParseUrl(in) = UrlOf(in, AuthOf(in), RestOf(in), Endpoint(HostPort(AuthOf(in)), 443))
BY DEF ParseUrl, StopOf, AuthOf, RestOf

(* When vu_parse_url accepts.                                              *)
LEMMA UrlOfOk ==
  ASSUME NEW in, NEW netloc, NEW rest, NEW end
  PROVE  UrlOf(in, netloc, rest, end).ok <=>
           /\ in # << >> /\ Size(in) < UrlMax /\ Clean(in) /\ Lowered(in)[1] = "https://"
           /\ netloc # << >> /\ Size(netloc) < HostMax + 8 /\ "@" \notin ToSet(netloc)
           /\ Leads(end)
BY DEF UrlOf, NoUrl, Clean

(* An accepted URL has its shape, and its text does not look like a flag.  *)
LEMMA UrlFacts ==
  ASSUME NEW in \in Tokens, ParseUrl(in).ok
  PROVE  /\ UrlShaped(ParseUrl(in)) /\ in # << >>
         /\ in[1] \notin Flags \cup {"-", "--"}
<1> DEFINE netloc == AuthOf(in)
           rest == RestOf(in)
           port == 443
           end  == Endpoint(HostPort(netloc), port)
           url  == UrlOf(in, netloc, rest, end)
<1>1. ParseUrl(in) = url
  BY ParseUrlIs
<1>2. /\ in # << >> /\ Clean(in) /\ Lowered(in)[1] = "https://"
      /\ Leads(end)
  BY <1>1, UrlOfOk
<1>3. in \in Seq(Token) /\ Len(in) \in Nat \ {0}
  <2>1. in \in Seq(Token) /\ Len(in) \in Nat /\ Len(in) # 0
    BY <1>2, EmptyText DEF Tokens
  <2>2. QED BY <2>1
<1>4. in[1] \in {"https://", "HTTPS://"}
  <2>1. 1 \in 1..Len(in) /\ Lowered(in)[1] = Low(in[1]) /\ in[1] \in Token
    BY <1>3, LoweredFacts
  <2>2. QED BY <1>2, <2>1, HttpsFacts
<1>5. /\ StopOf(in) \in 0..Len(in)
      /\ StopOf(in) # 0 => in[StopOf(in)] \in {"/", "?"}
  BY <1>3, FindFacts DEF StopOf
<1> DEFINE stop == StopOf(in)
<1>6. netloc \in Tokens
  <2>1. CASE stop = 0
    <3>1. netloc = Tail(in)
      BY <2>1 DEF AuthOf
    <3>2. Tail(in) \in Seq(Token)
      BY <1>2, <1>3
    <3>3. QED BY <3>1, <3>2 DEF Tokens
  <2>2. CASE stop # 0
    <3>1. netloc = SubSeq(in, 2, stop - 1)
      BY <2>2 DEF AuthOf
    <3>2. 2 \in Nat \ {0} /\ stop - 1 < Len(in) /\ stop \in Nat
      BY <1>3, <1>5
    <3> HIDE DEF stop
    <3>3. SubSeq(in, 2, stop - 1) \in Seq(Token)
      BY <1>3, <3>2
    <3>4. QED BY <3>1, <3>3 DEF Tokens
  <2>3. QED BY <2>1, <2>2
<1>7. rest \in Tokens /\ Clean(rest) /\ (Len(rest) > 0 => rest[1] \in {"/", "?"})
  <2>1. CASE stop = 0
    <3>1. rest = << >>
      BY <2>1 DEF RestOf
    <3>2. << >> \in Tokens /\ Len(<< >>) = 0
      BY DEF Tokens
    <3>3. ToSet(<< >>) = {}
      BY DEF ToSet
    <3>4. Clean(<< >>)
      BY <3>3 DEF Clean
    <3>5. QED BY <3>1, <3>2, <3>4
  <2>2. CASE stop # 0
    <3>1. rest = From(in, stop) /\ stop \in Nat
      BY <1>3, <1>5, <2>2 DEF RestOf
    <3>2. From(in, stop) \in Tokens /\ ToSet(From(in, stop)) \subseteq ToSet(in)
      BY <2>2, <3>1, PartsOfText
    <3>3. Clean(rest)
      BY <1>2, <3>1, <3>2, CleanParts
    <3>4. ASSUME Len(rest) > 0 PROVE rest[1] = in[stop]
      <4>1. \A j \in 1..Len(From(in, stop)) : From(in, stop)[j] = in[stop + j - 1]
        BY <1>3, <2>2, <3>1, FromFacts
      <4>2. 1 \in 1..Len(From(in, stop))
        BY <3>1, <3>2, <3>4 DEF Tokens
      <4>3. stop + 1 - 1 = stop
        BY <3>1
      <4> HIDE DEF stop
      <4>4. QED BY <3>1, <4>1, <4>2, <4>3
    <3>5. QED BY <1>5, <2>2, <3>1, <3>2, <3>3, <3>4
  <2>3. QED BY <2>1, <2>2
<1>8. Led(end)
  <2>1. port \in Ports
    BY PortRange DEF Ports, MaxPort
  <2> HIDE DEF port, netloc
  <2>2. QED BY <1>2, <1>6, <2>1, EndpointFacts
<1> HIDE DEF netloc, rest, end
<1>9. UrlShaped(url)
  BY <1>1, <1>7, <1>8, UrlOfFacts
<1>10. QED BY <1>1, <1>2, <1>4, <1>9, HttpsFacts

(* Concatenation is associative.                                           *)
LEMMA Associative ==
  ASSUME NEW S, NEW a \in Seq(S), NEW b \in Seq(S), NEW c \in Seq(S)
  PROVE  (a \o b) \o c = a \o (b \o c)
<1> DEFINE x == (a \o b) \o c
           y == a \o (b \o c)
<1>1. Len(a) \in Nat /\ Len(b) \in Nat /\ Len(c) \in Nat
  OBVIOUS
<1>2. x \in Seq(S) /\ y \in Seq(S) /\ Len(x) = Len(a) + Len(b) + Len(c) /\ Len(y) = Len(x)
  BY <1>1
<1>3. ASSUME NEW i \in 1..Len(x) PROVE x[i] = y[i]
  <2>1. CASE i \in 1..Len(a)
    BY <1>1, <2>1
  <2>2. CASE i - Len(a) \in 1..Len(b)
    BY <1>1, <2>2
  <2>3. CASE i - Len(a) - Len(b) \in 1..Len(c)
    BY <1>1, <2>3
  <2>4. QED BY <1>1, <1>2, <2>1, <2>2, <2>3
<1>4. QED BY <1>2, <1>3, SameText

(* What follows the origin of a URL.                                       *)
Following(url) == url.path \o (IF url.query = << >> THEN << >> ELSE <<"?">> \o url.query)

(* Path and query are found again in what follows the origin.              *)
LEMMA FollowingFacts ==
  ASSUME NEW url, UrlShaped(url)
  PROVE  LET rest == Following(url)  mark == Find(rest, {"?"}) IN
         /\ rest \in Tokens /\ Clean(rest) /\ (Len(rest) > 0 => rest[1] \in {"/", "?"})
         /\ url.path = IF mark = 0 THEN rest ELSE Upto(rest, mark - 1)
         /\ url.query = IF mark = 0 THEN << >> ELSE From(rest, mark + 1)
<1> DEFINE p == url.path
           q == url.query
           rest == Following(url)
           mark == Find(rest, {"?"})
<1>1. /\ p \in Tokens /\ q \in Tokens /\ Clean(p) /\ Clean(q) /\ "?" \notin ToSet(p)
      /\ Len(p) > 0 => p[1] = "/"
  BY DEF UrlShaped
<1>2. p \in Seq(Token) /\ q \in Seq(Token) /\ Len(p) \in Nat /\ Len(q) \in Nat /\ "?" \in Token
  BY <1>1 DEF Tokens, Token, Other
<1>3. rest = p \o (IF q = << >> THEN << >> ELSE <<"?">> \o q)
  BY DEF Following
<1> HIDE DEF p, q, rest
<1>4. \A i \in 1..Len(p) : p[i] # "?"
  BY <1>1, <1>2, ToSetFacts
<1>5. CASE q = << >>
  <2>1. rest = p
    BY <1>2, <1>3, <1>5
  <2>2. mark = 0
    BY <1>2, <1>4, <2>1, FindNone
  <2>3. p = url.path /\ q = url.query
    BY DEF p, q
  <2>4. (Len(rest) > 0 => rest[1] \in {"/", "?"})
    BY <1>1, <2>1
  <2>5. rest \in Tokens /\ Clean(rest)
    BY <1>1, <2>1
  <2> HIDE DEF mark
  <2>6. url.path = (IF mark = 0 THEN rest ELSE Upto(rest, mark - 1)) /\ url.query = (IF mark = 0 THEN << >> ELSE From(rest, mark + 1))
    BY <1>5, <2>1, <2>2, <2>3
  <2>7. QED BY <2>4, <2>5, <2>6 DEF rest, mark
<1>6. CASE q # << >>
  <2>1. rest = p \o <<"?">> \o q
    <3>1. rest = p \o (<<"?">> \o q)
      BY <1>3, <1>6
    <3>2. <<"?">> \in Seq(Token)
      BY <1>2
    <3>3. QED BY <1>2, <3>1, <3>2, Associative
  <2>2. rest \in Seq(Token) /\ Parted(rest, p, "?", q)
    BY <1>2, <2>1, Separated
  <2>3. /\ Len(rest) = Len(p) + 1 + Len(q) /\ rest[Len(p) + 1] = "?"
        /\ \A i \in 1..Len(p) : rest[i] = p[i]
        /\ \A i \in 1..Len(q) : rest[Len(p) + 1 + i] = q[i]
        /\ Upto(rest, Len(p)) = p /\ From(rest, Len(p) + 2) = q
    BY <2>2 DEF Parted
  <2>4. mark = Len(p) + 1
    <3> DEFINE k == Len(p) + 1
    <3>1. k \in 1..Len(rest) /\ rest[k] \in {"?"} /\ \A i \in 1..(k - 1) : rest[i] \notin {"?"}
      BY <1>2, <1>4, <2>3
    <3> HIDE DEF k
    <3>2. mark = k
      BY <2>2, <3>1, FindIs
    <3>3. QED BY <3>2 DEF k
  <2> HIDE DEF mark
  <2>5. mark # 0 /\ mark - 1 = Len(p) /\ mark + 1 = Len(p) + 2
    BY <1>2, <2>4
  <2>6. p = (IF mark = 0 THEN rest ELSE Upto(rest, mark - 1)) /\ q = (IF mark = 0 THEN << >> ELSE From(rest, mark + 1))
    BY <2>3, <2>5
  <2>7. Len(rest) > 0 => rest[1] \in {"/", "?"}
    <3>1. CASE Len(p) = 0
      BY <2>3, <3>1
    <3>2. CASE Len(p) # 0
      <4>1. 1 \in 1..Len(p) /\ Len(p) > 0
        BY <1>2, <3>2
      <4>2. QED BY <1>1, <2>3, <4>1
    <3>3. QED BY <3>1, <3>2
  <2>8. Clean(rest)
    <3>1. ASSUME NEW x \in ToSet(rest) PROVE x = "?" \/ x \in ToSet(p) \/ x \in ToSet(q)
      <4>1. PICK i \in 1..Len(rest) : rest[i] = x
        BY <2>2, ToSetFacts
      <4>2. CASE i \in 1..Len(p)
        BY <1>2, <2>3, <4>1, <4>2, ToSetFacts
      <4>3. CASE i = Len(p) + 1
        BY <2>3, <4>1, <4>3
      <4>4. CASE i - Len(p) - 1 \in 1..Len(q)
        <5> DEFINE k == i - Len(p) - 1
        <5>1. k \in 1..Len(q) /\ i = Len(p) + 1 + k
          BY <1>2, <4>4
        <5> HIDE DEF k
        <5>2. q[k] = x
          BY <2>3, <4>1, <5>1
        <5>3. QED BY <1>2, <5>1, <5>2, ToSetFacts
      <4>5. QED BY <1>2, <2>3, <4>2, <4>3, <4>4
    <3>2. "?" \notin {"sp", "ctl", "#"}
      OBVIOUS
    <3>3. QED BY <1>1, <3>1, <3>2 DEF Clean
  <2>9. QED BY <2>2, <2>6, <2>7, <2>8 DEF rest, mark, p, q, Tokens
<1>7. QED BY <1>5, <1>6

(* The authority and the rest of what is written.                          *)
LEMMA WrittenParts ==
  ASSUME NEW end, Led(end), NEW rest \in Tokens, Len(rest) > 0 => rest[1] \in {"/", "?"}, Clean(rest),
         NEW in, in = (<<"https://">> \o At(end)) \o rest
  PROVE  /\ in \in Tokens /\ in # << >> /\ in[1] = "https://" /\ Clean(in)
         /\ AuthOf(in) = At(end) /\ RestOf(in) = rest
<1> DEFINE y == At(end)
           o == <<"https://">> \o y
           stop == StopOf(in)
<1>1. y \in Seq(Token) /\ Len(y) \in Nat /\ (\A i \in 1..Len(y) : y[i] \in AddressChars \cup {":"})
  BY AtFacts DEF Tokens
<1>2. rest \in Seq(Token) /\ Len(rest) \in Nat
  BY DEF Tokens
<1> HIDE DEF y
<1>3. "https://" \in Token
  BY HttpsFacts
<1>4. /\ o \in Seq(Token) /\ Len(o) = Len(y) + 1 /\ o[1] = "https://" /\ Tail(o) = y
      /\ \A i \in 1..Len(y) : o[i + 1] = y[i]
  BY <1>1, <1>3, HeadTail
<1> HIDE DEF o
<1>5. in = o \o rest
  BY DEF o, y
<1>6. in \in Seq(Token) /\ Joins(in, o, rest)
  BY <1>2, <1>4, <1>5, Joint
<1>7. /\ Len(in) = Len(o) + Len(rest) /\ (\A i \in 1..Len(o) : in[i] = o[i])
      /\ \A i \in 1..Len(rest) : in[Len(o) + i] = rest[i]
  BY <1>6 DEF Joins
<1>8. Len(in) \in Nat \ {0} /\ in # << >> /\ in[1] = "https://"
  <2>1. Len(in) \in Nat /\ Len(in) # 0 /\ 1 \in 1..Len(o)
    BY <1>1, <1>2, <1>4, <1>7
  <2>2. in # << >>
    BY <1>6, <2>1, EmptyText
  <2>3. QED BY <1>4, <1>7, <2>1, <2>2
<1>9. ASSUME NEW i \in 1..Len(o) PROVE in[i] \notin {"/", "?", "sp", "ctl", "#"}
  <2>1. CASE i = 1
    BY <1>4, <1>7, <2>1
  <2>2. CASE i # 1
    <3> DEFINE k == i - 1
    <3>1. k \in 1..Len(y) /\ i = k + 1
      BY <1>1, <1>4, <2>2
    <3> HIDE DEF k
    <3>2. in[i] = y[k]
      BY <1>4, <1>7, <3>1
    <3>3. in[i] \in AddressChars \cup {":"}
      BY <1>1, <3>1, <3>2
    <3>4. QED BY <3>3, AddressCharsFacts
  <2>3. QED BY <2>1, <2>2
<1>10. Clean(in)
  <2>1. ASSUME NEW x \in ToSet(in) PROVE x \notin {"sp", "ctl", "#"}
    <3>1. PICK i \in 1..Len(in) : in[i] = x
      BY <1>6, <2>1, ToSetFacts
    <3>2. CASE i \in 1..Len(o)
      BY <1>9, <3>1, <3>2
    <3>3. CASE i - Len(o) \in 1..Len(rest)
      <4> DEFINE k == i - Len(o)
      <4>1. k \in 1..Len(rest) /\ i = Len(o) + k
        BY <1>1, <1>4, <3>3
      <4> HIDE DEF k
      <4>2. rest[k] = x
        BY <1>7, <3>1, <4>1
      <4>3. x \in ToSet(rest)
        BY <1>2, <4>1, <4>2, ToSetFacts
      <4>4. QED BY <4>3 DEF Clean
    <3>4. QED BY <1>1, <1>2, <1>4, <1>7, <3>2, <3>3
  <2>2. QED BY <2>1 DEF Clean
<1>11. CASE Len(rest) = 0
  <2>1. in = o
    <3>1. Len(in) = Len(o) /\ \A i \in 1..Len(in) : in[i] = o[i]
      BY <1>1, <1>4, <1>7, <1>11
    <3>2. QED BY <1>4, <1>6, <3>1, SameText
  <2>2. \A i \in 1..Len(in) : in[i] \notin {"/", "?"}
    BY <1>9, <2>1
  <2>3. StopOf(in) = 0
    BY <1>6, <2>2, FindNone DEF StopOf
  <2>4. rest = << >>
    BY <1>2, <1>11, EmptyText
  <2>5. AuthOf(in) = Tail(in) /\ RestOf(in) = << >>
    BY <2>3 DEF AuthOf, RestOf
  <2>6. QED BY <1>4, <1>6, <1>8, <1>10, <2>1, <2>4, <2>5 DEF y, Tokens
<1>12. CASE Len(rest) # 0
  <2>1. StopOf(in) = Len(o) + 1
    <3> DEFINE k == Len(o) + 1
    <3>1. k \in 1..Len(in) /\ \A i \in 1..(k - 1) : in[i] \notin {"/", "?"}
      BY <1>1, <1>2, <1>4, <1>7, <1>9, <1>12
    <3>2. in[k] \in {"/", "?"}
      <4>1. 1 \in 1..Len(rest) /\ Len(rest) > 0
        BY <1>2, <1>12
      <4>2. QED BY <1>7, <4>1
    <3> HIDE DEF k
    <3>3. Find(in, {"/", "?"}) = k
      BY <1>6, <3>1, <3>2, FindIs
    <3>4. QED BY <3>3 DEF k, StopOf
  <2>2. AuthOf(in) = y
    <3> DEFINE a == SubSeq(in, 2, Len(o))
    <3>1. AuthOf(in) = a
      <4>1. StopOf(in) # 0 /\ StopOf(in) - 1 = Len(o)
        BY <1>1, <1>4, <2>1
      <4>2. QED BY <4>1 DEF AuthOf
    <3>2. Len(o) <= Len(in) /\ Len(o) \in Nat \ {0} /\ Len(o) = Len(y) + 1
      BY <1>1, <1>2, <1>4, <1>7
    <3>3. a \in Seq(Token) /\ Len(a) = Len(y) /\ \A i \in 1..Len(y) : a[i] = in[i + 1]
      BY <1>1, <1>6, <3>2
    <3> HIDE DEF a
    <3>4. \A i \in 1..Len(y) : i + 1 \in 1..Len(o)
      BY <1>1, <3>2
    <3>5. \A i \in 1..Len(y) : a[i] = y[i]
      BY <1>4, <1>7, <3>3, <3>4
    <3>6. QED BY <1>1, <3>1, <3>3, <3>5, SameText
  <2>3. RestOf(in) = rest
    <3> DEFINE k == Len(o) + 1
    <3>1. k \in Nat \ {0} /\ StopOf(in) = k /\ k <= Len(in) /\ Len(in) - k + 1 = Len(rest)
      BY <1>1, <1>2, <1>4, <1>7, <1>12, <2>1
    <3>2. \A j \in 1..Len(rest) : k + j - 1 = Len(o) + j
      BY <1>1, <1>4
    <3> HIDE DEF k
    <3>3. /\ From(in, k) \in Seq(Token) /\ Len(From(in, k)) = Len(rest)
          /\ \A j \in 1..Len(From(in, k)) : From(in, k)[j] = in[k + j - 1]
      BY <1>6, <3>1, FromFacts
    <3>4. \A j \in 1..Len(From(in, k)) : From(in, k)[j] = rest[j]
      BY <1>7, <3>2, <3>3
    <3>5. From(in, k) = rest
      BY <1>2, <3>3, <3>4, SameText
    <3>6. QED BY <3>1, <3>5 DEF RestOf
  <2>4. QED BY <1>6, <1>8, <1>10, <2>2, <2>3 DEF y, Tokens
<1>13. QED BY <1>11, <1>12

(* A rebuilt URL that fits the buffer parses to the URL it was built of:   *)
(* the helper starts OpenConnect on the origin it has compared.            *)
LEMMA Rebuilt ==
  ASSUME NEW url, UrlShaped(url)
  PROVE  /\ RebuiltUrl(url) \in Tokens /\ RebuiltUrl(url) # << >> /\ RebuiltUrl(url)[1] = "https://"
         /\ Size(RebuiltUrl(url)) < UrlMax => ParseUrl(RebuiltUrl(url)) = url
<1> DEFINE in   == RebuiltUrl(url)
           rest == Following(url)
           mark == Find(rest, {"?"})
<1>1. PICK end : Led(end) /\ url.host = end.host /\ url.origin = <<"https://">> \o At(end)
  BY DEF UrlShaped
<1>2. /\ rest \in Tokens /\ Clean(rest) /\ (Len(rest) > 0 => rest[1] \in {"/", "?"})
      /\ url.path = IF mark = 0 THEN rest ELSE Upto(rest, mark - 1)
      /\ url.query = IF mark = 0 THEN << >> ELSE From(rest, mark + 1)
  BY FollowingFacts
<1>3. in = (<<"https://">> \o At(end)) \o rest
  <2> DEFINE o == url.origin
             p == url.path
             t == IF url.query = << >> THEN << >> ELSE <<"?">> \o url.query
  <2>1. o \in Seq(Token)
    <3> DEFINE y == At(end)
    <3>1. y \in Seq(Token)
      BY <1>1, AtFacts DEF Tokens
    <3> HIDE DEF y
    <3>2. <<"https://">> \o y \in Seq(Token)
      BY <3>1, HeadTail, HttpsFacts
    <3>3. QED BY <1>1, <3>2 DEF y
  <2>2. p \in Seq(Token) /\ url.query \in Seq(Token)
    BY DEF UrlShaped, Tokens
  <2>3. t \in Seq(Token)
    <3>1. "?" \in Token
      BY DEF Token, Other
    <3>2. <<"?">> \in Seq(Token)
      BY <3>1
    <3>3. QED BY <2>2, <3>2
  <2>4. in = (o \o p) \o t /\ rest = p \o t
    BY DEF RebuiltUrl, Following
  <2> HIDE DEF o, p, t, in
  <2>5. in = o \o rest
    BY <2>1, <2>2, <2>3, <2>4, Associative
  <2>6. QED BY <1>1, <2>5 DEF o
<1> HIDE DEF in, rest
<1>4. /\ in \in Tokens /\ in # << >> /\ in[1] = "https://" /\ Clean(in)
      /\ AuthOf(in) = At(end) /\ RestOf(in) = rest
  BY <1>1, <1>2, <1>3, WrittenParts
<1>5. ASSUME Size(in) < UrlMax PROVE ParseUrl(in) = url
  <2> DEFINE port == 443
             y == At(end)
  <2>1. Endpoint(HostPort(y), port) = end /\ Leads(end)
    BY <1>1, EndpointAt
  <2>2. ParseUrl(in) = UrlOf(in, y, rest, end)
    BY <1>4, <2>1, ParseUrlIs
  <2>3. Lowered(in)[1] = "https://"
    <3>1. Len(in) # 0 /\ Len(in) \in Nat
      BY <1>4, EmptyText DEF Tokens
    <3>2. 1 \in 1..Len(in)
      BY <3>1
    <3>3. QED BY <1>4, <3>2, LoweredFacts, HttpsFacts
  <2>4. y # << >> /\ Size(y) < HostMax + 8 /\ "@" \notin ToSet(y)
    <3>1. y # << >> /\ Size(y) < HostMax + 8 /\ y \in Seq(Token) /\ \A i \in 1..Len(y) : y[i] \in AddressChars \cup {":"}
      BY <1>1, AtFacts DEF Tokens
    <3> HIDE DEF y
    <3>2. \A i \in 1..Len(y) : y[i] # "@"
      BY <3>1, AddressCharsFacts
    <3>3. QED BY <3>1, <3>2, ToSetFacts
  <2> HIDE DEF y, port
  <2>5. UrlOf(in, y, rest, end).ok
    BY <1>4, <1>5, <2>1, <2>3, <2>4, UrlOfOk
  <2>6. UrlOf(in, y, rest, end) =
          [ok |-> TRUE, host |-> end.host, origin |-> <<"https://">> \o At(end),
           path  |-> IF mark = 0 THEN rest ELSE Upto(rest, mark - 1),
           query |-> IF mark = 0 THEN << >> ELSE From(rest, mark + 1)]
    BY <2>5 DEF UrlOf, NoUrl
  <2> HIDE DEF mark
  <2>7. UrlOf(in, y, rest, end) = [ok |-> TRUE, host |-> url.host, origin |-> url.origin, path |-> url.path, query |-> url.query]
    BY <1>1, <1>2, <2>6 DEF mark
  <2>8. QED BY <2>2, <2>7 DEF UrlShaped
<1>6. QED BY <1>4, <1>5 DEF in

-----------------------------------------------------------------------------
(* What --resolve names, written and read.                                 *)

V6Text == <<"2001:db8::1">>
Numeric(ip) == ip \in Tokens /\ ip # << >> /\ (IsQuad(ip) \/ ip = V6Text)

(* The canonical IPv6 address is a text of one token, and no quad.         *)
LEMMA V6TextFacts ==
  /\ V6Text \in Tokens /\ Len(V6Text) = 1 /\ V6Text # << >> /\ ~ IsQuad(V6Text) /\ CanonV6(V6Text) = V6Text
<1>1. "2001:db8::1" \in Token
  BY DEF Token, Other
<1>2. V6Text \in Tokens /\ Len(V6Text) = 1 /\ V6Text # << >> /\ V6Text[1] = "2001:db8::1"
  BY <1>1 DEF V6Text, Tokens
<1>3. CanonV6(V6Text) = V6Text
  BY CanonV6Stable DEF V6Text
<1> HIDE DEF V6Text
<1>4. ~ IsQuad(V6Text)
  <2> SUFFICES ASSUME IsQuad(V6Text) PROVE FALSE
    OBVIOUS
  <2>1. \A i \in 1..Len(V6Text) : V6Text[i] = "." \/ V6Text[i] \in Digits
    BY <1>2, QuadFacts
  <2>2. "2001:db8::1" \in Digits
    BY <1>2, <2>1
  <2>3. QED BY <2>2, AddressCharsFacts
<1>5. QED BY <1>2, <1>3, <1>4

(* An accepted address is numeric and in canonical form.                   *)
LEMMA AddressFacts ==
  ASSUME NEW given \in Tokens, Address(given) # << >>
  PROVE  Numeric(Address(given))
<1>1. CASE IsQuad(given)
  <2>1. Address(given) = given /\ given # << >>
    BY <1>1, QuadFacts DEF Address
  <2>2. QED BY <1>1, <2>1 DEF Numeric
<1>2. CASE ~ IsQuad(given)
  <2> DEFINE addr == IF Bracketed(given) THEN Tail(Front(given)) ELSE given
  <2>1. Address(given) = CanonV6(addr)
    BY <1>2 DEF Address
  <2>2. addr \in Tokens
    <3>1. CASE Bracketed(given)
      <4>1. Len(given) > 2 /\ given \in Seq(Token) /\ Len(given) \in Nat
        BY <3>1 DEF Bracketed, Tokens
      <4> DEFINE f == Front(given)
      <4>2. f = SubSeq(given, 1, Len(given) - 1)
        BY DEF Front
      <4>3. f \in Seq(Token) /\ Len(f) = Len(given) - 1
        BY <4>1, <4>2
      <4> HIDE DEF f
      <4> DEFINE n == Len(given)
                 m == Len(f)
      <4>4. n > 2 /\ n \in Nat /\ m = n - 1
        BY <4>1, <4>3
      <4> HIDE DEF n, m
      <4>5. m # 0
        BY <4>4
      <4>6. f # << >>
        BY <4>3, <4>5, EmptyText DEF m
      <4>7. Tail(f) \in Seq(Token)
        BY <4>3, <4>6
      <4>8. QED BY <3>1, <4>7 DEF f, Tokens
    <3>2. QED BY <3>1
  <2> HIDE DEF addr
  <2>3. CanonV6(addr) = V6Text
    BY <2>1, <2>2, CanonV6Facts DEF V6Text
  <2>4. QED BY <2>1, <2>3, V6TextFacts DEF Numeric
<1>3. QED BY <1>1, <1>2

(* A numeric address in canonical form reads back as itself.               *)
LEMMA AddressBack ==
  ASSUME NEW ip, Numeric(ip)
  PROVE  Address(ip) = ip
<1>1. CASE IsQuad(ip)
  BY <1>1 DEF Address
<1>2. CASE ip = V6Text
  <2>1. ~ Bracketed(V6Text)
    BY V6TextFacts DEF Bracketed
  <2>2. QED BY <1>2, <2>1, V6TextFacts DEF Address
<1>3. QED BY <1>1, <1>2 DEF Numeric

Resolved(r) == Canonical(r.host) /\ Numeric(r.ip) /\ r = [host |-> r.host, ip |-> r.ip]

SepOf(in) == LET close == Find(in, {"]"})
             IN IF in # << >> /\ in[1] = "["
                THEN IF close \in 1..(Len(in) - 1) /\ in[close + 1] = ":" THEN close + 1 ELSE 0
                ELSE Find(in, {":"})

(* vu_canon_resolve, by its separator.                                     *)
LEMMA CanonResolveIs ==
  ASSUME NEW in
  PROVE  CanonResolve(in) = IF SepOf(in) > 0 THEN Pair(CanonHost(Upto(in, SepOf(in) - 1)), Address(From(in, SepOf(in) + 1))) ELSE NoResolve
BY DEF CanonResolve, SepOf

(* The separator of host and address is a place of the text, or 0.         *)
LEMMA SepFacts ==
  ASSUME NEW in \in Tokens
  PROVE  SepOf(in) \in Nat /\ SepOf(in) <= Len(in)
<1> DEFINE close == Find(in, {"]"})
           k     == Find(in, {":"})
<1>1. in \in Seq(Token) /\ Len(in) \in Nat
  BY DEF Tokens
<1>2. close \in 0..Len(in) /\ k \in 0..Len(in)
  BY <1>1, FindFacts
<1> HIDE DEF close, k
<1>3. SepOf(in) = IF in # << >> /\ in[1] = "["
                THEN IF close \in 1..(Len(in) - 1) /\ in[close + 1] = ":" THEN close + 1 ELSE 0
                ELSE k
  BY DEF SepOf, close, k
<1>4. QED BY <1>1, <1>2, <1>3

(* What vu_canon_resolve accepts names a canonical host and an address,    *)
(* and its text does not look like a flag.                                 *)
LEMMA ResolveFacts ==
  ASSUME NEW in \in Tokens, CanonResolve(in) # NoResolve
  PROVE  /\ Resolved(CanonResolve(in)) /\ in # << >>
         /\ in[1] \notin Flags \cup {"-", "--"}
<1> DEFINE sep  == SepOf(in)
           host == Upto(in, sep - 1)
           ip   == From(in, sep + 1)
           r    == CanonResolve(in)
<1>1. sep \in Nat /\ sep <= Len(in) /\ in \in Seq(Token) /\ Len(in) \in Nat
  BY SepFacts DEF Tokens
<1>2. sep > 0 /\ r = Pair(CanonHost(host), Address(ip))
  BY CanonResolveIs
<1>3. r = [host |-> CanonHost(host), ip |-> Address(ip)] /\ CanonHost(host) # << >> /\ Address(ip) # << >>
  BY <1>2 DEF Pair, Refused
<1> HIDE DEF sep
<1>4. sep - 1 \in Nat /\ sep + 1 \in Nat /\ sep + 1 # 0
  BY <1>1, <1>2
<1>5. host \in Tokens /\ ip \in Tokens
  BY <1>4, PartsOfText
<1>6. \A j \in 1..Len(host) : host[j] = in[j]
  BY <1>1, <1>4, UptoFacts
<1> HIDE DEF host, ip, r
<1>7. Canonical(CanonHost(host)) /\ host # << >> /\ host[1] \notin Flags \cup {"-", "--"}
  BY <1>3, <1>5, CanonHostFacts
<1>8. Numeric(Address(ip))
  BY <1>3, <1>5, AddressFacts
<1>9. Resolved(r)
  <2>1. r.host = CanonHost(host) /\ r.ip = Address(ip)
    BY <1>3
  <2>2. QED BY <1>3, <1>7, <1>8, <2>1 DEF Resolved
<1>10. in[1] = host[1]
  <2>1. Len(host) # 0 /\ Len(host) \in Nat
    BY <1>5, <1>7, EmptyText DEF Tokens
  <2>2. 1 \in 1..Len(host)
    BY <2>1
  <2>3. QED BY <1>6, <2>2
<1>11. in # << >>
  <2>1. Len(in) # 0
    BY <1>1, <1>2
  <2>2. QED BY <1>1, <2>1, EmptyText
<1>12. QED BY <1>7, <1>9, <1>10, <1>11 DEF r

(* A host and its address read back from --resolve as themselves.          *)
LEMMA ResolveBack ==
  ASSUME NEW r, Resolved(r)
  PROVE  /\ CanonResolve(r.host \o <<":">> \o r.ip) = r /\ r # NoResolve
         /\ r.host \o <<":">> \o r.ip \in Tokens
<1> DEFINE h  == r.host
           ip == r.ip
           in == h \o <<":">> \o ip
<1>1. Canonical(h) /\ Numeric(ip) /\ r = [host |-> h, ip |-> ip] /\ h # << >> /\ ip # << >> /\ CanonHost(h) = h
  BY DEF Resolved, Canonical, Numeric
<1>2. h \in Seq(Token) /\ ip \in Seq(Token) /\ ":" \in Token /\ Len(h) \in Nat \ {0}
  BY <1>1, CanonicalChars DEF Numeric, Tokens, Token, Other
<1> HIDE DEF h, ip
<1>3. in \in Seq(Token) /\ Parted(in, h, ":", ip)
  BY <1>2, Separated
<1> HIDE DEF in
<1>4. SepOf(in) = Len(h) + 1
  <2>1. CASE h = Literal6
    <3> DEFINE close == Find(in, {"]"})
    <3>1. /\ in # << >> /\ in[1] = "[" /\ Len(h) = 3
          /\ close = 3 /\ 3 \in 1..(Len(in) - 1) /\ in[3 + 1] = ":"
      BY <1>2, <1>3, <2>1, LiteralBefore
    <3>2. SepOf(in) = IF in # << >> /\ in[1] = "["
                THEN IF close \in 1..(Len(in) - 1) /\ in[close + 1] = ":" THEN close + 1 ELSE 0
                ELSE Find(in, {":"})
      BY DEF SepOf
    <3> HIDE DEF close
    <3>3. QED BY <3>1, <3>2
  <2>2. CASE Named(h)
    <3>1. in # << >> /\ in[1] # "[" /\ Find(in, {":"}) = Len(h) + 1
      BY <1>2, <1>3, <2>2, NameBefore
    <3>2. QED BY <3>1 DEF SepOf
  <2>3. QED BY <1>1, <2>1, <2>2 DEF Canonical
<1>5. SepOf(in) > 0 /\ SepOf(in) - 1 = Len(h) /\ SepOf(in) + 1 = Len(h) + 2
  BY <1>2, <1>4
<1>6. Upto(in, Len(h)) = h /\ From(in, Len(h) + 2) = ip
  BY <1>3 DEF Parted
<1>7. CanonResolve(in) = Pair(h, ip)
  BY <1>1, <1>5, <1>6, AddressBack, CanonResolveIs
<1>8. Pair(h, ip) = r
  BY <1>1 DEF Pair, Refused
<1>9. r # NoResolve
  <2>1. r.host # NoResolve.host
    BY <1>1 DEF NoResolve, h
  <2>2. QED BY <2>1
<1>10. QED BY <1>3, <1>7, <1>8, <1>9 DEF in, h, ip, Tokens

-----------------------------------------------------------------------------
(* The scan of an argument list, argument by argument.                     *)

Schemas == SUBSET Flags
ScanSet(schema) == [flag : schema \cup {"none", "refused"}, got : [schema -> Seq(Tokens)]]

Scans(argv, schema, f) == /\ f \in [0..Len(argv) -> ScanSet(schema)]
                          /\ f[0] = Start(schema)
                          /\ \A i \in 1..Len(argv) : f[i] = Argument(f[i - 1], argv[i])

Raw(argv, schema) == (CHOOSE f : Scans(argv, schema, f))[Len(argv)]

(* The two marks of a scan are no flags.                                   *)
LEMMA NoFlagIsEmpty ==
  "none" \notin Flags /\ "refused" \notin Flags
BY DEF Flags

(* A scan, by its two fields.                                              *)
LEMMA StateFacts ==
  ASSUME NEW schema, NEW s \in ScanSet(schema)
  PROVE  /\ s.flag \in schema \cup {"none", "refused"} /\ s.got \in [schema -> Seq(Tokens)]
         /\ s = [flag |-> s.flag, got |-> s.got]
BY DEF ScanSet

(* One more value for a flag keeps the type of what was read.              *)
LEMMA Appended ==
  ASSUME NEW schema, NEW got \in [schema -> Seq(Tokens)], NEW f \in schema, NEW v \in Tokens
  PROVE  [got EXCEPT ![f] = Append(got[f], v)] \in [schema -> Seq(Tokens)]
<1>1. got[f] \in Seq(Tokens)
  OBVIOUS
<1> DEFINE g == got[f]
<1> HIDE DEF g
<1>2. Append(g, v) \in Seq(Tokens)
  BY <1>1 DEF g
<1>3. QED BY <1>2 DEF g

(* An argument keeps the type of a scan, and refusal is final.             *)
LEMMA ArgumentType ==
  ASSUME NEW schema \in Schemas, NEW s \in ScanSet(schema), NEW a \in Tokens
  PROVE  /\ Argument(s, a) \in ScanSet(schema)
         /\ Argument(s, a).flag # "refused" => s.flag # "refused"
<1>1. s.flag \in schema \cup {"none", "refused"} /\ s.got \in [schema -> Seq(Tokens)]
  BY StateFacts
<1>2. DOMAIN s.got = schema
  BY <1>1
<1>3. ASSUME NEW f \in schema, NEW v \in Tokens PROVE Give(s, f, v) \in ScanSet(schema)
  <2> DEFINE g == [s.got EXCEPT ![f] = Append(s.got[f], v)]
  <2>1. g \in [schema -> Seq(Tokens)]
    BY <1>1, Appended
  <2>2. Give(s, f, v) = [flag |-> "none", got |-> g]
    BY DEF Give
  <2> HIDE DEF g
  <2>3. QED BY <2>1, <2>2 DEF ScanSet
<1>4. Refuse(s) \in ScanSet(schema) /\ \A f \in schema : Wait(s, f) \in ScanSet(schema)
  BY <1>1 DEF Refuse, Wait, ScanSet
<1>5. CASE s.flag = "refused"
  <2>1. Argument(s, a) = s
    BY <1>1, <1>2, <1>5, NoFlagIsEmpty DEF Argument, Schemas
  <2>2. QED BY <2>1
<1>6. CASE s.flag \in schema
  <2>1. s.flag # "refused"
    BY <1>6, NoFlagIsEmpty DEF Schemas
  <2>2. Argument(s, a) = IF LooksLikeFlag(a) THEN Refuse(s) ELSE Give(s, s.flag, a)
    BY <1>2, <1>6, <2>1 DEF Argument
  <2>3. QED BY <1>3, <1>4, <1>6, <2>1, <2>2
<1>7. CASE s.flag = "none"
  <2>1. s.flag # "refused" /\ s.flag \notin DOMAIN s.got
    BY <1>2, <1>7, NoFlagIsEmpty DEF Schemas
  <2>2. Argument(s, a) = IF Len(a) = 1 /\ a[1] \in DOMAIN s.got /\ MayGive(s, a[1])
                THEN IF a[1] \in Bare THEN Give(s, a[1], << >>) ELSE Wait(s, a[1])
                ELSE Refuse(s)
    BY <2>1 DEF Argument
  <2>3. << >> \in Tokens
    BY DEF Tokens
  <2>4. QED BY <1>2, <1>3, <1>4, <2>1, <2>2, <2>3
<1>8. QED BY <1>1, <1>5, <1>6, <1>7

(* Every list of arguments has a scan.                                     *)
LEMMA ScansExist ==
  ASSUME NEW schema \in Schemas, NEW argv \in Seq(Tokens)
  PROVE  \E f : Scans(argv, schema, f)
<1> DEFINE n    == Len(argv)
           S    == ScanSet(schema)
           base == Start(schema)
           step == [p \in S \X (1..n) |-> Argument(p[1], argv[p[2]])]
<1>1. n \in Nat /\ \A i \in 1..n : argv[i] \in Tokens
  OBVIOUS
<1>2. base \in S
  <2>1. [f \in schema |-> << >>] \in [schema -> Seq(Tokens)]
    OBVIOUS
  <2>2. QED BY <2>1 DEF Start, ScanSet
<1>3. IsStep(step, S, n)
  <2>1. \A s \in S, i \in 1..n : Argument(s, argv[i]) \in S
    BY <1>1, ArgumentType
  <2> HIDE DEF S, n
  <2>2. QED BY <2>1 DEF IsStep
<1>4. PICK f : Solves(f, n, S, base, step)
  <2> HIDE DEF n, S, base, step
  <2>1. QED BY <1>1, <1>2, <1>3, RecursionExists
<1>5. ASSUME NEW i \in 1..n PROVE f[i] = Argument(f[i - 1], argv[i])
  <2> HIDE DEF S, step, n, base
  <2>1. f[i - 1] \in S /\ f[i] = step[<<f[i - 1], i>>]
    BY <1>1, <1>4 DEF Solves
  <2> USE DEF step, n
  <2> HIDE DEF S
  <2>2. QED BY <2>1
<1>6. QED BY <1>4, <1>5 DEF Scans, Solves

(* It has one only.                                                        *)
LEMMA ScansUnique ==
  ASSUME NEW schema, NEW argv \in Seq(Tokens), NEW f, Scans(argv, schema, f), NEW g, Scans(argv, schema, g)
  PROVE  f[Len(argv)] = g[Len(argv)]
<1>1. Len(argv) \in Nat
  OBVIOUS
<1>2. f[0] = g[0] /\ \A i \in 1..Len(argv) : f[i - 1] = g[i - 1] => f[i] = g[i]
  BY DEF Scans
<1>3. \A i \in 0..Len(argv) : f[i] = g[i]
  BY <1>1, <1>2, StepByStep
<1>4. QED BY <1>1, <1>3

(* Raw is the end of that scan.                                            *)
LEMMA RawIs ==
  ASSUME NEW schema \in Schemas, NEW argv \in Seq(Tokens)
  PROVE  /\ \E f : Scans(argv, schema, f) /\ Raw(argv, schema) = f[Len(argv)]
         /\ \A f : Scans(argv, schema, f) => Raw(argv, schema) = f[Len(argv)]
         /\ Raw(argv, schema) \in ScanSet(schema)
<1> DEFINE g == CHOOSE f : Scans(argv, schema, f)
<1>1. Scans(argv, schema, g)
  BY ScansExist
<1>2. Raw(argv, schema) = g[Len(argv)]
  BY DEF Raw
<1> HIDE DEF g
<1>3. \A f : Scans(argv, schema, f) => Raw(argv, schema) = f[Len(argv)]
  BY <1>1, <1>2, ScansUnique
<1>4. g[Len(argv)] \in ScanSet(schema)
  <2>1. Len(argv) \in 0..Len(argv)
    OBVIOUS
  <2>2. QED BY <1>1, <2>1 DEF Scans
<1>5. QED BY <1>1, <1>2, <1>3, <1>4

(* Nothing is read of no arguments.                                        *)
LEMMA RawEmpty ==
  ASSUME NEW schema \in Schemas, NEW argv \in Seq(Tokens), Len(argv) = 0
  PROVE  Raw(argv, schema) = Start(schema)
<1>1. PICK f : Scans(argv, schema, f) /\ Raw(argv, schema) = f[Len(argv)]
  BY RawIs
<1>2. QED BY <1>1 DEF Scans

(* One more argument is one more step of the scan.                         *)
LEMMA RawStep ==
  ASSUME NEW schema \in Schemas, NEW argv \in Seq(Tokens), NEW a \in Tokens
  PROVE  /\ argv \o <<a>> \in Seq(Tokens)
         /\ Raw(argv \o <<a>>, schema) = Argument(Raw(argv, schema), a)
<1> DEFINE more == argv \o <<a>>
           n    == Len(argv)
<1>1. more \in Seq(Tokens) /\ Len(more) = n + 1 /\ n \in Nat /\ more[n + 1] = a /\ \A i \in 1..n : more[i] = argv[i]
  OBVIOUS
<1>2. PICK g : Scans(more, schema, g) /\ Raw(more, schema) = g[Len(more)]
  BY <1>1, RawIs
<1> HIDE DEF more
<1> DEFINE f == [i \in 0..n |-> g[i]]
<1>3. Scans(argv, schema, f)
  <2>1. f \in [0..n -> ScanSet(schema)] /\ f[0] = g[0]
    BY <1>1, <1>2 DEF Scans
  <2>2. ASSUME NEW i \in 1..n PROVE f[i] = Argument(f[i - 1], argv[i])
    <3>1. i \in 1..Len(more) /\ i - 1 \in 0..n /\ i \in 0..n
      BY <1>1
    <3>2. g[i] = Argument(g[i - 1], more[i])
      BY <1>2, <3>1 DEF Scans
    <3>3. QED BY <1>1, <3>1, <3>2
  <2> HIDE DEF f
  <2>3. QED BY <1>2, <2>1, <2>2 DEF Scans
<1>4. Raw(argv, schema) = f[n] /\ f[n] = g[n]
  BY <1>1, <1>3, RawIs
<1> HIDE DEF f
<1>5. g[n + 1] = Argument(g[n], a)
  <2>1. n + 1 \in 1..Len(more) /\ (n + 1) - 1 = n
    BY <1>1
  <2>2. QED BY <1>1, <1>2, <2>1 DEF Scans
<1>6. QED BY <1>1, <1>2, <1>4, <1>5 DEF more

(* The scan of the module is the scan that takes one more argument at a time. *)
LEMMA ScanIsRaw ==
  ASSUME NEW schema \in Schemas, NEW argv \in Seq(Tokens)
  PROVE  Scan(argv, schema) = Raw(argv, schema)
<1> DEFINE Is(g) == g = [i \in 0..Len(argv) |-> IF i = 0 THEN Start(schema) ELSE Argument(g[i - 1], argv[i])]
<1> DEFINE scan == CHOOSE g : Is(g)
<1>0. Len(argv) \in Nat
  OBVIOUS
<1>1. Scan(argv, schema) = scan[Len(argv)]
  BY DEF Scan, Once
<1>2. PICK f : Scans(argv, schema, f) /\ Raw(argv, schema) = f[Len(argv)]
  BY RawIs
<1>3. Is(f)
  BY <1>0, <1>2 DEF Scans
<1>4. Is(scan)
  <2> HIDE DEF Is
  <2>1. QED BY <1>3
<1>5. \A i \in 0..Len(argv) : scan[i] = f[i]
  <2> HIDE DEF scan
  <2>1. scan[0] = Start(schema) /\ \A i \in 1..Len(argv) : scan[i] = Argument(scan[i - 1], argv[i])
    BY <1>0, <1>4
  <2>2. scan[0] = f[0] /\ \A i \in 1..Len(argv) : scan[i - 1] = f[i - 1] => scan[i] = f[i]
    BY <1>2, <2>1 DEF Scans
  <2>3. QED BY <1>0, <2>2, StepByStep
<1>6. QED BY <1>0, <1>1, <1>2, <1>5

(* What is refused stays refused.                                          *)
Denied(argv, schema) == Raw(argv, schema).flag = "refused"

(* A list that is denied stays denied whatever follows.                    *)
LEMMA StaysRefused ==
  ASSUME NEW schema \in Schemas, NEW argv \in Seq(Tokens), NEW more \in Seq(Tokens)
  PROVE  Denied(argv, schema) => Denied(argv \o more, schema)
<1> DEFINE all == argv \o more
           n   == Len(argv)
<1>1. /\ all \in Seq(Tokens) /\ n \in Nat /\ Len(more) \in Nat /\ Len(all) = n + Len(more)
      /\ \A i \in 1..n : all[i] = argv[i]
  OBVIOUS
<1>2. PICK g : Scans(all, schema, g) /\ Raw(all, schema) = g[Len(all)]
  BY <1>1, RawIs
<1> HIDE DEF all
<1> DEFINE f == [i \in 0..n |-> g[i]]
<1>3. Scans(argv, schema, f)
  <2>1. f \in [0..n -> ScanSet(schema)] /\ f[0] = g[0]
    BY <1>1, <1>2 DEF Scans
  <2>2. ASSUME NEW i \in 1..n PROVE f[i] = Argument(f[i - 1], argv[i])
    <3>1. i \in 1..Len(all) /\ i - 1 \in 0..n /\ i \in 0..n
      BY <1>1
    <3>2. g[i] = Argument(g[i - 1], all[i])
      BY <1>2, <3>1 DEF Scans
    <3>3. QED BY <1>1, <3>1, <3>2
  <2> HIDE DEF f
  <2>3. QED BY <1>2, <2>1, <2>2 DEF Scans
<1>4. Raw(argv, schema) = f[n] /\ f[n] = g[n]
  BY <1>1, <1>3, RawIs
<1> HIDE DEF f
<1> SUFFICES ASSUME Denied(argv, schema) PROVE Denied(all, schema)
  BY DEF all
<1>5. g[n].flag = "refused"
  BY <1>4 DEF Denied
<1> DEFINE T == {k \in Nat : k <= Len(more) => g[n + k].flag = "refused"}
<1>6. 0 \in T
  BY <1>1, <1>5
<1>7. ASSUME NEW k \in T PROVE k + 1 \in T
  <2> SUFFICES ASSUME k + 1 <= Len(more) PROVE g[n + (k + 1)].flag = "refused"
    OBVIOUS
  <2>1. k \in Nat /\ g[n + k].flag = "refused" /\ n + k \in 0..Len(all)
    BY <1>1
  <2>2. n + (k + 1) \in 1..Len(all) /\ (n + (k + 1)) - 1 = n + k
    BY <1>1, <2>1
  <2>3. g[n + (k + 1)] = Argument(g[n + k], all[n + (k + 1)])
    BY <1>2, <2>2 DEF Scans
  <2>4. g[n + k] \in ScanSet(schema) /\ all[n + (k + 1)] \in Tokens
    BY <1>1, <1>2, <2>1, <2>2 DEF Scans
  <2>5. QED BY <2>1, <2>3, <2>4, ArgumentType
<1>8. T = Nat
  <2>1. T \in SUBSET Nat
    OBVIOUS
  <2> HIDE DEF T
  <2>2. QED BY <1>6, <1>7, <2>1, NatInduct
<1>9. g[n + Len(more)].flag = "refused"
  BY <1>1, <1>8
<1>10. QED BY <1>1, <1>2, <1>9 DEF Denied

(* Two texts, joined.                                                      *)
LEMMA JoinTwo ==
  ASSUME NEW S, NEW a \in S, NEW b \in S
  PROVE  <<a>> \o <<b>> = <<a, b>> /\ <<a>> \in Seq(S) /\ <<b>> \in Seq(S) /\ <<a, b>> \in Seq(S)
<1> DEFINE x == <<a>> \o <<b>>
           y == <<a, b>>
<1>1. x \in Seq(S) /\ Len(x) = 2 /\ x[1] = a /\ x[2] = b
  OBVIOUS
<1>2. y \in Seq(S) /\ Len(y) = 2 /\ y[1] = a /\ y[2] = b
  OBVIOUS
<1>3. <<a>> \in Seq(S) /\ <<b>> \in Seq(S)
  OBVIOUS
<1> HIDE DEF x, y
<1>4. x = y
  <2>1. \A i \in 1..2 : x[i] = y[i]
    BY <1>1, <1>2
  <2>2. QED BY <1>1, <1>2, <2>1, SameText
<1>5. QED BY <1>1, <1>2, <1>3, <1>4 DEF x, y

(* A list that has been read so far, each flag with its values.            *)
Reads(argv, schema, got) == /\ argv \in Seq(Tokens) /\ got \in [schema -> Seq(Tokens)]
                            /\ Raw(argv, schema) = [flag |-> "none", got |-> got]
May(got, f)    == IF f = "--tunable" THEN Len(got[f]) < TunableMax ELSE got[f] = << >>
More(got, f, v) == [got EXCEPT ![f] = Append(@, v)]

(* A flag and its value are read when the flag may still be given and the  *)
(* value does not look like a flag, and only then.                         *)
LEMMA PairRead ==
  ASSUME NEW schema \in Schemas, NEW argv, NEW got, Reads(argv, schema, got), NEW f \in schema \ Bare, NEW v \in Tokens
  PROVE  LET more == argv \o << <<f>>, v >> IN
         /\ more \in Seq(Tokens)
         /\ May(got, f) /\ ~ LooksLikeFlag(v) => Reads(more, schema, More(got, f, v))
         /\ ~ Denied(more, schema) => May(got, f) /\ ~ LooksLikeFlag(v)
<1> DEFINE a == <<f>>
           s == Raw(argv, schema)
           one == argv \o <<a>>
           two == one \o <<v>>
           more == argv \o << a, v >>
<1>1. a \in Tokens /\ Len(a) = 1 /\ a[1] = f
  <2>1. f \in Flags
    BY DEF Schemas
  <2>2. f \in Token
    BY <2>1 DEF Token, Words
  <2>3. QED BY <2>2 DEF Tokens
<1>2. argv \in Seq(Tokens) /\ got \in [schema -> Seq(Tokens)] /\ s.flag = "none" /\ s.got = got /\ DOMAIN s.got = schema
  BY DEF Reads
<1> HIDE DEF a
<1>3. more = two /\ more \in Seq(Tokens) /\ one \in Seq(Tokens)
  <2>1. <<a>> \in Seq(Tokens) /\ <<v>> \in Seq(Tokens) /\ <<a>> \o <<v>> = <<a, v>>
    BY <1>1, JoinTwo
  <2>2. (argv \o <<a>>) \o <<v>> = argv \o (<<a>> \o <<v>>)
    BY <1>2, <2>1, Associative
  <2>3. <<a, v>> \in Seq(Tokens)
    BY <1>1, JoinTwo
  <2>4. more = two
    BY <2>1, <2>2
  <2> DEFINE p == <<a, v>>
             q == <<a>>
  <2> HIDE DEF p, q
  <2>5. argv \o p \in Seq(Tokens) /\ argv \o q \in Seq(Tokens)
    BY <1>2, <2>1, <2>3 DEF p, q
  <2>6. QED BY <2>4, <2>5 DEF p, q
<1>4. Raw(one, schema) = Argument(s, a) /\ Raw(two, schema) = Argument(Argument(s, a), v)
  <2>1. Raw(one, schema) = Argument(s, a)
    BY <1>1, <1>2, RawStep
  <2> HIDE DEF one
  <2>2. Raw(two, schema) = Argument(Raw(one, schema), v)
    BY <1>3, RawStep
  <2>3. QED BY <2>1, <2>2
<1> HIDE DEF one, two, s, more
<1>5. s.flag # "refused" /\ s.flag \notin DOMAIN s.got
  BY <1>2, NoFlagIsEmpty DEF Schemas
<1>6. Argument(s, a) = IF Len(a) = 1 /\ a[1] \in DOMAIN s.got /\ MayGive(s, a[1])
                THEN IF a[1] \in Bare THEN Give(s, a[1], << >>) ELSE Wait(s, a[1])
                ELSE Refuse(s)
  BY <1>5 DEF Argument
<1>7. Argument(s, a) = IF May(got, f) THEN Wait(s, f) ELSE Refuse(s)
  BY <1>1, <1>2, <1>6 DEF MayGive, May
<1>8. CASE May(got, f)
  <2> DEFINE w == Wait(s, f)
  <2>1. w.flag = f /\ w.got = got /\ f # "refused" /\ f # "none"
    BY <1>2, NoFlagIsEmpty DEF Wait, Schemas
  <2>2. Argument(w, v) = IF LooksLikeFlag(v) THEN Refuse(w) ELSE Give(w, w.flag, v)
    <3> HIDE DEF w
    <3>1. f \in DOMAIN w.got
      BY <1>2, <2>1
    <3>2. QED BY <2>1, <3>1 DEF Argument
  <2>3. Give(w, f, v) = [flag |-> "none", got |-> More(got, f, v)]
    BY <2>1 DEF Give, More
  <2>4. Refuse(w).flag = "refused"
    BY DEF Refuse
  <2> HIDE DEF w
  <2>5. Raw(more, schema) = IF LooksLikeFlag(v) THEN Refuse(w) ELSE [flag |-> "none", got |-> More(got, f, v)]
    BY <1>3, <1>4, <1>7, <1>8, <2>1, <2>2, <2>3 DEF w
  <2>6. More(got, f, v) \in [schema -> Seq(Tokens)]
    BY <1>2, Appended DEF More
  <2>7. QED BY <1>3, <1>8, <2>4, <2>5, <2>6 DEF Reads, Denied, more, a
<1>9. CASE ~ May(got, f)
  <2> DEFINE w == Refuse(s)
  <2>1. w.flag = "refused"
    BY DEF Refuse
  <2>2. Raw(one, schema) = w
    BY <1>4, <1>7, <1>9
  <2> HIDE DEF w
  <2>3. Denied(one, schema)
    BY <2>1, <2>2 DEF Denied
  <2>4. Denied(one \o <<v>>, schema)
    <3>1. <<v>> \in Seq(Tokens)
      OBVIOUS
    <3>2. QED BY <1>3, <2>3, <3>1, StaysRefused
  <2>5. Denied(more, schema)
    BY <1>3, <2>4 DEF two
  <2>6. QED BY <1>3, <1>9, <2>5 DEF more, a
<1>10. QED BY <1>8, <1>9

(* got with the values vs for f.                                           *)
Set(got, f, vs) == [got EXCEPT ![f] = vs]
One(v)          == IF v = << >> THEN << >> ELSE <<v>>

(* What becomes of a list: it is read into got, unless one of vs looks     *)
(* like a flag.                                                            *)
Outcome(argv, schema, vs, got) ==
  /\ argv \in Seq(Tokens) /\ got \in [schema -> Seq(Tokens)]
  /\ IF \A v \in vs : ~ LooksLikeFlag(v) THEN Reads(argv, schema, got) ELSE Denied(argv, schema)

(* New values for one flag leave those of the others.                      *)
LEMMA SetFacts ==
  ASSUME NEW schema, NEW got \in [schema -> Seq(Tokens)], NEW f \in schema, NEW vs \in Seq(Tokens)
  PROVE  /\ Set(got, f, vs) \in [schema -> Seq(Tokens)]
         /\ Set(got, f, vs)[f] = vs
         /\ \A e \in schema : e # f => Set(got, f, vs)[e] = got[e]
BY DEF Set

(* A flag and its value are arguments.                                     *)
LEMMA PairTyped ==
  ASSUME NEW schema \in Schemas, NEW f \in schema, NEW v \in Tokens
  PROVE  << <<f>>, v >> \in Seq(Tokens)
<1> DEFINE a == <<f>>
<1>1. a \in Tokens
  <2>1. f \in Flags
    BY DEF Schemas
  <2>2. f \in Token
    BY <2>1 DEF Token, Words
  <2>3. QED BY <2>2 DEF Tokens
<1> HIDE DEF a
<1>2. << a, v >> \in Seq(Tokens)
  BY <1>1, JoinTwo
<1>3. QED BY <1>2 DEF a

(* After a flag and its value the list is read, with one value more.       *)
LEMMA PairOutcome ==
  ASSUME NEW schema \in Schemas, NEW argv, NEW vs, NEW got, Outcome(argv, schema, vs, got),
         NEW f \in schema \ Bare, f # "--tunable", got[f] = << >>, NEW v \in Tokens
  PROVE  Outcome(argv \o << <<f>>, v >>, schema, vs \cup {v}, Set(got, f, <<v>>))
<1> DEFINE pair == << <<f>>, v >>
           more == argv \o pair
           new  == Set(got, f, <<v>>)
<1>1. argv \in Seq(Tokens) /\ got \in [schema -> Seq(Tokens)] /\ pair \in Seq(Tokens)
  BY PairTyped DEF Outcome
<1>2. more \in Seq(Tokens)
  <2> HIDE DEF pair
  <2>1. QED BY <1>1
<1>3. new \in [schema -> Seq(Tokens)]
  <2>1. <<v>> \in Seq(Tokens)
    BY JoinTwo
  <2>2. QED BY <1>1, <2>1, SetFacts
<1>4. CASE \A w \in vs : ~ LooksLikeFlag(w)
  <2>1. Reads(argv, schema, got)
    BY <1>4 DEF Outcome
  <2>2. May(got, f)
    BY DEF May
  <2>3. More(got, f, v) = new
    <3>1. Append(got[f], v) = <<v>>
      OBVIOUS
    <3>2. QED BY <3>1 DEF More, Set
  <2>4. /\ ~ LooksLikeFlag(v) => Reads(more, schema, new)
        /\ ~ Denied(more, schema) => ~ LooksLikeFlag(v)
    BY <2>1, <2>2, <2>3, PairRead
  <2> HIDE DEF more, new
  <2>5. QED BY <1>2, <1>3, <1>4, <2>4 DEF Outcome, more, new
<1>5. CASE ~ \A w \in vs : ~ LooksLikeFlag(w)
  <2>1. Denied(argv, schema)
    BY <1>5 DEF Outcome
  <2>2. Denied(more, schema)
    <3> HIDE DEF pair
    <3>1. QED BY <1>1, <2>1, StaysRefused
  <2> HIDE DEF more, new
  <2>3. QED BY <1>2, <1>3, <1>5, <2>2 DEF Outcome, more, new
<1>6. QED BY <1>4, <1>5

(* So it is after an option that may be missing.                           *)
LEMMA OptOutcome ==
  ASSUME NEW schema \in Schemas, NEW argv, NEW vs, NEW got, Outcome(argv, schema, vs, got),
         NEW f \in schema \ Bare, f # "--tunable", got[f] = << >>, NEW v \in Tokens
  PROVE  Outcome(argv \o Opt(f, v), schema, vs \cup {v}, Set(got, f, One(v)))
<1>1. CASE v = << >>
  <2>1. argv \o Opt(f, v) = argv
    BY <1>1 DEF Opt, Outcome
  <2>2. Set(got, f, One(v)) = got
    BY <1>1 DEF Set, One, Outcome
  <2>3. ~ LooksLikeFlag(v)
    BY <1>1 DEF LooksLikeFlag
  <2>4. (\A w \in vs \cup {v} : ~ LooksLikeFlag(w)) <=> (\A w \in vs : ~ LooksLikeFlag(w))
    BY <2>3
  <2>5. QED BY <2>1, <2>2, <2>4 DEF Outcome
<1>2. CASE v # << >>
  <2>1. Opt(f, v) = << <<f>>, v >> /\ One(v) = <<v>>
    BY <1>2 DEF Opt, One
  <2>2. QED BY <2>1, PairOutcome
<1>3. QED BY <1>1, <1>2

(* So it is after a flag without a value.                                  *)
LEMMA BareOutcome ==
  ASSUME NEW schema \in Schemas, NEW argv, NEW vs, NEW got, Outcome(argv, schema, vs, got),
         "--no-proxy" \in schema, got["--no-proxy"] = << >>
  PROVE  Outcome(argv \o << <<"--no-proxy">> >>, schema, vs, Set(got, "--no-proxy", << << >> >>))
<1> DEFINE f == "--no-proxy"
           a == <<f>>
           last1 == <<a>>
           more == argv \o last1
           e == << >>
           vals == <<e>>
           new == Set(got, f, vals)
<1>1. a \in Tokens /\ Len(a) = 1 /\ a[1] = f
  <2>1. f \in Token
    BY DEF Token, Words, Flags
  <2>2. QED BY <2>1 DEF Tokens
<1> HIDE DEF a
<1>2. argv \in Seq(Tokens) /\ got \in [schema -> Seq(Tokens)] /\ last1 \in Seq(Tokens)
  BY <1>1, JoinTwo DEF Outcome
<1>3. more \in Seq(Tokens) /\ Raw(more, schema) = Argument(Raw(argv, schema), a)
  BY <1>1, <1>2, RawStep
<1>4. new \in [schema -> Seq(Tokens)]
  <2>1. e \in Tokens
    BY DEF Tokens
  <2> HIDE DEF e
  <2>2. vals \in Seq(Tokens)
    BY <2>1, JoinTwo
  <2>3. QED BY <1>2, <2>2, SetFacts
<1>5. CASE \A w \in vs : ~ LooksLikeFlag(w)
  <2> DEFINE s == Raw(argv, schema)
  <2>1. s = [flag |-> "none", got |-> got]
    BY <1>5 DEF Outcome, Reads
  <2> HIDE DEF s
  <2>2. s.flag = "none" /\ s.got = got /\ DOMAIN s.got = schema
    BY <1>2, <2>1
  <2>3. s.flag # "refused" /\ s.flag \notin DOMAIN s.got
    BY <2>2, NoFlagIsEmpty DEF Schemas
  <2>4. Argument(s, a) = IF Len(a) = 1 /\ a[1] \in DOMAIN s.got /\ MayGive(s, a[1])
                THEN IF a[1] \in Bare THEN Give(s, a[1], << >>) ELSE Wait(s, a[1])
                ELSE Refuse(s)
    BY <2>3 DEF Argument
  <2>5. MayGive(s, f)
    BY <2>2 DEF MayGive
  <2>6. f \in Bare
    BY DEF Bare
  <2>7. Argument(s, a) = Give(s, f, e)
    BY <1>1, <2>2, <2>4, <2>5, <2>6
  <2>8. Give(s, f, e) = [flag |-> "none", got |-> new]
    <3>1. Append(got[f], e) = vals
      OBVIOUS
    <3>2. QED BY <2>2, <3>1 DEF Give, Set
  <2>9. Raw(more, schema) = [flag |-> "none", got |-> new]
    BY <1>3, <2>7, <2>8 DEF s
  <2> HIDE DEF more, new
  <2>10. QED BY <1>3, <1>4, <1>5, <2>9 DEF Outcome, Reads, more, new, last1, a, vals, e
<1>6. CASE ~ \A w \in vs : ~ LooksLikeFlag(w)
  <2>1. Denied(argv, schema)
    BY <1>6 DEF Outcome
  <2>2. Denied(more, schema)
    <3> HIDE DEF last1
    <3>1. QED BY <1>2, <2>1, StaysRefused
  <2> HIDE DEF more, new
  <2>3. QED BY <1>3, <1>4, <1>6, <2>2 DEF Outcome, more, new, last1, a, vals, e
<1>7. QED BY <1>5, <1>6

(* The empty list gives no flag a value.                                   *)
LEMMA StartOutcome ==
  ASSUME NEW schema \in Schemas
  PROVE  /\ Outcome(<< >>, schema, {}, [f \in schema |-> << >>])
         /\ \A f \in schema : [e \in schema |-> << >>][f] = << >>
<1> DEFINE none == << >>
           got  == [f \in schema |-> << >>]
<1>1. none \in Seq(Tokens) /\ Len(none) = 0 /\ got \in [schema -> Seq(Tokens)]
  OBVIOUS
<1>2. Raw(none, schema) = [flag |-> "none", got |-> got]
  BY <1>1, RawEmpty DEF Start
<1> HIDE DEF none, got
<1>3. Outcome(none, schema, {}, got)
  BY <1>1, <1>2 DEF Outcome, Reads
<1>4. QED BY <1>3 DEF none, got

(* n pairs of --tunable and a setting, and the settings.                   *)
Settings(tunables, n) == /\ tunables \in Seq(Tokens) /\ n \in Nat /\ Len(tunables) = 2 * n
                         /\ \A i \in 1..n : tunables[2 * i - 1] = <<"--tunable">>
Kvs(tunables, n)      == [i \in 1..n |-> tunables[2 * i]]
Few(tunables, k)      == k <= TunableMax /\ \A i \in 1..k : ~ LooksLikeFlag(tunables[2 * i])

(* The first settings and the next.                                        *)
LEMMA PairsOfSettings ==
  ASSUME NEW T, NEW n, Settings(T, n), NEW k \in Nat, k + 1 <= n
  PROVE  /\ Kvs(T, k) \in Seq(Tokens) /\ Len(Kvs(T, k)) = k
         /\ T[2 * (k + 1)] \in Tokens
         /\ Kvs(T, k + 1) = Append(Kvs(T, k), T[2 * (k + 1)])
         /\ Upto(T, 2 * k) \in Seq(Tokens)
         /\ Upto(T, 2 * (k + 1)) = Upto(T, 2 * k) \o << <<"--tunable">>, T[2 * (k + 1)] >>
<1> DEFINE a == T[2 * k + 1]
           v == T[2 * (k + 1)]
           x == Upto(T, 2 * k)
           y == Upto(T, 2 * (k + 1))
           p == <<a, v>>
           z == x \o p
           ks == Kvs(T, k)
           more == Kvs(T, k + 1)
<1>1. T \in Seq(Tokens) /\ Len(T) = 2 * n /\ n \in Nat /\ \A i \in 1..Len(T) : T[i] \in Tokens
  BY DEF Settings
<1>2. a \in Tokens /\ v \in Tokens /\ a = <<"--tunable">>
  <2>1. 2 * k + 1 \in 1..Len(T) /\ 2 * (k + 1) \in 1..Len(T) /\ k + 1 \in 1..n /\ 2 * (k + 1) - 1 = 2 * k + 1
    BY <1>1
  <2>2. T[2 * (k + 1) - 1] = <<"--tunable">>
    BY <2>1 DEF Settings
  <2>3. QED BY <1>1, <2>1, <2>2
<1>3. ks \in Seq(Tokens) /\ Len(ks) = k /\ \A i \in 1..k : ks[i] = T[2 * i]
  <2>1. \A i \in 1..k : T[2 * i] \in Tokens
    BY <1>1
  <2>2. QED BY <2>1 DEF Kvs
<1>4. more \in Seq(Tokens) /\ Len(more) = k + 1 /\ \A i \in 1..(k + 1) : more[i] = T[2 * i]
  <2>1. \A i \in 1..(k + 1) : T[2 * i] \in Tokens
    BY <1>1
  <2>2. QED BY <2>1 DEF Kvs
<1>5. p \in Seq(Tokens) /\ Len(p) = 2 /\ p[1] = a /\ p[2] = v
  BY <1>2, JoinTwo
<1>6. /\ x \in Seq(Tokens) /\ Len(x) = 2 * k /\ \A i \in 1..(2 * k) : x[i] = T[i]
      /\ y \in Seq(Tokens) /\ Len(y) = 2 * k + 2 /\ \A i \in 1..(2 * k + 2) : y[i] = T[i]
  <2>1. 2 * k \in 0..Len(T) /\ 2 * (k + 1) \in 0..Len(T) /\ 2 * (k + 1) = 2 * k + 2
    BY <1>1
  <2>2. ASSUME NEW c \in 0..Len(T)
        PROVE  Upto(T, c) \in Seq(Tokens) /\ Len(Upto(T, c)) = c /\ \A i \in 1..c : Upto(T, c)[i] = T[i]
    <3> DEFINE u == Upto(T, c)
    <3>1. u \in Seq(Tokens) /\ Len(u) = (IF c < Len(T) THEN c ELSE Len(T)) /\ \A i \in 1..Len(u) : u[i] = T[i]
      BY <1>1, UptoFacts
    <3> HIDE DEF u
    <3>2. Len(u) = c
      BY <1>1, <3>1
    <3>3. QED BY <3>1, <3>2 DEF u
  <2>3. x \in Seq(Tokens) /\ Len(x) = 2 * k /\ \A i \in 1..(2 * k) : x[i] = T[i]
    BY <2>1, <2>2
  <2>4. y \in Seq(Tokens) /\ Len(y) = 2 * (k + 1) /\ \A i \in 1..(2 * (k + 1)) : y[i] = T[i]
    BY <2>1, <2>2
  <2> HIDE DEF x, y
  <2>5. QED BY <2>1, <2>3, <2>4
<1> HIDE DEF ks, more, p, x, y
<1>7. more = Append(ks, v)
  <2> DEFINE l == Append(ks, v)
  <2>1. l \in Seq(Tokens) /\ Len(l) = k + 1 /\ l[k + 1] = v /\ \A i \in 1..k : l[i] = ks[i]
    BY <1>2, <1>3
  <2> HIDE DEF l
  <2>2. \A i \in 1..(k + 1) : l[i] = more[i]
    <3>1. ASSUME NEW i \in 1..(k + 1) PROVE l[i] = more[i]
      <4>1. i = k + 1 \/ i \in 1..k
        OBVIOUS
      <4>2. QED BY <1>3, <1>4, <2>1, <4>1
    <3>2. QED BY <3>1
  <2>3. l = more
    BY <1>4, <2>1, <2>2, SameText
  <2>4. QED BY <2>3 DEF l
<1>8. y = z
  <2>1. z \in Seq(Tokens) /\ Len(z) = 2 * k + 2 /\ (\A i \in 1..(2 * k) : z[i] = x[i]) /\ z[2 * k + 1] = p[1] /\ z[2 * k + 2] = p[2]
    <3> DEFINE m == 2 * k
    <3>1. m \in Nat /\ Len(x) = m
      BY <1>6
    <3> HIDE DEF m
    <3>2. z \in Seq(Tokens) /\ Joins(z, x, p)
      BY <1>5, <1>6, Joint
    <3> HIDE DEF z
    <3>3. Len(z) = m + 2 /\ (\A i \in 1..m : z[i] = x[i]) /\ z[m + 1] = p[1] /\ z[m + 2] = p[2]
      <4>1. 1 \in 1..Len(p) /\ 2 \in 1..Len(p) /\ Len(z) = Len(x) + Len(p)
        BY <1>5, <3>2 DEF Joins
      <4>2. (\A i \in 1..Len(x) : z[i] = x[i]) /\ z[Len(x) + 1] = p[1] /\ z[Len(x) + 2] = p[2]
        BY <3>2, <4>1 DEF Joins
      <4>3. QED BY <1>5, <3>1, <4>1, <4>2
    <3>4. QED BY <3>2, <3>3 DEF m
  <2> HIDE DEF z
  <2>2. \A i \in 1..(2 * k + 2) : y[i] = z[i]
    <3>1. ASSUME NEW i \in 1..(2 * k + 2) PROVE y[i] = z[i]
      <4>1. i \in 1..(2 * k) \/ i = 2 * k + 1 \/ i = 2 * k + 2
        OBVIOUS
      <4>2. 2 * (k + 1) = 2 * k + 2
        OBVIOUS
      <4>3. CASE i \in 1..(2 * k)
        BY <1>6, <2>1, <4>3
      <4>4. CASE i = 2 * k + 1
        BY <1>5, <1>6, <2>1, <4>4
      <4>5. CASE i = 2 * k + 2
        BY <1>5, <1>6, <2>1, <4>2, <4>5
      <4>6. QED BY <4>1, <4>3, <4>4, <4>5
    <3>2. QED BY <3>1
  <2>3. QED BY <1>6, <2>1, <2>2, SameText
<1>9. p = << <<"--tunable">>, v >>
  BY <1>2 DEF p
<1>10. QED BY <1>2, <1>3, <1>6, <1>7, <1>8, <1>9 DEF ks, more, x, y, z

(* All settings are read, unless they are too many or one looks like a flag. *)
LEMMA TunablesRead ==
  ASSUME NEW schema \in Schemas, "--tunable" \in schema, NEW argv, NEW got, Reads(argv, schema, got), got["--tunable"] = << >>,
         NEW T, NEW n, Settings(T, n)
  PROVE  /\ argv \o T \in Seq(Tokens)
         /\ IF Few(T, n) THEN Reads(argv \o T, schema, Set(got, "--tunable", Kvs(T, n))) ELSE Denied(argv \o T, schema)
<1> DEFINE f == "--tunable"
           L(k) == argv \o Upto(T, 2 * k)
           G(k) == Set(got, f, Kvs(T, k))
           P(k) == IF Few(T, k) THEN Reads(L(k), schema, G(k)) ELSE Denied(L(k), schema)
<1>1. /\ argv \in Seq(Tokens) /\ got \in [schema -> Seq(Tokens)] /\ T \in Seq(Tokens) /\ n \in Nat /\ Len(T) = 2 * n
  BY DEF Reads, Settings
<1>2. f \in schema \ Bare
  BY DEF Bare
<1>3. P(0)
  <2>1. Few(T, 0)
    BY DEF Few, TunableMax
  <2>2. Kvs(T, 0) = << >> /\ G(0) = got
    <3>1. Kvs(T, 0) = << >>
      BY DEF Kvs
    <3>2. QED BY <1>1, <3>1 DEF Set
  <2>3. L(0) = argv
    <3> DEFINE u == Upto(T, 2 * 0)
    <3>1. u = << >>
      BY <1>1 DEF Upto
    <3> HIDE DEF u
    <3>2. argv \o u = argv
      BY <1>1, <3>1
    <3>3. QED BY <3>2 DEF u
  <2>4. QED BY <2>1, <2>2, <2>3
<1>4. ASSUME NEW k \in Nat, k + 1 <= n, P(k) PROVE P(k + 1)
  <2> DEFINE v == T[2 * (k + 1)]
             pair == << <<f>>, v >>
             x == Upto(T, 2 * k)
             ks == Kvs(T, k)
  <2>1. /\ ks \in Seq(Tokens) /\ Len(ks) = k /\ v \in Tokens /\ Kvs(T, k + 1) = Append(ks, v) /\ x \in Seq(Tokens)
        /\ Upto(T, 2 * (k + 1)) = x \o pair
    BY <1>4, PairsOfSettings
  <2>2. pair \in Seq(Tokens)
    BY <1>2, <2>1, PairTyped
  <2> HIDE DEF pair, x, ks, v
  <2>3. L(k) = argv \o x /\ L(k) \in Seq(Tokens) /\ L(k + 1) = L(k) \o pair
    <3>1. (argv \o x) \o pair = argv \o (x \o pair)
      <4>1. argv \in Seq(Tokens) /\ x \in Seq(Tokens) /\ pair \in Seq(Tokens)
        BY <1>1, <2>1, <2>2
      <4> HIDE DEF L, G, P
      <4>2. QED BY <4>1, Associative
    <3>2. argv \o x \in Seq(Tokens)
      BY <1>1, <2>1
    <3>3. QED BY <2>1, <3>1, <3>2 DEF x
  <2>4. Few(T, k + 1) <=> (Few(T, k) /\ k < TunableMax /\ ~ LooksLikeFlag(v))
    <3>1. \A i \in 1..(k + 1) : i \in 1..k \/ i = k + 1
      OBVIOUS
    <3>2. 1..k \subseteq 1..(k + 1) /\ k + 1 \in 1..(k + 1)
      OBVIOUS
    <3> DEFINE N(i) == ~ LooksLikeFlag(T[2 * i])
    <3>3. (\A i \in 1..(k + 1) : N(i)) <=> ((\A i \in 1..k : N(i)) /\ N(k + 1))
      <4> HIDE DEF N
      <4>1. QED BY <3>1, <3>2
    <3>4. (k + 1 <= TunableMax) <=> (k <= TunableMax /\ k < TunableMax)
      BY DEF TunableMax
    <3>5. QED BY <3>3, <3>4 DEF Few, v
  <2> HIDE DEF L
  <2>5. CASE Few(T, k)
    <3>1. Reads(L(k), schema, G(k))
      BY <1>4, <2>5
    <3>2. G(k) \in [schema -> Seq(Tokens)] /\ G(k)[f] = ks
      <4>1. Set(got, f, ks) \in [schema -> Seq(Tokens)] /\ Set(got, f, ks)[f] = ks
        BY <1>1, <1>2, <2>1, SetFacts
      <4>2. QED BY <4>1 DEF ks
    <3>3. May(G(k), f) <=> k < TunableMax
      BY <2>1, <3>2 DEF May
    <3>4. More(G(k), f, v) = G(k + 1)
      BY <1>1, <1>2, <2>1 DEF More, Set, ks
    <3> HIDE DEF G
    <3>5. /\ May(G(k), f) /\ ~ LooksLikeFlag(v) => Reads(L(k) \o pair, schema, More(G(k), f, v))
          /\ ~ Denied(L(k) \o pair, schema) => May(G(k), f) /\ ~ LooksLikeFlag(v)
      <4>1. v \in Tokens
        BY <2>1
      <4>2. QED BY <1>2, <3>1, <4>1, PairRead DEF pair
    <3>6. QED BY <2>3, <2>4, <2>5, <3>3, <3>4, <3>5
  <2>6. CASE ~ Few(T, k)
    <3>1. Denied(L(k), schema)
      BY <1>4, <2>6
    <3>2. Denied(L(k + 1), schema)
      BY <2>2, <2>3, <3>1, StaysRefused
    <3>3. QED BY <2>4, <2>6, <3>2
  <2>7. QED BY <2>5, <2>6
<1> HIDE DEF P
<1>5. P(n)
  <2> DEFINE U == {k \in Nat : k <= n => P(k)}
  <2>1. 0 \in U
    BY <1>3
  <2>2. ASSUME NEW k \in U PROVE k + 1 \in U
    <3>1. k \in Nat /\ (k + 1 <= n => k <= n)
      BY <1>1
    <3>2. QED BY <1>4, <3>1
  <2>3. U \in SUBSET Nat
    OBVIOUS
  <2>4. U = Nat
    <3> HIDE DEF U
    <3>1. QED BY <2>1, <2>2, <2>3, NatInduct
  <2>5. QED BY <1>1, <2>4
<1>6. L(n) = argv \o T /\ argv \o T \in Seq(Tokens)
  <2>1. Upto(T, 2 * n) = T
    BY <1>1 DEF Upto
  <2>2. QED BY <1>1, <2>1
<1>7. QED BY <1>5, <1>6 DEF P

(* One more pair makes one more setting.                                   *)
LEMMA SettingsMore ==
  ASSUME NEW T, NEW n, Settings(T, n), NEW v \in Tokens
  PROVE  Settings(T \o << <<"--tunable">>, v >>, n + 1)
<1> DEFINE a == <<"--tunable">>
           p == <<a, v>>
           z == T \o p
<1>1. T \in Seq(Tokens) /\ Len(T) = 2 * n /\ n \in Nat /\ \A i \in 1..n : T[2 * i - 1] = a
  BY DEF Settings
<1>2. a \in Tokens
  <2>1. "--tunable" \in Token
    BY DEF Token, Words, Flags
  <2>2. QED BY <2>1 DEF Tokens
<1> HIDE DEF a
<1>3. p \in Seq(Tokens) /\ Len(p) = 2 /\ p[1] = a
  BY <1>2, JoinTwo
<1> HIDE DEF p
<1>4. z \in Seq(Tokens) /\ Joins(z, T, p)
  BY <1>1, <1>3, Joint
<1> HIDE DEF z
<1>5. 1 \in 1..Len(p) /\ Len(z) = Len(T) + Len(p)
  BY <1>3, <1>4 DEF Joins
<1>6. (\A i \in 1..Len(T) : z[i] = T[i]) /\ z[Len(T) + 1] = p[1]
  BY <1>4, <1>5 DEF Joins
<1>7. ASSUME NEW i \in 1..(n + 1) PROVE z[2 * i - 1] = a
  <2>1. CASE i \in 1..n
    <3>1. 2 * i - 1 \in 1..Len(T)
      BY <1>1, <2>1
    <3>2. QED BY <1>1, <1>6, <2>1, <3>1
  <2>2. CASE i = n + 1
    <3>1. 2 * i - 1 = Len(T) + 1
      BY <1>1, <2>2
    <3>2. QED BY <1>3, <1>6, <3>1
  <2>3. QED BY <1>1, <2>1, <2>2
<1>8. n + 1 \in Nat /\ Len(z) = 2 * (n + 1)
  BY <1>1, <1>3, <1>5
<1>9. QED BY <1>4, <1>7, <1>8 DEF Settings, z, p, a

(* How far extraArgs have been translated.                                 *)
ExtraSet == {s \in [want : Valued \cup {"none", "refused"}, tunables : Seq(Tokens), useragent : Tokens] :
               \E n \in Nat : Settings(s.tunables, n)}

(* What is put together of well typed parts is well typed.                 *)
LEMMA ExtraType ==
  ASSUME NEW want \in Valued \cup {"none", "refused"}, NEW T, NEW n \in Nat, Settings(T, n), NEW ua \in Tokens
  PROVE  Extra(want, T, ua) \in ExtraSet
<1>1. T \in Seq(Tokens)
  BY DEF Settings
<1>2. QED BY <1>1 DEF Extra, ExtraSet

(* Taking a value keeps the type of the translation.                       *)
LEMMA TakeType ==
  ASSUME NEW s \in ExtraSet, NEW name \in Valued, NEW v \in Tokens
  PROVE  Take(s, name, v) \in ExtraSet
<1> DEFINE kv == <<name, "=">> \o v
           more == s.tunables \o << <<"--tunable">>, kv >>
<1>1. PICK n \in Nat : Settings(s.tunables, n)
  BY DEF ExtraSet
<1>2. s.useragent \in Tokens
  BY DEF ExtraSet
<1>3. kv \in Tokens
  <2>1. name \in Token /\ "=" \in Token
    BY DEF Valued, Ranges, Token, Words, Other
  <2> DEFINE h == <<name, "=">>
  <2>2. h \in Seq(Token)
    BY <2>1, JoinTwo
  <2> HIDE DEF h
  <2>3. h \o v \in Seq(Token)
    BY <2>2 DEF Tokens
  <2>4. QED BY <2>3 DEF h, Tokens
<1> HIDE DEF kv
<1>4. Settings(more, n + 1) /\ n + 1 \in Nat
  BY <1>1, <1>3, SettingsMore
<1> HIDE DEF more
<1>5. \A want \in {"none", "refused"} : /\ Extra(want, more, s.useragent) \in ExtraSet
                                        /\ \A ua \in Tokens : Extra(want, s.tunables, ua) \in ExtraSet
  BY <1>1, <1>2, <1>4, ExtraType
<1>6. QED BY <1>2, <1>5 DEF Take, more, kv

(* So does any word of extraArgs.                                          *)
LEMMA WordType ==
  ASSUME NEW s \in ExtraSet, NEW w \in Tokens
  PROVE  Word(s, w) \in ExtraSet
<1> DEFINE IsNamed(names) == Len(w) > 1 /\ w[1] = "--" /\ w[2] \in names
<1>1. PICK n \in Nat : Settings(s.tunables, n)
  BY DEF ExtraSet
<1>2. s.useragent \in Tokens /\ s.want \in Valued \cup {"none", "refused"}
  BY DEF ExtraSet
<1>3. CASE s.want = "refused" \/ (s.want = "none" /\ w = << >>)
  <2>1. "refused" \notin Valued /\ "none" \notin Valued
    BY DEF Valued, Ranges
  <2>2. Word(s, w) = s
    BY <1>3, <2>1 DEF Word
  <2>3. QED BY <2>2
<1>4. CASE s.want \in Valued
  <2>1. "refused" \notin Valued /\ "none" \notin Valued
    BY DEF Valued, Ranges
  <2>2. Word(s, w) = Take(s, s.want, w)
    BY <1>4, <2>1 DEF Word
  <2>3. QED BY <1>4, <2>2, TakeType
<1>5. CASE s.want = "none" /\ w # << >>
  <2> DEFINE set == <<w[2]>>
             more == s.tunables \o << <<"--tunable">>, set >>
  <2>1. "refused" \notin Valued /\ "none" \notin Valued
    BY DEF Valued, Ranges
  <2>2. Word(s, w) = CASE IsNamed(Booleans) -> Extra("none", more, s.useragent)
              [] IsNamed(Valued) -> IF From(w, 4) = << >> THEN Extra(w[2], s.tunables, s.useragent)
                                  ELSE Take(s, w[2], From(w, 4))
              [] OTHER -> Extra("refused", s.tunables, s.useragent)
    BY <1>5, <2>1 DEF Word
  <2>3. ASSUME IsNamed(Booleans) PROVE Extra("none", more, s.useragent) \in ExtraSet
    <3>1. w[2] \in Token
      BY <2>3 DEF Tokens
    <3>2. set \in Tokens
      BY <3>1 DEF Tokens
    <3> HIDE DEF set
    <3>3. Settings(more, n + 1) /\ n + 1 \in Nat
      BY <1>1, <3>2, SettingsMore
    <3> HIDE DEF more
    <3>4. QED BY <1>2, <3>3, ExtraType
  <2>4. ASSUME IsNamed(Valued) PROVE Extra(w[2], s.tunables, s.useragent) \in ExtraSet /\ Take(s, w[2], From(w, 4)) \in ExtraSet
    <3>1. From(w, 4) \in Tokens
      BY FromFacts DEF Tokens
    <3>2. QED BY <1>1, <1>2, <2>4, <3>1, ExtraType, TakeType
  <2>5. Extra("refused", s.tunables, s.useragent) \in ExtraSet
    BY <1>1, <1>2, ExtraType
  <2>6. Booleans \cap Valued = {}
    BY DEF Booleans, Valued, Ranges
  <2> HIDE DEF more
  <2>7. CASE IsNamed(Booleans)
    BY <2>2, <2>3, <2>6, <2>7
  <2>8. CASE IsNamed(Valued)
    BY <2>2, <2>4, <2>6, <2>8
  <2>9. CASE ~ IsNamed(Booleans) /\ ~ IsNamed(Valued)
    BY <2>2, <2>5, <2>9
  <2>10. QED BY <2>7, <2>8, <2>9
<1>6. QED BY <1>2, <1>3, <1>4, <1>5

(* g starts as f does and goes on as f does; the two agree up to n.        *)
Follows(f, g, n) == f[0] = g[0] /\ \A i \in 1..n : f[i - 1] = g[i - 1] => f[i] = g[i]
Agree(f, g, n)   == \A i \in 0..n : f[i] = g[i]

(* What starts alike and goes on alike is alike.                           *)
LEMMA FollowsAgree ==
  ASSUME NEW f, NEW g, NEW n \in Nat, Follows(f, g, n)
  PROVE  Agree(f, g, n)
<1>1. f[0] = g[0]
  BY DEF Follows
<1>2. \A i \in 1..n : f[i - 1] = g[i - 1] => f[i] = g[i]
  BY DEF Follows
<1>3. \A i \in 0..n : f[i] = g[i]
  BY <1>1, <1>2, StepByStep
<1>4. QED BY <1>3 DEF Agree

(* extraArgs become pairs of --tunable and a setting, and a user agent.    *)
LEMMA TranslatedFacts ==
  ASSUME NEW words \in Seq(Tokens)
  PROVE  /\ TranslateExtraArgs(words).useragent \in Tokens
         /\ \E n \in Nat : Settings(TranslateExtraArgs(words).tunables, n)
<1> DEFINE m == Len(words)
           Is(g) == g = [i \in 0..Len(words) |-> IF i = 0 THEN NoExtra ELSE Word(g[i - 1], words[i])]
           all == CHOOSE g : Is(g)
           end == all[Len(words)]
           step == [p \in ExtraSet \X (1..m) |-> Word(p[1], words[p[2]])]
<1>1. m \in Nat /\ \A i \in 1..m : words[i] \in Tokens
  OBVIOUS
<1>2. << >> \in Tokens
  BY DEF Tokens
<1>3. NoExtra \in ExtraSet
  <2> DEFINE e == << >>
  <2>1. Settings(e, 0) /\ e \in Tokens
    BY DEF Settings, Tokens
  <2> HIDE DEF e
  <2>2. Extra("none", e, e) \in ExtraSet
    BY <2>1, ExtraType
  <2>3. QED BY <2>2 DEF NoExtra, e
<1>4. IsStep(step, ExtraSet, m)
  <2>1. \A s \in ExtraSet, i \in 1..m : Word(s, words[i]) \in ExtraSet
    BY <1>1, WordType
  <2> HIDE DEF m
  <2>2. QED BY <2>1 DEF IsStep
<1>5. PICK f : Solves(f, m, ExtraSet, NoExtra, step)
  <2> HIDE DEF m, step
  <2>1. QED BY <1>1, <1>3, <1>4, RecursionExists
<1>6. f \in [0..m -> ExtraSet] /\ f[0] = NoExtra
  <2> HIDE DEF step, m
  <2>1. QED BY <1>5 DEF Solves
<1>7. ASSUME NEW i \in 1..m PROVE f[i] = Word(f[i - 1], words[i])
  <2>1. f[i - 1] \in ExtraSet
    BY <1>1, <1>6
  <2>2. f[i] = step[<<f[i - 1], i>>]
    <3> HIDE DEF step, m
    <3>1. QED BY <1>5 DEF Solves
  <2>3. QED BY <1>1, <2>1, <2>2
<1> HIDE DEF step
<1>8. Is(f)
  BY <1>1, <1>6, <1>7
<1>9. Is(all)
  <2> HIDE DEF Is
  <2>1. QED BY <1>8
<1>10. end \in ExtraSet
  <2> HIDE DEF all
  <2>1. all[0] = NoExtra /\ \A i \in 1..m : all[i] = Word(all[i - 1], words[i])
    BY <1>1, <1>9
  <2> HIDE DEF Is
  <2>2. all[0] = f[0] /\ \A i \in 1..m : all[i - 1] = f[i - 1] => all[i] = f[i]
    BY <1>6, <1>7, <2>1
  <2>3. \A i \in 0..m : all[i] = f[i]
    <3>1. m \in Nat
      BY <1>1
    <3> HIDE DEF m
    <3>2. Follows(all, f, m)
      BY <2>2 DEF Follows
    <3>3. Agree(all, f, m)
      BY <3>1, <3>2, FollowsAgree
    <3>4. QED BY <3>3 DEF Agree
  <2>4. QED BY <1>1, <1>6, <2>3
<1>11. TranslateExtraArgs(words) = IF end.want \in Valued THEN Take(end, end.want, << >>) ELSE end
  <2> DEFINE All(ws) == (CHOOSE g : g = [i \in 0..Len(ws) |-> IF i = 0 THEN NoExtra ELSE Word(g[i - 1], ws[i])])[Len(ws)]
             o == Once(words, All)
  <2>1. o = end
    BY DEF Once
  <2>2. TranslateExtraArgs(words) = IF o.want \in Valued THEN Take(o, o.want, << >>) ELSE o
    BY DEF TranslateExtraArgs
  <2> HIDE DEF o, end
  <2>3. QED BY <2>1, <2>2
<1>12. TranslateExtraArgs(words) \in ExtraSet
  <2> HIDE DEF all
  <2>1. end.want \in Valued => Take(end, end.want, << >>) \in ExtraSet
    BY <1>2, <1>10, TakeType
  <2>2. QED BY <1>10, <1>11, <2>1
<1>13. QED BY <1>12 DEF ExtraSet

Both(c, d) == <<c, d>>
Lengthens(z, s, c, d, S) == /\ z \in Seq(S) /\ Len(z) = Len(s) + 2 /\ Len(s) \in Nat
                            /\ \A i \in 1..Len(s) : z[i] = s[i]
                            /\ z[Len(s) + 1] = c /\ z[Len(s) + 2] = d

(* Two texts at the end of a list.                                         *)
LEMMA JoinsTwo ==
  ASSUME NEW S, NEW s \in Seq(S), NEW c \in S, NEW d \in S
  PROVE  Lengthens(s \o Both(c, d), s, c, d, S)
<1> DEFINE p == Both(c, d)
           z == s \o p
<1>1. p \in Seq(S) /\ Len(p) = 2 /\ p[1] = c /\ p[2] = d
  BY JoinTwo DEF Both
<1>2. z \in Seq(S) /\ Joins(z, s, p)
  <2> HIDE DEF p
  <2>1. QED BY <1>1, Joint
<1> HIDE DEF z, p
<1>3. 1 \in 1..Len(p) /\ 2 \in 1..Len(p) /\ Len(z) = Len(s) + Len(p) /\ Len(s) \in Nat
  BY <1>1, <1>2 DEF Joins
<1>4. (\A i \in 1..Len(s) : z[i] = s[i]) /\ z[Len(s) + 1] = p[1] /\ z[Len(s) + 2] = p[2]
  BY <1>2, <1>3 DEF Joins
<1>5. Lengthens(z, s, c, d, S)
  BY <1>1, <1>2, <1>3, <1>4 DEF Lengthens
<1>6. QED BY <1>5 DEF z, p

(* Three pairs and four pairs in one list.                                 *)
ThreePairs(a, b, c, d, e, f)      == << >> \o Both(a, b) \o Both(c, d) \o Both(e, f) = <<a, b, c, d, e, f>>
FourPairs(a, b, c, d, e, f, g, h) ==
  << >> \o Both(a, b) \o Both(c, d) \o Both(e, f) \o Both(g, h) = <<a, b, c, d, e, f, g, h>>

(* Lists of three and of four pairs.                                       *)
LEMMA PairsJoined ==
  ASSUME NEW S, NEW a \in S, NEW b \in S, NEW c \in S, NEW d \in S, NEW e \in S, NEW f \in S, NEW g \in S, NEW h \in S
  PROVE  ThreePairs(a, b, c, d, e, f) /\ FourPairs(a, b, c, d, e, f, g, h)
<1> DEFINE t0 == << >>
           t2 == <<a, b>>
           t4 == <<a, b, c, d>>
           t6 == <<a, b, c, d, e, f>>
           t8 == <<a, b, c, d, e, f, g, h>>
<1>1. /\ t0 \in Seq(S) /\ Len(t0) = 0
      /\ t2 \in Seq(S) /\ Len(t2) = 2 /\ t2[1] = a /\ t2[2] = b
  OBVIOUS
<1>2. t4 \in Seq(S) /\ Len(t4) = 4 /\ t4[1] = a /\ t4[2] = b /\ t4[3] = c /\ t4[4] = d
  OBVIOUS
<1>3. t6 \in Seq(S) /\ Len(t6) = 6 /\ t6[1] = a /\ t6[2] = b /\ t6[3] = c /\ t6[4] = d /\ t6[5] = e /\ t6[6] = f
  OBVIOUS
<1>4. /\ t8 \in Seq(S) /\ Len(t8) = 8 /\ t8[1] = a /\ t8[2] = b /\ t8[3] = c /\ t8[4] = d /\ t8[5] = e /\ t8[6] = f
      /\ t8[7] = g /\ t8[8] = h
  OBVIOUS
<1> HIDE DEF t0, t2, t4, t6, t8
<1>5. t0 \o Both(a, b) = t2
  <2> DEFINE z == t0 \o Both(a, b)
  <2>5. Lengthens(z, t0, a, b, S)
    BY <1>1, JoinsTwo
  <2> HIDE DEF z
  <2>1. z \in Seq(S) /\ Len(z) = 2 /\ z[1] = a /\ z[2] = b
    <3>1. Len(t0) + 1 = 1 /\ Len(t0) + 2 = 2
      BY <1>1
    <3>2. z \in Seq(S) /\ Len(z) = Len(t0) + 2 /\ z[Len(t0) + 1] = a /\ z[Len(t0) + 2] = b
      BY <2>5 DEF Lengthens
    <3>3. QED BY <3>1, <3>2
  <2>2. \A i \in 1..2 : z[i] = t2[i]
    BY <1>1, <2>1
  <2>3. z = t2
    BY <1>1, <2>1, <2>2, SameText
  <2>4. QED BY <2>3 DEF z
<1>6. t2 \o Both(c, d) = t4
  <2> DEFINE z == t2 \o Both(c, d)
  <2>5. Lengthens(z, t2, c, d, S)
    BY <1>1, JoinsTwo
  <2> HIDE DEF z
  <2>1. z \in Seq(S) /\ Len(z) = 4 /\ z[1] = a /\ z[2] = b /\ z[3] = c /\ z[4] = d
    BY <1>1, <2>5 DEF Lengthens
  <2>2. \A i \in 1..4 : z[i] = t4[i]
    BY <1>2, <2>1
  <2>3. z = t4
    BY <1>2, <2>1, <2>2, SameText
  <2>4. QED BY <2>3 DEF z
<1>7. t4 \o Both(e, f) = t6
  <2> DEFINE z == t4 \o Both(e, f)
  <2>5. Lengthens(z, t4, e, f, S)
    BY <1>2, JoinsTwo
  <2> HIDE DEF z
  <2>1. z \in Seq(S) /\ Len(z) = 6 /\ z[1] = a /\ z[2] = b /\ z[3] = c /\ z[4] = d /\ z[5] = e /\ z[6] = f
    BY <1>2, <2>5 DEF Lengthens
  <2>2. \A i \in 1..6 : z[i] = t6[i]
    BY <1>3, <2>1
  <2>3. z = t6
    BY <1>3, <2>1, <2>2, SameText
  <2>4. QED BY <2>3 DEF z
<1>8. t6 \o Both(g, h) = t8
  <2> DEFINE z == t6 \o Both(g, h)
  <2>5. Lengthens(z, t6, g, h, S)
    BY <1>3, JoinsTwo
  <2> HIDE DEF z
  <2>1. /\ z \in Seq(S) /\ Len(z) = 8 /\ z[1] = a /\ z[2] = b /\ z[3] = c /\ z[4] = d /\ z[5] = e /\ z[6] = f
        /\ z[7] = g /\ z[8] = h
    BY <1>3, <2>5 DEF Lengthens
  <2>2. \A i \in 1..8 : z[i] = t8[i]
    BY <1>4, <2>1
  <2>3. z = t8
    BY <1>4, <2>1, <2>2, SameText
  <2>4. QED BY <2>3 DEF z
<1>9. t0 \o Both(a, b) \o Both(c, d) \o Both(e, f) = t6 /\ t0 \o Both(a, b) \o Both(c, d) \o Both(e, f) \o Both(g, h) = t8
  BY <1>5, <1>6, <1>7, <1>8
<1>10. QED BY <1>9 DEF t0, t6, t8, ThreePairs, FourPairs

(* got gains the values vs for f.                                          *)
Adds(new, got, f, vs, schema) == /\ new \in [schema -> Seq(Tokens)] /\ new[f] = vs
                                 /\ \A e \in schema : e # f => new[e] = got[e]
Flagged(f, v) == << <<f>>, v >>
Has(got, f, v) == Set(got, f, <<v>>)
Alone(f)      == << <<f>> >>
Empty1        == << << >> >>

(* New values for one flag add those values.                               *)
LEMMA SetAdds ==
  ASSUME NEW schema, NEW got \in [schema -> Seq(Tokens)], NEW f \in schema, NEW vs \in Seq(Tokens)
  PROVE  Adds(Set(got, f, vs), got, f, vs, schema)
<1> DEFINE new == Set(got, f, vs)
<1>1. new \in [schema -> Seq(Tokens)] /\ new[f] = vs /\ \A e \in schema : e # f => new[e] = got[e]
  BY DEF Set
<1> HIDE DEF new
<1>2. Adds(new, got, f, vs, schema)
  BY <1>1 DEF Adds
<1>3. QED BY <1>2 DEF new

(* A flag and its value add the value.                                     *)
LEMMA PairAdded ==
  ASSUME NEW schema \in Schemas, NEW argv, NEW vs, NEW got, Outcome(argv, schema, vs, got),
         NEW f \in schema \ Bare, f # "--tunable", got[f] = << >>, NEW v \in Tokens
  PROVE  Outcome(argv \o Flagged(f, v), schema, vs \cup {v}, Has(got, f, v)) /\ Adds(Has(got, f, v), got, f, <<v>>, schema)
<1>1. Outcome(argv \o Flagged(f, v), schema, vs \cup {v}, Has(got, f, v))
  BY PairOutcome DEF Flagged, Has
<1>2. Adds(Has(got, f, v), got, f, <<v>>, schema)
  <2> DEFINE l == <<v>>
  <2>1. l \in Seq(Tokens)
    BY JoinTwo
  <2> HIDE DEF l
  <2>2. got \in [schema -> Seq(Tokens)] /\ f \in schema
    BY DEF Outcome
  <2>3. Adds(Set(got, f, l), got, f, l, schema)
    BY <2>1, <2>2, SetFacts DEF Adds
  <2>4. QED BY <2>3 DEF Has, l
<1>3. QED BY <1>1, <1>2

(* An option that may be missing adds its value, if any.                   *)
LEMMA OptAdded ==
  ASSUME NEW schema \in Schemas, NEW argv, NEW vs, NEW got, Outcome(argv, schema, vs, got),
         NEW f \in schema \ Bare, f # "--tunable", got[f] = << >>, NEW v \in Tokens
  PROVE  Outcome(argv \o Opt(f, v), schema, vs \cup {v}, Set(got, f, One(v))) /\ Adds(Set(got, f, One(v)), got, f, One(v), schema)
<1>1. Outcome(argv \o Opt(f, v), schema, vs \cup {v}, Set(got, f, One(v)))
  BY OptOutcome
<1>2. Adds(Set(got, f, One(v)), got, f, One(v), schema)
  <2> DEFINE l == One(v)
  <2>1. l \in Seq(Tokens)
    BY JoinTwo DEF One
  <2> HIDE DEF l
  <2>2. got \in [schema -> Seq(Tokens)] /\ f \in schema
    BY DEF Outcome
  <2>3. Adds(Set(got, f, l), got, f, l, schema)
    BY <2>1, <2>2, SetFacts DEF Adds
  <2>4. QED BY <2>3 DEF l
<1>3. QED BY <1>1, <1>2

(* --no-proxy adds that it was given.                                      *)
LEMMA BareAdded ==
  ASSUME NEW schema \in Schemas, NEW argv, NEW vs, NEW got, Outcome(argv, schema, vs, got),
         "--no-proxy" \in schema, got["--no-proxy"] = << >>
  PROVE  /\ Outcome(argv \o Alone("--no-proxy"), schema, vs, Set(got, "--no-proxy", Empty1))
         /\ Adds(Set(got, "--no-proxy", Empty1), got, "--no-proxy", Empty1, schema)
<1>1. Outcome(argv \o Alone("--no-proxy"), schema, vs, Set(got, "--no-proxy", Empty1))
  BY BareOutcome DEF Alone, Empty1
<1>2. Empty1 \in Seq(Tokens)
  <2> DEFINE e == << >>
  <2>1. e \in Tokens
    BY DEF Tokens
  <2> HIDE DEF e
  <2>2. <<e>> \in Seq(Tokens)
    BY <2>1, JoinTwo
  <2>3. QED BY <2>2 DEF e, Empty1
<1>3. got \in [schema -> Seq(Tokens)]
  BY DEF Outcome
<1>4. Adds(Set(got, "--no-proxy", Empty1), got, "--no-proxy", Empty1, schema)
  BY <1>2, <1>3, SetAdds
<1>5. QED BY <1>1, <1>4

(* Where a list begins.                                                    *)
Nothing        == << >>
Blank(schema)  == [f \in schema |-> << >>]

(* At the start of a list nothing is given.                                *)
LEMMA BlankFacts ==
  ASSUME NEW schema \in Schemas
  PROVE  Outcome(Nothing, schema, {}, Blank(schema)) /\ \A f \in schema : Blank(schema)[f] = << >>
BY StartOutcome DEF Nothing, Blank

(* A flag is an argument.                                                  *)
LEMMA FlagTyped ==
  ASSUME NEW f \in Flags
  PROVE  <<f>> \in Tokens
<1>1. f \in Token
  BY DEF Token, Words
<1>2. QED BY <1>1 DEF Tokens

(* The fixed arguments of approve, pair by pair.                           *)
LEMMA EightIs ==
  ASSUME NEW id \in Tokens, NEW protocol \in Tokens, NEW url \in Tokens, NEW fpr \in Tokens
  PROVE  << <<"--profile-id">>, id, <<"--protocol">>, protocol, <<"--endpoint">>, url, <<"--fingerprint">>, fpr >>
         = Nothing \o Flagged("--profile-id", id) \o Flagged("--protocol", protocol) \o Flagged("--endpoint", url) \o Flagged("--fingerprint", fpr)
<1> DEFINE f1 == <<"--profile-id">>
           f2 == <<"--protocol">>
           f3 == <<"--endpoint">>
           f4 == <<"--fingerprint">>
<1>1. f1 \in Tokens /\ f2 \in Tokens /\ f3 \in Tokens /\ f4 \in Tokens
  BY FlagTyped DEF Flags
<1>2. /\ Flagged("--profile-id", id) = Both(f1, id) /\ Flagged("--protocol", protocol) = Both(f2, protocol)
      /\ Flagged("--endpoint", url) = Both(f3, url) /\ Flagged("--fingerprint", fpr) = Both(f4, fpr)
  BY DEF Flagged, Both
<1> HIDE DEF f1, f2, f3, f4
<1>4. << >> \o Both(f1, id) \o Both(f2, protocol) \o Both(f3, url) \o Both(f4, fpr) = <<f1, id, f2, protocol, f3, url, f4, fpr>>
  <2>1. FourPairs(f1, id, f2, protocol, f3, url, f4, fpr)
    BY <1>1, PairsJoined
  <2>2. QED BY <2>1 DEF FourPairs
<1>5. QED BY <1>2, <1>4 DEF f1, f2, f3, f4, Nothing

(* The fixed arguments of connect, pair by pair.                           *)
LEMMA SixIs ==
  ASSUME NEW id \in Tokens, NEW protocol \in Tokens, NEW url \in Tokens
  PROVE  << <<"--profile-id">>, id, <<"--protocol">>, protocol, <<"--connect-url">>, url >>
         = Nothing \o Flagged("--profile-id", id) \o Flagged("--protocol", protocol) \o Flagged("--connect-url", url)
<1> DEFINE f1 == <<"--profile-id">>
           f2 == <<"--protocol">>
           f3 == <<"--connect-url">>
<1>1. f1 \in Tokens /\ f2 \in Tokens /\ f3 \in Tokens
  BY FlagTyped DEF Flags
<1>2. /\ Flagged("--profile-id", id) = Both(f1, id) /\ Flagged("--protocol", protocol) = Both(f2, protocol)
      /\ Flagged("--connect-url", url) = Both(f3, url)
  BY DEF Flagged, Both
<1> HIDE DEF f1, f2, f3
<1>4. << >> \o Both(f1, id) \o Both(f2, protocol) \o Both(f3, url) = <<f1, id, f2, protocol, f3, url>>
  <2>1. FourPairs(f1, id, f2, protocol, f3, url, id, id) /\ ThreePairs(f1, id, f2, protocol, f3, url)
    BY <1>1, PairsJoined
  <2>2. QED BY <2>1 DEF ThreePairs
<1>5. QED BY <1>2, <1>4 DEF f1, f2, f3, Nothing

(* Two flags and a list, and the list after them.                          *)
ApproveGot(s, id, protocol, url, fpr, proxy) ==
  Complete(s) =>
    /\ \A v \in {id, protocol, url, fpr, proxy} : ~ LooksLikeFlag(v)
    /\ s.got["--profile-id"] = <<id>> /\ s.got["--protocol"] = <<protocol>>
    /\ s.got["--endpoint"] = <<url>> /\ s.got["--fingerprint"] = <<fpr>>
    /\ s.got["--proxy"] = One(proxy)
    /\ (s.got["--no-proxy"] # << >> <=> proxy = << >>)

(* vpn-up-admin reads the arguments of approve_profile flag by flag as they *)
(* were meant, unless a value looks like a flag.                           *)
LEMMA ApproveScan ==
  ASSUME NEW id \in Tokens, NEW protocol \in Tokens, NEW url \in Tokens, NEW fpr \in Tokens, NEW proxy \in Tokens,
         NEW p, p.id = id, p.protocol = protocol, p.proxy = proxy, NEW a, a.url = url, a.fingerprint = fpr
  PROVE  /\ ApproveArgs(p, a) \in Seq(Tokens)
         /\ ApproveGot(Scan(ApproveArgs(p, a), ApproveSchema), id, protocol, url, fpr, proxy)
<1> DEFINE S  == ApproveSchema
           l0 == Nothing
           l1 == l0 \o Flagged("--profile-id", id)
           l2 == l1 \o Flagged("--protocol", protocol)
           l3 == l2 \o Flagged("--endpoint", url)
           l4 == l3 \o Flagged("--fingerprint", fpr)
           l5 == IF proxy = << >> THEN l4 \o Alone("--no-proxy") ELSE l4 \o Flagged("--proxy", proxy)
           g0 == Blank(S)
           g1 == Has(g0, "--profile-id", id)
           g2 == Has(g1, "--protocol", protocol)
           g3 == Has(g2, "--endpoint", url)
           g4 == Has(g3, "--fingerprint", fpr)
           g5 == IF proxy = << >> THEN Set(g4, "--no-proxy", Empty1) ELSE Has(g4, "--proxy", proxy)
           v0 == {}
           v1 == v0 \cup {id}
           v2 == v1 \cup {protocol}
           v3 == v2 \cup {url}
           v4 == v3 \cup {fpr}
           v5 == IF proxy = << >> THEN v4 ELSE v4 \cup {proxy}
<1>1. /\ S \in Schemas /\ "--profile-id" \in S \ Bare /\ "--protocol" \in S \ Bare /\ "--endpoint" \in S \ Bare
      /\ "--fingerprint" \in S \ Bare /\ "--proxy" \in S \ Bare /\ "--no-proxy" \in S
  BY DEF ApproveSchema, Schemas, Flags, Bare
<1>2. \A v \in {id, protocol, url, fpr, proxy} : v \in v5 \/ v = << >>
  OBVIOUS
<1> HIDE DEF S
<1>3. Outcome(l0, S, v0, g0) /\ \A f \in S : g0[f] = << >>
  BY <1>1, BlankFacts
<1> HIDE DEF l0, g0, v0
<1>4. Outcome(l1, S, v1, g1) /\ Adds(g1, g0, "--profile-id", <<id>>, S)
  BY <1>1, <1>3, PairAdded
<1> HIDE DEF l1, g1, v1
<1>5. g1["--protocol"] = << >>
  BY <1>1, <1>3, <1>4 DEF Adds
<1>6. Outcome(l2, S, v2, g2) /\ Adds(g2, g1, "--protocol", <<protocol>>, S)
  BY <1>1, <1>4, <1>5, PairAdded
<1> HIDE DEF l2, g2, v2
<1>7. g2["--endpoint"] = << >>
  BY <1>1, <1>3, <1>4, <1>6 DEF Adds
<1>8. Outcome(l3, S, v3, g3) /\ Adds(g3, g2, "--endpoint", <<url>>, S)
  BY <1>1, <1>6, <1>7, PairAdded
<1> HIDE DEF l3, g3, v3
<1>9. /\ g3["--fingerprint"] = << >> /\ g3["--proxy"] = << >> /\ g3["--no-proxy"] = << >>
      /\ g3["--profile-id"] = <<id>> /\ g3["--protocol"] = <<protocol>> /\ g3["--endpoint"] = <<url>>
  <2>1. /\ g2["--profile-id"] = <<id>> /\ g2["--protocol"] = <<protocol>>
        /\ \A f \in S : f \notin {"--profile-id", "--protocol"} => g2[f] = << >>
    <3>1. g1["--profile-id"] = <<id>> /\ \A f \in S : f # "--profile-id" => g1[f] = << >>
      BY <1>3, <1>4 DEF Adds
    <3>2. QED BY <1>1, <1>6, <3>1 DEF Adds
  <2>2. QED BY <1>1, <1>8, <2>1 DEF Adds
<1>10. Outcome(l4, S, v4, g4) /\ Adds(g4, g3, "--fingerprint", <<fpr>>, S)
  BY <1>1, <1>8, <1>9, PairAdded
<1> HIDE DEF l4, g4, v4
<1>11. /\ g4["--proxy"] = << >> /\ g4["--no-proxy"] = << >> /\ g4["--fingerprint"] = <<fpr>>
       /\ g4["--profile-id"] = <<id>> /\ g4["--protocol"] = <<protocol>> /\ g4["--endpoint"] = <<url>>
  BY <1>1, <1>9, <1>10 DEF Adds
<1>12. /\ Outcome(l5, S, v5, g5)
       /\ g5["--profile-id"] = <<id>> /\ g5["--protocol"] = <<protocol>> /\ g5["--endpoint"] = <<url>> /\ g5["--fingerprint"] = <<fpr>>
       /\ g5["--proxy"] = One(proxy) /\ (g5["--no-proxy"] # << >> <=> proxy = << >>)
  <2>1. CASE proxy = << >>
    <3> DEFINE g == Set(g4, "--no-proxy", Empty1)
               l == l4 \o Alone("--no-proxy")
    <3>1. Outcome(l, S, v4, g) /\ Adds(g, g4, "--no-proxy", Empty1, S)
      BY <1>1, <1>10, <1>11, BareAdded
    <3>2. l5 = l /\ g5 = g /\ v5 = v4
      BY <2>1
    <3> HIDE DEF g, l, l5, g5, v5
    <3>3. Empty1 # << >>
      BY DEF Empty1
    <3>4. One(proxy) = << >>
      BY <2>1 DEF One
    <3>5. /\ g["--profile-id"] = <<id>> /\ g["--protocol"] = <<protocol>> /\ g["--endpoint"] = <<url>> /\ g["--fingerprint"] = <<fpr>>
          /\ g["--proxy"] = << >> /\ g["--no-proxy"] = Empty1
      BY <1>1, <1>11, <3>1 DEF Adds
    <3>6. QED BY <2>1, <3>1, <3>2, <3>3, <3>4, <3>5
  <2>2. CASE proxy # << >>
    <3> DEFINE g == Has(g4, "--proxy", proxy)
               l == l4 \o Flagged("--proxy", proxy)
               v == v4 \cup {proxy}
    <3>1. Outcome(l, S, v, g) /\ Adds(g, g4, "--proxy", <<proxy>>, S)
      BY <1>1, <1>10, <1>11, PairAdded
    <3>2. l5 = l /\ g5 = g /\ v5 = v
      BY <2>2
    <3> HIDE DEF g, l, v, l5, g5, v5
    <3>3. One(proxy) = <<proxy>>
      BY <2>2 DEF One
    <3>4. /\ g["--profile-id"] = <<id>> /\ g["--protocol"] = <<protocol>> /\ g["--endpoint"] = <<url>> /\ g["--fingerprint"] = <<fpr>>
          /\ g["--proxy"] = <<proxy>> /\ g["--no-proxy"] = << >>
      BY <1>1, <1>11, <3>1 DEF Adds
    <3>5. QED BY <2>2, <3>1, <3>2, <3>3, <3>4
  <2>3. QED BY <2>1, <2>2
<1>13. ApproveArgs(p, a) = l5
  <2> DEFINE end1 == << <<"--no-proxy">> >>
             end2 == << <<"--proxy">>, proxy >>
  <2>1. ApproveArgs(p, a) = << <<"--profile-id">>, id, <<"--protocol">>, protocol, <<"--endpoint">>, url, <<"--fingerprint">>, fpr >>
                            \o (IF proxy = << >> THEN end1 ELSE end2)
    BY DEF ApproveArgs
  <2>2. << <<"--profile-id">>, id, <<"--protocol">>, protocol, <<"--endpoint">>, url, <<"--fingerprint">>, fpr >> = l4
    BY EightIs DEF l0, l1, l2, l3, l4
  <2>3. end1 = Alone("--no-proxy") /\ end2 = Flagged("--proxy", proxy)
    BY DEF Alone, Flagged
  <2> HIDE DEF end1, end2
  <2>4. QED BY <2>1, <2>2, <2>3
<1> HIDE DEF l5, g5, v5
<1>14. ASSUME Complete(Scan(l5, S)) PROVE Scan(l5, S) = [flag |-> "none", got |-> g5] /\ \A v \in v5 : ~ LooksLikeFlag(v)
  <2>1. l5 \in Seq(Tokens)
    BY <1>12 DEF Outcome
  <2>2. Scan(l5, S) = Raw(l5, S)
    BY <1>1, <2>1, ScanIsRaw
  <2>3. ~ Denied(l5, S)
    BY <1>14, <2>2 DEF Complete, Denied
  <2>4. Outcome(l5, S, v5, g5)
    BY <1>12
  <2>5. QED BY <2>2, <2>3, <2>4 DEF Outcome, Reads
<1>15. ~ LooksLikeFlag(<< >>)
  BY DEF LooksLikeFlag
<1> DEFINE s == Scan(l5, S)
<1>16. Complete(s) => s.got = g5 /\ \A v \in {id, protocol, url, fpr, proxy} : ~ LooksLikeFlag(v)
  BY <1>2, <1>14, <1>15
<1>17. s = Scan(ApproveArgs(p, a), ApproveSchema)
  BY <1>13 DEF S
<1>19. ApproveArgs(p, a) \in Seq(Tokens)
  BY <1>12, <1>13 DEF Outcome
<1> HIDE DEF s
<1>18. QED BY <1>12, <1>16, <1>17, <1>19 DEF ApproveGot

(* The arguments vpn-up-helper gets: what is read of them, and when.       *)
Fit(id, protocol, url, resolve, proxy, ua, T, n) ==
  Few(T, n) /\ \A v \in {id, protocol, url, resolve, proxy, ua} : ~ LooksLikeFlag(v)

HelperGot(s, id, protocol, url, resolve, proxy, ua, T, n) ==
  /\ Complete(s) <=> Fit(id, protocol, url, resolve, proxy, ua, T, n)
  /\ Complete(s) =>
       /\ s.got["--profile-id"] = <<id>> /\ s.got["--protocol"] = <<protocol>>
       /\ s.got["--connect-url"] = <<url>> /\ s.got["--resolve"] = One(resolve)
       /\ s.got["--proxy"] = One(proxy) /\ s.got["--useragent"] = One(ua)
       /\ s.got["--request-id"] = << >> /\ s.got["--quiet"] = << >> /\ s.got["--tunable"] = Kvs(T, n)

(* vpn-up-helper reads the arguments the shell builds flag by flag as they *)
(* were meant, unless a value looks like a flag or settings are too many.  *)
LEMMA HelperScan ==
  ASSUME NEW id \in Tokens, NEW protocol \in Tokens, NEW url \in Tokens, NEW resolve \in Tokens, NEW proxy \in Tokens,
         NEW ua \in Tokens, NEW T, NEW n, Settings(T, n),
         NEW p, p.id = id, p.protocol = protocol, p.proxy = proxy, NEW a, a.url = url, a.resolve = resolve,
         TranslateExtraArgs(p.extra).useragent = ua, TranslateExtraArgs(p.extra).tunables = T
  PROVE  HelperGot(Scan(HelperArgs(p, a), ConnectSchema), id, protocol, url, resolve, proxy, ua, T, n)
<1> DEFINE S  == ConnectSchema
           l0 == Nothing
           l1 == l0 \o Flagged("--profile-id", id)
           l2 == l1 \o Flagged("--protocol", protocol)
           l3 == l2 \o Flagged("--connect-url", url)
           l4 == l3 \o Opt("--resolve", resolve)
           l5 == l4 \o Opt("--proxy", proxy)
           l6 == l5 \o Opt("--useragent", ua)
           l7 == l6 \o T
           g0 == Blank(S)
           g1 == Has(g0, "--profile-id", id)
           g2 == Has(g1, "--protocol", protocol)
           g3 == Has(g2, "--connect-url", url)
           g4 == Set(g3, "--resolve", One(resolve))
           g5 == Set(g4, "--proxy", One(proxy))
           g6 == Set(g5, "--useragent", One(ua))
           kvs == Kvs(T, n)
           g7 == Set(g6, "--tunable", kvs)
           v0 == {}
           v1 == v0 \cup {id}
           v2 == v1 \cup {protocol}
           v3 == v2 \cup {url}
           v4 == v3 \cup {resolve}
           v5 == v4 \cup {proxy}
           v6 == v5 \cup {ua}
<1>1. /\ S \in Schemas /\ "--profile-id" \in S \ Bare /\ "--protocol" \in S \ Bare /\ "--connect-url" \in S \ Bare
      /\ "--resolve" \in S \ Bare /\ "--proxy" \in S \ Bare /\ "--useragent" \in S \ Bare /\ "--tunable" \in S
      /\ "--request-id" \in S /\ "--quiet" \in S
  BY DEF ConnectSchema, Schemas, Flags, Bare
<1>2. v6 = {id, protocol, url, resolve, proxy, ua}
  OBVIOUS
<1> HIDE DEF S
<1>3. Outcome(l0, S, v0, g0) /\ \A f \in S : g0[f] = << >>
  BY <1>1, BlankFacts
<1> HIDE DEF l0, g0, v0
<1>4. Outcome(l1, S, v1, g1) /\ Adds(g1, g0, "--profile-id", <<id>>, S)
  BY <1>1, <1>3, PairAdded
<1> HIDE DEF l1, g1, v1
<1>5. g1["--profile-id"] = <<id>> /\ \A f \in S : f # "--profile-id" => g1[f] = << >>
  BY <1>3, <1>4 DEF Adds
<1>6. Outcome(l2, S, v2, g2) /\ Adds(g2, g1, "--protocol", <<protocol>>, S)
  <2>1. g1["--protocol"] = << >>
    BY <1>1, <1>5
  <2>2. QED BY <1>1, <1>4, <2>1, PairAdded
<1> HIDE DEF l2, g2, v2
<1>7. /\ g2["--profile-id"] = <<id>> /\ g2["--protocol"] = <<protocol>>
      /\ \A f \in S : f \notin {"--profile-id", "--protocol"} => g2[f] = << >>
  BY <1>1, <1>5, <1>6 DEF Adds
<1>8. Outcome(l3, S, v3, g3) /\ Adds(g3, g2, "--connect-url", <<url>>, S)
  <2>1. g2["--connect-url"] = << >>
    BY <1>1, <1>7
  <2>2. QED BY <1>1, <1>6, <2>1, PairAdded
<1> HIDE DEF l3, g3, v3
<1>9. /\ g3["--profile-id"] = <<id>> /\ g3["--protocol"] = <<protocol>> /\ g3["--connect-url"] = <<url>>
      /\ \A f \in S : f \notin {"--profile-id", "--protocol", "--connect-url"} => g3[f] = << >>
  BY <1>1, <1>7, <1>8 DEF Adds
<1>10. Outcome(l4, S, v4, g4) /\ Adds(g4, g3, "--resolve", One(resolve), S)
  <2>1. g3["--resolve"] = << >>
    BY <1>1, <1>9
  <2>2. QED BY <1>1, <1>8, <2>1, OptAdded
<1> HIDE DEF l4, g4, v4
<1>11. /\ g4["--profile-id"] = <<id>> /\ g4["--protocol"] = <<protocol>> /\ g4["--connect-url"] = <<url>>
       /\ g4["--resolve"] = One(resolve)
       /\ \A f \in {"--proxy", "--useragent", "--tunable", "--request-id", "--quiet"} : g4[f] = << >>
  BY <1>1, <1>9, <1>10 DEF Adds
<1>12. Outcome(l5, S, v5, g5) /\ Adds(g5, g4, "--proxy", One(proxy), S)
  <2>1. g4["--proxy"] = << >>
    BY <1>11
  <2>2. QED BY <1>1, <1>10, <2>1, OptAdded
<1> HIDE DEF l5, g5, v5
<1>13. /\ g5["--profile-id"] = <<id>> /\ g5["--protocol"] = <<protocol>> /\ g5["--connect-url"] = <<url>>
       /\ g5["--resolve"] = One(resolve) /\ g5["--proxy"] = One(proxy)
       /\ \A f \in {"--useragent", "--tunable", "--request-id", "--quiet"} : g5[f] = << >>
  BY <1>1, <1>11, <1>12 DEF Adds
<1>14. Outcome(l6, S, v6, g6) /\ Adds(g6, g5, "--useragent", One(ua), S)
  <2>1. g5["--useragent"] = << >>
    BY <1>13
  <2>2. QED BY <1>1, <1>12, <2>1, OptAdded
<1> HIDE DEF l6, g6, v6
<1>15. /\ g6["--profile-id"] = <<id>> /\ g6["--protocol"] = <<protocol>> /\ g6["--connect-url"] = <<url>>
       /\ g6["--resolve"] = One(resolve) /\ g6["--proxy"] = One(proxy) /\ g6["--useragent"] = One(ua)
       /\ \A f \in {"--tunable", "--request-id", "--quiet"} : g6[f] = << >>
  BY <1>1, <1>13, <1>14 DEF Adds
<1>16. kvs \in Seq(Tokens)
  <2>1. T \in Seq(Tokens) /\ n \in Nat /\ Len(T) = 2 * n
    BY DEF Settings
  <2>2. \A i \in 1..n : T[2 * i] \in Tokens
    BY <2>1
  <2>3. QED BY <2>1, <2>2 DEF Kvs
<1> HIDE DEF kvs
<1>17. /\ g7["--profile-id"] = <<id>> /\ g7["--protocol"] = <<protocol>> /\ g7["--connect-url"] = <<url>>
       /\ g7["--resolve"] = One(resolve) /\ g7["--proxy"] = One(proxy) /\ g7["--useragent"] = One(ua)
       /\ g7["--tunable"] = kvs /\ g7["--request-id"] = << >> /\ g7["--quiet"] = << >>
  <2>1. g6 \in [S -> Seq(Tokens)]
    BY <1>14 DEF Outcome
  <2>2. Adds(g7, g6, "--tunable", kvs, S)
    BY <1>1, <1>16, <2>1, SetAdds
  <2> HIDE DEF g7
  <2>3. QED BY <1>1, <1>15, <2>2 DEF Adds
<1>18. /\ l7 \in Seq(Tokens)
       /\ IF Few(T, n) /\ \A v \in v6 : ~ LooksLikeFlag(v) THEN Reads(l7, S, g7) ELSE Denied(l7, S)
  <2>1. CASE \A v \in v6 : ~ LooksLikeFlag(v)
    <3>1. Reads(l6, S, g6) /\ g6["--tunable"] = << >>
      BY <1>14, <1>15, <2>1 DEF Outcome
    <3>2. l7 \in Seq(Tokens) /\ IF Few(T, n) THEN Reads(l7, S, Set(g6, "--tunable", Kvs(T, n))) ELSE Denied(l7, S)
      BY <1>1, <3>1, TunablesRead
    <3>3. QED BY <2>1, <3>2 DEF kvs
  <2>2. CASE ~ \A v \in v6 : ~ LooksLikeFlag(v)
    <3>1. Denied(l6, S) /\ l6 \in Seq(Tokens) /\ T \in Seq(Tokens)
      BY <1>14, <2>2 DEF Outcome, Settings
    <3>2. Denied(l7, S) /\ l7 \in Seq(Tokens)
      BY <1>1, <3>1, StaysRefused
    <3>3. QED BY <2>2, <3>2
  <2>3. QED BY <2>1, <2>2
<1>19. HelperArgs(p, a) = l7
  <2>1. HelperArgs(p, a) = << <<"--profile-id">>, id, <<"--protocol">>, protocol, <<"--connect-url">>, url >>
                           \o Opt("--resolve", resolve) \o Opt("--proxy", proxy) \o Opt("--useragent", ua) \o T
    BY DEF HelperArgs
  <2>2. << <<"--profile-id">>, id, <<"--protocol">>, protocol, <<"--connect-url">>, url >> = l3
    BY SixIs DEF l0, l1, l2, l3
  <2>3. QED BY <2>1, <2>2 DEF l4, l5, l6
<1> HIDE DEF l7, g7
<1> DEFINE s == Scan(l7, S)
<1>20. s = Raw(l7, S)
  BY <1>1, <1>18, ScanIsRaw
<1> HIDE DEF s
<1>21. Few(T, n) /\ (\A v \in v6 : ~ LooksLikeFlag(v)) => Complete(s) /\ s.got = g7
  BY <1>18, <1>20 DEF Reads, Complete
<1>22. ~ (Few(T, n) /\ (\A v \in v6 : ~ LooksLikeFlag(v))) => ~ Complete(s)
  BY <1>18, <1>20 DEF Denied, Complete
<1>23. s = Scan(HelperArgs(p, a), ConnectSchema)
  BY <1>19 DEF S, s
<1>24. Fit(id, protocol, url, resolve, proxy, ua, T, n) <=> (Few(T, n) /\ \A v \in v6 : ~ LooksLikeFlag(v))
  BY <1>2 DEF Fit
<1>25. QED BY <1>17, <1>21, <1>22, <1>23, <1>24 DEF kvs, HelperGot

(* What is read of a record that has been written.                         *)
LEMMA WrittenFields ==
  ASSUME NEW a
  PROVE  /\ FieldOf(Serialise(a), "version") = <<"1">> /\ FieldOf(Serialise(a), "profile_id") = a.profile_id
         /\ FieldOf(Serialise(a), "protocol") = a.protocol /\ FieldOf(Serialise(a), "origin") = a.origin
         /\ FieldOf(Serialise(a), "fingerprint") = a.fingerprint
         /\ FieldOf(Serialise(a), "proxy") = IF a.proxy = << >> THEN <<"NONE">> ELSE a.proxy
<1> DEFINE proxy == IF a.proxy = << >> THEN <<"NONE">> ELSE a.proxy
           version == <<"1">>
           l1 == Line("version", version)
           l2 == Line("profile_id", a.profile_id)
           l3 == Line("protocol", a.protocol)
           l4 == Line("origin", a.origin)
           l5 == Line("fingerprint", a.fingerprint)
           l6 == Line("proxy", proxy)
           S  == {l1, l2, l3, l4, l5, l6}
           lines == <<l1, l2, l3, l4, l5, l6>>
<1>1. Serialise(a) = lines
  BY DEF Serialise
<1> HIDE DEF proxy, version
<1>2. /\ l1.key = "version" /\ l2.key = "profile_id" /\ l3.key = "protocol" /\ l4.key = "origin"
      /\ l5.key = "fingerprint" /\ l6.key = "proxy"
      /\ l1.val = version /\ l2.val = a.profile_id /\ l3.val = a.protocol /\ l4.val = a.origin
      /\ l5.val = a.fingerprint /\ l6.val = proxy
  BY DEF Line
<1> HIDE DEF l1, l2, l3, l4, l5, l6
<1>3. /\ lines \in Seq(S) /\ Len(lines) = 6
      /\ lines[1] = l1 /\ lines[2] = l2 /\ lines[3] = l3 /\ lines[4] = l4 /\ lines[5] = l5 /\ lines[6] = l6
  OBVIOUS
<1> HIDE DEF lines, S
<1>4. \A i, j \in 1..6 : lines[i].key = lines[j].key => i = j
  BY <1>2, <1>3
<1>5. ASSUME NEW i \in 1..6 PROVE FieldOf(lines, lines[i].key) = lines[i].val
  <2>1. OnlyOne(lines, i) /\ i \in 1..Len(lines)
    BY <1>3, <1>4 DEF OnlyOne
  <2>2. QED BY <1>3, <2>1, FieldIs
<1>6. 1 \in 1..6 /\ 2 \in 1..6 /\ 3 \in 1..6 /\ 4 \in 1..6 /\ 5 \in 1..6 /\ 6 \in 1..6
  OBVIOUS
<1>7. /\ FieldOf(lines, "version") = version /\ FieldOf(lines, "profile_id") = a.profile_id
      /\ FieldOf(lines, "protocol") = a.protocol /\ FieldOf(lines, "origin") = a.origin
      /\ FieldOf(lines, "fingerprint") = a.fingerprint /\ FieldOf(lines, "proxy") = proxy
  BY <1>2, <1>3, <1>5, <1>6
<1>8. QED BY <1>1, <1>7 DEF proxy, version

(* A canonical proxy is a text that begins with its scheme.                *)
LEMMA ProxyFacts ==
  ASSUME NEW in \in Tokens, CanonProxy(in) # << >>
  PROVE  /\ in # << >> /\ in[1] \in {"http://", "socks5://"}
         /\ CanonProxy(in) \in Tokens /\ CanonProxy(in)[1] = in[1]
<1> DEFINE end == Endpoint(HostPort(Tail(in)), Refusal)
<1>1. CanonProxy(in) = ProxyOf(in, end)
  BY DEF CanonProxy
<1> HIDE DEF end
<1>2. /\ in # << >> /\ in[1] \in {"http://", "socks5://"} /\ Leads(end)
      /\ CanonProxy(in) = <<in[1]>> \o At(end)
  BY <1>1 DEF ProxyOf, Refused
<1>3. Led(end)
  <2>1. Tail(in) \in Tokens
    BY <1>2 DEF Tokens
  <2>2. QED BY <1>2, <2>1, EndpointFacts DEF end
<1> DEFINE h == <<in[1]>>
           t == At(end)
<1>4. h \in Seq(Token) /\ Len(h) = 1 /\ h[1] = in[1]
  <2>1. in[1] \in Token
    BY <1>2 DEF Tokens
  <2>2. QED BY <2>1
<1>5. t \in Seq(Token)
  BY <1>3, AtFacts DEF Tokens
<1> HIDE DEF h, t
<1>6. h \o t \in Seq(Token) /\ (h \o t)[1] = h[1]
  <2>1. h \o t \in Seq(Token) /\ Joins(h \o t, h, t)
    BY <1>4, <1>5, Joint
  <2>2. 1 \in 1..Len(h)
    BY <1>4
  <2>3. QED BY <2>1, <2>2 DEF Joins
<1>7. CanonProxy(in) = h \o t
  BY <1>2 DEF h, t
<1>8. QED BY <1>2, <1>4, <1>6, <1>7 DEF Tokens

(* A canonical fingerprint is a text.                                      *)
IsText(t) == \E S : t \in Seq(S)

(* A canonical fingerprint is a text.                                      *)
LEMMA FingerprintIsText ==
  ASSUME NEW in \in Tokens, CanonFingerprint(in) # << >>
  PROVE  IsText(CanonFingerprint(in))
<1>1. in # << >> /\ Tail(in) \in Tokens
  BY DEF CanonFingerprint, Refused, Tokens
<1>2. ASSUME NEW label, NEW body \in Tokens, NEW digits, CanonHex(label, body, digits) # << >>
      PROVE  IsText(CanonHex(label, body, digits))
  <2> DEFINE low == Lowered(body)
             h   == <<label>>
             S   == {label} \cup Token
  <2>1. CanonHex(label, body, digits) = h \o low
    BY <1>2 DEF CanonHex, Refused
  <2>2. low \in Seq(Token)
    BY LoweredFacts DEF Tokens
  <2>3. low \in Seq(S) /\ h \in Seq(S)
    <3>1. Token \subseteq S /\ label \in S
      OBVIOUS
    <3> HIDE DEF low, S
    <3>2. low \in Seq(S)
      BY <2>2, <3>1, WiderTexts
    <3>3. h \in Seq(S)
      BY <3>1
    <3>4. QED BY <3>2, <3>3
  <2> HIDE DEF low, h, S
  <2>4. h \o low \in Seq(S)
    BY <2>3
  <2>5. QED BY <2>1, <2>4 DEF IsText
<1>3. ASSUME NEW label, NEW raw, CanonPin(label, raw) # << >>
      PROVE  IsText(CanonPin(label, raw))
  <2> DEFINE e == B64Encode(raw)
             h == <<label>>
  <2>1. CanonPin(label, raw) = h \o e /\ Len(raw) = 32
    BY <1>3 DEF CanonPin, Refused
  <2>2. PICK f : e = [c \in 1..(4 * ((Len(raw) + 2) \div 3)) |-> f[c]]
    <3> DEFINE g == e
    <3>1. e = [c \in 1..(4 * ((Len(raw) + 2) \div 3)) |-> g[c]]
      BY DEF B64Encode
    <3>2. QED BY <3>1
  <2> HIDE DEF e
  <2>3. 4 * ((Len(raw) + 2) \div 3) = 44
    BY <2>1
  <2> DEFINE S == {label} \cup {f[c] : c \in 1..44}
  <2>4. e \in Seq(S) /\ h \in Seq(S)
    <3>1. e = [c \in 1..44 |-> f[c]]
      BY <2>2, <2>3
    <3>2. \A c \in 1..44 : f[c] \in S
      OBVIOUS
    <3>3. label \in S
      OBVIOUS
    <3> HIDE DEF S
    <3>4. e \in Seq(S)
      BY <3>1, <3>2
    <3>5. h \in Seq(S)
      BY <3>3
    <3>6. QED BY <3>4, <3>5
  <2> HIDE DEF h, S
  <2>5. h \o e \in Seq(S)
    BY <2>4
  <2>6. QED BY <2>1, <2>5 DEF IsText
<1>4. CanonFingerprint(in) = CASE in[1] = "pin-sha256:" -> CanonPin(in[1], B64Decode(Tail(in)))
         [] in[1] = "sha1:"       -> CanonHex("sha1:", Tail(in), 40)
         [] in[1] = "sha256:"     -> CanonHex("sha256:", Tail(in), 64)
         [] OTHER                 -> CanonBare(in)
  BY DEF CanonFingerprint, Refused
<1>5. CASE in[1] = "pin-sha256:"
  <2>1. CanonFingerprint(in) = CanonPin(in[1], B64Decode(Tail(in)))
    BY <1>4, <1>5
  <2>2. QED BY <1>3, <2>1
<1>6. CASE in[1] = "sha1:"
  <2>1. CanonFingerprint(in) = CanonHex("sha1:", Tail(in), 40)
    BY <1>4, <1>6
  <2>2. QED BY <1>1, <1>2, <2>1
<1>7. CASE in[1] = "sha256:"
  <2>1. CanonFingerprint(in) = CanonHex("sha256:", Tail(in), 64)
    BY <1>4, <1>7
  <2>2. QED BY <1>1, <1>2, <2>1
<1>8. CASE in[1] \notin {"pin-sha256:", "sha1:", "sha256:"}
  <2>1. CanonFingerprint(in) = CanonBare(in)
    BY <1>4, <1>8
  <2>2. CanonBare(in) = CanonHex("sha1:", in, 40) \/ CanonBare(in) = CanonHex("sha256:", in, 64)
    BY DEF CanonBare
  <2>3. QED BY <1>2, <2>1, <2>2
<1>9. QED BY <1>5, <1>6, <1>7, <1>8

ApprovedId(scan)    == CanonProfileId(Value(scan, "--profile-id"))
ApprovedUrl(scan)   == ParseUrl(Value(scan, "--endpoint"))
ApprovedPin(scan)   == CanonFingerprint(Value(scan, "--fingerprint"))
ApprovedProxy(scan) == IF Given(scan, "--proxy") THEN CanonProxy(Value(scan, "--proxy")) ELSE << >>

(* What approve makes of arguments it takes.                               *)
LEMMA ApprovalIs ==
  ASSUME NEW scan, ApprovalOf(scan).ok
  PROVE  /\ Complete(scan) /\ AllGiven(scan, {"--profile-id", "--protocol", "--endpoint", "--fingerprint"})
         /\ Given(scan, "--proxy") # Given(scan, "--no-proxy")
         /\ ApprovedId(scan) # << >> /\ ValidProtocol(Value(scan, "--protocol"))
         /\ ApprovedUrl(scan).ok /\ ApprovedPin(scan) # << >>
         /\ Given(scan, "--proxy") => ApprovedProxy(scan) # << >>
         /\ ApprovalOf(scan) = [ok |-> TRUE, profile_id |-> ApprovedId(scan), protocol |-> Value(scan, "--protocol"),
                                origin |-> ApprovedUrl(scan).origin, fingerprint |-> ApprovedPin(scan), proxy |-> ApprovedProxy(scan)]
<1> DEFINE Fine ==
         /\ Complete(scan) /\ AllGiven(scan, {"--profile-id", "--protocol", "--endpoint", "--fingerprint"})
         /\ Given(scan, "--proxy") # Given(scan, "--no-proxy")
         /\ ApprovedId(scan) # << >> /\ ValidProtocol(Value(scan, "--protocol"))
         /\ ApprovedUrl(scan).ok /\ ApprovedPin(scan) # << >>
         /\ Given(scan, "--proxy") => ApprovedProxy(scan) # << >>
       record == [ok |-> TRUE, profile_id |-> ApprovedId(scan), protocol |-> Value(scan, "--protocol"),
                  origin |-> ApprovedUrl(scan).origin, fingerprint |-> ApprovedPin(scan), proxy |-> ApprovedProxy(scan)]
<1>1. ApprovalOf(scan) = IF Fine THEN record ELSE NoApproval
  BY DEF ApprovalOf, ApprovedId, ApprovedUrl, ApprovedPin, ApprovedProxy, Refused
<1>2. ~ NoApproval.ok
  BY DEF NoApproval
<1> HIDE DEF record
<1>3. Fine /\ ApprovalOf(scan) = record
  <2> HIDE DEF Fine
  <2>1. QED BY <1>1, <1>2
<1>4. QED BY <1>3 DEF record

(* The values of a scan are texts.                                         *)
LEMMA ScanTyped ==
  ASSUME NEW argv \in Seq(Tokens), NEW schema \in Schemas, NEW f \in schema
  PROVE  Given(Scan(argv, schema), f) => Value(Scan(argv, schema), f) \in Tokens
<1> DEFINE s == Scan(argv, schema)
<1>1. s \in ScanSet(schema)
  BY ScanIsRaw, RawIs
<1> HIDE DEF s
<1>2. s.got[f] \in Seq(Tokens)
  BY <1>1, StateFacts
<1> DEFINE g == s.got[f]
<1>3. g # << >> => g[1] \in Tokens
  <2> HIDE DEF g
  <2>1. QED BY <1>2 DEF g
<1>4. QED BY <1>3 DEF Given, Value, s

(* The fingerprint of an approval is a text, and its proxy is not NONE, the *)
(* word the record uses for no proxy.                                      *)
LEMMA ApprovalTyped ==
  ASSUME NEW argv \in Seq(Tokens), ApprovalFromArgv(argv).ok
  PROVE  /\ IsText(ApprovalFromArgv(argv).fingerprint)
         /\ ApprovalFromArgv(argv).proxy # <<"NONE">>
<1> DEFINE s == Scan(argv, ApproveSchema)
<1>1. ApprovalFromArgv(argv) = ApprovalOf(s)
  BY DEF ApprovalFromArgv
<1>2. \A f \in {"--fingerprint", "--proxy"} : Given(s, f) => Value(s, f) \in Tokens
  <2>1. ApproveSchema \in Schemas /\ "--fingerprint" \in ApproveSchema /\ "--proxy" \in ApproveSchema
    BY DEF ApproveSchema, Schemas, Flags
  <2>2. QED BY <2>1, ScanTyped
<1> HIDE DEF s
<1>3. /\ Given(s, "--fingerprint") /\ ApprovedPin(s) # << >>
      /\ Given(s, "--proxy") => ApprovedProxy(s) # << >>
      /\ ApprovalOf(s).fingerprint = ApprovedPin(s) /\ ApprovalOf(s).proxy = ApprovedProxy(s)
  BY <1>1, ApprovalIs DEF AllGiven
<1>4. IsText(ApprovedPin(s))
  BY <1>2, <1>3, FingerprintIsText DEF ApprovedPin
<1>5. ApprovedProxy(s) # <<"NONE">>
  <2>1. CASE Given(s, "--proxy")
    <3>1. ApprovedProxy(s) = CanonProxy(Value(s, "--proxy")) /\ Value(s, "--proxy") \in Tokens
      BY <1>2, <2>1 DEF ApprovedProxy
    <3>2. ApprovedProxy(s)[1] \in {"http://", "socks5://"}
      BY <1>3, <2>1, <3>1, ProxyFacts
    <3>3. <<"NONE">>[1] = "NONE"
      OBVIOUS
    <3>4. QED BY <3>2, <3>3
  <2>2. CASE ~ Given(s, "--proxy")
    <3>1. ApprovedProxy(s) = << >>
      BY <2>2 DEF ApprovedProxy
    <3>2. QED BY <3>1
  <2>3. QED BY <2>1, <2>2
<1>6. QED BY <1>1, <1>3, <1>4, <1>5

(* What a record that parses says.                                         *)
RecordProxy(lines) == IF FieldOf(lines, "proxy") = <<"NONE">> THEN << >> ELSE FieldOf(lines, "proxy")

(* An approval that parses has the fields of its record.                   *)
LEMMA ParsedIs ==
  ASSUME NEW lines, ParseApproval(lines).ok
  PROVE  /\ FieldOf(lines, "profile_id") # << >>
         /\ ParseApproval(lines) =
              [ok |-> TRUE, profile_id |-> FieldOf(lines, "profile_id"), protocol |-> FieldOf(lines, "protocol"),
               origin |-> FieldOf(lines, "origin"), fingerprint |-> FieldOf(lines, "fingerprint"), proxy |-> RecordProxy(lines)]
<1>1. ~ NoApproval.ok
  BY DEF NoApproval
<1> DEFINE F(key) == FieldOf(lines, key)
           proxy  == RecordProxy(lines)
           Fine ==
        /\ WellFormed(lines, ApprovalKeys)
        /\ \A key \in ApprovalKeys : HasKey(lines, key)
        /\ ParseBounded(F("version"), 1, 1000000) = 1
        /\ F("profile_id") # << >> /\ CanonProfileId(F("profile_id")) = F("profile_id")
        /\ ValidProtocol(F("protocol"))
        /\ ParseUrl(F("origin")).ok /\ ParseUrl(F("origin")).origin = F("origin")
        /\ F("fingerprint") # << >> /\ CanonFingerprint(F("fingerprint")) = F("fingerprint")
        /\ F("proxy") # << >>
        /\ proxy # << >> => CanonProxy(proxy) = proxy
           record == [ok |-> TRUE, profile_id |-> F("profile_id"), protocol |-> F("protocol"),
                      origin |-> F("origin"), fingerprint |-> F("fingerprint"), proxy |-> proxy]
<1>2. ParseApproval(lines) = IF Fine THEN record ELSE NoApproval
  BY DEF ParseApproval, RecordProxy
<1> HIDE DEF record, F
<1>3. Fine /\ ParseApproval(lines) = record
  <2> HIDE DEF Fine
  <2>1. QED BY <1>1, <1>2
<1>4. QED BY <1>3 DEF record, F

(* What approve keeps is what was asked for.                               *)
LEMMA StoredIs ==
  ASSUME NEW argv \in Seq(Tokens), Stored(argv).ok
  PROVE  /\ ApprovalFromArgv(argv).ok /\ Stored(argv) = ApprovalFromArgv(argv)
         /\ ParseApproval(Serialise(Stored(argv))) = Stored(argv)
<1> DEFINE a == ApprovalFromArgv(argv)
<1>1. Stored(argv) = IF a.ok THEN ParseApproval(Serialise(a)) ELSE NoApproval
  BY DEF Stored, ReadBack
<1>2. a.ok
  <2> HIDE DEF a
  <2>1. QED BY <1>1 DEF NoApproval
<1>3. a.proxy # <<"NONE">>
  BY <1>2, ApprovalTyped
<1>4. a = [ok |-> TRUE, profile_id |-> a.profile_id, protocol |-> a.protocol, origin |-> a.origin, fingerprint |-> a.fingerprint, proxy |-> a.proxy]
  BY <1>2, ApprovalIs DEF ApprovalFromArgv
<1> HIDE DEF a
<1>5. ParseApproval(Serialise(a)).ok
  BY <1>1, <1>2
<1>6. RecordProxy(Serialise(a)) = a.proxy
  BY <1>3, WrittenFields DEF RecordProxy
<1>7. ParseApproval(Serialise(a)) = a
  BY <1>4, <1>5, <1>6, WrittenFields, ParsedIs
<1>8. QED BY <1>1, <1>2, <1>7 DEF a

Asked(id, protocol, url, fpr, resolve, proxy, ua, quiet, tunables) ==
  [ok |-> TRUE, profile_id |-> id, protocol |-> protocol, url |-> url, fingerprint |-> fpr, resolve |-> resolve,
   proxy |-> proxy, useragent |-> ua, quiet |-> quiet, tunables |-> tunables]

RequestedResolve(scan)  == IF Given(scan, "--resolve") THEN CanonResolve(Value(scan, "--resolve")) ELSE NoResolve
RequestedProxy(scan)    == IF Given(scan, "--proxy") THEN CanonProxy(Value(scan, "--proxy")) ELSE << >>
RequestedAgent(scan)    == IF Given(scan, "--useragent") THEN Value(scan, "--useragent") ELSE << >>
RequestedTunables(scan) == [i \in DOMAIN scan.got["--tunable"] |-> RenderTunable(scan.got["--tunable"][i])]

Usable(scan) ==
  /\ Complete(scan) /\ AllGiven(scan, {"--profile-id", "--protocol", "--connect-url"})
  /\ CanonProfileId(Value(scan, "--profile-id")) # << >> /\ ValidProtocol(Value(scan, "--protocol"))
  /\ ParseUrl(Value(scan, "--connect-url")).ok
  /\ Given(scan, "--resolve") => RequestedResolve(scan) # NoResolve
  /\ Given(scan, "--proxy") => CanonProxy(Value(scan, "--proxy")) # << >>
  /\ Given(scan, "--useragent") => ValidUseragent(Value(scan, "--useragent"))
  /\ Given(scan, "--request-id") => ValidHexid(Value(scan, "--request-id"))
  /\ \A i \in DOMAIN RequestedTunables(scan) :
       /\ RequestedTunables(scan)[i] # << >>
       /\ \A j \in 1..(i - 1) : Knob(RequestedTunables(scan)[j]) # Knob(RequestedTunables(scan)[i])

(* What connect makes of arguments it takes.                               *)
LEMMA RequestIs ==
  ASSUME NEW scan
  PROVE  /\ RequestOf(scan).ok <=> Usable(scan)
         /\ RequestOf(scan).ok =>
              RequestOf(scan) = Asked(CanonProfileId(Value(scan, "--profile-id")), Value(scan, "--protocol"),
                                      ParseUrl(Value(scan, "--connect-url")), << >>, RequestedResolve(scan), RequestedProxy(scan),
                                      RequestedAgent(scan), Given(scan, "--quiet"), RequestedTunables(scan))
<1> DEFINE record == Asked(CanonProfileId(Value(scan, "--profile-id")), Value(scan, "--protocol"),
                           ParseUrl(Value(scan, "--connect-url")), << >>, RequestedResolve(scan), RequestedProxy(scan),
                           RequestedAgent(scan), Given(scan, "--quiet"), RequestedTunables(scan))
<1>1. RequestOf(scan) = IF Usable(scan) THEN record ELSE NoRequest
  BY DEF RequestOf, Usable, Asked, RequestedResolve, RequestedProxy, RequestedAgent, RequestedTunables, Checked, Refused
<1>2. ~ NoRequest.ok
  BY DEF NoRequest
<1>3. record.ok
  BY DEF Asked
<1> HIDE DEF record
<1>4. QED BY <1>1, <1>2, <1>3 DEF record

(* The fields of a request.                                                *)
LEMMA AskedFacts ==
  ASSUME NEW id, NEW protocol, NEW url, NEW resolve, NEW proxy, NEW ua, NEW quiet, NEW tunables, NEW fpr
  PROVE  LET r == Asked(id, protocol, url, fpr, resolve, proxy, ua, quiet, tunables) IN
         /\ r.ok /\ r.profile_id = id /\ r.protocol = protocol /\ r.url = url /\ r.fingerprint = fpr
         /\ r.resolve = resolve /\ r.proxy = proxy /\ r.useragent = ua /\ r.quiet = quiet /\ r.tunables = tunables
BY DEF Asked

(* The fields of a request with another fingerprint.                       *)
LEMMA PinnedFacts ==
  ASSUME NEW id, NEW protocol, NEW url, NEW resolve, NEW proxy, NEW ua, NEW quiet, NEW tunables, NEW none, NEW fpr
  PROVE  LET r == [Asked(id, protocol, url, none, resolve, proxy, ua, quiet, tunables) EXCEPT !.fingerprint = fpr] IN
         /\ r.profile_id = id /\ r.protocol = protocol /\ r.url = url /\ r.fingerprint = fpr
         /\ r.resolve = resolve /\ r.proxy = proxy /\ r.useragent = ua /\ r.quiet = quiet /\ r.tunables = tunables
BY DEF Asked

Rendered(T, n) == [i \in 1..n |-> RenderTunable(T[2 * i])]
Resolving(resolve) == IF resolve = << >> THEN NoResolve ELSE CanonResolve(resolve)
Proxying(proxy)    == IF proxy = << >> THEN << >> ELSE CanonProxy(proxy)

Accepts(id, protocol, url, resolve, proxy, ua, T, n) ==
  /\ Fit(id, protocol, url, resolve, proxy, ua, T, n)
  /\ CanonProfileId(id) # << >> /\ ValidProtocol(protocol) /\ ParseUrl(url).ok
  /\ resolve # << >> => CanonResolve(resolve) # NoResolve
  /\ proxy # << >> => CanonProxy(proxy) # << >>
  /\ ua # << >> => ValidUseragent(ua)
  /\ \A i \in 1..n : /\ Rendered(T, n)[i] # << >>
                     /\ \A j \in 1..(i - 1) : Knob(Rendered(T, n)[j]) # Knob(Rendered(T, n)[i])

(* A value that may be missing, as a list.                                 *)
LEMMA OneFacts ==
  ASSUME NEW v
  PROVE  /\ One(v) # << >> <=> v # << >>
         /\ v # << >> => One(v)[1] = v
<1>1. CASE v = << >>
  BY <1>1 DEF One
<1>2. CASE v # << >>
  <2>1. One(v) = <<v>>
    BY <1>2 DEF One
  <2>2. <<v>> # << >> /\ <<v>>[1] = v
    OBVIOUS
  <2>3. QED BY <1>2, <2>1, <2>2
<1>3. QED BY <1>1, <1>2

HelperMade(r, id, protocol, url, resolve, proxy, ua, T, n) ==
  /\ r.ok <=> Accepts(id, protocol, url, resolve, proxy, ua, T, n)
  /\ r.ok => r = Asked(CanonProfileId(id), protocol, ParseUrl(url), << >>, Resolving(resolve), Proxying(proxy),
                       ua, FALSE, Rendered(T, n))

(* What the helper makes of the arguments the shell gives it.              *)
LEMMA HelperRequest ==
  ASSUME NEW id \in Tokens, NEW protocol \in Tokens, NEW url \in Tokens, NEW resolve \in Tokens, NEW proxy \in Tokens,
         NEW ua \in Tokens, NEW T, NEW n, Settings(T, n),
         NEW p, p.id = id, p.protocol = protocol, p.proxy = proxy, NEW a, a.url = url, a.resolve = resolve,
         TranslateExtraArgs(p.extra).useragent = ua, TranslateExtraArgs(p.extra).tunables = T
  PROVE  HelperMade(RequestFromArgv(HelperArgs(p, a)), id, protocol, url, resolve, proxy, ua, T, n)
<1> DEFINE s == Scan(HelperArgs(p, a), ConnectSchema)
           r == RequestFromArgv(HelperArgs(p, a))
<1>1. r = RequestOf(s)
  BY DEF RequestFromArgv
<1>2. /\ Complete(s) <=> Fit(id, protocol, url, resolve, proxy, ua, T, n)
      /\ Complete(s) =>
              /\ s.got["--profile-id"] = <<id>> /\ s.got["--protocol"] = <<protocol>>
              /\ s.got["--connect-url"] = <<url>> /\ s.got["--resolve"] = One(resolve)
              /\ s.got["--proxy"] = One(proxy) /\ s.got["--useragent"] = One(ua)
              /\ s.got["--request-id"] = << >> /\ s.got["--quiet"] = << >> /\ s.got["--tunable"] = Kvs(T, n)
  <2>1. HelperGot(s, id, protocol, url, resolve, proxy, ua, T, n)
    BY HelperScan
  <2>2. QED BY <2>1 DEF HelperGot
<1> HIDE DEF s, r
<1>3. ASSUME Complete(s)
      PROVE  /\ Given(s, "--profile-id") /\ Given(s, "--protocol") /\ Given(s, "--connect-url")
             /\ Value(s, "--profile-id") = id /\ Value(s, "--protocol") = protocol /\ Value(s, "--connect-url") = url
             /\ ~ Given(s, "--request-id") /\ ~ Given(s, "--quiet")
  <2>1. \A v : <<v>> # << >> /\ <<v>>[1] = v
    OBVIOUS
  <2>2. QED BY <1>2, <1>3, <2>1 DEF Given, Value
<1>4. ASSUME Complete(s)
      PROVE  /\ Given(s, "--resolve") <=> resolve # << >>
             /\ Given(s, "--proxy") <=> proxy # << >>
             /\ Given(s, "--useragent") <=> ua # << >>
             /\ resolve # << >> => Value(s, "--resolve") = resolve
             /\ proxy # << >> => Value(s, "--proxy") = proxy
             /\ ua # << >> => Value(s, "--useragent") = ua
  BY <1>2, <1>4, OneFacts DEF Given, Value
<1>5. ASSUME Complete(s) PROVE RequestedTunables(s) = Rendered(T, n)
  <2> DEFINE kvs == Kvs(T, n)
  <2>1. s.got["--tunable"] = kvs
    BY <1>2, <1>5
  <2>2. DOMAIN kvs = 1..n /\ \A i \in 1..n : kvs[i] = T[2 * i]
    BY DEF Kvs
  <2> HIDE DEF kvs
  <2>3. RequestedTunables(s) = [i \in DOMAIN kvs |-> RenderTunable(kvs[i])]
    BY <2>1 DEF RequestedTunables
  <2>4. QED BY <2>2, <2>3 DEF Rendered
<1>6. DOMAIN Rendered(T, n) = 1..n
  BY DEF Rendered
<1>7. ASSUME Complete(s)
      PROVE  /\ RequestedResolve(s) = Resolving(resolve) /\ RequestedProxy(s) = Proxying(proxy) /\ RequestedAgent(s) = ua
  BY <1>4, <1>7 DEF RequestedResolve, Resolving, RequestedProxy, Proxying, RequestedAgent
<1>8. ASSUME Complete(s) PROVE Usable(s) <=> Accepts(id, protocol, url, resolve, proxy, ua, T, n)
  <2>1. AllGiven(s, {"--profile-id", "--protocol", "--connect-url"})
    BY <1>3, <1>8 DEF AllGiven
  <2>2. Given(s, "--resolve") => RequestedResolve(s) = CanonResolve(resolve)
    BY <1>4, <1>7, <1>8 DEF Resolving
  <2> DEFINE D(t, m) == \A i \in m : t[i] # << >> /\ \A j \in 1..(i - 1) : Knob(t[j]) # Knob(t[i])
  <2>3. D(RequestedTunables(s), DOMAIN RequestedTunables(s)) <=> D(Rendered(T, n), 1..n)
    BY <1>5, <1>6, <1>8
  <2>4. Usable(s) <=>
          /\ CanonProfileId(id) # << >> /\ ValidProtocol(protocol) /\ ParseUrl(url).ok
          /\ resolve # << >> => CanonResolve(resolve) # NoResolve
          /\ proxy # << >> => CanonProxy(proxy) # << >>
          /\ ua # << >> => ValidUseragent(ua)
          /\ D(RequestedTunables(s), DOMAIN RequestedTunables(s))
    BY <1>3, <1>4, <1>8, <2>1, <2>2 DEF Usable
  <2>5. QED BY <1>2, <1>8, <2>3, <2>4 DEF Accepts
<1>9. r.ok <=> Usable(s)
  BY <1>1, RequestIs
<1>10. Usable(s) => Complete(s)
  BY DEF Usable
<1>11. Accepts(id, protocol, url, resolve, proxy, ua, T, n) => Complete(s)
  BY <1>2 DEF Accepts
<1>12. r.ok => r = Asked(CanonProfileId(id), protocol, ParseUrl(url), << >>, Resolving(resolve), Proxying(proxy), ua, FALSE, Rendered(T, n))
  <2> SUFFICES ASSUME r.ok PROVE r = Asked(CanonProfileId(id), protocol, ParseUrl(url), << >>, Resolving(resolve), Proxying(proxy), ua, FALSE, Rendered(T, n))
    OBVIOUS
  <2>1. Complete(s)
    BY <1>9, <1>10
  <2> DEFINE quiet == Given(s, "--quiet")
             e == << >>
  <2>2. r = Asked(CanonProfileId(Value(s, "--profile-id")), Value(s, "--protocol"),
                  ParseUrl(Value(s, "--connect-url")), e, RequestedResolve(s), RequestedProxy(s),
                  RequestedAgent(s), quiet, RequestedTunables(s))
    BY <1>1, RequestIs
  <2>3. quiet = FALSE
    BY <1>3, <2>1
  <2> HIDE DEF quiet, e
  <2>4. r = Asked(CanonProfileId(id), protocol, ParseUrl(url), e, Resolving(resolve), Proxying(proxy), ua, FALSE, Rendered(T, n))
    BY <1>3, <1>5, <1>7, <2>1, <2>2, <2>3
  <2>5. QED BY <2>4 DEF e
<1>13. QED BY <1>8, <1>9, <1>10, <1>11, <1>12 DEF r, HelperMade

TunableNames == Booleans \cup {"mtu", "base-mtu", "reconnect-timeout", "force-dpd"}

(* A tunable as OpenConnect gets it: a switch, or a setting and its number. *)
Switched(t, name) == t = <<"--", name>>
Numbered(t, name) == \E v \in Nat : v < 10 * Tens[5] /\ t = <<"--", name, "=">> \o Decimal(v)
Tuned(t, name)    == name \in TunableNames /\ (Switched(t, name) \/ Numbered(t, name))

(* A rendered tunable is a switch or a setting with its number, and its text *)
(* does not look like a flag.                                              *)
LEMMA TunableIs ==
  ASSUME NEW kv \in Tokens, RenderTunable(kv) # << >>
  PROVE  /\ kv # << >> /\ Tuned(RenderTunable(kv), kv[1])
         /\ ~ LooksLikeFlag(kv)
<1> DEFINE eq   == Find(kv, {"="})
           name == IF eq = 0 THEN kv ELSE Upto(kv, eq - 1)
           val  == IF eq = 0 THEN << >> ELSE From(kv, eq + 1)
           v    == IF Len(name) = 1 /\ name[1] \in DOMAIN Ranges
                   THEN ParseBounded(val, Ranges[name[1]][1], Ranges[name[1]][2]) ELSE Refusal
           one  == Len(name) = 1
           b    == Len(name) = 1 /\ name[1] \in Booleans /\ (eq = 0 \/ val \in {<<"true">>, <<"1">>})
           sw   == <<"--", name[1]>>
           num  == <<"--", name[1], "=">> \o Decimal(v)
           no   == << >>
<1>1. RenderTunable(kv) = CASE Len(name) # 1 -> no
         [] b -> sw
         [] v # Refusal -> num
         [] OTHER -> no
  BY DEF RenderTunable, Refused
<1>13. RenderTunable(kv) = CASE ~ one -> no [] b -> sw [] v # Refusal -> num [] OTHER -> no
  BY <1>1
<1>14. b => one /\ name[1] \in Booleans
  OBVIOUS
<1>15. v # Refusal => one
  OBVIOUS
<1>16. b => v = Refusal
  <2>1. \A x \in Booleans : x \notin DOMAIN Ranges
    BY DEF Booleans, Ranges
  <2> HIDE DEF name, val
  <2>2. QED BY <2>1
<1>2. kv \in Seq(Token) /\ eq \in 0..Len(kv) /\ Len(kv) \in Nat
  BY FindFacts DEF Tokens
<1>3. ASSUME Len(name) = 1 PROVE kv # << >> /\ name[1] = kv[1]
  <2>1. CASE eq = 0
    BY <1>2, <1>3, <2>1
  <2>2. CASE eq # 0
    <3>1. /\ eq - 1 \in Nat /\ Len(Upto(kv, eq - 1)) = 1
          /\ Len(Upto(kv, eq - 1)) = IF eq - 1 < Len(kv) THEN eq - 1 ELSE Len(kv)
          /\ \A j \in 1..Len(Upto(kv, eq - 1)) : Upto(kv, eq - 1)[j] = kv[j]
      BY <1>2, <1>3, <2>2, UptoFacts
    <3>2. Upto(kv, eq - 1)[1] = kv[1]
      BY <3>1
    <3>3. QED BY <1>2, <2>2, <3>1, <3>2
  <2>3. QED BY <2>1, <2>2
<1>4. v # Refusal => Len(name) = 1 /\ name[1] \in DOMAIN Ranges /\ v \in Ranges[name[1]][1]..Ranges[name[1]][2]
  <2>1. ASSUME v # Refusal PROVE Len(name) = 1 /\ name[1] \in DOMAIN Ranges
    BY <2>1
  <2> HIDE DEF name, val
  <2>2. QED BY <2>1, ParseBoundedType
<1>5. DOMAIN Ranges = {"mtu", "base-mtu", "reconnect-timeout", "force-dpd"}
  BY DEF Ranges
<1>6. \A x \in DOMAIN Ranges : Ranges[x][1] \in {0, 1, 576} /\ Ranges[x][2] \in {3600, 9000}
  BY DEF Ranges
<1>7. 9000 < 10 * Tens[5]
  BY DEF Tens
<1>8. v # Refusal => v \in Nat /\ v < 10 * Tens[5]
  <2> DEFINE w == v
             x == name[1]
             lo == Ranges[x][1]
             hi == Ranges[x][2]
  <2>1. w # Refusal => w \in lo..hi /\ lo \in {0, 1, 576} /\ hi \in {3600, 9000}
    <3> HIDE DEF v, x
    <3>1. QED BY <1>4, <1>6 DEF x
  <2> HIDE DEF w, lo, hi
  <2>2. w # Refusal => w \in Nat /\ w <= 9000
    BY <2>1
  <2>3. 10 * Tens[5] = 100000
    BY DEF Tens
  <2>4. w # Refusal => w \in Nat /\ w < 10 * Tens[5]
    BY <2>2, <2>3
  <2>5. QED BY <2>4 DEF w
<1>9. /\ one /\ (b \/ v # Refusal)
      /\ b => RenderTunable(kv) = sw
      /\ ~ b => RenderTunable(kv) = num
  <2> HIDE DEF one, b, v, sw, num
  <2>1. ~ one => RenderTunable(kv) = no
    BY <1>13, <1>14, <1>15
  <2>2. ~ b /\ v = Refusal => RenderTunable(kv) = no
    BY <1>13
  <2>3. one
    BY <2>1
  <2>4. b => RenderTunable(kv) = sw
    BY <1>13, <1>14, <1>16, <2>3
  <2>5. ~ b /\ v # Refusal => RenderTunable(kv) = num
    BY <1>13, <2>3
  <2>6. QED BY <2>2, <2>3, <2>4, <2>5
<1> HIDE DEF b, eq, name, val, v, sw, num
<1>10. CASE b
  <2>1. RenderTunable(kv) = sw
    BY <1>9, <1>10
  <2>2. QED BY <1>3, <1>9, <1>10, <1>14, <2>1 DEF sw, Tuned, Switched, TunableNames, LooksLikeFlag, Booleans, Flags
<1>11. CASE ~ b
  <2>1. v # Refusal /\ RenderTunable(kv) = num
    BY <1>9, <1>11
  <2>2. name[1] \in TunableNames /\ ~ LooksLikeFlag(kv)
    BY <1>3, <1>4, <1>5, <2>1 DEF TunableNames, LooksLikeFlag, Flags
  <2>3. QED BY <1>3, <1>8, <1>9, <2>1, <2>2 DEF num, Tuned, Numbered
<1>12. QED BY <1>10, <1>11

(* What distinguishes one setting from another.                            *)
LEMMA KnobIs ==
  ASSUME NEW t, NEW name, Tuned(t, name)
  PROVE  Knob(t) = <<"--", name>> /\ t # << >>
<1>1. name \in Token /\ "--" \in Token /\ "=" \in Token
  BY DEF Tuned, TunableNames, Booleans, Token, Words, Other
<1> DEFINE p == <<"--", name>>
<1>2. p \in Seq(Token) /\ Len(p) = 2 /\ p[1] = "--" /\ p[2] = name
  BY <1>1
<1>3. ASSUME NEW y \in Seq(Token), Len(y) >= 2, y[1] = p[1], y[2] = p[2] PROVE Upto(y, 2) = p /\ y # << >>
  <2> HIDE DEF p
  <2>1. /\ Upto(y, 2) \in Seq(Token) /\ Len(Upto(y, 2)) = IF 2 < Len(y) THEN 2 ELSE Len(y)
        /\ \A j \in 1..Len(Upto(y, 2)) : Upto(y, 2)[j] = y[j]
    <3>1. y \in Seq(Token) /\ 2 \in Nat
      BY <1>3
    <3>2. QED BY <3>1, UptoFacts
  <2>2. Len(Upto(y, 2)) = 2
    <3> DEFINE n == Len(y)
               u == Upto(y, 2)
               m == Len(u)
    <3>1. n \in Nat /\ n >= 2
      BY <1>3
    <3>2. m = IF 2 < n THEN 2 ELSE n
      BY <2>1
    <3> HIDE DEF n, m
    <3>3. m = 2
      BY <3>1, <3>2
    <3>4. QED BY <3>3 DEF m
  <2>3. \A j \in 1..2 : Upto(y, 2)[j] = p[j]
    BY <1>3, <2>1, <2>2
  <2>4. Upto(y, 2) = p
    BY <1>2, <2>1, <2>2, <2>3, SameText
  <2>5. QED BY <1>3, <2>4
<1>4. CASE Switched(t, name)
  <2>1. t = p
    BY <1>4 DEF Switched
  <2>2. t \in Seq(Token) /\ Len(t) >= 2 /\ t[1] = p[1] /\ t[2] = p[2]
    BY <1>2, <2>1
  <2>3. QED BY <1>3, <2>2 DEF Knob
<1>5. CASE Numbered(t, name)
  <2>1. PICK v \in Nat : v < 10 * Tens[5] /\ t = <<"--", name, "=">> \o Decimal(v)
    BY <1>5 DEF Numbered
  <2> DEFINE h == <<"--", name, "=">>
             d == Decimal(v)
  <2>2. h \in Seq(Token) /\ Len(h) = 3 /\ h[1] = p[1] /\ h[2] = p[2]
    BY <1>1, <1>2
  <2>3. d \in Seq(Token)
    BY <2>1, ShortNumber DEF Tokens
  <2> HIDE DEF h, d, p
  <2>4. h \o d \in Seq(Token) /\ Joins(h \o d, h, d)
    BY <2>2, <2>3, Joint
  <2>5. 1 \in 1..Len(h) /\ 2 \in 1..Len(h) /\ Len(h \o d) >= 2
    BY <2>2, <2>3, <2>4 DEF Joins
  <2>6. (h \o d)[1] = p[1] /\ (h \o d)[2] = p[2]
    BY <2>2, <2>4, <2>5 DEF Joins
  <2>7. t = h \o d
    BY <2>1 DEF h, d
  <2>8. QED BY <1>3, <2>4, <2>5, <2>6, <2>7 DEF Knob, p
<1>6. QED BY <1>4, <1>5 DEF Tuned

AtMost(S, k) == IsFiniteSet(S) /\ Cardinality(S) \in Nat /\ Cardinality(S) <= k
Plus(S, x)   == S \cup {x}

(* One element more makes a set larger by one at most.                     *)
LEMMA OneMore ==
  ASSUME NEW S, NEW x, NEW k \in Nat, AtMost(S, k), NEW m \in Nat, m = k + 1
  PROVE  AtMost(Plus(S, x), m)
BY FS_AddElement DEF AtMost, Plus

(* There are seven names of tunables.                                      *)
LEMMA NamesAreFew == AtMost(TunableNames, 7)
<1> DEFINE S0 == {}
           S1 == Plus(S0, "no-dtls")
           S2 == Plus(S1, "no-http-keepalive")
           S3 == Plus(S2, "disable-ipv6")
           S4 == Plus(S3, "mtu")
           S5 == Plus(S4, "base-mtu")
           S6 == Plus(S5, "reconnect-timeout")
           S7 == Plus(S6, "force-dpd")
<1>1. AtMost(S0, 0)
  BY FS_EmptySet DEF AtMost
<1> HIDE DEF S0
<1>2. AtMost(S1, 1)
  BY <1>1, OneMore
<1> HIDE DEF S1
<1>3. AtMost(S2, 2)
  BY <1>2, OneMore
<1> HIDE DEF S2
<1>4. AtMost(S3, 3)
  BY <1>3, OneMore
<1> HIDE DEF S3
<1>5. AtMost(S4, 4)
  BY <1>4, OneMore
<1> HIDE DEF S4
<1>6. AtMost(S5, 5)
  BY <1>5, OneMore
<1> HIDE DEF S5
<1>7. AtMost(S6, 6)
  BY <1>6, OneMore
<1> HIDE DEF S6
<1>8. AtMost(S7, 7)
  BY <1>7, OneMore
<1> HIDE DEF S7
<1>9. TunableNames = S7
  BY DEF TunableNames, Booleans, Plus, S0, S1, S2, S3, S4, S5, S6, S7
<1>10. QED BY <1>8, <1>9

(* Settings that are good and distinct are never too many.                 *)
LEMMA GoodAreFew ==
  ASSUME NEW T, NEW n, Settings(T, n), \A i \in 1..n : Rendered(T, n)[i] # << >>,
         \A i, j \in 1..n : Knob(Rendered(T, n)[i]) = Knob(Rendered(T, n)[j]) => i = j
  PROVE  Few(T, n)
<1> DEFINE f == [i \in 1..n |-> T[2 * i][1]]
<1>1. n \in Nat /\ T \in Seq(Tokens) /\ Len(T) = 2 * n
  BY DEF Settings
<1>2. ASSUME NEW i \in 1..n
      PROVE  /\ Tuned(Rendered(T, n)[i], f[i]) /\ ~ LooksLikeFlag(T[2 * i])
             /\ f[i] \in TunableNames /\ Knob(Rendered(T, n)[i]) = <<"--", f[i]>>
  <2>1. T[2 * i] \in Tokens
    BY <1>1
  <2>2. Rendered(T, n)[i] = RenderTunable(T[2 * i]) /\ RenderTunable(T[2 * i]) # << >>
    BY DEF Rendered
  <2>3. Tuned(Rendered(T, n)[i], f[i]) /\ ~ LooksLikeFlag(T[2 * i])
    BY <2>1, <2>2, TunableIs
  <2>4. QED BY <2>3, KnobIs DEF Tuned
<1> HIDE DEF f
<1>3. \A i, j \in 1..n : f[i] = f[j] => i = j
  BY <1>2
<1>4. f \in Injection(1..n, TunableNames)
  <2>1. f \in [1..n -> TunableNames]
    BY <1>2 DEF f
  <2>2. QED BY <1>3, <2>1 DEF Injection, IsInjective
<1>5. Cardinality(1..n) <= Cardinality(TunableNames)
  BY <1>4, NamesAreFew, FS_Injection DEF AtMost
<1>6. Cardinality(1..n) = n
  BY <1>1, FS_Interval
<1>7. n <= TunableMax
  BY <1>1, <1>5, <1>6, NamesAreFew DEF TunableMax, AtMost
<1>8. QED BY <1>2, <1>7 DEF Few

(* The shell's data are texts.                                             *)
LEMMA ProfileTokens ==
  ASSUME NEW p \in Profiles
  PROVE  p.id \in Tokens /\ p.protocol \in Tokens /\ p.proxy \in Tokens /\ p.extra \in Seq(Tokens)
<1>1. Text \subseteq Tokens
  <2>1. STRING \subseteq Token
    BY DEF Token
  <2>2. QED BY <2>1, WiderTexts DEF Text, Tokens
<1>2. p.id \in Text /\ p.protocol \in Text /\ p.proxy \in Text /\ p.extra \in Seq(Text)
  BY TextsAreTexts
<1>3. p.extra \in Seq(Tokens)
  BY <1>1, <1>2, WiderTexts
<1>4. QED BY <1>1, <1>2, <1>3

(* What the shell reads of an output are texts.                            *)
LEMMA AuthTokens ==
  ASSUME NEW lines \in Outputs, ParseAuthOutput(lines).ok
  PROVE  LET a == ParseAuthOutput(lines) IN a.url \in Tokens /\ a.fingerprint \in Tokens /\ a.resolve \in Tokens
<1> DEFINE text == Captured(lines)
           a == ParseAuthOutput(lines)
<1>1. lines \in Seq(LineSet)
  BY OutputsAreLines
<1>2. text \in Seq(LineSet)
  BY <1>1, CapturedFacts
<1>3. /\ \A i \in 1..Len(text) : \A j \in 1..(i - 1) : text[j].key # text[i].key
      /\ a.url = Read(text, "CONNECT_URL") /\ a.fingerprint = Read(text, "FINGERPRINT") /\ a.resolve = Read(text, "RESOLVE")
  BY <1>1, ShellIs
<1> HIDE DEF text, a
<1>4. \A i \in 1..Len(text) : text[i].key \in AuthKeys => OnlyOne(text, i)
  BY <1>2, <1>3, GivenOnce
<1>5. \A key \in AuthKeys : Read(text, key) \in Tokens
  BY <1>2, <1>4, ReadFacts
<1>6. QED BY <1>3, <1>5 DEF AuthKeys, a

(* What follows of an approval that was made of the same words.            *)
LEMMA ApprovedWords ==
  ASSUME NEW p, NEW a, p.id \in Tokens, p.protocol \in Tokens, p.proxy \in Tokens, a.url \in Tokens, a.fingerprint \in Tokens,
         Stored(ApproveArgs(p, a)).ok
  PROVE  LET appr == Stored(ApproveArgs(p, a)) IN
         /\ ParseApproval(Serialise(appr)) = appr
         /\ \A v \in {p.id, p.protocol, a.url, p.proxy} : ~ LooksLikeFlag(v)
         /\ CanonProfileId(p.id) # << >> /\ ValidProtocol(p.protocol) /\ ParseUrl(a.url).ok
         /\ p.proxy # << >> => CanonProxy(p.proxy) # << >>
         /\ appr.profile_id = CanonProfileId(p.id) /\ appr.protocol = p.protocol
         /\ appr.origin = ParseUrl(a.url).origin /\ appr.proxy = Proxying(p.proxy)
<1> DEFINE s == Scan(ApproveArgs(p, a), ApproveSchema)
           appr == Stored(ApproveArgs(p, a))
           id == p.id
           protocol == p.protocol
           url == a.url
           fpr == a.fingerprint
           proxy == p.proxy
<1>1. id \in Tokens /\ protocol \in Tokens /\ url \in Tokens /\ fpr \in Tokens /\ proxy \in Tokens
  OBVIOUS
<1>2. ApproveArgs(p, a) \in Seq(Tokens) /\ ApproveGot(s, id, protocol, url, fpr, proxy)
  BY <1>1, ApproveScan
<1>3. appr = ApprovalOf(s) /\ ApprovalOf(s).ok /\ ParseApproval(Serialise(appr)) = appr
  BY <1>2, StoredIs DEF ApprovalFromArgv
<1> HIDE DEF s, appr
<1>4. /\ Complete(s) /\ ApprovedId(s) # << >> /\ ValidProtocol(Value(s, "--protocol"))
      /\ ApprovedUrl(s).ok
      /\ Given(s, "--proxy") => ApprovedProxy(s) # << >>
      /\ appr.profile_id = ApprovedId(s) /\ appr.protocol = Value(s, "--protocol")
      /\ appr.origin = ApprovedUrl(s).origin /\ appr.proxy = ApprovedProxy(s)
  BY <1>3, ApprovalIs
<1>5. /\ \A v \in {id, protocol, url, fpr, proxy} : ~ LooksLikeFlag(v)
      /\ s.got["--profile-id"] = <<id>> /\ s.got["--protocol"] = <<protocol>>
      /\ s.got["--endpoint"] = <<url>> /\ s.got["--proxy"] = One(proxy)
  BY <1>2, <1>4 DEF ApproveGot
<1>6. \A v : <<v>>[1] = v
  OBVIOUS
<1>7. Value(s, "--profile-id") = id /\ Value(s, "--protocol") = protocol /\ Value(s, "--endpoint") = url
  BY <1>5, <1>6 DEF Value
<1>8. (Given(s, "--proxy") <=> proxy # << >>) /\ (proxy # << >> => Value(s, "--proxy") = proxy)
  BY <1>5, OneFacts DEF Value, Given
<1>9. appr.proxy = Proxying(proxy) /\ (proxy # << >> => CanonProxy(proxy) # << >>)
  BY <1>4, <1>8 DEF ApprovedProxy, Proxying
<1>10. CanonProfileId(id) # << >> /\ ValidProtocol(protocol) /\ ParseUrl(url).ok
       /\ appr.profile_id = CanonProfileId(id) /\ appr.protocol = protocol /\ appr.origin = ParseUrl(url).origin
  BY <1>4, <1>7 DEF ApprovedId, ApprovedUrl
<1>11. QED BY <1>3, <1>5, <1>9, <1>10 DEF appr

(* The name under which OpenConnect knows an item of its command line.     *)
ItemName(x) == LET eq == Find(x, {"="}) IN IF eq = 0 THEN x ELSE Upto(x, eq - 1)

KeyVal(f, v) == <<f, "=">> \o v

(* An option with a value: its name, its first two tokens and its value.   *)
LEMMA KeyValFacts ==
  ASSUME NEW f, f # "=", NEW v, IsText(v)
  PROVE  /\ IsText(KeyVal(f, v)) /\ Upto(KeyVal(f, v), 2) = <<f, "=">>
         /\ From(KeyVal(f, v), 3) = v /\ ItemName(KeyVal(f, v)) = <<f>>
<1>1. PICK R : v \in Seq(R)
  BY DEF IsText
<1> DEFINE S == R \cup {f, "="}
           h == <<f, "=">>
           one == <<f>>
           y == h \o v
<1>2. R \subseteq S /\ f \in S /\ "=" \in S
  OBVIOUS
<1> HIDE DEF S
<1>3. v \in Seq(S) /\ Len(v) \in Nat
  BY <1>1, <1>2, WiderTexts
<1>4. /\ h \in Seq(S) /\ Len(h) = 2 /\ h[1] = f /\ h[2] = "="
      /\ one \in Seq(S) /\ Len(one) = 1 /\ one[1] = f
  BY <1>2
<1> HIDE DEF h, one
<1>5. y \in Seq(S) /\ Joins(y, h, v)
  BY <1>3, <1>4, Joint
<1> HIDE DEF y
<1>6. /\ Len(y) = Len(v) + 2 /\ y[1] = f /\ y[2] = "="
      /\ \A i \in 1..Len(v) : y[i + 2] = v[i]
  <2>1. 1 \in 1..Len(h) /\ 2 \in 1..Len(h)
    BY <1>4
  <2>2. QED BY <1>3, <1>4, <1>5, <2>1 DEF Joins
<1>7. Upto(y, 2) = h
  <2>1. /\ Upto(y, 2) \in Seq(S) /\ Len(Upto(y, 2)) = (IF 2 < Len(y) THEN 2 ELSE Len(y))
        /\ \A j \in 1..Len(Upto(y, 2)) : Upto(y, 2)[j] = y[j]
    BY <1>5, UptoFacts
  <2>2. Len(Upto(y, 2)) = 2
    <3> DEFINE n == Len(y)
               m == Len(Upto(y, 2))
    <3>1. n \in Nat /\ n >= 2 /\ m = (IF 2 < n THEN 2 ELSE n)
      BY <1>3, <1>6, <2>1
    <3> HIDE DEF n, m
    <3>2. m = 2
      BY <3>1
    <3>3. QED BY <3>2 DEF m
  <2>3. \A j \in 1..2 : Upto(y, 2)[j] = h[j]
    BY <1>4, <1>6, <2>1, <2>2
  <2>4. QED BY <1>4, <2>1, <2>2, <2>3, SameText
<1>8. From(y, 3) = v
  <2>1. /\ From(y, 3) \in Seq(S) /\ Len(From(y, 3)) = (IF 3 <= Len(y) THEN Len(y) - 3 + 1 ELSE 0)
        /\ \A j \in 1..Len(From(y, 3)) : From(y, 3)[j] = y[3 + j - 1]
    BY <1>5, FromFacts
  <2>2. Len(From(y, 3)) = Len(v)
    BY <1>3, <1>6, <2>1
  <2>3. \A j \in 1..Len(v) : From(y, 3)[j] = v[j]
    BY <1>3, <1>6, <2>1, <2>2
  <2>4. QED BY <1>3, <2>1, <2>2, <2>3, SameText
<1>9. ItemName(y) = one
  <2>1. Find(y, {"="}) = 2
    <3>1. 2 \in 1..Len(y) /\ y[2] \in {"="} /\ \A i \in 1..(2 - 1) : y[i] \notin {"="}
      BY <1>3, <1>6
    <3>2. QED BY <1>5, <3>1, FindIs
  <2>2. ItemName(y) = Upto(y, 1)
    BY <2>1 DEF ItemName
  <2>3. /\ Upto(y, 1) \in Seq(S) /\ Len(Upto(y, 1)) = (IF 1 < Len(y) THEN 1 ELSE Len(y))
        /\ \A j \in 1..Len(Upto(y, 1)) : Upto(y, 1)[j] = y[j]
    BY <1>5, UptoFacts
  <2>4. Len(Upto(y, 1)) = 1
    BY <1>3, <1>6, <2>3
  <2>5. \A j \in 1..1 : Upto(y, 1)[j] = one[j]
    BY <1>4, <1>6, <2>3, <2>4
  <2>6. QED BY <1>4, <2>2, <2>3, <2>4, <2>5, SameText
<1>10. KeyVal(f, v) = y
  BY DEF KeyVal, y, h
<1>11. IsText(y)
  BY <1>5 DEF IsText
<1>12. QED BY <1>7, <1>8, <1>9, <1>10, <1>11 DEF h, one

(* An option without a value is its own name.                              *)
LEMMA PlainFacts ==
  ASSUME NEW f, f # "="
  PROVE  ItemName(<<f>>) = <<f>> /\ Upto(<<f>>, 2) = <<f>>
<1> DEFINE S == {f}
           y == <<f>>
<1>1. y \in Seq(S) /\ Len(y) = 1 /\ y[1] = f
  OBVIOUS
<1> HIDE DEF S, y
<1>2. Find(y, {"="}) = 0
  <2>1. \A i \in 1..Len(y) : y[i] \notin {"="}
    BY <1>1
  <2>2. QED BY <1>1, <2>1, FindNone
<1>3. ItemName(y) = y
  BY <1>2 DEF ItemName
<1>4. Upto(y, 2) = y
  <2>1. /\ Upto(y, 2) \in Seq(S) /\ Len(Upto(y, 2)) = (IF 2 < Len(y) THEN 2 ELSE Len(y))
        /\ \A j \in 1..Len(Upto(y, 2)) : Upto(y, 2)[j] = y[j]
    BY <1>1, UptoFacts
  <2>2. Len(Upto(y, 2)) = 1
    BY <1>1, <2>1
  <2>3. \A j \in 1..1 : Upto(y, 2)[j] = y[j]
    BY <2>1, <2>2
  <2>4. QED BY <1>1, <2>1, <2>2, <2>3, SameText
<1>5. QED BY <1>3, <1>4 DEF y

(* The name of a tunable in the command line.                              *)
LEMMA TunedFacts ==
  ASSUME NEW t, NEW name, Tuned(t, name)
  PROVE  ItemName(t) = <<"--", name>> /\ Upto(t, 2) = <<"--", name>>
<1>1. Upto(t, 2) = <<"--", name>>
  BY KnobIs DEF Knob
<1>2. name \in Token /\ "--" \in Token /\ "=" \in Token /\ name # "="
  BY DEF Tuned, TunableNames, Booleans, Token, Words, Other
<1>3. CASE Switched(t, name)
  <2>1. t = <<"--", name>>
    BY <1>3 DEF Switched
  <2>2. t \in Seq(Token) /\ Len(t) = 2 /\ t[1] = "--" /\ t[2] = name
    BY <1>2, <2>1
  <2>3. \A i \in 1..Len(t) : t[i] \notin {"="}
    BY <1>2, <2>2
  <2>4. Find(t, {"="}) = 0
    BY <2>2, <2>3, FindNone
  <2>5. QED BY <1>1, <2>1, <2>4 DEF ItemName
<1>4. CASE Numbered(t, name)
  <2>1. PICK v \in Nat : v < 10 * Tens[5] /\ t = <<"--", name, "=">> \o Decimal(v)
    BY <1>4 DEF Numbered
  <2> DEFINE h == <<"--", name, "=">>
             d == Decimal(v)
  <2>2. h \in Seq(Token) /\ Len(h) = 3 /\ h[1] = "--" /\ h[2] = name /\ h[3] = "="
    BY <1>2
  <2>3. d \in Seq(Token) /\ Len(d) \in Nat
    BY <2>1, ShortNumber DEF Tokens
  <2>4. t = h \o d
    BY <2>1
  <2> HIDE DEF h, d
  <2>5. t \in Seq(Token) /\ Joins(t, h, d)
    BY <2>2, <2>3, <2>4, Joint
  <2>6. Len(t) >= 3 /\ t[1] = "--" /\ t[2] = name /\ t[3] = "="
    <3>1. 1 \in 1..Len(h) /\ 2 \in 1..Len(h) /\ 3 \in 1..Len(h)
      BY <2>2
    <3>2. QED BY <2>2, <2>3, <2>5, <3>1 DEF Joins
  <2>7. 3 \in 1..Len(t) /\ t[3] \in {"="} /\ \A i \in 1..(3 - 1) : t[i] \notin {"="}
    BY <1>2, <2>5, <2>6
  <2>8. Find(t, {"="}) = 3
    BY <2>5, <2>7, FindIs
  <2>9. ItemName(t) = Upto(t, 2)
    BY <2>8 DEF ItemName
  <2>10. QED BY <1>1, <2>9
<1>5. QED BY <1>3, <1>4 DEF Tuned

(* The items I in a list, under distinct names that are all in K.          *)
Listed(l, I, K) ==
  /\ l \in Seq(I)
  /\ \A x \in I : \E i \in 1..Len(l) : l[i] = x
  /\ \A i \in 1..Len(l) : ItemName(l[i]) \in K
  /\ \A i, j \in 1..Len(l) : ItemName(l[i]) = ItemName(l[j]) => i = j

(* Two lists of items with different names make one.                       *)
LEMMA ListedJoin ==
  ASSUME NEW l, NEW I, NEW K, Listed(l, I, K), NEW m, NEW J, NEW M, Listed(m, J, M), K \cap M = {}
  PROVE  Listed(l \o m, I \cup J, K \cup M)
<1> DEFINE U == I \cup J
           z == l \o m
           a == Len(l)
           b == Len(m)
<1>1. l \in Seq(U) /\ m \in Seq(U) /\ a \in Nat /\ b \in Nat
  BY WiderTexts DEF Listed
<1>2. z \in Seq(U) /\ Joins(z, l, m)
  BY <1>1, Joint
<1>3. Len(z) = a + b /\ (\A i \in 1..a : z[i] = l[i]) /\ (\A i \in 1..b : z[a + i] = m[i])
  BY <1>2 DEF Joins
<1>4. /\ \A x \in I : \E i \in 1..a : l[i] = x
      /\ \A i \in 1..a : ItemName(l[i]) \in K
      /\ \A i, j \in 1..a : ItemName(l[i]) = ItemName(l[j]) => i = j
      /\ \A x \in J : \E i \in 1..b : m[i] = x
      /\ \A i \in 1..b : ItemName(m[i]) \in M
      /\ \A i, j \in 1..b : ItemName(m[i]) = ItemName(m[j]) => i = j
  BY DEF Listed
<1> HIDE DEF z, U, a, b
<1>5. ASSUME NEW i \in 1..Len(z)
      PROVE  (i \in 1..a /\ z[i] = l[i]) \/ (i - a \in 1..b /\ z[i] = m[i - a])
  <2>1. CASE i <= a
    BY <1>1, <1>3, <2>1
  <2>2. CASE i > a
    <3>1. i - a \in 1..b
      BY <1>1, <1>3, <2>2
    <3>2. z[a + (i - a)] = m[i - a]
      BY <1>3, <3>1
    <3>3. a + (i - a) = i
      BY <1>1
    <3>4. QED BY <3>1, <3>2, <3>3
  <2>3. QED BY <1>1, <2>1, <2>2
<1>6. ASSUME NEW x \in U PROVE \E i \in 1..Len(z) : z[i] = x
  <2>1. CASE x \in I
    <3>1. PICK i \in 1..a : l[i] = x
      BY <1>4, <2>1
    <3>2. i \in 1..Len(z) /\ z[i] = x
      BY <1>1, <1>3, <3>1
    <3>3. QED BY <3>2
  <2>2. CASE x \in J
    <3>1. PICK i \in 1..b : m[i] = x
      BY <1>4, <2>2
    <3>2. a + i \in 1..Len(z) /\ z[a + i] = x
      BY <1>1, <1>3, <3>1
    <3>3. QED BY <3>2
  <2>3. QED BY <2>1, <2>2 DEF U
<1>7. \A i \in 1..Len(z) : ItemName(z[i]) \in K \cup M
  BY <1>4, <1>5
<1>8. ASSUME NEW i \in 1..Len(z), NEW j \in 1..Len(z), ItemName(z[i]) = ItemName(z[j]) PROVE i = j
  <2>1. CASE i \in 1..a /\ z[i] = l[i] /\ j \in 1..a /\ z[j] = l[j]
    BY <1>4, <1>8, <2>1
  <2>2. CASE i - a \in 1..b /\ z[i] = m[i - a] /\ j - a \in 1..b /\ z[j] = m[j - a]
    <3>1. i - a = j - a
      BY <1>4, <1>8, <2>2
    <3>2. QED BY <1>1, <3>1
  <2>3. CASE i \in 1..a /\ z[i] = l[i] /\ j - a \in 1..b /\ z[j] = m[j - a]
    BY <1>4, <1>8, <2>3
  <2>4. CASE i - a \in 1..b /\ z[i] = m[i - a] /\ j \in 1..a /\ z[j] = l[j]
    BY <1>4, <1>8, <2>4
  <2>5. QED BY <1>5, <2>1, <2>2, <2>3, <2>4
<1>9. QED BY <1>2, <1>6, <1>7, <1>8 DEF Listed, z, U

(* The names of options without a value, or before their value.            *)
Tags(F) == {<<f>> : f \in F}

(* One item is a list.                                                     *)
LEMMA ListedOne ==
  ASSUME NEW x, NEW g, ItemName(x) = <<g>>
  PROVE  Listed(<<x>>, {x}, Tags({g}))
<1> DEFINE l == <<x>>
           I == {x}
<1>1. l \in Seq(I) /\ Len(l) = 1 /\ l[1] = x
  OBVIOUS
<1>2. <<g>> \in Tags({g})
  BY DEF Tags
<1> HIDE DEF l
<1>3. Listed(l, I, Tags({g}))
  BY <1>1, <1>2 DEF Listed
<1>4. QED BY <1>3 DEF l

(* No item is a list.                                                      *)
LEMMA ListedNone ==
  Listed(<< >>, {}, {})
<1> DEFINE l == << >>
<1>1. l \in Seq({}) /\ Len(l) = 0
  OBVIOUS
<1>2. 1..0 = {}
  OBVIOUS
<1> HIDE DEF l
<1>3. Listed(l, {}, {})
  BY <1>1, <1>2 DEF Listed
<1>4. QED BY <1>3 DEF l

(* An item with a new name makes the list longer.                          *)
LEMMA ListedAdd ==
  ASSUME NEW l, NEW I, NEW F, Listed(l, I, Tags(F)), NEW x, NEW g, ItemName(x) = <<g>>, g \notin F
  PROVE  Listed(l \o <<x>>, I \cup {x}, Tags(F \cup {g}))
<1>1. Tags(F) \cap Tags({g}) = {}
  BY DEF Tags
<1>2. Tags(F) \cup Tags({g}) = Tags(F \cup {g})
  BY DEF Tags
<1>3. Listed(<<x>>, {x}, Tags({g}))
  BY ListedOne
<1>4. Listed(l \o <<x>>, I \cup {x}, Tags(F) \cup Tags({g}))
  BY <1>1, <1>3, ListedJoin
<1>5. QED BY <1>2, <1>4

Whenever(b, x) == IF b THEN <<x>> ELSE << >>
IfAny(b, x)    == IF b THEN {x} ELSE {}

(* So does an item that may be missing.                                    *)
LEMMA ListedWhen ==
  ASSUME NEW l, NEW I, NEW F, Listed(l, I, Tags(F)), NEW b, NEW x, NEW g, b => ItemName(x) = <<g>>, g \notin F
  PROVE  Listed(l \o Whenever(b, x), I \cup IfAny(b, x), Tags(F \cup {g}))
<1>1. CASE b
  <2>1. Listed(l \o <<x>>, I \cup {x}, Tags(F \cup {g}))
    BY <1>1, ListedAdd
  <2>2. QED BY <1>1, <2>1 DEF Whenever, IfAny
<1>2. CASE ~ b
  <2>1. Listed(<< >>, {}, {})
    BY ListedNone
  <2>2. Tags(F) \cap {} = {}
    OBVIOUS
  <2>3. Listed(l \o << >>, I \cup {}, Tags(F) \cup {})
    BY <2>1, <2>2, ListedJoin
  <2>4. Whenever(b, x) = << >> /\ IfAny(b, x) = {}
    BY <1>2 DEF Whenever, IfAny
  <2>5. Listed(l \o Whenever(b, x), I \cup IfAny(b, x), Tags(F) \cup {})
    BY <2>3, <2>4
  <2>6. Tags(F) \cup {} \subseteq Tags(F \cup {g})
    BY DEF Tags
  <2> DEFINE K == Tags(F) \cup {}
             M == Tags(F \cup {g})
             y == l \o Whenever(b, x)
             J == I \cup IfAny(b, x)
  <2> HIDE DEF K, M, y, J
  <2>7. Listed(y, J, K) /\ K \subseteq M
    BY <2>5, <2>6 DEF K, M, y, J
  <2>8. Listed(y, J, M)
    BY <2>7 DEF Listed
  <2>9. QED BY <2>8 DEF M, y, J
<1>3. QED BY <1>1, <1>2

(* Tunables with distinct names, after the options.                        *)
Knobs == {<<"--", name>> : name \in TunableNames}

TunedList(R, n) ==
  /\ n \in Nat /\ R = [i \in 1..n |-> R[i]]
  /\ \A i \in 1..n : \E name : Tuned(R[i], name)
  /\ \A i, j \in 1..n : Knob(R[i]) = Knob(R[j]) => i = j

(* Tunables with different names are a list of items.                      *)
LEMMA ListedTunables ==
  ASSUME NEW R, NEW n, TunedList(R, n)
  PROVE  Listed(R, {R[i] : i \in 1..n}, Knobs)
<1>0. /\ n \in Nat /\ R = [i \in 1..n |-> R[i]]
      /\ \A i \in 1..n : \E name : Tuned(R[i], name)
      /\ \A i, j \in 1..n : Knob(R[i]) = Knob(R[j]) => i = j
  BY DEF TunedList
<1> DEFINE I == {R[i] : i \in 1..n}
<1>1. R \in Seq(I) /\ Len(R) = n
  <2>1. \A i \in 1..n : R[i] \in I
    OBVIOUS
  <2> HIDE DEF I
  <2>2. R \in [1..n -> I]
    BY <1>0, <2>1
  <2>3. QED BY <1>0, <2>2
<1>2. ASSUME NEW i \in 1..n PROVE ItemName(R[i]) \in Knobs /\ ItemName(R[i]) = Knob(R[i])
  <2>1. PICK name : Tuned(R[i], name)
    BY <1>0
  <2>2. ItemName(R[i]) = <<"--", name>> /\ Knob(R[i]) = <<"--", name>>
    BY <2>1, TunedFacts DEF Knob
  <2>3. QED BY <2>1, <2>2 DEF Knobs, Tuned
<1>3. \A x \in I : \E i \in 1..n : R[i] = x
  OBVIOUS
<1> HIDE DEF I
<1>4. QED BY <1>0, <1>1, <1>2, <1>3 DEF Listed, I

(* No option has the name of a tunable.                                    *)
LEMMA TagsAreNoKnobs ==
  ASSUME NEW F
  PROVE  Tags(F) \cap Knobs = {}
<1>1. ASSUME NEW f, NEW name PROVE <<f>> # <<"--", name>>
  <2>1. Len(<<f>>) = 1 /\ Len(<<"--", name>>) = 2
    OBVIOUS
  <2>2. QED BY <2>1
<1>2. QED BY <1>1 DEF Tags, Knobs

ProxyItem(proxy) == IF proxy = << >> THEN <<"--no-proxy">> ELSE KeyVal("--proxy", proxy)

(* The command line but for the URL, and its items.                        *)
Options(protocol, fpr, proxy, b, pair, ua, quiet, R) ==
  << <<"openconnect">>, <<"--cookie-on-stdin">>, <<"--non-inter">> >>
  \o <<KeyVal("--protocol", protocol)>> \o <<KeyVal("--servercert", fpr)>> \o <<KeyVal("--script", <<"wrapper">>)>>
  \o <<ProxyItem(proxy)>> \o Whenever(b, KeyVal("--resolve", pair)) \o Whenever(ua # << >>, KeyVal("--useragent", ua))
  \o Whenever(quiet, <<"-q">>) \o R

Constants == {<<"openconnect">>, <<"--cookie-on-stdin">>, <<"--non-inter">>}

Items(protocol, fpr, proxy, b, pair, ua, quiet, R, n) ==
  ((((((((Constants \cup {KeyVal("--protocol", protocol)}) \cup {KeyVal("--servercert", fpr)})
   \cup {KeyVal("--script", <<"wrapper">>)}) \cup {ProxyItem(proxy)}) \cup IfAny(b, KeyVal("--resolve", pair)))
   \cup IfAny(ua # << >>, KeyVal("--useragent", ua))) \cup IfAny(quiet, <<"-q">>)) \cup {R[i] : i \in 1..n})

(* The command line is its options and then the URL.                       *)
LEMMA BuiltIs ==
  ASSUME NEW req, NEW appr, NEW url, PolicyAllows(req, appr), Size(url) < UrlMax
  PROVE  BuildArgv(req, appr, url) =
           Options(req.protocol, appr.fingerprint, appr.proxy, req.resolve # NoResolve,
                   req.resolve.host \o <<":">> \o req.resolve.ip, req.useragent, req.quiet, req.tunables) \o <<url>>
<1> DEFINE KV(flag, val) == << <<flag, "=">> \o val >>
           When(b, items) == IF b THEN items ELSE << >>
           pair == req.resolve.host \o <<":">> \o req.resolve.ip
           c0 == << <<"openconnect">>, <<"--cookie-on-stdin">>, <<"--non-inter">> >>
           p1 == IF appr.proxy = << >> THEN << <<"--no-proxy">> >> ELSE KV("--proxy", appr.proxy)
           p2 == When(req.resolve # NoResolve, KV("--resolve", pair))
           p3 == When(req.useragent # << >>, KV("--useragent", req.useragent))
           p4 == When(req.quiet, << <<"-q">> >>)
<1>1. BuildArgv(req, appr, url) =
        c0 \o KV("--protocol", req.protocol) \o KV("--servercert", appr.fingerprint) \o KV("--script", <<"wrapper">>)
        \o p1 \o p2 \o p3 \o p4 \o req.tunables \o <<url>>
  BY DEF BuildArgv
<1>2. p1 = <<ProxyItem(appr.proxy)>>
  BY DEF ProxyItem, KeyVal
<1>3. p2 = Whenever(req.resolve # NoResolve, KeyVal("--resolve", pair))
  BY DEF Whenever, KeyVal
<1>4. p3 = Whenever(req.useragent # << >>, KeyVal("--useragent", req.useragent))
  BY DEF Whenever, KeyVal
<1>5. p4 = Whenever(req.quiet, <<"-q">>)
  BY DEF Whenever
<1>6. \A f, v : KV(f, v) = <<KeyVal(f, v)>>
  BY DEF KeyVal
<1> HIDE DEF p1, p2, p3, p4, c0, KV, pair
<1>7. Options(req.protocol, appr.fingerprint, appr.proxy, req.resolve # NoResolve, pair, req.useragent, req.quiet, req.tunables)
      = c0 \o <<KeyVal("--protocol", req.protocol)>> \o <<KeyVal("--servercert", appr.fingerprint)>> \o <<KeyVal("--script", <<"wrapper">>)>>
        \o <<ProxyItem(appr.proxy)>> \o Whenever(req.resolve # NoResolve, KeyVal("--resolve", pair))
        \o Whenever(req.useragent # << >>, KeyVal("--useragent", req.useragent))
        \o Whenever(req.quiet, <<"-q">>) \o req.tunables
  BY DEF Options, c0
<1>8. KV("--protocol", req.protocol) = <<KeyVal("--protocol", req.protocol)>> /\ KV("--servercert", appr.fingerprint) = <<KeyVal("--servercert", appr.fingerprint)>>
      /\ KV("--script", <<"wrapper">>) = <<KeyVal("--script", <<"wrapper">>)>>
  BY <1>6
<1>9. QED BY <1>1, <1>2, <1>3, <1>4, <1>5, <1>7, <1>8 DEF pair

OptionNames == {"openconnect", "--cookie-on-stdin", "--non-inter", "--protocol", "--servercert", "--script",
                "--no-proxy", "--proxy", "--resolve", "--useragent", "-q"}

(* The three options every command line has.                               *)
LEMMA ConstantsListed ==
  Listed(<< <<"openconnect">>, <<"--cookie-on-stdin">>, <<"--non-inter">> >>, Constants,
         Tags({"openconnect", "--cookie-on-stdin", "--non-inter"}))
<1> DEFINE a == <<"openconnect">>
           b == <<"--cookie-on-stdin">>
           c == <<"--non-inter">>
           l == <<a, b, c>>
           S == {a, b, c}
           K == Tags({"openconnect", "--cookie-on-stdin", "--non-inter"})
<1>1. ItemName(a) = a /\ ItemName(b) = b /\ ItemName(c) = c
  BY PlainFacts
<1>2. a # b /\ a # c /\ b # c /\ a \in K /\ b \in K /\ c \in K
  BY DEF Tags
<1>3. Constants = S
  BY DEF Constants
<1> HIDE DEF a, b, c, K
<1>4. l \in Seq(S) /\ Len(l) = 3 /\ l[1] = a /\ l[2] = b /\ l[3] = c
  OBVIOUS
<1> HIDE DEF l
<1>5. 1 \in 1..Len(l) /\ 2 \in 1..Len(l) /\ 3 \in 1..Len(l) /\ \A i \in 1..Len(l) : i = 1 \/ i = 2 \/ i = 3
  BY <1>4
<1>6. \A x \in S : \E i \in 1..Len(l) : l[i] = x
  BY <1>4, <1>5
<1>7. Listed(l, S, K)
  BY <1>1, <1>2, <1>4, <1>5, <1>6 DEF Listed
<1>8. QED BY <1>3, <1>7 DEF a, b, c, l, K

(* The options have different names.                                       *)
LEMMA OptionsListed ==
  ASSUME NEW protocol, NEW fpr, NEW proxy, NEW b, NEW pair, NEW ua, NEW quiet, NEW R, NEW n \in Nat,
         IsText(protocol), IsText(fpr), IsText(proxy), b => IsText(pair), IsText(ua), Listed(R, {R[i] : i \in 1..n}, Knobs)
  PROVE  Listed(Options(protocol, fpr, proxy, b, pair, ua, quiet, R), Items(protocol, fpr, proxy, b, pair, ua, quiet, R, n),
                Tags(OptionNames) \cup Knobs)
<1> DEFINE l0 == << <<"openconnect">>, <<"--cookie-on-stdin">>, <<"--non-inter">> >>
           x1 == KeyVal("--protocol", protocol)
           x2 == KeyVal("--servercert", fpr)
           x3 == KeyVal("--script", <<"wrapper">>)
           x4 == ProxyItem(proxy)
           x5 == KeyVal("--resolve", pair)
           x6 == KeyVal("--useragent", ua)
           x7 == <<"-q">>
           l1 == l0 \o <<x1>>
           l2 == l1 \o <<x2>>
           l3 == l2 \o <<x3>>
           l4 == l3 \o <<x4>>
           l5 == l4 \o Whenever(b, x5)
           l6 == l5 \o Whenever(ua # << >>, x6)
           l7 == l6 \o Whenever(quiet, x7)
           i1 == Constants \cup {x1}
           i2 == i1 \cup {x2}
           i3 == i2 \cup {x3}
           i4 == i3 \cup {x4}
           i5 == i4 \cup IfAny(b, x5)
           i6 == i5 \cup IfAny(ua # << >>, x6)
           i7 == i6 \cup IfAny(quiet, x7)
           g  == IF proxy = << >> THEN "--no-proxy" ELSE "--proxy"
           f0 == {"openconnect", "--cookie-on-stdin", "--non-inter"}
           f1 == f0 \cup {"--protocol"}
           f2 == f1 \cup {"--servercert"}
           f3 == f2 \cup {"--script"}
           f4 == f3 \cup {g}
           f5 == f4 \cup {"--resolve"}
           f6 == f5 \cup {"--useragent"}
           f7 == f6 \cup {"-q"}
<1>1. /\ "--protocol" \notin f0 /\ "--servercert" \notin f1 /\ "--script" \notin f2 /\ g \notin f3
      /\ "--resolve" \notin f4 /\ "--useragent" \notin f5 /\ "-q" \notin f6 /\ f7 \subseteq OptionNames
  BY DEF OptionNames
<1>2. /\ ItemName(x1) = <<"--protocol">> /\ ItemName(x2) = <<"--servercert">> /\ ItemName(x6) = <<"--useragent">>
      /\ b => ItemName(x5) = <<"--resolve">>
  BY KeyValFacts
<1>3. ItemName(x3) = <<"--script">>
  <2> DEFINE w == <<"wrapper">>
  <2>1. w \in Seq({"wrapper"})
    OBVIOUS
  <2> HIDE DEF w
  <2>2. IsText(w)
    BY <2>1 DEF IsText
  <2>3. ItemName(KeyVal("--script", w)) = <<"--script">>
    BY <2>2, KeyValFacts
  <2>4. QED BY <2>3 DEF w
<1>4. ItemName(x4) = <<g>>
  <2>1. CASE proxy = << >>
    <3>1. x4 = <<"--no-proxy">> /\ g = "--no-proxy"
      BY <2>1 DEF ProxyItem
    <3>2. QED BY <3>1, PlainFacts
  <2>2. CASE proxy # << >>
    <3>1. x4 = KeyVal("--proxy", proxy) /\ g = "--proxy"
      BY <2>2 DEF ProxyItem
    <3>2. QED BY <3>1, KeyValFacts
  <2>3. QED BY <2>1, <2>2
<1>5. ItemName(x7) = <<"-q">>
  BY PlainFacts
<1> HIDE DEF x1, x2, x3, x4, x5, x6, x7, g, f0
<1>6. Listed(l0, Constants, Tags(f0))
  BY ConstantsListed DEF f0
<1> HIDE DEF l0
<1>7. Listed(l1, i1, Tags(f1))
  BY <1>1, <1>2, <1>6, ListedAdd
<1> HIDE DEF l1, i1, f1
<1>8. Listed(l2, i2, Tags(f2))
  BY <1>1, <1>2, <1>7, ListedAdd
<1> HIDE DEF l2, i2, f2
<1>9. Listed(l3, i3, Tags(f3))
  BY <1>1, <1>3, <1>8, ListedAdd
<1> HIDE DEF l3, i3, f3
<1>10. Listed(l4, i4, Tags(f4))
  BY <1>1, <1>4, <1>9, ListedAdd
<1> HIDE DEF l4, i4, f4
<1>11. Listed(l5, i5, Tags(f5))
  BY <1>1, <1>2, <1>10, ListedWhen
<1> HIDE DEF l5, i5, f5
<1>12. Listed(l6, i6, Tags(f6))
  <2> DEFINE c == (ua # << >>)
  <2>1. c => ItemName(x6) = <<"--useragent">>
    BY <1>2
  <2> HIDE DEF c
  <2>2. Listed(l5 \o Whenever(c, x6), i5 \cup IfAny(c, x6), Tags(f5 \cup {"--useragent"}))
    BY <1>1, <1>11, <2>1, ListedWhen
  <2>3. QED BY <2>2 DEF c, l6, i6, f6
<1> HIDE DEF l6, i6, f6
<1>13. Listed(l7, i7, Tags(f7))
  BY <1>1, <1>5, <1>12, ListedWhen
<1> HIDE DEF l7, i7, f7
<1>14. Listed(l7 \o R, i7 \cup {R[i] : i \in 1..n}, Tags(f7) \cup Knobs)
  BY <1>13, TagsAreNoKnobs, ListedJoin
<1>15. Tags(f7) \cup Knobs \subseteq Tags(OptionNames) \cup Knobs
  BY <1>1 DEF Tags
<1> DEFINE y == l7 \o R
           J == i7 \cup {R[i] : i \in 1..n}
           K == Tags(f7) \cup Knobs
           M == Tags(OptionNames) \cup Knobs
<1>16. y = Options(protocol, fpr, proxy, b, pair, ua, quiet, R)
  BY DEF Options, l7, l6, l5, l4, l3, l2, l1, l0, x1, x2, x3, x4, x5, x6, x7
<1>17. J = Items(protocol, fpr, proxy, b, pair, ua, quiet, R, n)
  BY DEF Items, i7, i6, i5, i4, i3, i2, i1, x1, x2, x3, x4, x5, x6, x7
<1> HIDE DEF y, J, K, M
<1>18. Listed(y, J, K) /\ K \subseteq M
  BY <1>14, <1>15 DEF y, J, K, M
<1>19. Listed(y, J, M)
  BY <1>18 DEF Listed
<1>20. QED BY <1>16, <1>17, <1>19 DEF M

(* A command line is its options and its URL.                              *)
LEMMA CommandParts ==
  ASSUME NEW f, NEW I, NEW K, Listed(f, I, K), NEW url
  PROVE  /\ f \o <<url>> # << >> /\ Front(f \o <<url>>) = f /\ Last(f \o <<url>>) = url
         /\ ToSet(f \o <<url>>) = I \cup {url} /\ DOMAIN f = 1..Len(f)
<1> DEFINE U == I \cup {url}
           one == <<url>>
           z == f \o one
           a == Len(f)
<1>1. f \in Seq(U) /\ a \in Nat
  BY WiderTexts DEF Listed
<1>2. one \in Seq(U) /\ Len(one) = 1 /\ one[1] = url
  OBVIOUS
<1>3. DOMAIN f = 1..a
  BY <1>1
<1>4. \A x \in I : \E i \in 1..a : f[i] = x
  BY DEF Listed
<1>4a. \A i \in 1..a : f[i] \in I
  BY DEF Listed
<1> HIDE DEF one, a
<1>5. z \in Seq(U) /\ Joins(z, f, one)
  BY <1>1, <1>2, Joint
<1> HIDE DEF z
<1>6. Len(z) = a + 1 /\ (\A i \in 1..a : z[i] = f[i]) /\ z[a + 1] = url
  <2>1. 1 \in 1..Len(one)
    BY <1>2
  <2>2. QED BY <1>2, <1>5, <2>1 DEF Joins, a
<1>7. Last(z) = url /\ z # << >>
  BY <1>1, <1>5, <1>6 DEF Last
<1>8. Front(z) = f
  <2>1. Front(z) = SubSeq(z, 1, a)
    BY <1>1, <1>6 DEF Front
  <2>2. SubSeq(z, 1, a) \in Seq(U) /\ Len(SubSeq(z, 1, a)) = a /\ \A i \in 1..a : SubSeq(z, 1, a)[i] = z[i]
    BY <1>1, <1>5, <1>6
  <2>3. QED BY <1>1, <1>6, <2>1, <2>2, SameText DEF a
<1>9. ToSet(z) = U
  <2>1. \A x : x \in ToSet(z) <=> \E i \in 1..Len(z) : z[i] = x
    BY <1>5, ToSetFacts
  <2>2. ASSUME NEW x \in ToSet(z) PROVE x \in U
    BY <1>5, ToSetFacts
  <2>3. ASSUME NEW x \in U PROVE \E i \in 1..Len(z) : z[i] = x
    <3>1. CASE x \in I
      <4>1. PICK i \in 1..a : f[i] = x
        BY <1>4, <3>1
      <4>2. i \in 1..Len(z) /\ z[i] = x
        BY <1>1, <1>6, <4>1
      <4>3. QED BY <4>2
    <3>2. CASE x = url
      <4>1. a + 1 \in 1..Len(z)
        BY <1>1, <1>6
      <4>2. QED BY <1>6, <3>2, <4>1
    <3>3. QED BY <3>1, <3>2
  <2>4. QED BY <2>1, <2>2, <2>3
<1>10. QED BY <1>3, <1>7, <1>8, <1>9 DEF z, one, a

(* What the profile asks for beyond the approval is fit.                   *)
LEMMA FitExtra ==
  ASSUME NEW extra, NEW n, Settings(extra.tunables, n), ExtraIsFit(extra)
  PROVE  LET T == extra.tunables  ua == extra.useragent IN
         /\ \A i \in 1..n : Rendered(T, n)[i] # << >>
         /\ \A i, j \in 1..n : Knob(Rendered(T, n)[i]) = Knob(Rendered(T, n)[j]) => i = j
         /\ ua # << >> => ValidUseragent(ua) /\ ~ LooksLikeFlag(ua)
<1> DEFINE T    == extra.tunables
           ua   == extra.useragent
           kvs  == [i \in 1..(Len(T) \div 2) |-> T[2 * i]]
           F(i) == Upto(RenderTunable(kvs[i]), 2)
<1>1. /\ \A i, j \in DOMAIN kvs : F(i) # << >> /\ (F(i) = F(j) => i = j)
      /\ ua # << >> => ValidUseragent(ua) /\ ~ LooksLikeFlag(ua)
  BY DEF ExtraIsFit, Refused
<1>2. Len(T) \div 2 = n
  BY DEF Settings
<1>3. DOMAIN kvs = 1..n /\ \A i \in 1..n : kvs[i] = T[2 * i]
  BY <1>2
<1> HIDE DEF kvs, T
<1>4. \A i \in 1..n : F(i) = Knob(Rendered(T, n)[i])
  BY <1>3 DEF Rendered, Knob
<1> HIDE DEF F
<1>5. Knob(<< >>) = << >>
  <2> DEFINE e == << >>
  <2>1. e \in Seq({}) /\ Len(e) = 0
    OBVIOUS
  <2> HIDE DEF e
  <2>2. Upto(e, 2) \in Seq({}) /\ Len(Upto(e, 2)) = (IF 2 < Len(e) THEN 2 ELSE Len(e))
    BY <2>1, UptoFacts
  <2>3. Len(Upto(e, 2)) = 0
    BY <2>1, <2>2
  <2>4. Upto(e, 2) = << >>
    BY <2>2, <2>3, EmptyText
  <2>5. QED BY <2>4 DEF e, Knob
<1>6. QED BY <1>1, <1>3, <1>4, <1>5 DEF T

(* The origin and the host of an accepted URL.                             *)
LEMMA Shape ==
  ASSUME NEW url, UrlShaped(url)
  PROVE  \E end : Led(end) /\ OriginHost(url.origin) = end.host /\ url.origin = <<"https://">> \o At(end) /\ url.host = end.host
BY OriginHostIs DEF UrlShaped

(* What the session resolves is what is looked for, or nothing.            *)
LEMMA FitResolve ==
  ASSUME NEW resolve \in Tokens, NEW url, UrlShaped(url),
         resolve # << >> => CanonResolve(resolve).host = OriginHost(url.origin)
  PROVE  /\ resolve # << >> => CanonResolve(resolve) # NoResolve
         /\ ~ LooksLikeFlag(resolve)
         /\ Resolving(resolve) # NoResolve => Resolving(resolve).host = OriginHost(url.origin)
<1>1. OriginHost(url.origin) # << >>
  BY Shape DEF Led, Canonical
<1>2. resolve # << >> => CanonResolve(resolve) # NoResolve
  BY <1>1 DEF NoResolve
<1>3. ~ LooksLikeFlag(resolve)
  BY <1>2, ResolveFacts DEF LooksLikeFlag
<1>4. QED BY <1>2, <1>3 DEF Resolving

(* Rendered tunables that are distinct are a list of items.                *)
LEMMA RenderedIsList ==
  ASSUME NEW T, NEW n, Settings(T, n), \A i \in 1..n : Rendered(T, n)[i] # << >>,
         \A i, j \in 1..n : Knob(Rendered(T, n)[i]) = Knob(Rendered(T, n)[j]) => i = j
  PROVE  Listed(Rendered(T, n), {Rendered(T, n)[i] : i \in 1..n}, Knobs)
<1> DEFINE R == Rendered(T, n)
<1>1. n \in Nat /\ T \in Seq(Tokens) /\ Len(T) = 2 * n
  BY DEF Settings
<1>2. R = [i \in 1..n |-> R[i]]
  BY DEF Rendered
<1>3. ASSUME NEW i \in 1..n PROVE \E name : Tuned(R[i], name)
  <2>1. T[2 * i] \in Tokens
    BY <1>1
  <2>2. R[i] = RenderTunable(T[2 * i]) /\ R[i] # << >>
    BY DEF Rendered
  <2>3. QED BY <2>1, <2>2, TunableIs
<1> HIDE DEF R
<1>4. \A i, j \in 1..n : Knob(R[i]) = Knob(R[j]) => i = j
  BY DEF R
<1>5. Listed(R, {R[i] : i \in 1..n}, Knobs)
  <2>1. TunedList(R, n)
    BY <1>1, <1>2, <1>3, <1>4 DEF TunedList
  <2>2. QED BY <2>1, ListedTunables
<1>6. QED BY <1>5 DEF R

(* A request that is allowed and fits is a command line.                   *)
LEMMA AllowedIsBuilt ==
  ASSUME NEW req, NEW appr, NEW url, NEW n, n \in Nat, PolicyAllows(req, appr), Size(url) < UrlMax,
         IsText(req.protocol), IsText(appr.fingerprint), IsText(appr.proxy), IsText(req.useragent),
         req.resolve # NoResolve => IsText(req.resolve.host \o <<":">> \o req.resolve.ip),
         Listed(req.tunables, {req.tunables[i] : i \in 1..n}, Knobs)
  PROVE  LET C == BuildArgv(req, appr, url)
             I == Items(req.protocol, appr.fingerprint, appr.proxy, req.resolve # NoResolve,
                        req.resolve.host \o <<":">> \o req.resolve.ip, req.useragent, req.quiet, req.tunables, n)
         IN /\ C # << >> /\ Last(C) = url /\ ToSet(C) = I \cup {url}
            /\ \A i, j \in DOMAIN Front(C) : ItemName(Front(C)[i]) = ItemName(Front(C)[j]) => i = j
            /\ \A i \in DOMAIN Front(C) : Front(C)[i] = C[i]
<1> DEFINE C == BuildArgv(req, appr, url)
           b == (req.resolve # NoResolve)
           pair == req.resolve.host \o <<":">> \o req.resolve.ip
           protocol == req.protocol
           fpr == appr.fingerprint
           proxy == appr.proxy
           ua == req.useragent
           quiet == req.quiet
           R == req.tunables
           f == Options(protocol, fpr, proxy, b, pair, ua, quiet, R)
           I == Items(protocol, fpr, proxy, b, pair, ua, quiet, R, n)
<1>1. C = f \o <<url>>
  BY BuiltIs
<1>2. /\ IsText(protocol) /\ IsText(fpr) /\ IsText(proxy) /\ (b => IsText(pair)) /\ IsText(ua)
      /\ Listed(R, {R[i] : i \in 1..n}, Knobs)
  OBVIOUS
<1> HIDE DEF protocol, fpr, proxy, b, pair, ua, quiet, R
<1>3. Listed(f, I, Tags(OptionNames) \cup Knobs)
  BY <1>2, OptionsListed
<1> HIDE DEF C, f, I
<1>4. C # << >> /\ Front(C) = f /\ Last(C) = url /\ ToSet(C) = I \cup {url} /\ DOMAIN f = 1..Len(f)
  BY <1>1, <1>3, CommandParts
<1>5. \A i, j \in DOMAIN Front(C) : ItemName(Front(C)[i]) = ItemName(Front(C)[j]) => i = j
  BY <1>3, <1>4 DEF Listed
<1>6. \A i \in DOMAIN Front(C) : Front(C)[i] = C[i]
  <2> DEFINE U == I \cup {url}
             one == <<url>>
  <2>1. f \in Seq(U)
    BY <1>3, WiderTexts DEF Listed
  <2>2. one \in Seq(U)
    OBVIOUS
  <2> HIDE DEF one
  <2>3. Joins(f \o one, f, one)
    BY <2>1, <2>2, Joint
  <2>4. C = f \o one
    BY <1>1 DEF one
  <2>5. QED BY <1>4, <2>3, <2>4 DEF Joins
<1>7. QED BY <1>4, <1>5, <1>6 DEF C, I, protocol, fpr, proxy, b, pair, ua, quiet, R

(* Sequences of tokens are texts.                                          *)
LEMMA TokensAreText ==
  ASSUME NEW t \in Tokens
  PROVE  IsText(t)
BY DEF Tokens, IsText

(* So is the empty one.                                                    *)
LEMMA EmptyIsText ==
  << >> \in Tokens /\ IsText(<< >>)
<1>1. << >> \in Tokens
  BY DEF Tokens
<1>2. QED BY <1>1, TokensAreText

(* The proxy of a request is a text, and empty exactly when none was asked for. *)
LEMMA ProxyingIsText ==
  ASSUME NEW proxy \in Tokens, proxy # << >> => CanonProxy(proxy) # << >>
  PROVE  IsText(Proxying(proxy)) /\ (Proxying(proxy) = << >> <=> proxy = << >>)
<1>1. CASE proxy = << >>
  BY <1>1, EmptyIsText DEF Proxying
<1>2. CASE proxy # << >>
  BY <1>2, ProxyFacts, TokensAreText DEF Proxying
<1>3. QED BY <1>1, <1>2

(* What a request resolves is a canonical host with its address.           *)
LEMMA ResolvingIsText ==
  ASSUME NEW resolve \in Tokens
  PROVE  Resolving(resolve) # NoResolve =>
           /\ Resolved(Resolving(resolve)) /\ resolve # << >> /\ Resolving(resolve) = CanonResolve(resolve)
           /\ IsText(Resolving(resolve).host \o <<":">> \o Resolving(resolve).ip)
<1> SUFFICES ASSUME Resolving(resolve) # NoResolve
    PROVE  /\ Resolved(Resolving(resolve)) /\ resolve # << >> /\ Resolving(resolve) = CanonResolve(resolve)
           /\ IsText(Resolving(resolve).host \o <<":">> \o Resolving(resolve).ip)
  OBVIOUS
<1> DEFINE r == Resolving(resolve)
<1>1. resolve # << >> /\ r = CanonResolve(resolve)
  BY DEF Resolving
<1>2. Resolved(r)
  BY <1>1, ResolveFacts
<1> HIDE DEF r
<1>3. IsText(r.host \o <<":">> \o r.ip)
  BY <1>2, ResolveBack, TokensAreText
<1>4. QED BY <1>1, <1>2, <1>3 DEF r

(* The words of a profile and of an answer.                                *)
Worded(p, a) ==
  /\ p.id \in Tokens /\ p.protocol \in Tokens /\ p.proxy \in Tokens /\ p.extra \in Seq(Tokens)
  /\ a.url \in Tokens /\ a.fingerprint \in Tokens /\ a.resolve \in Tokens

Agent(p) == TranslateExtraArgs(p.extra).useragent
Tuning(p) == TranslateExtraArgs(p.extra).tunables

(* The request the helper makes of them.                                   *)
RequestMade(p, a, n) ==
  Asked(CanonProfileId(p.id), p.protocol, ParseUrl(a.url), << >>, Resolving(a.resolve), Proxying(p.proxy),
        Agent(p), FALSE, Rendered(Tuning(p), n))
Accepted(p, a, n) == Accepts(p.id, p.protocol, a.url, a.resolve, p.proxy, Agent(p), Tuning(p), n)

(* When the helper takes the arguments of the shell, and what it makes of them. *)
LEMMA HelperTakes ==
  ASSUME NEW p, NEW a, Worded(p, a)
  PROVE  \E n \in Nat : /\ Settings(Tuning(p), n) /\ Agent(p) \in Tokens
                        /\ RequestFromArgv(HelperArgs(p, a)).ok <=> Accepted(p, a, n)
                        /\ RequestFromArgv(HelperArgs(p, a)).ok => RequestFromArgv(HelperArgs(p, a)) = RequestMade(p, a, n)
<1> DEFINE id == p.id
           protocol == p.protocol
           url == a.url
           resolve == a.resolve
           proxy == p.proxy
           ua == Agent(p)
           T == Tuning(p)
<1>1. id \in Tokens /\ protocol \in Tokens /\ url \in Tokens /\ resolve \in Tokens /\ proxy \in Tokens
  BY DEF Worded
<1>2. ua \in Tokens /\ \E n \in Nat : Settings(T, n)
  BY TranslatedFacts DEF Worded, Agent, Tuning
<1>3. PICK n \in Nat : Settings(T, n)
  BY <1>2
<1>4. TranslateExtraArgs(p.extra).useragent = ua /\ TranslateExtraArgs(p.extra).tunables = T
  BY DEF Agent, Tuning
<1>5. p.id = id /\ p.protocol = protocol /\ p.proxy = proxy /\ a.url = url /\ a.resolve = resolve
  OBVIOUS
<1> HIDE DEF id, protocol, url, resolve, proxy, ua, T
<1> DEFINE r == RequestFromArgv(HelperArgs(p, a))
<1>6. HelperMade(r, id, protocol, url, resolve, proxy, ua, T, n)
  BY <1>1, <1>2, <1>3, <1>4, <1>5, HelperRequest
<1> HIDE DEF r
<1>7. Accepts(id, protocol, url, resolve, proxy, ua, T, n) <=> Accepted(p, a, n)
  BY DEF Accepted, id, protocol, url, resolve, proxy, ua, T
<1>8. Asked(CanonProfileId(id), protocol, ParseUrl(url), << >>, Resolving(resolve), Proxying(proxy), ua, FALSE, Rendered(T, n))
      = RequestMade(p, a, n)
  BY DEF RequestMade, id, protocol, url, resolve, proxy, ua, T
<1>9. QED BY <1>2, <1>3, <1>6, <1>7, <1>8 DEF HelperMade, r, ua, T

(* Answered requests come of words.                                        *)
LEMMA AnsweredIsWorded ==
  ASSUME Answered, last.cmd = "connect"
  PROVE  Worded(last.profile, last.auth)
<1>1. last.profile \in Profiles
  BY DEF Answered
<1>2. PICK lines \in Outputs : last.auth = ParseAuthOutput(lines) /\ last.auth.ok
  BY DEF Answered
<1>3. last.auth.url \in Tokens /\ last.auth.fingerprint \in Tokens /\ last.auth.resolve \in Tokens
  BY <1>2, AuthTokens
<1>4. QED BY <1>1, <1>3, ProfileTokens DEF Worded

(* The request with the fingerprint of the approval.                       *)
Pinned(p, a, n, fpr) == [RequestMade(p, a, n) EXCEPT !.fingerprint = fpr]

PinnedGot(p, a, n, fpr) ==
  /\ RequestMade(p, a, n).ok /\ RequestMade(p, a, n).profile_id = CanonProfileId(p.id) /\ RequestMade(p, a, n).url = ParseUrl(a.url)
  /\ Pinned(p, a, n, fpr).profile_id = CanonProfileId(p.id) /\ Pinned(p, a, n, fpr).protocol = p.protocol
  /\ Pinned(p, a, n, fpr).url = ParseUrl(a.url) /\ Pinned(p, a, n, fpr).fingerprint = fpr
  /\ Pinned(p, a, n, fpr).resolve = Resolving(a.resolve) /\ Pinned(p, a, n, fpr).proxy = Proxying(p.proxy)
  /\ Pinned(p, a, n, fpr).useragent = Agent(p) /\ Pinned(p, a, n, fpr).quiet = FALSE
  /\ Pinned(p, a, n, fpr).tunables = Rendered(Tuning(p), n)

(* The fields of the request the policy judges.                            *)
LEMMA PinnedIs ==
  ASSUME NEW p, NEW a, NEW n, NEW fpr
  PROVE  PinnedGot(p, a, n, fpr)
<1> DEFINE id == CanonProfileId(p.id)
           url == ParseUrl(a.url)
           none == << >>
           rs == Resolving(a.resolve)
           px == Proxying(p.proxy)
           ua == Agent(p)
           R == Rendered(Tuning(p), n)
           quiet == FALSE
           protocol == p.protocol
<1>1. RequestMade(p, a, n) = Asked(id, protocol, url, none, rs, px, ua, quiet, R)
  BY DEF RequestMade
<1> HIDE DEF id, url, none, rs, px, ua, R, quiet, protocol
<1> DEFINE q == Asked(id, protocol, url, none, rs, px, ua, quiet, R)
           k == [q EXCEPT !.fingerprint = fpr]
<1>2. q.ok /\ q.profile_id = id /\ q.url = url
  BY AskedFacts
<1>3. /\ k.profile_id = id /\ k.protocol = protocol /\ k.url = url /\ k.fingerprint = fpr
      /\ k.resolve = rs /\ k.proxy = px /\ k.useragent = ua /\ k.quiet = quiet /\ k.tunables = R
  BY PinnedFacts
<1> HIDE DEF q, k
<1>4. Pinned(p, a, n, fpr) = k
  BY <1>1 DEF Pinned, k, q
<1>5. RequestMade(p, a, n) = q
  BY <1>1 DEF q
<1> DEFINE m == RequestMade(p, a, n)
           w == Pinned(p, a, n, fpr)
<1>6. m = q /\ w = k
  BY <1>4, <1>5
<1> HIDE DEF m, w
<1>7. m.ok /\ m.profile_id = id /\ m.url = url
  BY <1>2, <1>6
<1>8. /\ w.profile_id = id /\ w.protocol = protocol /\ w.url = url /\ w.fingerprint = fpr
      /\ w.resolve = rs /\ w.proxy = px /\ w.useragent = ua /\ w.quiet = quiet /\ w.tunables = R
  BY <1>3, <1>6
<1>9. quiet = FALSE
  BY DEF quiet
<1>10. QED BY <1>7, <1>8, <1>9 DEF PinnedGot, m, w, id, url, rs, px, ua, R, protocol

(* A record that reads back as the approval is found under its profile.    *)
LEMMA Found ==
  ASSUME NEW appr, appr.ok, appr.profile_id \in DOMAIN files, files[appr.profile_id] = Serialise(appr),
         ParseApproval(Serialise(appr)) = appr
  PROVE  Lookup(appr.profile_id) = appr
<1> DEFINE id == appr.profile_id
<1>1. Lookup(id) = OfProfile(id, ParseApproval(files[id]))
  BY DEF Lookup
<1>2. ParseApproval(files[id]) = appr
  OBVIOUS
<1>3. OfProfile(id, appr) = appr
  BY DEF OfProfile
<1>4. QED BY <1>1, <1>2, <1>3

(* The command line of a request and an approval that are there.           *)
LEMMA CommandIs ==
  ASSUME NEW req, NEW appr, req.ok, appr.ok
  PROVE  Command(req, appr) = BuildArgv([req EXCEPT !.fingerprint = appr.fingerprint], appr, RebuiltUrl(req.url))
BY DEF Command

(* The words of an approval the helper takes, and what it makes of them.   *)
LEMMA EnoughIsTaken ==
  ASSUME NEW p, NEW a, Worded(p, a), IsOnRecord(Stored(ApproveArgs(p, a)), a.resolve), ExtraIsFit(TranslateExtraArgs(p.extra)),
         Size(RebuiltUrl(ParseUrl(a.url))) < UrlMax
  PROVE  Executed(RequestFromArgv(HelperArgs(p, a))) # << >>
<1> DEFINE appr == Stored(ApproveArgs(p, a))
           url  == ParseUrl(a.url)
           T    == Tuning(p)
           ua   == Agent(p)
           resolve == a.resolve
<1>1. /\ p.id \in Tokens /\ p.protocol \in Tokens /\ p.proxy \in Tokens
      /\ a.url \in Tokens /\ a.fingerprint \in Tokens /\ resolve \in Tokens
  BY DEF Worded
<1>2. /\ appr.ok /\ appr.profile_id \in DOMAIN files /\ files[appr.profile_id] = Serialise(appr)
      /\ resolve # << >> => CanonResolve(resolve).host = OriginHost(appr.origin)
  BY DEF IsOnRecord
<1>3. /\ ParseApproval(Serialise(appr)) = appr
      /\ \A v \in {p.id, p.protocol, a.url, p.proxy} : ~ LooksLikeFlag(v)
      /\ CanonProfileId(p.id) # << >> /\ ValidProtocol(p.protocol) /\ url.ok
      /\ p.proxy # << >> => CanonProxy(p.proxy) # << >>
      /\ appr.profile_id = CanonProfileId(p.id) /\ appr.protocol = p.protocol
      /\ appr.origin = url.origin /\ appr.proxy = Proxying(p.proxy)
  BY <1>1, <1>2, ApprovedWords
<1>4. IsText(appr.fingerprint)
  <2>1. ApproveArgs(p, a) \in Seq(Tokens)
    <3> DEFINE id == p.id
               protocol == p.protocol
               loc == a.url
               fpr == a.fingerprint
               proxy == p.proxy
    <3>1. id \in Tokens /\ protocol \in Tokens /\ loc \in Tokens /\ fpr \in Tokens /\ proxy \in Tokens
      BY <1>1
    <3>2. QED BY <3>1, ApproveScan
  <2>2. ApprovalFromArgv(ApproveArgs(p, a)).ok /\ appr = ApprovalFromArgv(ApproveArgs(p, a))
    BY <1>2, <2>1, StoredIs
  <2>3. QED BY <2>1, <2>2, ApprovalTyped
<1>5. UrlShaped(url)
  BY <1>1, <1>3, UrlFacts
<1> HIDE DEF appr, url
<1>6. /\ resolve # << >> => CanonResolve(resolve) # NoResolve
      /\ ~ LooksLikeFlag(resolve)
      /\ Resolving(resolve) # NoResolve => Resolving(resolve).host = OriginHost(appr.origin)
  <2>1. resolve # << >> => CanonResolve(resolve).host = OriginHost(url.origin)
    BY <1>2, <1>3
  <2> HIDE DEF resolve
  <2>2. resolve \in Tokens
    BY <1>1
  <2>3. QED BY <1>3, <1>5, <2>1, <2>2, FitResolve
<1>7. PICK n \in Nat : /\ Settings(T, n) /\ ua \in Tokens
                       /\ RequestFromArgv(HelperArgs(p, a)).ok <=> Accepted(p, a, n)
                       /\ RequestFromArgv(HelperArgs(p, a)).ok => RequestFromArgv(HelperArgs(p, a)) = RequestMade(p, a, n)
  BY HelperTakes
<1> DEFINE R == Rendered(T, n)
<1>8. /\ \A i \in 1..n : R[i] # << >>
      /\ \A i, j \in 1..n : Knob(R[i]) = Knob(R[j]) => i = j
      /\ ua # << >> => ValidUseragent(ua) /\ ~ LooksLikeFlag(ua)
  <2> DEFINE extra == TranslateExtraArgs(p.extra)
  <2>1. T = extra.tunables /\ ua = extra.useragent /\ ExtraIsFit(extra)
    BY DEF Tuning, Agent
  <2> HIDE DEF extra, T, ua
  <2>2. QED BY <1>7, <2>1, FitExtra
<1>9. Few(T, n)
  <2> HIDE DEF T
  <2>1. QED BY <1>7, <1>8, GoodAreFew
<1>10. ~ LooksLikeFlag(ua)
  BY <1>8 DEF LooksLikeFlag
<1>11. Accepted(p, a, n)
  <2>1. \A i \in 1..n : \A j \in 1..(i - 1) : Knob(R[j]) # Knob(R[i])
    <3>1. \A i \in 1..n : \A j \in 1..(i - 1) : j \in 1..n /\ j # i
      BY <1>7
    <3> HIDE DEF R
    <3>2. QED BY <1>8, <3>1
  <2>2. Fit(p.id, p.protocol, a.url, resolve, p.proxy, ua, T, n)
    BY <1>3, <1>6, <1>9, <1>10 DEF Fit
  <2>3. \A i \in 1..n : R[i] # << >> /\ \A j \in 1..(i - 1) : Knob(R[j]) # Knob(R[i])
    BY <1>8, <2>1
  <2>4. ParseUrl(a.url).ok
    BY <1>3 DEF url
  <2> HIDE DEF T, ua
  <2>5. QED BY <1>3, <1>6, <1>8, <2>2, <2>3, <2>4 DEF Accepted, Accepts, T, ua
<1>12. RequestFromArgv(HelperArgs(p, a)) = RequestMade(p, a, n) /\ RequestMade(p, a, n).ok
  BY <1>7, <1>11
<1> DEFINE req == Pinned(p, a, n, appr.fingerprint)
<1>13. /\ RequestMade(p, a, n).profile_id = appr.profile_id /\ RequestMade(p, a, n).url = url
       /\ req.profile_id = appr.profile_id /\ req.protocol = appr.protocol /\ req.url.origin = appr.origin
       /\ req.fingerprint = appr.fingerprint /\ req.proxy = appr.proxy /\ req.resolve = Resolving(resolve)
       /\ req.useragent = ua /\ req.tunables = R
  <2> DEFINE f == appr.fingerprint
             w == Pinned(p, a, n, f)
  <2>1. /\ RequestMade(p, a, n).profile_id = CanonProfileId(p.id) /\ RequestMade(p, a, n).url = ParseUrl(a.url)
        /\ w.profile_id = CanonProfileId(p.id) /\ w.protocol = p.protocol
        /\ w.url = ParseUrl(a.url) /\ w.fingerprint = f
        /\ w.resolve = Resolving(a.resolve) /\ w.proxy = Proxying(p.proxy)
        /\ w.useragent = Agent(p) /\ w.tunables = Rendered(Tuning(p), n)
    <3> HIDE DEF f
    <3>1. PinnedGot(p, a, n, f)
      BY PinnedIs
    <3>2. QED BY <3>1 DEF PinnedGot
  <2> HIDE DEF w
  <2>2. QED BY <1>3, <2>1 DEF url, w
<1> HIDE DEF req, R
<1>14. PolicyAllows(req, appr)
  BY <1>6, <1>13 DEF PolicyAllows
<1>15. Executed(RequestFromArgv(HelperArgs(p, a))) = Command(RequestMade(p, a, n), appr)
  <2>1. Lookup(appr.profile_id) = appr
    BY <1>2, <1>3, Found
  <2>2. QED BY <1>12, <1>13, <2>1 DEF Executed
<1>16. Command(RequestMade(p, a, n), appr) = BuildArgv(req, appr, RebuiltUrl(url))
  <2>1. Command(RequestMade(p, a, n), appr) =
          BuildArgv([RequestMade(p, a, n) EXCEPT !.fingerprint = appr.fingerprint], appr, RebuiltUrl(RequestMade(p, a, n).url))
    BY <1>2, <1>12, CommandIs
  <2>2. QED BY <1>13, <2>1 DEF Pinned, req
<1>17. BuildArgv(req, appr, RebuiltUrl(url)) # << >>
  <2>1. Size(RebuiltUrl(url)) < UrlMax
    BY DEF url
  <2>2. IsText(req.protocol) /\ IsText(req.useragent) /\ IsText(appr.proxy)
    BY <1>1, <1>3, <1>7, <1>13, ProxyingIsText, TokensAreText
  <2>3. req.resolve # NoResolve => IsText(req.resolve.host \o <<":">> \o req.resolve.ip)
    BY <1>1, <1>13, ResolvingIsText
  <2>4. Listed(req.tunables, {req.tunables[i] : i \in 1..n}, Knobs)
    BY <1>7, <1>8, <1>13, RenderedIsList DEF R
  <2> DEFINE loc == RebuiltUrl(url)
  <2> HIDE DEF loc
  <2>5. Size(loc) < UrlMax
    BY <2>1 DEF loc
  <2>6. BuildArgv(req, appr, loc) # << >>
    BY <1>4, <1>14, <2>2, <2>3, <2>4, <2>5, AllowedIsBuilt
  <2>7. QED BY <2>6 DEF loc
<1>18. QED BY <1>15, <1>16, <1>17

(* Approval is enough.                                                     *)
THEOREM ApprovedIsEnoughHolds == Spec => []ApprovedIsEnough
<1>1. ASSUME Answered PROVE ApprovedIsEnough
  <2> SUFFICES ASSUME last.cmd = "connect",
                      IsOnRecord(Stored(ApproveArgs(last.profile, last.auth)), last.auth.resolve),
                      ExtraIsFit(TranslateExtraArgs(last.profile.extra)),
                      Size(RebuiltUrl(ParseUrl(last.auth.url))) < UrlMax
      PROVE  last.command # << >>
    BY DEF ApprovedIsEnough
  <2>1. Worded(last.profile, last.auth)
    BY <1>1, AnsweredIsWorded
  <2>2. last.command = Executed(RequestFromArgv(HelperArgs(last.profile, last.auth)))
    BY <1>1 DEF Answered
  <2> DEFINE p == last.profile
             a == last.auth
  <2>3. Executed(RequestFromArgv(HelperArgs(p, a))) # << >>
    <3>1. Worded(p, a) /\ IsOnRecord(Stored(ApproveArgs(p, a)), a.resolve) /\ ExtraIsFit(TranslateExtraArgs(p.extra))
          /\ Size(RebuiltUrl(ParseUrl(a.url))) < UrlMax
      BY <2>1
    <3> HIDE DEF p, a
    <3>2. QED BY <3>1, EnoughIsTaken
  <2>4. QED BY <2>2, <2>3
<1>2. QED BY <1>1, AnsweredHolds, PTL

Heads(f) == <<f, "=">>

(* The beginnings of two options differ, and differ from those of tunables. *)
LEMMA HeadsDiffer ==
  /\ \A f, g : Heads(f) = Heads(g) => f = g
  /\ \A f, g : Heads(f) # <<g>>
  /\ \A f : \A name \in TunableNames : Heads(f) # <<"--", name>>
<1>1. \A f, g : Heads(f) = Heads(g) => f = g
  BY DEF Heads
<1>2. ASSUME NEW f, NEW g PROVE Heads(f) # <<g>>
  <2>1. Len(<<f, "=">>) = 2 /\ Len(<<g>>) = 1
    OBVIOUS
  <2>2. QED BY <2>1 DEF Heads
<1>3. ASSUME NEW f, NEW name \in TunableNames PROVE Heads(f) # <<"--", name>>
  <2>1. <<f, "=">>[2] = "=" /\ <<"--", name>>[2] = name /\ name # "="
    BY DEF TunableNames, Booleans
  <2>2. QED BY <2>1 DEF Heads
<1>4. QED BY <1>1, <1>2, <1>3

(* What an item is, by its first two tokens.                               *)
OneOf(x, protocol, fpr, proxy, b, pair, ua, url) ==
  \/ \E g \in {"openconnect", "--cookie-on-stdin", "--non-inter", "-q"} : x = <<g>>
  \/ proxy = << >> /\ x = <<"--no-proxy">>
  \/ \E name \in TunableNames : Upto(x, 2) = <<"--", name>>
  \/ x = url
  \/ x = KeyVal("--protocol", protocol)
  \/ x = KeyVal("--servercert", fpr)
  \/ x = KeyVal("--script", <<"wrapper">>)
  \/ proxy # << >> /\ x = KeyVal("--proxy", proxy)
  \/ b /\ x = KeyVal("--resolve", pair)
  \/ ua # << >> /\ x = KeyVal("--useragent", ua)

(* Every item of a command line is one of these.                           *)
LEMMA ItemsAre ==
  ASSUME NEW protocol, NEW fpr, NEW proxy, NEW b, NEW pair, NEW ua, NEW quiet, NEW R, NEW n, NEW url,
         \A i \in 1..n : \E name : Tuned(R[i], name),
         NEW x, x \in Items(protocol, fpr, proxy, b, pair, ua, quiet, R, n) \cup {url}
  PROVE  OneOf(x, protocol, fpr, proxy, b, pair, ua, url)
<1>1. CASE x \in {R[i] : i \in 1..n}
  <2>1. PICK i \in 1..n : x = R[i]
    BY <1>1
  <2>2. PICK name : Tuned(x, name)
    BY <2>1
  <2>3. name \in TunableNames /\ Upto(x, 2) = <<"--", name>>
    BY <2>2, TunedFacts DEF Tuned
  <2>4. QED BY <2>3 DEF OneOf
<1>2. CASE x = ProxyItem(proxy)
  <2>1. CASE proxy = << >>
    BY <1>2, <2>1 DEF ProxyItem, OneOf
  <2>2. CASE proxy # << >>
    BY <1>2, <2>2 DEF ProxyItem, OneOf
  <2>3. QED BY <2>1, <2>2
<1>3. CASE x \in Constants \/ (quiet /\ x = <<"-q">>) \/ x = url
  <2>1. x = url \/ \E g \in {"openconnect", "--cookie-on-stdin", "--non-inter", "-q"} : x = <<g>>
    BY <1>3 DEF Constants
  <2>2. QED BY <2>1 DEF OneOf
<1>4. CASE \/ x = KeyVal("--protocol", protocol) \/ x = KeyVal("--servercert", fpr) \/ x = KeyVal("--script", <<"wrapper">>)
           \/ (b /\ x = KeyVal("--resolve", pair)) \/ (ua # << >> /\ x = KeyVal("--useragent", ua))
  BY <1>4 DEF OneOf
<1> DEFINE x1 == KeyVal("--protocol", protocol)
           x2 == KeyVal("--servercert", fpr)
           x3 == KeyVal("--script", <<"wrapper">>)
           x5 == KeyVal("--resolve", pair)
           x6 == KeyVal("--useragent", ua)
           q == <<"-q">>
           c == (ua # << >>)
           I == {R[i] : i \in 1..n}
<1>5. Items(protocol, fpr, proxy, b, pair, ua, quiet, R, n) =
        ((((((((Constants \cup {x1}) \cup {x2}) \cup {x3}) \cup {ProxyItem(proxy)}) \cup IfAny(b, x5)) \cup IfAny(c, x6)) \cup IfAny(quiet, q)) \cup I)
  BY DEF Items
<1>6. /\ \A y : y \in IfAny(b, x5) => b /\ y = x5
      /\ \A y : y \in IfAny(c, x6) => c /\ y = x6
      /\ \A y : y \in IfAny(quiet, q) => quiet /\ y = q
  BY DEF IfAny
<1> DEFINE G == OneOf(x, protocol, fpr, proxy, b, pair, ua, url)
<1>11. (x \in I => G) /\ (x = ProxyItem(proxy) => G) /\ (x \in Constants => G) /\ (x = url => G)
  BY <1>1, <1>2, <1>3
<1>12. (quiet /\ x = q => G) /\ (b /\ x = x5 => G) /\ (c /\ x = x6 => G)
  <2>1. ASSUME quiet, x = q PROVE G
    BY <1>3, <2>1
  <2>2. ASSUME b, x = x5 PROVE G
    BY <2>2 DEF OneOf
  <2>3. ASSUME c, x = x6 PROVE G
    BY <2>3 DEF OneOf
  <2> HIDE DEF G, q, x5, x6, c
  <2>4. QED BY <2>1, <2>2, <2>3
<1>13. (x = x1 => G) /\ (x = x2 => G) /\ (x = x3 => G)
  BY <1>4
<1> DEFINE J == Items(protocol, fpr, proxy, b, pair, ua, quiet, R, n)
           i5 == IfAny(b, x5)
           i6 == IfAny(c, x6)
           i7 == IfAny(quiet, q)
<1> HIDE DEF x1, x2, x3, x5, x6, q, c, I, J, i5, i6, i7, G
<1>7. x \in J \/ x = url
  BY DEF J
<1>8. x \in J => x \in Constants \/ x = x1 \/ x = x2 \/ x = x3 \/ x = ProxyItem(proxy) \/ x \in i5 \/ x \in i6 \/ x \in i7 \/ x \in I
  BY <1>5 DEF J, i5, i6, i7
<1>9. (x \in i5 => b /\ x = x5) /\ (x \in i6 => c /\ x = x6) /\ (x \in i7 => quiet /\ x = q)
  BY <1>6 DEF i5, i6, i7
<1>10. G
  <2>1. CASE x = url
    BY <1>11, <2>1
  <2>2. CASE x \in J
    BY <1>8, <1>9, <1>11, <1>12, <1>13, <2>2
  <2>3. QED BY <1>7, <2>1, <2>2
<1>14. QED BY <1>10 DEF G

(* Protocol, pin and proxy are among them.                                 *)
LEMMA ItemsHave ==
  ASSUME NEW protocol, NEW fpr, NEW proxy, NEW b, NEW pair, NEW ua, NEW quiet, NEW R, NEW n
  PROVE  LET I == Items(protocol, fpr, proxy, b, pair, ua, quiet, R, n) IN
         /\ KeyVal("--protocol", protocol) \in I /\ KeyVal("--servercert", fpr) \in I /\ ProxyItem(proxy) \in I
<1> DEFINE x1 == KeyVal("--protocol", protocol)
           x2 == KeyVal("--servercert", fpr)
           x3 == KeyVal("--script", <<"wrapper">>)
           i5 == IfAny(b, KeyVal("--resolve", pair))
           i6 == IfAny(ua # << >>, KeyVal("--useragent", ua))
           i7 == IfAny(quiet, <<"-q">>)
           I == {R[i] : i \in 1..n}
<1>1. Items(protocol, fpr, proxy, b, pair, ua, quiet, R, n) =
        ((((((((Constants \cup {x1}) \cup {x2}) \cup {x3}) \cup {ProxyItem(proxy)}) \cup i5) \cup i6) \cup i7) \cup I)
  BY DEF Items
<1> HIDE DEF x1, x2, x3, i5, i6, i7, I
<1>2. QED BY <1>1 DEF x1, x2

(* The URL is not read as an option.                                       *)
LEMMA UrlHeads ==
  ASSUME NEW url \in Tokens, url # << >>, url[1] = "https://"
  PROVE  /\ \A f : Heads(f) = Upto(url, 2) => f = "https://"
         /\ url # <<"--no-proxy">>
<1>1. url \in Seq(Token) /\ Len(url) \in Nat \ {0}
  BY EmptyText DEF Tokens
<1>2. Upto(url, 2) \in Seq(Token) /\ Len(Upto(url, 2)) = (IF 2 < Len(url) THEN 2 ELSE Len(url))
      /\ \A j \in 1..Len(Upto(url, 2)) : Upto(url, 2)[j] = url[j]
  BY <1>1, UptoFacts
<1>3. 1 \in 1..Len(Upto(url, 2))
  <2> DEFINE n == Len(url)
             m == Len(Upto(url, 2))
  <2>1. n \in Nat \ {0} /\ m = (IF 2 < n THEN 2 ELSE n)
    BY <1>1, <1>2
  <2> HIDE DEF n, m
  <2>2. 1 \in 1..m
    BY <2>1
  <2>3. QED BY <2>2 DEF m
<1>4. Upto(url, 2)[1] = "https://"
  BY <1>2, <1>3
<1>5. \A f : Heads(f)[1] = f
  BY DEF Heads
<1>6. <<"--no-proxy">>[1] = "--no-proxy"
  OBVIOUS
<1>7. QED BY <1>4, <1>5, <1>6

(* What OpenConnect reads of the items.                                    *)
Texts(protocol, fpr, proxy, b, pair, ua) ==
  /\ IsText(protocol) /\ IsText(fpr) /\ IsText(proxy) /\ (b => IsText(pair)) /\ IsText(ua)

OptionRead(x, protocol, fpr, proxy, b, pair) ==
  /\ Upto(x, 2) = Heads("--servercert") => From(x, 3) = fpr
  /\ Upto(x, 2) = Heads("--protocol") => From(x, 3) = protocol
  /\ Upto(x, 2) = Heads("--proxy") => proxy # << >> /\ From(x, 3) = proxy
  /\ Upto(x, 2) = Heads("--resolve") => b /\ From(x, 3) = pair
  /\ x = <<"--no-proxy">> => proxy = << >>

(* An item that begins otherwise is not read as one of the options.        *)
LEMMA SilentRead ==
  ASSUME NEW protocol, NEW fpr, NEW proxy, NEW b, NEW pair, NEW x,
         \A f \in {"--servercert", "--protocol", "--proxy", "--resolve"} : Upto(x, 2) # Heads(f),
         x = <<"--no-proxy">> => proxy = << >>
  PROVE  OptionRead(x, protocol, fpr, proxy, b, pair)
BY DEF OptionRead

(* An option with its value is read as that option with that value.        *)
LEMMA KeyValRead ==
  ASSUME NEW protocol, NEW fpr, NEW proxy, NEW b, NEW pair, NEW f, f # "=", NEW v, IsText(v),
         f = "--servercert" => v = fpr, f = "--protocol" => v = protocol,
         f = "--proxy" => proxy # << >> /\ v = proxy, f = "--resolve" => b /\ v = pair
  PROVE  OptionRead(KeyVal(f, v), protocol, fpr, proxy, b, pair)
<1> DEFINE x == KeyVal(f, v)
<1>1. Upto(x, 2) = Heads(f) /\ From(x, 3) = v
  BY KeyValFacts DEF Heads
<1>2. Upto(<<"--no-proxy">>, 2) = <<"--no-proxy">>
  BY PlainFacts
<1> HIDE DEF x
<1>3. x # <<"--no-proxy">>
  BY <1>1, <1>2, HeadsDiffer
<1>4. \A g : Upto(x, 2) = Heads(g) => g = f
  BY <1>1, HeadsDiffer
<1>5. Upto(x, 2) = Heads("--servercert") => From(x, 3) = fpr
  BY <1>1, <1>4
<1>6. Upto(x, 2) = Heads("--protocol") => From(x, 3) = protocol
  BY <1>1, <1>4
<1>7. Upto(x, 2) = Heads("--proxy") => proxy # << >> /\ From(x, 3) = proxy
  BY <1>1, <1>4
<1>8. Upto(x, 2) = Heads("--resolve") => b /\ From(x, 3) = pair
  BY <1>1, <1>4
<1>9. OptionRead(x, protocol, fpr, proxy, b, pair)
  BY <1>3, <1>5, <1>6, <1>7, <1>8 DEF OptionRead
<1>10. QED BY <1>9 DEF x

(* So every item is read as what it was built of.                          *)
LEMMA ItemsRead ==
  ASSUME NEW protocol, NEW fpr, NEW proxy, NEW b, NEW pair, NEW ua, NEW url, Texts(protocol, fpr, proxy, b, pair, ua),
         url \in Tokens, url # << >>, url[1] = "https://",
         NEW x, OneOf(x, protocol, fpr, proxy, b, pair, ua, url)
  PROVE  OptionRead(x, protocol, fpr, proxy, b, pair)
<1> DEFINE G == OptionRead(x, protocol, fpr, proxy, b, pair)
<1>0. /\ IsText(protocol) /\ IsText(fpr) /\ IsText(proxy) /\ (b => IsText(pair)) /\ IsText(ua)
  BY DEF Texts
<1>2. ASSUME NEW g \in {"openconnect", "--cookie-on-stdin", "--non-inter", "-q"}, x = <<g>> PROVE G
  <2>1. Upto(x, 2) = <<g>>
    BY <1>2, PlainFacts
  <2>2. x # <<"--no-proxy">>
    <3>1. <<g>>[1] = g /\ <<"--no-proxy">>[1] = "--no-proxy"
      OBVIOUS
    <3>2. QED BY <1>2, <3>1
  <2>3. QED BY <2>1, <2>2, HeadsDiffer, SilentRead
<1>3. ASSUME proxy = << >>, x = <<"--no-proxy">> PROVE G
  <2>1. Upto(x, 2) = <<"--no-proxy">>
    BY <1>3, PlainFacts
  <2>2. QED BY <1>3, <2>1, HeadsDiffer, SilentRead
<1>4. ASSUME NEW name \in TunableNames, Upto(x, 2) = <<"--", name>> PROVE G
  <2>1. x # <<"--no-proxy">>
    <3>1. Upto(<<"--no-proxy">>, 2) = <<"--no-proxy">>
      BY PlainFacts
    <3>2. Len(<<"--no-proxy">>) = 1 /\ Len(<<"--", name>>) = 2
      OBVIOUS
    <3>3. QED BY <1>4, <3>1, <3>2
  <2>2. \A f : Heads(f) # <<"--", name>> /\ <<"--", name>> # Heads(f)
    BY HeadsDiffer
  <2>3. \A f \in {"--servercert", "--protocol", "--proxy", "--resolve"} : Upto(x, 2) # Heads(f)
    BY <1>4, <2>2
  <2>4. QED BY <2>1, <2>3, SilentRead
<1>5. ASSUME x = url PROVE G
  <2>1. url # <<"--no-proxy">> /\ \A f : Heads(f) = Upto(url, 2) => f = "https://"
    BY UrlHeads
  <2>2. QED BY <1>5, <2>1, SilentRead
<1>6. ASSUME x = KeyVal("--protocol", protocol) PROVE G
  BY <1>0, <1>6, KeyValRead
<1>7. ASSUME x = KeyVal("--servercert", fpr) PROVE G
  BY <1>0, <1>7, KeyValRead
<1>8. ASSUME x = KeyVal("--script", <<"wrapper">>) PROVE G
  <2> DEFINE w == <<"wrapper">>
  <2>1. w \in Seq({"wrapper"})
    OBVIOUS
  <2> HIDE DEF w
  <2>2. IsText(w)
    BY <2>1 DEF IsText
  <2>3. x = KeyVal("--script", w)
    BY <1>8 DEF w
  <2>4. QED BY <2>2, <2>3, KeyValRead
<1>9. ASSUME proxy # << >>, x = KeyVal("--proxy", proxy) PROVE G
  BY <1>0, <1>9, KeyValRead
<1>10. ASSUME b, x = KeyVal("--resolve", pair) PROVE G
  <2> DEFINE y == KeyVal("--resolve", pair)
  <2>1. IsText(pair)
    BY <1>0, <1>10
  <2>2. Upto(y, 2) = Heads("--resolve") /\ From(y, 3) = pair
    BY <2>1, KeyValFacts DEF Heads
  <2>3. Upto(<<"--no-proxy">>, 2) = <<"--no-proxy">>
    BY PlainFacts
  <2> HIDE DEF y
  <2>4. y # <<"--no-proxy">>
    BY <2>2, <2>3, HeadsDiffer
  <2>5. \A g : Upto(y, 2) = Heads(g) => g = "--resolve"
    BY <2>2, HeadsDiffer
  <2>6. Upto(y, 2) = Heads("--resolve") => b /\ From(y, 3) = pair
    BY <1>10, <2>2
  <2>7. OptionRead(y, protocol, fpr, proxy, b, pair)
    BY <2>4, <2>5, <2>6 DEF OptionRead
  <2>8. QED BY <1>10, <2>7 DEF y
<1>11. ASSUME ua # << >>, x = KeyVal("--useragent", ua) PROVE G
  BY <1>0, <1>11, KeyValRead
<1> HIDE DEF G
<1>12. G
  BY <1>2, <1>3, <1>4, <1>5, <1>6, <1>7, <1>8, <1>9, <1>10, <1>11 DEF OneOf
<1>13. QED BY <1>12 DEF G

(* The values OpenConnect reads of the command line.                       *)
LEMMA ValuesAre ==
  ASSUME NEW protocol, NEW fpr, NEW proxy, NEW b, NEW pair, NEW ua, NEW quiet, NEW R, NEW n, NEW url,
         Texts(protocol, fpr, proxy, b, pair, ua),
         url \in Tokens, url # << >>, url[1] = "https://",
         \A i \in 1..n : \E name : Tuned(R[i], name),
         NEW C, ToSet(C) = Items(protocol, fpr, proxy, b, pair, ua, quiet, R, n) \cup {url}
  PROVE  /\ Values(C, "--servercert") = {fpr} /\ Values(C, "--protocol") = {protocol}
         /\ Values(C, "--proxy") = {proxy} \ {<< >>}
         /\ \A v \in Values(C, "--resolve") : b /\ v = pair
         /\ <<"--no-proxy">> \in ToSet(C) <=> proxy = << >>
<1> DEFINE S == ToSet(C)
<1>0. \A f : Values(C, f) = {From(x, 3) : x \in {y \in S : Upto(y, 2) = Heads(f)}}
  BY DEF Values, Heads
<1>1. ASSUME NEW x \in S
      PROVE  /\ Upto(x, 2) = Heads("--servercert") => From(x, 3) = fpr
             /\ Upto(x, 2) = Heads("--protocol") => From(x, 3) = protocol
             /\ Upto(x, 2) = Heads("--proxy") => proxy # << >> /\ From(x, 3) = proxy
             /\ Upto(x, 2) = Heads("--resolve") => b /\ From(x, 3) = pair
             /\ x = <<"--no-proxy">> => proxy = << >>
  <2>1. OneOf(x, protocol, fpr, proxy, b, pair, ua, url)
    BY ItemsAre
  <2>2. QED BY <2>1, ItemsRead DEF OptionRead
<1>2. KeyVal("--protocol", protocol) \in S /\ KeyVal("--servercert", fpr) \in S /\ ProxyItem(proxy) \in S
  BY ItemsHave
<1> HIDE DEF S
<1>3. /\ IsText(protocol) /\ IsText(fpr) /\ IsText(proxy)
  BY DEF Texts
<1>4. /\ Upto(KeyVal("--protocol", protocol), 2) = Heads("--protocol") /\ From(KeyVal("--protocol", protocol), 3) = protocol
      /\ Upto(KeyVal("--servercert", fpr), 2) = Heads("--servercert") /\ From(KeyVal("--servercert", fpr), 3) = fpr
      /\ Upto(KeyVal("--proxy", proxy), 2) = Heads("--proxy") /\ From(KeyVal("--proxy", proxy), 3) = proxy
  BY <1>3, KeyValFacts DEF Heads
<1>5. Values(C, "--servercert") = {fpr}
  BY <1>0, <1>1, <1>2, <1>4
<1>6. Values(C, "--protocol") = {protocol}
  BY <1>0, <1>1, <1>2, <1>4
<1>7. Values(C, "--proxy") = {proxy} \ {<< >>}
  <2>1. proxy # << >> => proxy \in Values(C, "--proxy")
    BY <1>0, <1>2, <1>4 DEF ProxyItem
  <2>2. \A v \in Values(C, "--proxy") : proxy # << >> /\ v = proxy
    BY <1>0, <1>1
  <2>3. QED BY <2>1, <2>2
<1>8. \A v \in Values(C, "--resolve") : b /\ v = pair
  BY <1>0, <1>1
<1>9. <<"--no-proxy">> \in S <=> proxy = << >>
  BY <1>1, <1>2 DEF ProxyItem
<1>10. QED BY <1>5, <1>6, <1>7, <1>8, <1>9 DEF S

(* Every record on disk is one the parser takes ("a malformed approval     *)
(* cannot exist on disk at all", registry.c): it reads back as an approval *)
(* of the profile it is kept under, written with the same bytes, and its   *)
(* fingerprint is a text.                                                  *)
RecordsReadBack ==
  \A id \in DOMAIN files :
    /\ ParseApproval(files[id]).ok /\ ParseApproval(files[id]).profile_id = id
    /\ Serialise(ParseApproval(files[id])) = files[id]
    /\ IsText(FieldOf(files[id], "fingerprint"))

(* Storing an approval keeps every record readable.                        *)
LEMMA PutKeepsReadable ==
  ASSUME NEW argv \in Seq(Tokens), Put(Stored(argv)), RecordsReadBack
  PROVE  RecordsReadBack'
<1> DEFINE appr == Stored(argv)
<1>1. CASE appr.ok
  <2>1. files' = Kept(appr)
    BY <1>1 DEF Put
  <2>2. ParseApproval(Serialise(appr)) = appr /\ IsText(appr.fingerprint)
    BY <1>1, StoredIs, ApprovalTyped
  <2> HIDE DEF appr
  <2>3. FieldOf(Serialise(appr), "fingerprint") = appr.fingerprint
    BY WrittenFields
  <2> DEFINE k == Kept(appr)
  <2>4. /\ DOMAIN k = DOMAIN files \cup {appr.profile_id}
        /\ \A id \in DOMAIN k : k[id] = IF id = appr.profile_id THEN Serialise(appr) ELSE files[id]
    BY DEF Kept
  <2> HIDE DEF k
  <2>5. ASSUME NEW id \in DOMAIN k
        PROVE  /\ ParseApproval(k[id]).ok /\ ParseApproval(k[id]).profile_id = id
               /\ Serialise(ParseApproval(k[id])) = k[id]
               /\ IsText(FieldOf(k[id], "fingerprint"))
    <3>1. CASE id = appr.profile_id
      BY <1>1, <2>2, <2>3, <2>4, <3>1
    <3>2. CASE id # appr.profile_id
      BY <2>4, <3>2 DEF RecordsReadBack
    <3>3. QED BY <3>1, <3>2
  <2>6. files' = k
    BY <2>1 DEF k
  <2>7. QED BY <2>5, <2>6 DEF RecordsReadBack
<1>2. CASE ~ appr.ok
  <2>1. files' = files
    BY <1>2 DEF Put
  <2>2. QED BY <2>1 DEF RecordsReadBack
<1>3. QED BY <1>1, <1>2

(* What vpn-up-admin or approve_profile writes is readable, and revoking   *)
(* or anything else leaves the other records as they are.                  *)
THEOREM RecordsReadBackHolds == Spec => []RecordsReadBack
<1>1. Init => RecordsReadBack
  <2>1. DOMAIN << >> = {}
    OBVIOUS
  <2>2. QED BY <2>1 DEF Init, RecordsReadBack
<1>2. ASSUME RecordsReadBack, Answered, [Next]_vars PROVE RecordsReadBack'
  <2>1. ASSUME files' = files PROVE RecordsReadBack'
    BY <1>2, <2>1 DEF RecordsReadBack
  <2>2. ASSUME NEW a \in Approvals, Approve(a) PROVE RecordsReadBack'
    <3>1. a.argv \in Seq(Tokens)
      <4>1. Text \subseteq Tokens
        <5>1. STRING \subseteq Token
          BY DEF Token
        <5>2. QED BY <5>1, WiderTexts DEF Text, Tokens
      <4>2. a.argv \in Seq(Text)
        BY TextsAreTexts
      <4>3. QED BY <4>1, <4>2, WiderTexts
    <3>2. Put(Stored(a.argv))
      BY <2>2 DEF Approve
    <3>3. QED BY <1>2, <3>1, <3>2, PutKeepsReadable
  <2>3. ASSUME NEW p \in Profiles, ApproveProfile(p) PROVE RecordsReadBack'
    <3>1. Put(Stored(ApproveArgs(p, auth))) /\ auth.ok
      BY <2>3 DEF ApproveProfile
    <3>2. PICK lines \in Outputs : auth = ParseAuthOutput(lines)
      BY <1>2, <3>1 DEF Answered
    <3>3. ApproveArgs(p, auth) \in Seq(Tokens)
      <4> DEFINE id == p.id
                 protocol == p.protocol
                 loc == auth.url
                 fpr == auth.fingerprint
                 proxy == p.proxy
                 a == auth
      <4>1. id \in Tokens /\ protocol \in Tokens /\ loc \in Tokens /\ fpr \in Tokens /\ proxy \in Tokens
        BY <3>1, <3>2, AuthTokens, ProfileTokens
      <4>2. p.id = id /\ p.protocol = protocol /\ p.proxy = proxy /\ a.url = loc /\ a.fingerprint = fpr
        OBVIOUS
      <4> HIDE DEF id, protocol, loc, fpr, proxy, a
      <4>3. ApproveArgs(p, a) \in Seq(Tokens)
        BY <4>1, <4>2, ApproveScan
      <4>4. QED BY <4>3 DEF a
    <3>4. QED BY <1>2, <3>1, <3>3, PutKeepsReadable
  <2>4. ASSUME NEW p \in Profiles, Connect(p) PROVE RecordsReadBack'
    BY <2>1, <2>4 DEF Connect
  <2>5. ASSUME NEW p \in Profiles, Revoke(<< <<"--profile-id">>, p.id >>) PROVE RecordsReadBack'
    <3> DEFINE r == ProfileFromArgv(<< <<"--profile-id">>, p.id >>)
    <3>1. files' = [f \in DOMAIN files \ {r} |-> files[f]]
      BY <2>5 DEF Revoke
    <3> HIDE DEF r
    <3>2. QED BY <1>2, <3>1 DEF RecordsReadBack
  <2>6. ASSUME NEW lines \in Outputs, Authenticate(lines) PROVE RecordsReadBack'
    BY <2>1, <2>6 DEF Authenticate
  <2>7. CASE Return
    BY <2>1, <2>7 DEF Return
  <2>8. CASE UNCHANGED vars
    BY <2>1, <2>8 DEF vars
  <2>9. QED BY <1>2, <2>2, <2>3, <2>4, <2>5, <2>6, <2>7, <2>8 DEF Next
<1>3. QED BY <1>1, <1>2, AnsweredHolds, PTL DEF Spec

(* A command line is built only of what the policy allows.                 *)
LEMMA PolicyBuilt ==
  ASSUME NEW req, NEW appr, NEW url, BuildArgv(req, appr, url) # << >>
  PROVE  PolicyAllows(req, appr) /\ Size(url) < UrlMax
BY DEF BuildArgv

(* What a lookup finds is the record of the profile.                       *)
LEMMA LookupIs ==
  ASSUME NEW id, Lookup(id).ok
  PROVE  /\ id \in DOMAIN files /\ Lookup(id) = ParseApproval(files[id]) /\ ParseApproval(files[id]).ok
<1>1. ~ NoApproval.ok
  BY DEF NoApproval
<1>2. id \in DOMAIN files
  BY <1>1 DEF Lookup
<1> DEFINE appr == ParseApproval(files[id])
<1>3. Lookup(id) = OfProfile(id, appr)
  BY <1>2 DEF Lookup
<1> HIDE DEF appr
<1>4. appr.ok /\ Lookup(id) = appr
  BY <1>1, <1>3 DEF OfProfile
<1>5. QED BY <1>2, <1>4 DEF appr

(* Without a request and an approval nothing is executed.                  *)
LEMMA CommandNeeds ==
  ASSUME NEW req, NEW appr, Command(req, appr) # << >>
  PROVE  req.ok /\ appr.ok
BY DEF Command

(* The origin begins with its host.                                        *)
LEMMA OriginPrefix ==
  ASSUME NEW end, Led(end)
  PROVE  <<"https://">> \o end.host \o <<":">> = Upto(<<"https://">> \o At(end), Len(end.host) + 2)
<1> DEFINE h == end.host
           y == At(end)
           d == Decimal(end.port)
           k == <<"https://">>
           c == <<":">>
           s == k \o h
           t == s \o c
           o == k \o y
           m == Len(h)
<1>1. h \in Seq(Token) /\ m \in Nat /\ y \in Seq(Token) /\ Parted(y, h, ":", d) /\ Len(d) \in Nat
  <2>1. Canonical(h)
    BY DEF Led
  <2>2. Len(y) \in Nat /\ y \in Seq(Token) /\ Parted(y, h, ":", d)
    BY AtFacts DEF Tokens
  <2>3. d \in Seq(Token)
    <3> DEFINE port == end.port
    <3>1. port \in Nat /\ port < 10 * Tens[5]
      BY PortFacts DEF Led
    <3> HIDE DEF port
    <3>2. Decimal(port) \in Seq(Token)
      BY <3>1, DecimalFacts DEF Tokens
    <3>3. QED BY <3>2 DEF port
  <2>4. QED BY <2>1, <2>2, <2>3, CanonicalChars
<1>2. /\ k \in Seq(Token) /\ Len(k) = 1 /\ k[1] = "https://"
      /\ c \in Seq(Token) /\ Len(c) = 1 /\ c[1] = ":"
  BY DEF Token, Other
<1> HIDE DEF h, y, d, k, c, m
<1>3. s \in Seq(Token) /\ Joins(s, k, h)
  BY <1>1, <1>2, Joint
<1>4. o \in Seq(Token) /\ Joins(o, k, y)
  BY <1>1, <1>2, Joint
<1> HIDE DEF s, o
<1>5. t \in Seq(Token) /\ Joins(t, s, c)
  BY <1>2, <1>3, Joint
<1> HIDE DEF t
<1>6. Len(h) = m
  BY DEF m
<1>7. Len(s) = m + 1 /\ s[1] = "https://" /\ \A i \in 1..m : s[i + 1] = h[i]
  <2>1. \A i \in 1..m : s[1 + i] = h[i]
    BY <1>2, <1>3, <1>6 DEF Joins
  <2>2. 1 \in 1..Len(k)
    BY <1>2
  <2>3. QED BY <1>1, <1>2, <1>3, <1>6, <2>1, <2>2 DEF Joins
<1>8. Len(t) = m + 2 /\ t[m + 2] = ":" /\ \A i \in 1..(m + 1) : t[i] = s[i]
  <2>1. 1 \in 1..Len(c)
    BY <1>2
  <2>2. QED BY <1>1, <1>2, <1>5, <1>7, <2>1 DEF Joins
<1>9. Len(y) = m + 1 + Len(d) /\ y[m + 1] = ":" /\ \A i \in 1..m : y[i] = h[i]
  BY <1>1, <1>6 DEF Parted
<1>10. Len(o) = 1 + Len(y) /\ o[1] = "https://" /\ \A i \in 1..Len(y) : o[1 + i] = y[i]
  <2>1. 1 \in 1..Len(k)
    BY <1>2
  <2>2. QED BY <1>2, <1>4, <2>1 DEF Joins
<1> DEFINE u == Upto(o, m + 2)
<1>11. /\ u \in Seq(Token) /\ Len(u) = (IF m + 2 < Len(o) THEN m + 2 ELSE Len(o))
       /\ \A j \in 1..Len(u) : u[j] = o[j]
  BY <1>1, <1>4, UptoFacts
<1> HIDE DEF u
<1>12. Len(u) = m + 2
  BY <1>1, <1>9, <1>10, <1>11
<1>13. \A i \in 1..(m + 2) : t[i] = u[i]
  <2>1. ASSUME NEW i \in 1..(m + 2) PROVE t[i] = u[i]
    <3>1. u[i] = o[i]
      BY <1>11, <1>12
    <3>2. CASE i = 1
      BY <1>1, <1>7, <1>8, <1>10, <3>1, <3>2
    <3>3. CASE i = m + 2
      <4>1. m + 1 \in 1..Len(y)
        BY <1>1, <1>9
      <4>2. o[1 + (m + 1)] = y[m + 1]
        BY <1>10, <4>1
      <4>3. 1 + (m + 1) = m + 2
        BY <1>1
      <4>4. QED BY <1>8, <1>9, <3>1, <3>3, <4>2, <4>3
    <3>4. CASE i \in 2..(m + 1)
      <4>1. PICK j \in 1..m : i = j + 1
        <5>1. i - 1 \in 1..m /\ i = (i - 1) + 1
          BY <1>1, <3>4
        <5>2. QED BY <5>1
      <4>2. j \in 1..Len(y) /\ i = 1 + j /\ i \in 1..(m + 1)
        BY <1>1, <1>9, <4>1
      <4>3. o[i] = y[j]
        BY <1>10, <4>2
      <4>4. t[i] = s[i] /\ s[i] = h[j] /\ y[j] = h[j]
        BY <1>7, <1>8, <1>9, <4>1, <4>2
      <4>5. QED BY <3>1, <4>3, <4>4
    <3>5. QED BY <1>1, <3>2, <3>3, <3>4
  <2>2. QED BY <2>1
<1>14. t = u
  BY <1>5, <1>8, <1>11, <1>12, <1>13, SameText
<1>15. QED BY <1>14 DEF t, s, o, u, h, y, k, c, m

(* What is executed, of whom and on what record.                           *)
RecordFor(p) == ParseApproval(files[CanonProfileId(p.id)])

Executes(p, a, n, appr) ==
  /\ Settings(Tuning(p), n) /\ Agent(p) \in Tokens /\ Accepted(p, a, n)
  /\ CanonProfileId(p.id) \in DOMAIN files /\ appr.ok
  /\ Executed(RequestFromArgv(HelperArgs(p, a))) = BuildArgv(Pinned(p, a, n, appr.fingerprint), appr, RebuiltUrl(ParseUrl(a.url)))

(* What is executed is the command line of the request and of the record.  *)
LEMMA Executing ==
  ASSUME NEW p, NEW a, Worded(p, a), Executed(RequestFromArgv(HelperArgs(p, a))) # << >>
  PROVE  \E n \in Nat : Executes(p, a, n, RecordFor(p))
<1> DEFINE r == RequestFromArgv(HelperArgs(p, a))
           id == CanonProfileId(p.id)
<1>1. PICK n \in Nat : /\ Settings(Tuning(p), n) /\ Agent(p) \in Tokens
                       /\ r.ok <=> Accepted(p, a, n)
                       /\ r.ok => r = RequestMade(p, a, n)
  BY HelperTakes
<1> HIDE DEF r
<1>2. Executed(r) # << >>
  BY DEF r
<1>3. r.ok /\ Command(r, Lookup(r.profile_id)) = Executed(r)
  BY <1>2 DEF Executed
<1>4. r = RequestMade(p, a, n) /\ Accepted(p, a, n)
  BY <1>1, <1>3
<1>5. RequestMade(p, a, n).ok /\ RequestMade(p, a, n).profile_id = id /\ RequestMade(p, a, n).url = ParseUrl(a.url)
  <2> DEFINE fpr == << >>
  <2> HIDE DEF fpr
  <2>1. PinnedGot(p, a, n, fpr)
    BY PinnedIs
  <2>2. QED BY <2>1 DEF PinnedGot
<1>6. r.profile_id = id /\ r.url = ParseUrl(a.url)
  BY <1>4, <1>5
<1> HIDE DEF id
<1>7. Command(r, Lookup(id)) = Executed(r) /\ Command(r, Lookup(id)) # << >>
  BY <1>2, <1>3, <1>6
<1>8. Lookup(id).ok
  BY <1>7, CommandNeeds
<1>9. id \in DOMAIN files /\ Lookup(id) = RecordFor(p) /\ RecordFor(p).ok
  BY <1>8, LookupIs DEF RecordFor, id
<1> DEFINE appr == RecordFor(p)
<1> HIDE DEF appr
<1>10. appr.ok /\ Lookup(id) = appr
  BY <1>9 DEF appr
<1>11. Command(r, appr) = BuildArgv([r EXCEPT !.fingerprint = appr.fingerprint], appr, RebuiltUrl(r.url))
  BY <1>3, <1>10, CommandIs
<1>12. [r EXCEPT !.fingerprint = appr.fingerprint] = Pinned(p, a, n, appr.fingerprint)
  BY <1>4 DEF Pinned
<1>13. Executed(r) = BuildArgv(Pinned(p, a, n, appr.fingerprint), appr, RebuiltUrl(ParseUrl(a.url)))
  BY <1>6, <1>7, <1>10, <1>11, <1>12
<1>14. Executes(p, a, n, appr)
  BY <1>1, <1>4, <1>9, <1>10, <1>13 DEF Executes, id, r
<1>15. QED BY <1>14 DEF appr

(* What the property says of a command line.                               *)
Faithful(command, p, a, appr) ==
  LET given == ParseUrl(a.url)
      url   == ParseUrl(Last(command))
  IN /\ appr.ok
     /\ Values(command, "--servercert") = {appr.fingerprint}
     /\ Values(command, "--protocol") = {p.protocol} /\ appr.protocol = p.protocol
     /\ Values(command, "--proxy") = {appr.proxy} \ {<< >>}
     /\ appr.proxy = << >> <=> <<"--no-proxy">> \in ToSet(command)
     /\ p.proxy = << >> <=> appr.proxy = << >>
     /\ url.origin = appr.origin /\ url.path = given.path /\ url.query = given.query
     /\ \A v \in Values(command, "--resolve") :
          /\ CanonResolve(v) = CanonResolve(a.resolve)
          /\ <<"https://">> \o CanonResolve(v).host \o <<":">> = Upto(appr.origin, Len(CanonResolve(v).host) + 2)
     /\ \A i, j \in DOMAIN Front(command) : ItemName(command[i]) = ItemName(command[j]) => i = j

(* The two lemmas on the command line and its values, in one word each.    *)
BuiltAs(C, I, url) ==
  /\ Last(C) = url /\ ToSet(C) = I \cup {url}
  /\ \A i, j \in DOMAIN Front(C) : ItemName(Front(C)[i]) = ItemName(Front(C)[j]) => i = j
  /\ \A i \in DOMAIN Front(C) : Front(C)[i] = C[i]

(* The options and the URL of an allowed request.                          *)
LEMMA AllowedIsBuiltAs ==
  ASSUME NEW req, NEW appr, NEW url, NEW n, n \in Nat, PolicyAllows(req, appr), Size(url) < UrlMax,
         IsText(req.protocol), IsText(appr.fingerprint), IsText(appr.proxy), IsText(req.useragent),
         req.resolve # NoResolve => IsText(req.resolve.host \o <<":">> \o req.resolve.ip),
         Listed(req.tunables, {req.tunables[i] : i \in 1..n}, Knobs)
  PROVE  BuiltAs(BuildArgv(req, appr, url),
                 Items(req.protocol, appr.fingerprint, appr.proxy, req.resolve # NoResolve,
                       req.resolve.host \o <<":">> \o req.resolve.ip, req.useragent, req.quiet, req.tunables, n), url)
<1> DEFINE C == BuildArgv(req, appr, url)
           I == Items(req.protocol, appr.fingerprint, appr.proxy, req.resolve # NoResolve,
                      req.resolve.host \o <<":">> \o req.resolve.ip, req.useragent, req.quiet, req.tunables, n)
<1>1. /\ C # << >> /\ Last(C) = url /\ ToSet(C) = I \cup {url}
      /\ \A i, j \in DOMAIN Front(C) : ItemName(Front(C)[i]) = ItemName(Front(C)[j]) => i = j
      /\ \A i \in DOMAIN Front(C) : Front(C)[i] = C[i]
  BY AllowedIsBuilt
<1> HIDE DEF C, I
<1>2. BuiltAs(C, I, url)
  BY <1>1 DEF BuiltAs
<1>3. QED BY <1>2 DEF C, I

AllTuned(R, n) == \A i \in 1..n : \E name : Tuned(R[i], name)

ValuesGot(C, protocol, fpr, proxy, b, pair) ==
  /\ Values(C, "--servercert") = {fpr} /\ Values(C, "--protocol") = {protocol}
  /\ Values(C, "--proxy") = {proxy} \ {<< >>}
  /\ \A v \in Values(C, "--resolve") : b /\ v = pair
  /\ <<"--no-proxy">> \in ToSet(C) <=> proxy = << >>

(* The values OpenConnect reads of them.                                   *)
LEMMA ValuesRead ==
  ASSUME NEW protocol, NEW fpr, NEW proxy, NEW b, NEW pair, NEW ua, NEW quiet, NEW R, NEW n, NEW url,
         Texts(protocol, fpr, proxy, b, pair, ua),
         url \in Tokens, url # << >>, url[1] = "https://", AllTuned(R, n),
         NEW C, ToSet(C) = Items(protocol, fpr, proxy, b, pair, ua, quiet, R, n) \cup {url}
  PROVE  ValuesGot(C, protocol, fpr, proxy, b, pair)
BY ValuesAre DEF ValuesGot, AllTuned

(* What the helper executes is what the record approves.                   *)
LEMMA ExecutedIsFaithful ==
  ASSUME NEW p, NEW a, NEW n \in Nat, NEW appr, Worded(p, a), Executes(p, a, n, appr), IsText(appr.fingerprint),
         Executed(RequestFromArgv(HelperArgs(p, a))) # << >>
  PROVE  Faithful(Executed(RequestFromArgv(HelperArgs(p, a))), p, a, appr)
<1> DEFINE C    == Executed(RequestFromArgv(HelperArgs(p, a)))
           req  == Pinned(p, a, n, appr.fingerprint)
           url  == ParseUrl(a.url)
           loc  == RebuiltUrl(url)
           R    == Rendered(Tuning(p), n)
           ua   == Agent(p)
           resolve == a.resolve
           res  == Resolving(resolve)
           pair == req.resolve.host \o <<":">> \o req.resolve.ip
           b    == (req.resolve # NoResolve)
<1>1. /\ p.id \in Tokens /\ p.protocol \in Tokens /\ p.proxy \in Tokens /\ a.url \in Tokens /\ resolve \in Tokens
  BY DEF Worded
<1>2. /\ Settings(Tuning(p), n) /\ ua \in Tokens /\ Accepted(p, a, n) /\ appr.ok
      /\ C = BuildArgv(req, appr, loc) /\ C # << >>
  BY DEF Executes
<1> HIDE DEF C
<1>3. /\ url.ok
      /\ p.proxy # << >> => CanonProxy(p.proxy) # << >>
      /\ \A i \in 1..n : /\ R[i] # << >>
                         /\ \A j \in 1..(i - 1) : Knob(R[j]) # Knob(R[i])
  BY <1>2 DEF Accepted, Accepts
<1>4. /\ req.profile_id = CanonProfileId(p.id) /\ req.protocol = p.protocol /\ req.url = url /\ req.fingerprint = appr.fingerprint
      /\ req.resolve = res /\ req.proxy = Proxying(p.proxy) /\ req.useragent = ua /\ req.quiet = FALSE /\ req.tunables = R
  <2> DEFINE fpr == appr.fingerprint
             w   == Pinned(p, a, n, fpr)
  <2>1. /\ w.profile_id = CanonProfileId(p.id) /\ w.protocol = p.protocol /\ w.url = ParseUrl(a.url)
        /\ w.fingerprint = fpr /\ w.resolve = Resolving(a.resolve) /\ w.proxy = Proxying(p.proxy)
        /\ w.useragent = Agent(p) /\ w.quiet = FALSE /\ w.tunables = Rendered(Tuning(p), n)
    <3> HIDE DEF fpr
    <3>1. PinnedGot(p, a, n, fpr)
      BY PinnedIs
    <3>2. QED BY <3>1 DEF PinnedGot
  <2>2. QED BY <2>1
<1>5. UrlShaped(url)
  <2> DEFINE in == a.url
  <2>1. in \in Tokens /\ ParseUrl(in).ok
    BY <1>1, <1>3
  <2> HIDE DEF in
  <2>2. UrlShaped(ParseUrl(in))
    BY <2>1, UrlFacts
  <2>3. QED BY <2>2 DEF in
<1> HIDE DEF url
<1>6. loc \in Tokens /\ loc # << >> /\ loc[1] = "https://" /\ (Size(loc) < UrlMax => ParseUrl(loc) = url)
  BY <1>5, Rebuilt
<1> HIDE DEF loc, req
<1>7. PolicyAllows(req, appr) /\ Size(loc) < UrlMax
  BY <1>2, PolicyBuilt
<1>8. /\ appr.protocol = p.protocol /\ appr.origin = url.origin /\ appr.proxy = Proxying(p.proxy)
      /\ b => res.host = OriginHost(appr.origin)
  BY <1>4, <1>7 DEF PolicyAllows
<1>9. IsText(appr.proxy) /\ (appr.proxy = << >> <=> p.proxy = << >>)
  <2> DEFINE proxy == p.proxy
  <2>1. proxy \in Tokens /\ (proxy # << >> => CanonProxy(proxy) # << >>)
    BY <1>1, <1>3
  <2> HIDE DEF proxy
  <2>2. IsText(Proxying(proxy)) /\ (Proxying(proxy) = << >> <=> proxy = << >>)
    BY <2>1, ProxyingIsText
  <2>3. QED BY <1>8, <2>2 DEF proxy
<1>10. b => IsText(pair) /\ CanonResolve(pair) = CanonResolve(resolve) /\ CanonResolve(pair).host = res.host
  <2> SUFFICES ASSUME req.resolve # NoResolve
      PROVE  IsText(pair) /\ CanonResolve(pair) = CanonResolve(resolve) /\ CanonResolve(pair).host = res.host
    OBVIOUS
  <2>1. res # NoResolve /\ pair = res.host \o <<":">> \o res.ip
    BY <1>4
  <2>2. Resolved(res) /\ res = CanonResolve(resolve) /\ IsText(res.host \o <<":">> \o res.ip)
    BY <1>1, <2>1, ResolvingIsText
  <2> HIDE DEF pair, res
  <2>3. CanonResolve(pair) = res
    BY <2>1, <2>2, ResolveBack
  <2>4. QED BY <2>1, <2>2, <2>3
<1>11. IsText(p.protocol) /\ IsText(ua)
  BY <1>1, <1>2, TokensAreText
<1> HIDE DEF R
<1>12. \A i, j \in 1..n : Knob(R[i]) = Knob(R[j]) => i = j
  <2> SUFFICES ASSUME NEW i \in 1..n, NEW j \in 1..n, Knob(R[i]) = Knob(R[j]) PROVE i = j
    OBVIOUS
  <2>1. CASE i < j
    <3>1. i \in 1..(j - 1)
      BY <2>1
    <3>2. QED BY <1>3, <3>1
  <2>2. CASE j < i
    <3>1. j \in 1..(i - 1)
      BY <2>2
    <3>2. QED BY <1>3, <3>1
  <2>3. QED BY <2>1, <2>2
<1>13. Listed(R, {R[i] : i \in 1..n}, Knobs)
  BY <1>2, <1>3, <1>12, RenderedIsList DEF R
<1>14. AllTuned(R, n)
  <2> SUFFICES ASSUME NEW i \in 1..n PROVE \E name : Tuned(R[i], name)
    BY DEF AllTuned
  <2> DEFINE T == Tuning(p)
  <2>1. R[i] = RenderTunable(T[2 * i]) /\ RenderTunable(T[2 * i]) # << >>
    BY <1>3 DEF R, Rendered
  <2>2. T[2 * i] \in Tokens
    <3> HIDE DEF T
    <3>1. T \in Seq(Tokens) /\ Len(T) = 2 * n
      BY <1>2 DEF Settings, T
    <3>2. QED BY <3>1
  <2> HIDE DEF T
  <2>3. QED BY <2>1, <2>2, TunableIs
<1> DEFINE I == Items(req.protocol, appr.fingerprint, appr.proxy, b, pair, req.useragent, req.quiet, req.tunables, n)
<1>15. /\ Last(C) = loc /\ ToSet(C) = I \cup {loc}
       /\ \A i, j \in DOMAIN Front(C) : ItemName(Front(C)[i]) = ItemName(Front(C)[j]) => i = j
       /\ \A i \in DOMAIN Front(C) : Front(C)[i] = C[i]
  <2> DEFINE D == BuildArgv(req, appr, loc)
  <2>1. IsText(req.protocol) /\ IsText(req.useragent) /\ Listed(req.tunables, {req.tunables[i] : i \in 1..n}, Knobs)
    BY <1>4, <1>11, <1>13
  <2>2. req.resolve # NoResolve => IsText(req.resolve.host \o <<":">> \o req.resolve.ip)
    BY <1>10
  <2>3. BuiltAs(D, I, loc)
    BY <1>2, <1>7, <1>9, <2>1, <2>2, AllowedIsBuiltAs
  <2>4. C = D
    BY <1>2
  <2> HIDE DEF D, I
  <2>5. QED BY <2>3, <2>4 DEF BuiltAs
<1> HIDE DEF pair, b, I
<1>16. /\ Values(C, "--servercert") = {appr.fingerprint} /\ Values(C, "--protocol") = {p.protocol}
       /\ Values(C, "--proxy") = {appr.proxy} \ {<< >>}
       /\ \A v \in Values(C, "--resolve") : b /\ v = pair
       /\ <<"--no-proxy">> \in ToSet(C) <=> appr.proxy = << >>
  <2> DEFINE protocol == p.protocol
             fpr == appr.fingerprint
             proxy == appr.proxy
             quiet == FALSE
             J == Items(protocol, fpr, proxy, b, pair, ua, quiet, R, n)
  <2>1. ToSet(C) = J \cup {loc}
    BY <1>4, <1>15 DEF I
  <2>2. Texts(protocol, fpr, proxy, b, pair, ua)
    BY <1>9, <1>10, <1>11 DEF Texts
  <2> HIDE DEF protocol, fpr, proxy, quiet, ua
  <2> HIDE DEF C
  <2>3. ValuesGot(C, protocol, fpr, proxy, b, pair)
    BY <1>6, <1>14, <2>1, <2>2, ValuesRead
  <2>4. QED BY <2>3 DEF ValuesGot, fpr, protocol, proxy
<1>17. ParseUrl(Last(C)) = url
  BY <1>6, <1>7, <1>15
<1>18. ASSUME NEW v \in Values(C, "--resolve")
       PROVE  /\ CanonResolve(v) = CanonResolve(resolve)
              /\ <<"https://">> \o CanonResolve(v).host \o <<":">> = Upto(appr.origin, Len(CanonResolve(v).host) + 2)
  <2>1. b /\ v = pair
    BY <1>16
  <2>2. PICK end : Led(end) /\ OriginHost(url.origin) = end.host /\ url.origin = <<"https://">> \o At(end)
    BY <1>5, Shape
  <2>3. CanonResolve(v) = CanonResolve(resolve) /\ CanonResolve(v).host = end.host
    BY <1>8, <1>10, <2>1, <2>2
  <2>4. QED BY <1>8, <2>2, <2>3, OriginPrefix
<1>19. \A i, j \in DOMAIN Front(C) : ItemName(C[i]) = ItemName(C[j]) => i = j
  BY <1>15
<1>20. Faithful(C, p, a, appr)
  BY <1>2, <1>8, <1>9, <1>16, <1>17, <1>18, <1>19 DEF Faithful, url
<1>21. QED BY <1>20 DEF C

(* Whatever is executed is what was approved, in every reachable state.    *)
THEOREM CommandIsApprovedHolds == Spec => []CommandIsApproved
<1>1. ASSUME Answered, RecordsReadBack PROVE CommandIsApproved
  <2> SUFFICES ASSUME last.cmd = "connect", last.command # << >> PROVE CommandIsApproved
    BY DEF CommandIsApproved
  <2> DEFINE p == last.profile
             a == last.auth
             C == last.command
             appr == RecordFor(p)
  <2>1. Worded(p, a)
    BY <1>1, AnsweredIsWorded
  <2>2. C = Executed(RequestFromArgv(HelperArgs(p, a)))
    BY <1>1 DEF Answered
  <2>3. C # << >>
    OBVIOUS
  <2> HIDE DEF p, a, C
  <2>4. PICK n \in Nat : Executes(p, a, n, appr)
    BY <2>1, <2>2, <2>3, Executing
  <2>5. appr.fingerprint = FieldOf(files[CanonProfileId(p.id)], "fingerprint") /\ CanonProfileId(p.id) \in DOMAIN files
    <3> DEFINE lines == files[CanonProfileId(p.id)]
    <3>1. ParseApproval(lines).ok /\ CanonProfileId(p.id) \in DOMAIN files /\ appr = ParseApproval(lines)
      BY <2>4 DEF Executes, RecordFor
    <3> HIDE DEF lines, appr
    <3>2. appr.fingerprint = FieldOf(lines, "fingerprint")
      BY <3>1, ParsedIs
    <3>3. QED BY <3>1, <3>2 DEF lines
  <2> HIDE DEF appr
  <2>6. IsText(appr.fingerprint)
    BY <1>1, <2>5 DEF RecordsReadBack
  <2>7. Faithful(C, p, a, appr)
    BY <2>1, <2>2, <2>3, <2>4, <2>6, ExecutedIsFaithful
  <2>8. QED BY <2>7 DEF CommandIsApproved, Faithful, ItemName, RecordFor, p, a, C, appr
<1>2. QED BY <1>1, AnsweredHolds, RecordsReadBackHolds, PTL

-----------------------------------------------------------------------------
(* The canonical form of a profile id is taken as it is.                   *)

-----------------------------------------------------------------------------
(* What approve makes of its arguments is what it reads back.              *)

(* The profile id with its dashes, and without them.                       *)
Dashed(l)   == SubSeq(l, 1, 8) \o <<"-">> \o SubSeq(l, 9, 12) \o <<"-">> \o SubSeq(l, 13, 16) \o <<"-">>
               \o SubSeq(l, 17, 20) \o <<"-">> \o SubSeq(l, 21, 32)
Undashed(t) == SubSeq(t, 1, 8) \o SubSeq(t, 10, 13) \o SubSeq(t, 15, 18) \o SubSeq(t, 20, 23) \o From(t, 25)
Dashes(t)   == {i \in DOMAIN t : t[i] = "-"}

(* z is y and then the tokens of l from place a to place b.                *)
Grows(z, y, l, a, b) ==
  /\ Len(z) = Len(y) + (b - a + 1)
  /\ \A i \in 1..Len(y) : z[i] = y[i]
  /\ \A i \in Len(y) + 1..Len(z) : z[i] = l[i - Len(y) + (a - 1)]

(* A text grows by a part of another one.                                  *)
LEMMA PartAdded ==
  ASSUME NEW S, NEW y \in Seq(S), NEW l \in Seq(S), NEW a \in Nat \ {0}, NEW b \in Nat, a <= b, b <= Len(l)
  PROVE  y \o SubSeq(l, a, b) \in Seq(S) /\ Grows(y \o SubSeq(l, a, b), y, l, a, b)
<1> DEFINE p == SubSeq(l, a, b)
           z == y \o p
<1>1. p \in Seq(S) /\ Len(p) = b - a + 1 /\ \A i \in 1..Len(p) : p[i] = l[i + (a - 1)]
  <2>1. Len(p) = b - a + 1 /\ \A i \in 1..b - a + 1 : p[i] = l[a + i - 1]
    OBVIOUS
  <2>2. \A i \in 1..b - a + 1 : a + i - 1 = i + (a - 1) /\ a + i - 1 \in 1..Len(l)
    OBVIOUS
  <2>3. p \in Seq(S)
    OBVIOUS
  <2>4. QED BY <2>1, <2>2, <2>3
<1> HIDE DEF p
<1>2. z \in Seq(S) /\ Joins(z, y, p)
  BY <1>1, Joint
<1>3. Len(y) \in Nat
  OBVIOUS
<1> HIDE DEF z
<1>4. ASSUME NEW i \in Len(y) + 1..Len(z) PROVE z[i] = l[i - Len(y) + (a - 1)]
  <2>1. i - Len(y) \in 1..Len(p) /\ i = Len(y) + (i - Len(y))
    BY <1>1, <1>2, <1>3 DEF Joins
  <2>2. z[Len(y) + (i - Len(y))] = p[i - Len(y)]
    BY <1>2, <2>1 DEF Joins
  <2>3. QED BY <1>1, <2>1, <2>2
<1>5. Len(z) = Len(y) + (b - a + 1) /\ \A i \in 1..Len(y) : z[i] = y[i]
  BY <1>1, <1>2 DEF Joins
<1>6. QED BY <1>2, <1>4, <1>5 DEF Grows, z, p

(* A text grows by a token.                                                *)
LEMMA TokenAdded ==
  ASSUME NEW S, NEW y \in Seq(S), NEW c \in S
  PROVE  /\ y \o <<c>> \in Seq(S) /\ Len(y \o <<c>>) = Len(y) + 1 /\ (y \o <<c>>)[Len(y) + 1] = c
         /\ \A i \in 1..Len(y) : (y \o <<c>>)[i] = y[i]
<1> DEFINE d == <<c>>
<1>1. d \in Seq(S) /\ Len(d) = 1 /\ d[1] = c
  OBVIOUS
<1> HIDE DEF d
<1>2. y \o d \in Seq(S) /\ Joins(y \o d, y, d)
  BY <1>1, Joint
<1>3. Len(y) \in Nat /\ 1 \in 1..Len(d)
  BY <1>1
<1>4. QED BY <1>1, <1>2, <1>3 DEF Joins, d

(* y is the first n places of w.                                           *)
Begins(y, w, n) == Len(y) = n /\ \A i \in 1..n : y[i] = w[i]

(* The places of w from n + 1 to m are those of l from a on.               *)
Continues(w, l, n, a, m) == \A i \in n + 1..m : w[i] = l[i - n + (a - 1)]

(* The first places of w are a part of l.                                  *)
LEMMA BeginsFirst ==
  ASSUME NEW S, NEW l \in Seq(S), NEW b \in Nat, b <= Len(l), NEW w, \A i \in 1..b : w[i] = l[i]
  PROVE  SubSeq(l, 1, b) \in Seq(S) /\ Begins(SubSeq(l, 1, b), w, b)
<1>1. SubSeq(l, 1, b) \in Seq(S) /\ Len(SubSeq(l, 1, b)) = b /\ \A i \in 1..b : SubSeq(l, 1, b)[i] = l[i]
  OBVIOUS
<1>2. QED BY <1>1 DEF Begins

(* The next places of w are a part of l.                                   *)
LEMMA BeginsPart ==
  ASSUME NEW S, NEW y \in Seq(S), NEW w, NEW n \in Nat, Begins(y, w, n),
         NEW l \in Seq(S), NEW a \in Nat \ {0}, NEW b \in Nat, a <= b, b <= Len(l),
         NEW m \in Nat, m = n + (b - a + 1), Continues(w, l, n, a, m)
  PROVE  y \o SubSeq(l, a, b) \in Seq(S) /\ Begins(y \o SubSeq(l, a, b), w, m)
<1> DEFINE z == y \o SubSeq(l, a, b)
<1>1. z \in Seq(S) /\ Grows(z, y, l, a, b)
  BY PartAdded
<1> HIDE DEF z
<1>2. Len(y) = n /\ Len(z) = m
  BY <1>1 DEF Grows, Begins
<1>3. ASSUME NEW i \in 1..m PROVE z[i] = w[i]
  <2>1. CASE i \in 1..n
    BY <1>1, <1>2, <2>1 DEF Grows, Begins
  <2>2. CASE i \in n + 1..m
    BY <1>1, <1>2, <2>2 DEF Grows, Continues
  <2>3. QED BY <2>1, <2>2
<1>4. QED BY <1>1, <1>2, <1>3 DEF Begins, z

(* The next place of w is c.                                               *)
LEMMA BeginsToken ==
  ASSUME NEW S, NEW y \in Seq(S), NEW w, NEW n \in Nat, Begins(y, w, n),
         NEW c \in S, NEW m \in Nat, m = n + 1, w[m] = c
  PROVE  y \o <<c>> \in Seq(S) /\ Begins(y \o <<c>>, w, m)
<1> DEFINE z == y \o <<c>>
<1>1. z \in Seq(S) /\ Len(z) = Len(y) + 1 /\ z[Len(y) + 1] = c /\ \A i \in 1..Len(y) : z[i] = y[i]
  BY TokenAdded
<1> HIDE DEF z
<1>2. ASSUME NEW i \in 1..m PROVE z[i] = w[i]
  <2>1. CASE i \in 1..n
    BY <1>1, <2>1 DEF Begins
  <2>2. CASE i = m
    BY <1>1, <2>2 DEF Begins
  <2>3. QED BY <2>1, <2>2
<1>3. QED BY <1>1, <1>2 DEF Begins, z

(* The character or dash at each of the 36 places.                         *)
DashPlaces  == {9, 14, 19, 24}
Skipped(i)  == IF i < 9 THEN 0 ELSE IF i < 14 THEN 1 ELSE IF i < 19 THEN 2 ELSE IF i < 24 THEN 3 ELSE 4
DashedAs(l) == [i \in 1..36 |-> IF i \in DashPlaces THEN "-" ELSE l[i - Skipped(i)]]

(* Between two dashes the places follow one another.                       *)
LEMMA DashedAt ==
  ASSUME NEW l, NEW w, w = DashedAs(l)
  PROVE  /\ w[9] = "-" /\ w[14] = "-" /\ w[19] = "-" /\ w[24] = "-"
         /\ \A i \in 1..8 : w[i] = l[i]
         /\ \A i \in 10..13 : w[i] = l[i - 1]
         /\ \A i \in 15..18 : w[i] = l[i - 2]
         /\ \A i \in 20..23 : w[i] = l[i - 3]
         /\ \A i \in 25..36 : w[i] = l[i - 4]
<1>1. w[9] = "-" /\ w[14] = "-" /\ w[19] = "-" /\ w[24] = "-"
  BY DEF DashedAs, DashPlaces
<1>2. ASSUME NEW i \in 1..8 PROVE w[i] = l[i]
  <2>1. i - Skipped(i) = i /\ i \notin DashPlaces /\ i \in 1..36
    BY DEF Skipped, DashPlaces
  <2>2. QED BY <2>1 DEF DashedAs
<1>3. ASSUME NEW i \in 10..13 PROVE w[i] = l[i - 1]
  <2>1. i - Skipped(i) = i - 1 /\ i \notin DashPlaces /\ i \in 1..36
    BY DEF Skipped, DashPlaces
  <2>2. QED BY <2>1 DEF DashedAs
<1>4. ASSUME NEW i \in 15..18 PROVE w[i] = l[i - 2]
  <2>1. i - Skipped(i) = i - 2 /\ i \notin DashPlaces /\ i \in 1..36
    BY DEF Skipped, DashPlaces
  <2>2. QED BY <2>1 DEF DashedAs
<1>5. ASSUME NEW i \in 20..23 PROVE w[i] = l[i - 3]
  <2>1. i - Skipped(i) = i - 3 /\ i \notin DashPlaces /\ i \in 1..36
    BY DEF Skipped, DashPlaces
  <2>2. QED BY <2>1 DEF DashedAs
<1>6. ASSUME NEW i \in 25..36 PROVE w[i] = l[i - 4]
  <2>1. i - Skipped(i) = i - 4 /\ i \notin DashPlaces /\ i \in 1..36
    BY DEF Skipped, DashPlaces
  <2>2. QED BY <2>1 DEF DashedAs
<1>7. QED BY <1>1, <1>2, <1>3, <1>4, <1>5, <1>6

(* Dashes go where they belong.                                            *)
LEMMA DashedIs ==
  ASSUME NEW l \in Tokens, Len(l) = 32
  PROVE  Dashed(l) \in Tokens /\ Begins(Dashed(l), DashedAs(l), 36)
<1> DEFINE w  == DashedAs(l)
           y1 == SubSeq(l, 1, 8)
           y2 == y1 \o <<"-">>
           y3 == y2 \o SubSeq(l, 9, 12)
           y4 == y3 \o <<"-">>
           y5 == y4 \o SubSeq(l, 13, 16)
           y6 == y5 \o <<"-">>
           y7 == y6 \o SubSeq(l, 17, 20)
           y8 == y7 \o <<"-">>
           y9 == y8 \o SubSeq(l, 21, 32)
<1>0. l \in Seq(Token) /\ "-" \in Token
  BY DEF Tokens, Token, Other
<1>w. w[9] = "-" /\ w[14] = "-" /\ w[19] = "-" /\ w[24] = "-"
  BY DashedAt
<1>a. \A i \in 1..8 : w[i] = l[i]
  BY DashedAt
<1>b. \A i \in 10..13 : w[i] = l[i - 1]
  BY DashedAt
<1>c. \A i \in 15..18 : w[i] = l[i - 2]
  BY DashedAt
<1>d. \A i \in 20..23 : w[i] = l[i - 3]
  BY DashedAt
<1>e. \A i \in 25..36 : w[i] = l[i - 4]
  BY DashedAt
<1> HIDE DEF w
<1>1. y1 \in Seq(Token) /\ Begins(y1, w, 8)
  <2>1. 8 \in Nat /\ 8 <= Len(l)
    OBVIOUS
  <2>2. QED BY <1>0, <1>a, <2>1, BeginsFirst
<1> HIDE DEF y1
<1>2. y2 \in Seq(Token) /\ Begins(y2, w, 9)
  BY <1>0, <1>1, <1>w, BeginsToken
<1> HIDE DEF y2
<1>3. y3 \in Seq(Token) /\ Begins(y3, w, 13)
  <2>1. ASSUME NEW i \in 9 + 1..13 PROVE w[i] = l[i - 9 + (9 - 1)]
    <3>1. i \in 10..13 /\ i - 9 + (9 - 1) = i - 1
      OBVIOUS
    <3>2. QED BY <1>b, <3>1
  <2>2. Continues(w, l, 9, 9, 13)
    BY <2>1 DEF Continues
  <2>3. 9 \in Nat /\ 9 \in Nat \ {0} /\ 12 \in Nat /\ 13 \in Nat /\ 9 <= 12 /\ 12 <= Len(l) /\ 13 = 9 + (12 - 9 + 1)
    OBVIOUS
  <2>4. QED BY <1>0, <1>2, <2>2, <2>3, BeginsPart
<1> HIDE DEF y3
<1>4. y4 \in Seq(Token) /\ Begins(y4, w, 14)
  BY <1>0, <1>3, <1>w, BeginsToken
<1> HIDE DEF y4
<1>5. y5 \in Seq(Token) /\ Begins(y5, w, 18)
  <2>1. ASSUME NEW i \in 14 + 1..18 PROVE w[i] = l[i - 14 + (13 - 1)]
    <3>1. i \in 15..18 /\ i - 14 + (13 - 1) = i - 2
      OBVIOUS
    <3>2. QED BY <1>c, <3>1
  <2>2. Continues(w, l, 14, 13, 18)
    BY <2>1 DEF Continues
  <2>3. 14 \in Nat /\ 13 \in Nat \ {0} /\ 16 \in Nat /\ 18 \in Nat /\ 13 <= 16 /\ 16 <= Len(l) /\ 18 = 14 + (16 - 13 + 1)
    OBVIOUS
  <2>4. QED BY <1>0, <1>4, <2>2, <2>3, BeginsPart
<1> HIDE DEF y5
<1>6. y6 \in Seq(Token) /\ Begins(y6, w, 19)
  BY <1>0, <1>5, <1>w, BeginsToken
<1> HIDE DEF y6
<1>7. y7 \in Seq(Token) /\ Begins(y7, w, 23)
  <2>1. ASSUME NEW i \in 19 + 1..23 PROVE w[i] = l[i - 19 + (17 - 1)]
    <3>1. i \in 20..23 /\ i - 19 + (17 - 1) = i - 3
      OBVIOUS
    <3>2. QED BY <1>d, <3>1
  <2>2. Continues(w, l, 19, 17, 23)
    BY <2>1 DEF Continues
  <2>3. 19 \in Nat /\ 17 \in Nat \ {0} /\ 20 \in Nat /\ 23 \in Nat /\ 17 <= 20 /\ 20 <= Len(l) /\ 23 = 19 + (20 - 17 + 1)
    OBVIOUS
  <2>4. QED BY <1>0, <1>6, <2>2, <2>3, BeginsPart
<1> HIDE DEF y7
<1>8. y8 \in Seq(Token) /\ Begins(y8, w, 24)
  BY <1>0, <1>7, <1>w, BeginsToken
<1> HIDE DEF y8
<1>9. y9 \in Seq(Token) /\ Begins(y9, w, 36)
  <2>1. ASSUME NEW i \in 24 + 1..36 PROVE w[i] = l[i - 24 + (21 - 1)]
    <3>1. i \in 25..36 /\ i - 24 + (21 - 1) = i - 4
      OBVIOUS
    <3>2. QED BY <1>e, <3>1
  <2>2. Continues(w, l, 24, 21, 36)
    BY <2>1 DEF Continues
  <2>3. 24 \in Nat /\ 21 \in Nat \ {0} /\ 32 \in Nat /\ 36 \in Nat /\ 21 <= 32 /\ 32 <= Len(l) /\ 36 = 24 + (32 - 21 + 1)
    OBVIOUS
  <2>4. QED BY <1>0, <1>8, <2>2, <2>3, BeginsPart
<1>10. QED BY <1>9 DEF Dashed, w, y1, y2, y3, y4, y5, y6, y7, y8, Tokens

(* Without the dashes the text is there again.                             *)
LEMMA UndashedIs ==
  ASSUME NEW l \in Tokens, Len(l) = 32, NEW t \in Tokens, Begins(t, DashedAs(l), 36)
  PROVE  Undashed(t) = l
<1> DEFINE w  == DashedAs(l)
           y1 == SubSeq(t, 1, 8)
           y2 == y1 \o SubSeq(t, 10, 13)
           y3 == y2 \o SubSeq(t, 15, 18)
           y4 == y3 \o SubSeq(t, 20, 23)
           y5 == y4 \o SubSeq(t, 25, 36)
<1>a. \A i \in 1..8 : w[i] = l[i]
  BY DashedAt
<1>b. \A i \in 10..13 : w[i] = l[i - 1]
  BY DashedAt
<1>c. \A i \in 15..18 : w[i] = l[i - 2]
  BY DashedAt
<1>d. \A i \in 20..23 : w[i] = l[i - 3]
  BY DashedAt
<1>e. \A i \in 25..36 : w[i] = l[i - 4]
  BY DashedAt
<1>t. t \in Seq(Token) /\ l \in Seq(Token) /\ Len(t) = 36
  BY DEF Begins, Tokens
<1>s. \A i \in 1..36 : t[i] = w[i]
  BY DEF Begins
<1>6. Undashed(t) = y5
  BY <1>t DEF Undashed, From
<1> HIDE DEF w
<1>1. y1 \in Seq(Token) /\ Begins(y1, l, 8)
  <2>1. ASSUME NEW i \in 1..8 PROVE l[i] = t[i]
    <3>1. i \in 1..36
      OBVIOUS
    <3>2. t[i] = w[i]
      BY <1>s, <3>1
    <3>3. w[i] = l[i]
      BY <1>a
    <3>4. QED BY <3>2, <3>3
  <2>2. 8 \in Nat /\ 8 <= Len(t)
    BY <1>t
  <2>3. QED BY <1>t, <2>1, <2>2, BeginsFirst
<1> HIDE DEF y1
<1>2. y2 \in Seq(Token) /\ Begins(y2, l, 12)
  <2>1. ASSUME NEW i \in 8 + 1..12 PROVE l[i] = t[i - 8 + (10 - 1)]
    <3> DEFINE k == i - 8 + (10 - 1)
    <3>1. k \in 10..13 /\ k \in 1..36 /\ k - 1 = i
      OBVIOUS
    <3> HIDE DEF k
    <3>2. t[k] = w[k]
      BY <1>s, <3>1
    <3>3. w[k] = l[k - 1]
      BY <1>b, <3>1
    <3>4. t[k] = l[i]
      BY <3>1, <3>2, <3>3
    <3>5. QED BY <3>4 DEF k
  <2>2. Continues(l, t, 8, 10, 12)
    BY <2>1 DEF Continues
  <2>3. 8 \in Nat /\ 10 \in Nat \ {0} /\ 13 \in Nat /\ 12 \in Nat /\ 10 <= 13 /\ 13 <= Len(t) /\ 12 = 8 + (13 - 10 + 1)
    BY <1>t
  <2>4. QED BY <1>t, <1>1, <2>2, <2>3, BeginsPart
<1> HIDE DEF y2
<1>3. y3 \in Seq(Token) /\ Begins(y3, l, 16)
  <2>1. ASSUME NEW i \in 12 + 1..16 PROVE l[i] = t[i - 12 + (15 - 1)]
    <3> DEFINE k == i - 12 + (15 - 1)
    <3>1. k \in 15..18 /\ k \in 1..36 /\ k - 2 = i
      OBVIOUS
    <3> HIDE DEF k
    <3>2. t[k] = w[k]
      BY <1>s, <3>1
    <3>3. w[k] = l[k - 2]
      BY <1>c, <3>1
    <3>4. t[k] = l[i]
      BY <3>1, <3>2, <3>3
    <3>5. QED BY <3>4 DEF k
  <2>2. Continues(l, t, 12, 15, 16)
    BY <2>1 DEF Continues
  <2>3. 12 \in Nat /\ 15 \in Nat \ {0} /\ 18 \in Nat /\ 16 \in Nat /\ 15 <= 18 /\ 18 <= Len(t) /\ 16 = 12 + (18 - 15 + 1)
    BY <1>t
  <2>4. QED BY <1>t, <1>2, <2>2, <2>3, BeginsPart
<1> HIDE DEF y3
<1>4. y4 \in Seq(Token) /\ Begins(y4, l, 20)
  <2>1. ASSUME NEW i \in 16 + 1..20 PROVE l[i] = t[i - 16 + (20 - 1)]
    <3> DEFINE k == i - 16 + (20 - 1)
    <3>1. k \in 20..23 /\ k \in 1..36 /\ k - 3 = i
      OBVIOUS
    <3> HIDE DEF k
    <3>2. t[k] = w[k]
      BY <1>s, <3>1
    <3>3. w[k] = l[k - 3]
      BY <1>d, <3>1
    <3>4. t[k] = l[i]
      BY <3>1, <3>2, <3>3
    <3>5. QED BY <3>4 DEF k
  <2>2. Continues(l, t, 16, 20, 20)
    BY <2>1 DEF Continues
  <2>3. 16 \in Nat /\ 20 \in Nat \ {0} /\ 23 \in Nat /\ 20 \in Nat /\ 20 <= 23 /\ 23 <= Len(t) /\ 20 = 16 + (23 - 20 + 1)
    BY <1>t
  <2>4. QED BY <1>t, <1>3, <2>2, <2>3, BeginsPart
<1> HIDE DEF y4
<1>5. y5 \in Seq(Token) /\ Begins(y5, l, 32)
  <2>1. ASSUME NEW i \in 20 + 1..32 PROVE l[i] = t[i - 20 + (25 - 1)]
    <3> DEFINE k == i - 20 + (25 - 1)
    <3>1. k \in 25..36 /\ k \in 1..36 /\ k - 4 = i
      OBVIOUS
    <3> HIDE DEF k
    <3>2. t[k] = w[k]
      BY <1>s, <3>1
    <3>3. w[k] = l[k - 4]
      BY <1>e, <3>1
    <3>4. t[k] = l[i]
      BY <3>1, <3>2, <3>3
    <3>5. QED BY <3>4 DEF k
  <2>2. Continues(l, t, 20, 25, 32)
    BY <2>1 DEF Continues
  <2>3. 20 \in Nat /\ 25 \in Nat \ {0} /\ 36 \in Nat /\ 32 \in Nat /\ 25 <= 36 /\ 36 <= Len(t) /\ 32 = 20 + (36 - 25 + 1)
    BY <1>t
  <2>4. QED BY <1>t, <1>4, <2>2, <2>3, BeginsPart
<1> HIDE DEF y5
<1>7. y5 = l
  <2>1. Len(y5) = Len(l) /\ \A i \in 1..Len(y5) : y5[i] = l[i]
    BY <1>5 DEF Begins
  <2>2. QED BY <1>t, <1>5, <2>1, SameText
<1>8. QED BY <1>6, <1>7

(* Thirty-two lower-case hex digits.                                       *)
HexId(l) == l \in Tokens /\ Len(l) = 32 /\ (\A i \in 1..32 : l[i] \in Hex) /\ Lowered(l) = l

(* No hex digit is a dash, and none is a control character.                *)
LEMMA HexFacts ==
  /\ "-" \notin Hex /\ "ctl" \notin Hex /\ Hex \subseteq Token
  /\ \A c \in Hex : Width(c) = 1
<1>1. Digits = Among(52..61) /\ Hex = Among(52..61) \cup Among(26..31) \cup Among(0..5)
  BY DEF Hex, LowerHex, Digits
<1>2. \A c \in Hex : \E v \in 0..63 : c = Letter(v)
  <2>1. 52..61 \subseteq 0..63 /\ 26..31 \subseteq 0..63 /\ 0..5 \subseteq 0..63
    OBVIOUS
  <2>2. QED BY <1>1, <2>1 DEF Among
<1>3. \A v \in 0..63 : Letter(v) \in Token /\ Letter(v) \notin Other
  BY LetterFacts
<1>4. "-" \in Other /\ "ctl" \in Other
  BY DEF Other
<1>5. \A c \in Hex : c \notin Other /\ c \in Token
  BY <1>2, <1>3
<1>6. \A c \in Hex : Width(c) = 1
  <2>1. \A c \in Hex : c # "path" /\ c # "ua128"
    <3>1. \A v \in 0..63 : v + 1 \in 1..64
      OBVIOUS
    <3>2. QED BY <1>2, <3>1, LongTokens DEF Letter
  <2>2. QED BY <1>5, <2>1 DEF Width, Other
<1>7. QED BY <1>4, <1>5, <1>6

(* An id that is taken is 32 hex digits with dashes.                       *)
LEMMA ProfileIdIs ==
  ASSUME NEW in \in Tokens, CanonProfileId(in) # << >>
  PROVE  \E l : HexId(l) /\ CanonProfileId(in) = Dashed(l)
<1> DEFINE hex == IF Dashes(in) = {} THEN in ELSE Undashed(in)
           good == Len(hex) = 32 /\ ToSet(hex) \subseteq Hex /\ Dashes(in) \in {{}, {9, 14, 19, 24}}
<1>1. CanonProfileId(in) = IF good THEN Dashed(Lowered(hex)) ELSE << >>
  BY DEF CanonProfileId, Dashed, Undashed, Dashes, Refused
<1>2. good
  <2> HIDE DEF good
  <2>1. QED BY <1>1
<1>3. hex \in Tokens
  <2>1. CASE Dashes(in) = {}
    BY <2>1
  <2>2. CASE Dashes(in) # {}
    <3>1. 24 \in DOMAIN in
      BY <1>2, <2>2 DEF Dashes
    <3>2. in \in Seq(Token) /\ Len(in) \in Nat /\ Len(in) >= 24
      BY <3>1 DEF Tokens
    <3>3. From(in, 25) \in Seq(Token)
      BY <3>2, FromFacts
    <3>4. /\ SubSeq(in, 1, 8) \in Seq(Token) /\ SubSeq(in, 10, 13) \in Seq(Token)
          /\ SubSeq(in, 15, 18) \in Seq(Token) /\ SubSeq(in, 20, 23) \in Seq(Token)
      BY <3>2
    <3> DEFINE a == SubSeq(in, 1, 8)
               b == SubSeq(in, 10, 13)
               c == SubSeq(in, 15, 18)
               d == SubSeq(in, 20, 23)
               e == From(in, 25)
    <3> HIDE DEF a, b, c, d, e
    <3>5. a \o b \o c \o d \o e \in Seq(Token)
      BY <3>3, <3>4 DEF a, b, c, d, e
    <3>6. QED BY <2>2, <3>5 DEF Tokens, Undashed, a, b, c, d, e
  <2>3. QED BY <2>1, <2>2
<1> DEFINE l == Lowered(hex)
<1> HIDE DEF hex
<1>4. \A i \in 1..32 : hex[i] \in Hex
  <2>1. ToSet(hex) \subseteq Hex /\ hex \in Seq(Token) /\ Len(hex) = 32
    BY <1>2, <1>3 DEF Tokens
  <2>2. QED BY <2>1, ToSetFacts
<1>5. l \in Tokens /\ Len(l) = 32 /\ Lowered(l) = l /\ \A i \in 1..32 : l[i] = Low(hex[i]) /\ hex[i] \in Token
  BY <1>2, <1>3, LoweredFacts
<1> HIDE DEF l
<1>6. ASSUME NEW i \in 1..32 PROVE l[i] \in Hex
  <2>1. hex[i] \in Hex /\ hex[i] \in Token /\ l[i] = Low(hex[i])
    BY <1>4, <1>5
  <2>2. QED BY <2>1, LowFacts
<1>7. HexId(l)
  BY <1>5, <1>6 DEF HexId
<1>8. CanonProfileId(in) = Dashed(l)
  BY <1>1, <1>2 DEF l
<1>9. QED BY <1>7, <1>8

(* 32 hex digits with dashes are taken as they are.                        *)
LEMMA DashedStays ==
  ASSUME NEW l, HexId(l)
  PROVE  CanonProfileId(Dashed(l)) = Dashed(l) /\ Dashed(l) \in Tokens /\ "ctl" \notin ToSet(Dashed(l)) /\ Dashed(l) # << >>
<1> DEFINE t == Dashed(l)
<1>0. l \in Tokens /\ Len(l) = 32 /\ (\A i \in 1..32 : l[i] \in Hex) /\ Lowered(l) = l
  BY DEF HexId
<1>1. t \in Tokens /\ Begins(t, DashedAs(l), 36)
  BY <1>0, DashedIs
<1>2. Undashed(t) = l
  BY <1>0, <1>1, UndashedIs
<1> DEFINE hex == IF Dashes(t) = {} THEN t ELSE Undashed(t)
           good == Len(hex) = 32 /\ ToSet(hex) \subseteq Hex /\ Dashes(t) \in {{}, {9, 14, 19, 24}}
<1>3. CanonProfileId(t) = IF good THEN Dashed(Lowered(hex)) ELSE << >>
  BY DEF CanonProfileId, Dashed, Undashed, Dashes, Refused
<1> HIDE DEF t
<1>4. Len(t) = 36 /\ t \in Seq(Token) /\ \A i \in 1..36 : t[i] = IF i \in DashPlaces THEN "-" ELSE l[i - Skipped(i)]
  BY <1>1 DEF Begins, DashedAs, Tokens
<1>5. \A i \in 1..36 : i \notin DashPlaces => i - Skipped(i) \in 1..32
  BY DEF DashPlaces, Skipped
<1>6. \A i \in 1..36 : IF i \in DashPlaces THEN t[i] = "-" ELSE t[i] \in Hex
  BY <1>0, <1>4, <1>5
<1>7. Dashes(t) = {9, 14, 19, 24}
  <2>1. DOMAIN t = 1..36
    BY <1>4
  <2>2. \A i : i \in Dashes(t) <=> i \in DashPlaces
    <3>1. DashPlaces \subseteq 1..36
      BY DEF DashPlaces
    <3>2. QED BY <1>6, <2>1, <3>1, HexFacts DEF Dashes
  <2>3. QED BY <2>2 DEF DashPlaces
<1>8. hex = l
  BY <1>2, <1>7
<1>9. good
  <2>1. ToSet(l) \subseteq Hex
    <3>1. l \in Seq(Token)
      BY <1>0 DEF Tokens
    <3>2. ASSUME NEW x \in ToSet(l) PROVE x \in Hex
      <4>1. PICK i \in 1..Len(l) : l[i] = x
        BY <3>1, ToSetFacts
      <4>2. QED BY <1>0, <4>1
    <3>3. QED BY <3>2
  <2>2. QED BY <1>0, <1>7, <1>8, <2>1
<1>10. CanonProfileId(t) = Dashed(l)
  BY <1>0, <1>3, <1>8, <1>9
<1>11. "ctl" \notin ToSet(t)
  <2>1. \A i \in 1..36 : t[i] # "ctl"
    BY <1>6, HexFacts
  <2>2. QED BY <1>4, <2>1, ToSetFacts
<1>12. t # << >>
  <2>1. Len(t) # 0
    BY <1>4
  <2>2. QED BY <1>4, <2>1, EmptyText
<1>13. QED BY <1>1, <1>10, <1>11, <1>12 DEF t

-----------------------------------------------------------------------------
(* The canonical forms of a proxy and of an origin are taken as they are.  *)

(* A canonical proxy is taken as it is.                                    *)
LEMMA ProxyStays ==
  ASSUME NEW in \in Tokens, CanonProxy(in) # << >>
  PROVE  LET out == CanonProxy(in) IN CanonProxy(out) = out /\ out \in Tokens /\ "ctl" \notin ToSet(out)
<1> DEFINE end == Endpoint(HostPort(Tail(in)), Refusal)
           c == in[1]
<1>1. CanonProxy(in) = ProxyOf(in, end)
  BY DEF CanonProxy
<1> HIDE DEF end
<1>2. /\ in # << >> /\ c \in {"http://", "socks5://"} /\ Leads(end)
      /\ CanonProxy(in) = <<c>> \o At(end)
  BY <1>1 DEF ProxyOf, Refused
<1>3. Led(end)
  <2>1. Tail(in) \in Tokens
    BY <1>2 DEF Tokens
  <2>2. QED BY <1>2, <2>1, EndpointFacts DEF end
<1>4. c \in Token
  BY <1>2 DEF Tokens
<1> HIDE DEF c
<1> DEFINE t == At(end)
<1>5. /\ t \in Tokens /\ t \in Seq(Token) /\ Size(t) < HostMax + 8
      /\ \A i \in 1..Len(t) : t[i] \in AddressChars \cup {":"}
  BY <1>3, AtFacts DEF Tokens
<1>6. Endpoint(HostPort(t), Refusal) = end
  BY <1>3, EndpointAt
<1> HIDE DEF t
<1> DEFINE out == <<c>> \o t
<1>7. /\ out \in Seq(Token) /\ out \in Tokens /\ Len(out) = Len(t) + 1 /\ out[1] = c /\ Tail(out) = t /\ out # << >>
      /\ \A i \in 1..Len(t) : out[i + 1] = t[i]
  BY <1>4, <1>5, HeadTail DEF Tokens
<1>8. Size(out) \in 1..319
  <2> DEFINE s == <<c>>
  <2>1. s \in Tokens /\ Len(s) = 1 /\ s[1] = c
    BY <1>4 DEF Tokens
  <2> HIDE DEF s
  <2>2. Size(s) = Width(c)
    BY <2>1, SizeOne
  <2>3. Width(c) \in Nat \ {0} /\ Width(c) <= 9
    <3>1. Width(c) \in Nat \ {0}
      BY WidthFacts
    <3>2. Width(c) <= 9
      BY <1>2 DEF Width
    <3>3. QED BY <3>1, <3>2
  <2>4. Size(s \o t) = Size(s) + Size(t)
    BY <1>5, <2>1, SizeJoint
  <2>5. Size(t) \in Nat /\ Size(t) < 264
    BY <1>5, SizeFacts DEF HostMax
  <2> DEFINE n == Size(s \o t)
             k == Width(c)
             m == Size(t)
  <2>6. n = k + m /\ k \in Nat \ {0} /\ k <= 9 /\ m \in Nat /\ m < 264
    BY <2>2, <2>3, <2>4, <2>5
  <2> HIDE DEF n, k, m
  <2>7. n \in 1..319
    BY <2>6
  <2>8. QED BY <2>7 DEF n, s
<1> HIDE DEF out
<1>9. \A x \in ToSet(t) : x \in AddressChars \cup {":"}
  <2>1. ASSUME NEW x \in ToSet(t) PROVE x \in AddressChars \cup {":"}
    <3>1. PICK i \in 1..Len(t) : t[i] = x
      BY <1>5, ToSetFacts
    <3>2. QED BY <1>5, <3>1
  <2>2. QED BY <2>1
<1>10. ToSet(t) \cap {"@", "/", "?", "#"} = {} /\ "ctl" \notin ToSet(t)
  BY <1>9, AddressCharsFacts
<1>11. "ctl" \notin ToSet(out)
  <2>1. \A i \in 1..Len(out) : out[i] # "ctl"
    <3>1. ASSUME NEW i \in 1..Len(out) PROVE out[i] # "ctl"
      <4>1. CASE i = 1
        BY <1>2, <1>7, <4>1
      <4>2. CASE i # 1
        <5>1. i - 1 \in 1..Len(t) /\ (i - 1) + 1 = i
          BY <1>7, <1>5, <4>2
        <5>2. out[i] = t[i - 1]
          BY <1>7, <5>1
        <5>3. t[i - 1] \in ToSet(t)
          BY <1>5, <5>1, ToSetFacts
        <5>4. QED BY <1>10, <5>2, <5>3
      <4>3. QED BY <4>1, <4>2
    <3>2. QED BY <3>1
  <2>2. QED BY <1>7, <2>1, ToSetFacts
<1>12. ProxyOf(out, end) = out
  <2>1. Printable(out, 1, 319)
    BY <1>8, <1>11 DEF Printable
  <2>2. out = <<c>> \o At(end)
    BY DEF out, t
  <2>3. QED BY <1>2, <1>7, <1>10, <2>1, <2>2 DEF ProxyOf
<1>13. CanonProxy(out) = out
  BY <1>6, <1>7, <1>12 DEF CanonProxy
<1>14. CanonProxy(in) = out
  BY <1>2 DEF out, t
<1>15. QED BY <1>7, <1>11, <1>13, <1>14

(* The origin of a URL leads where the URL leads, and has no other origin. *)
LEMMA OriginBack ==
  ASSUME NEW url, UrlShaped(url)
  PROVE  /\ ParseUrl(url.origin).ok /\ ParseUrl(url.origin).origin = url.origin
         /\ url.origin \in Tokens /\ url.origin # << >>
<1> DEFINE bare == [ok |-> TRUE, host |-> url.host, origin |-> url.origin, path |-> << >>, query |-> << >>]
<1>1. PICK end : Led(end) /\ url.host = end.host /\ url.origin = <<"https://">> \o At(end)
  BY DEF UrlShaped
<1>2. << >> \in Tokens /\ Clean(<< >>) /\ "?" \notin ToSet(<< >>)
  <2>1. << >> \in Tokens
    BY DEF Tokens
  <2>2. ToSet(<< >>) = {}
    BY DEF ToSet
  <2>3. QED BY <2>1, <2>2 DEF Clean
<1>3. UrlShaped(bare)
  <2>1. bare.ok = TRUE /\ bare.path = << >> /\ bare.query = << >> /\ bare.host = url.host /\ bare.origin = url.origin
    OBVIOUS
  <2>2. bare = [ok |-> TRUE, host |-> bare.host, origin |-> bare.origin, path |-> bare.path, query |-> bare.query]
    OBVIOUS
  <2> HIDE DEF bare
  <2>3. ~ (Len(bare.path) > 0)
    BY <2>1
  <2>4. QED BY <1>1, <1>2, <2>1, <2>2, <2>3 DEF UrlShaped
<1> DEFINE y == At(end)
<1>4. y \in Tokens /\ y \in Seq(Token) /\ Size(y) < HostMax + 8
  BY <1>1, AtFacts DEF Tokens
<1> HIDE DEF y
<1> DEFINE o == <<"https://">> \o y
<1>5. o \in Seq(Token) /\ o # << >>
  BY <1>4, HeadTail, HttpsFacts
<1>6. Size(o) < UrlMax
  <2> DEFINE c == <<"https://">>
  <2>1. c \in Tokens /\ Len(c) = 1 /\ c[1] = "https://"
    BY HttpsFacts DEF Tokens
  <2> HIDE DEF c
  <2>2. Size(c) = Width("https://")
    BY <2>1, SizeOne
  <2>3. Width("https://") = 8
    BY DEF Width
  <2>4. Size(c \o y) = Size(c) + Size(y)
    BY <1>4, <2>1, SizeJoint
  <2>5. Size(y) \in Nat
    BY <1>4, SizeFacts
  <2> DEFINE n == Size(c \o y)
             m == Size(y)
  <2>6. n = 8 + m /\ m \in Nat /\ m < 256 + 8
    BY <1>4, <2>2, <2>3, <2>4, <2>5 DEF HostMax
  <2> HIDE DEF n, m
  <2>7. n < 2048
    BY <2>6
  <2>8. QED BY <2>7 DEF n, c, UrlMax
<1> HIDE DEF o
<1>7. url.origin = o
  BY <1>1 DEF o, y
<1>8. RebuiltUrl(bare) = o
  <2>1. RebuiltUrl(bare) = (o \o << >>) \o << >>
    BY <1>7 DEF RebuiltUrl
  <2>2. o \o << >> = o
    BY <1>5
  <2>3. QED BY <2>1, <2>2
<1>9. ParseUrl(o) = bare
  <2> HIDE DEF bare
  <2>1. QED BY <1>3, <1>6, <1>8, Rebuilt
<1>10. QED BY <1>5, <1>7, <1>9 DEF Tokens

(* No origin has a control character.                                      *)
LEMMA OriginIsClean ==
  ASSUME NEW url, UrlShaped(url)
  PROVE  "ctl" \notin ToSet(url.origin)
<1>1. ParseUrl(url.origin).ok
  BY OriginBack
<1>2. Clean(url.origin)
  BY <1>1, ParseUrlIs, UrlOfOk
<1>3. QED BY <1>2 DEF Clean

-----------------------------------------------------------------------------
(* Base64: what is written of 32 bytes reads back as the 32 bytes.         *)

(* The three bytes of a group, and the four sextets they are written as.   *)
Bytes   == 0..255
Sextets == 0..63

First4(x)        == x \div 4
Second4(x, y)    == 16 * (x % 4) + y \div 16
Third4(y, z)     == 4 * (y % 16) + z \div 64
Fourth4(z)       == z % 64
First3(a, b)     == 4 * a + b \div 16
Second3(b, c)    == 16 * (b % 16) + c \div 4
Third3(c, d)     == 64 * (c % 4) + d

(* Three bytes make four sextets.                                          *)
LEMMA SextetRange ==
  ASSUME NEW x \in Bytes, NEW y \in Bytes, NEW z \in Bytes
  PROVE  First4(x) \in Sextets /\ Second4(x, y) \in Sextets /\ Third4(y, z) \in Sextets /\ Fourth4(z) \in Sextets
<1>0. x \in 0..255 /\ y \in 0..255 /\ z \in 0..255
  BY DEF Bytes
<1>1. First4(x) \in 0..63
  BY <1>0 DEF First4
<1>2. Second4(x, y) \in 0..63
  <2>1. x % 4 \in 0..3 /\ y \div 16 \in 0..15
    BY <1>0
  <2> DEFINE p == x % 4
             q == y \div 16
  <2> HIDE DEF p, q
  <2>2. 16 * p + q \in 0..63
    BY <2>1 DEF p, q
  <2>3. QED BY <2>2 DEF Second4, p, q
<1>3. Third4(y, z) \in 0..63
  <2>1. y % 16 \in 0..15 /\ z \div 64 \in 0..3
    BY <1>0
  <2> DEFINE p == y % 16
             q == z \div 64
  <2> HIDE DEF p, q
  <2>2. 4 * p + q \in 0..63
    BY <2>1 DEF p, q
  <2>3. QED BY <2>2 DEF Third4, p, q
<1>4. Fourth4(z) \in 0..63
  BY <1>0 DEF Fourth4
<1>5. QED BY <1>1, <1>2, <1>3, <1>4 DEF Sextets

(* Four sextets make three bytes.                                          *)
LEMMA ByteRange ==
  ASSUME NEW a \in Sextets, NEW b \in Sextets, NEW c \in Sextets
  PROVE  /\ First3(a, b) \in Bytes /\ Second3(b, c) \in Bytes
         /\ \A d \in Sextets : Third3(c, d) \in Bytes
<1>0. a \in 0..63 /\ b \in 0..63 /\ c \in 0..63
  BY DEF Sextets
<1>1. b \div 16 \in 0..3 /\ b % 16 \in 0..15 /\ c \div 4 \in 0..15 /\ c % 4 \in 0..3
  BY <1>0
<1> DEFINE p == b \div 16
           q == b % 16
           r == c \div 4
           s == c % 4
<1> HIDE DEF p, q, r, s
<1>2. 4 * a + p \in 0..255 /\ 16 * q + r \in 0..255
  BY <1>0, <1>1 DEF p, q, r, s
<1>3. \A d \in 0..63 : 64 * s + d \in 0..255
  BY <1>1 DEF s
<1>4. QED BY <1>2, <1>3 DEF First3, Second3, Third3, p, q, r, s, Bytes, Sextets

(* The sextets of three bytes read back as the bytes.                      *)
LEMMA BytesBack ==
  ASSUME NEW x \in Bytes, NEW y \in Bytes, NEW z \in Bytes
  PROVE  /\ First3(First4(x), Second4(x, y)) = x
         /\ Second3(Second4(x, y), Third4(y, z)) = y
         /\ Third3(Third4(y, z), Fourth4(z)) = z
<1>0. x \in 0..255 /\ y \in 0..255 /\ z \in 0..255
  BY DEF Bytes
<1>1. PICK p \in 0..63, q \in 0..3 : x = 4 * p + q
  <2>1. x \div 4 \in 0..63 /\ x % 4 \in 0..3 /\ x = 4 * (x \div 4) + (x % 4)
    BY <1>0
  <2>2. QED BY <2>1
<1>2. PICK r \in 0..15, s \in 0..15 : y = 16 * r + s
  <2>1. y \div 16 \in 0..15 /\ y % 16 \in 0..15 /\ y = 16 * (y \div 16) + (y % 16)
    BY <1>0
  <2>2. QED BY <2>1
<1>3. PICK u \in 0..3, v \in 0..63 : z = 64 * u + v
  <2>1. z \div 64 \in 0..3 /\ z % 64 \in 0..63 /\ z = 64 * (z \div 64) + (z % 64)
    BY <1>0
  <2>2. QED BY <2>1
<1>4. x \div 4 = p /\ x % 4 = q
  BY <1>1
<1>5. y \div 16 = r /\ y % 16 = s
  BY <1>2
<1>6. z \div 64 = u /\ z % 64 = v
  BY <1>3
<1>7. First4(x) = p /\ Second4(x, y) = 16 * q + r /\ Third4(y, z) = 4 * s + u /\ Fourth4(z) = v
  BY <1>4, <1>5, <1>6 DEF First4, Second4, Third4, Fourth4
<1>8. (16 * q + r) \div 16 = q /\ (16 * q + r) % 16 = r
  OBVIOUS
<1>9. (4 * s + u) \div 4 = s /\ (4 * s + u) % 4 = u
  OBVIOUS
<1>10. First3(p, 16 * q + r) = x /\ Second3(16 * q + r, 4 * s + u) = y /\ Third3(4 * s + u, v) = z
  BY <1>1, <1>2, <1>3, <1>8, <1>9 DEF First3, Second3, Third3
<1>11. QED BY <1>7, <1>10

-----------------------------------------------------------------------------
(* A text that decodes to 32 bytes, and the 44 characters they are         *)
(* written as.                                                             *)

Padding(in)   == Cardinality({i \in {Len(in) - 1, Len(in)} : in[i] = "="})
Decodes(in)   == Len(in) > 0 /\ Len(in) % 4 = 0 /\ ToSet(Upto(in, Len(in) - Padding(in))) \subseteq DOMAIN Sextet
Decoded(in, j) ==
  LET q == 4 * ((j - 1) \div 3)
  IN CASE j % 3 = 1 -> First3(Sextet[in[q + 1]], Sextet[in[q + 2]])
       [] j % 3 = 2 -> Second3(Sextet[in[q + 2]], Sextet[in[q + 3]])
       [] OTHER     -> Third3(Sextet[in[q + 3]], Sextet[in[q + 4]])
ByteOf(raw, i) == IF i \in DOMAIN raw THEN raw[i] ELSE 0
Encoded(raw, c) ==
  LET b == 3 * ((c - 1) \div 4)
  IN CASE c % 4 = 1 -> Letter(First4(ByteOf(raw, b + 1)))
       [] c % 4 = 2 -> Letter(Second4(ByteOf(raw, b + 1), ByteOf(raw, b + 2)))
       [] c % 4 = 3 -> IF b + 2 > Len(raw) THEN "=" ELSE Letter(Third4(ByteOf(raw, b + 2), ByteOf(raw, b + 3)))
       [] OTHER     -> IF b + 3 > Len(raw) THEN "=" ELSE Letter(Fourth4(ByteOf(raw, b + 3)))

(* B64Decode, byte by byte.                                                *)
LEMMA DecodeIs ==
  ASSUME NEW in
  PROVE  B64Decode(in) = IF Decodes(in) THEN [j \in 1..((Len(in) \div 4) * 3 - Padding(in)) |-> Decoded(in, j)] ELSE << >>
BY DEF B64Decode, Decodes, Padding, Decoded, First3, Second3, Third3

(* B64Encode, character by character.                                      *)
LEMMA EncodeIs ==
  ASSUME NEW raw
  PROVE  B64Encode(raw) = [c \in 1..(4 * ((Len(raw) + 2) \div 3)) |-> Encoded(raw, c)]
BY DEF B64Encode, Encoded, ByteOf, First4, Second4, Third4, Fourth4

Bytes32(raw) == raw \in Seq(Bytes) /\ Len(raw) = 32

(* A function on the first n numbers is a text of length n.                *)
LEMMA FunctionText ==
  ASSUME NEW S, NEW n \in Nat, NEW f \in [1..n -> S]
  PROVE  f \in Seq(S) /\ Len(f) = n /\ DOMAIN f = 1..n
OBVIOUS

(* A text is a function on the first numbers.                              *)
LEMMA TextFunction ==
  ASSUME NEW S, NEW s \in Seq(S)
  PROVE  DOMAIN s = 1..Len(s) /\ \A i \in 1..Len(s) : s[i] \in S
OBVIOUS

(* Two things make a pair.                                                 *)
LEMMA PairSize ==
  ASSUME NEW a, NEW b, a # b
  PROVE  IsFiniteSet({a, b}) /\ Cardinality({a, b}) = 2
<1> DEFINE A == {a}
<1>1. IsFiniteSet(A) /\ Cardinality(A) = 1
  BY FS_Singleton
<1>2. b \notin A /\ {a, b} = A \cup {b}
  OBVIOUS
<1> HIDE DEF A
<1>3. IsFiniteSet(A \cup {b}) /\ Cardinality(A \cup {b}) = Cardinality(A) + 1
  BY <1>1, <1>2, FS_AddElement
<1>4. QED BY <1>1, <1>2, <1>3

(* The byte at each place of a group.                                      *)
LEMMA DecodedAt ==
  ASSUME NEW in, NEW j, NEW q, q = 4 * ((j - 1) \div 3)
  PROVE  /\ j % 3 = 1 => Decoded(in, j) = First3(Sextet[in[q + 1]], Sextet[in[q + 2]])
         /\ j % 3 = 2 => Decoded(in, j) = Second3(Sextet[in[q + 2]], Sextet[in[q + 3]])
         /\ j % 3 \notin {1, 2} => Decoded(in, j) = Third3(Sextet[in[q + 3]], Sextet[in[q + 4]])
BY DEF Decoded

(* Only 44 characters, the last of them "=", decode to 32 bytes.           *)
LEMMA DecodedLength ==
  ASSUME NEW in \in Tokens, Len(B64Decode(in)) = 32
  PROVE  /\ Len(in) = 44 /\ Padding(in) = 1 /\ Decodes(in)
         /\ B64Decode(in) = [j \in 1..32 |-> Decoded(in, j)]
         /\ \A i \in 1..43 : in[i] \in DOMAIN Sextet
<1> DEFINE n == Len(in)
           pad == Padding(in)
           m == (n \div 4) * 3 - pad
<1>1. B64Decode(in) = IF Decodes(in) THEN [j \in 1..m |-> Decoded(in, j)] ELSE << >>
  BY DecodeIs
<1>2. Decodes(in)
  <2>1. Len(<< >>) # 32
    OBVIOUS
  <2>2. QED BY <1>1, <2>1
<1>3. n \in Nat /\ n > 0 /\ n % 4 = 0 /\ in \in Seq(Token)
  BY <1>2 DEF Decodes, Tokens
<1>4. pad \in 0..2
  <2> DEFINE P == {i \in {n - 1, n} : in[i] = "="}
  <2>1. P \subseteq {n - 1, n}
    OBVIOUS
  <2>2. IsFiniteSet({n - 1, n}) /\ Cardinality({n - 1, n}) = 2
    <3>1. n - 1 # n
      BY <1>3
    <3> DEFINE k == n - 1
    <3>2. k # n
      BY <3>1
    <3> HIDE DEF k, n
    <3>3. IsFiniteSet({k, n}) /\ Cardinality({k, n}) = 2
      BY <3>2, PairSize
    <3>4. QED BY <3>3 DEF k
  <2>3. Cardinality(P) \in Nat /\ Cardinality(P) <= 2
    <3> HIDE DEF P
    <3>1. IsFiniteSet(P) /\ Cardinality(P) <= Cardinality({n - 1, n})
      BY <2>1, <2>2, FS_Subset
    <3>2. QED BY <2>2, <3>1, FS_CardinalityType
  <2>4. QED BY <2>3 DEF Padding
<1>5. m = 32
  <2>1. m \in Int
    BY <1>3, <1>4
  <2>2. n \div 4 \in Nat /\ n >= 4
    BY <1>3
  <2>3. m > 0
    <3> DEFINE k == n \div 4
    <3>1. k >= 1
      BY <1>3
    <3> HIDE DEF k
    <3>2. k * 3 - pad > 0
      BY <1>4, <2>2, <3>1 DEF k
    <3>3. QED BY <3>2 DEF k
  <2> DEFINE f == [j \in 1..m |-> Decoded(in, j)]
  <2>4. m \in Nat
    BY <2>1, <2>3
  <2>5. Len(f) = m
    <3> HIDE DEF m
    <3>1. f \in [1..m -> {Decoded(in, j) : j \in 1..m}]
      OBVIOUS
    <3> HIDE DEF f
    <3>2. QED BY <2>4, <3>1, FunctionText
  <2>6. B64Decode(in) = f
    BY <1>1, <1>2
  <2>7. QED BY <2>5, <2>6
<1>6. n = 44 /\ pad = 1
  <2> DEFINE k == n \div 4
  <2>1. k \in Nat /\ n = 4 * k
    BY <1>3
  <2> HIDE DEF k
  <2>2. k * 3 - pad = 32
    BY <1>5 DEF k
  <2>3. k = 11 /\ pad = 1
    <3> HIDE DEF pad
    <3>1. QED BY <1>4, <2>1, <2>2
  <2>4. QED BY <2>1, <2>3
<1>7. \A i \in 1..43 : in[i] \in DOMAIN Sextet
  <2>1. ToSet(Upto(in, 43)) \subseteq DOMAIN Sextet
    <3>1. Len(in) - Padding(in) = 43
      BY <1>6
    <3>2. QED BY <1>2, <3>1 DEF Decodes
  <2>2. /\ Upto(in, 43) \in Seq(Token) /\ Len(Upto(in, 43)) = 43
        /\ \A j \in 1..43 : Upto(in, 43)[j] = in[j]
    <3> DEFINE k == 43
    <3>1. k \in Nat /\ k < Len(in) /\ in \in Seq(Token)
      BY <1>3, <1>6
    <3> DEFINE u == Upto(in, k)
    <3> HIDE DEF k
    <3>2. u \in Seq(Token) /\ Len(u) = (IF k < Len(in) THEN k ELSE Len(in)) /\ \A j \in 1..Len(u) : u[j] = in[j]
      BY <3>1, UptoFacts
    <3> HIDE DEF u
    <3>3. Len(u) = k
      BY <3>1, <3>2
    <3>4. QED BY <3>2, <3>3 DEF u, k
  <2>3. ASSUME NEW i \in 1..43 PROVE in[i] \in DOMAIN Sextet
    <3>1. Upto(in, 43)[i] \in ToSet(Upto(in, 43))
      BY <2>2, ToSetFacts
    <3>2. QED BY <2>1, <2>2, <3>1
  <2>4. QED BY <2>3
<1>8. QED BY <1>1, <1>2, <1>5, <1>6, <1>7

(* What decodes to 32 of anything decodes to bytes.                        *)
LEMMA DecodedBytes ==
  ASSUME NEW in \in Tokens, Len(B64Decode(in)) = 32
  PROVE  Bytes32(B64Decode(in))
<1>1. B64Decode(in) = [j \in 1..32 |-> Decoded(in, j)] /\ \A i \in 1..43 : in[i] \in DOMAIN Sextet
  BY DecodedLength
<1>2. \A i \in 1..43 : Sextet[in[i]] \in Sextets
  BY <1>1, LetterFacts DEF Sextets
<1>3. ASSUME NEW j \in 1..32 PROVE Decoded(in, j) \in Bytes
  <2> DEFINE q == 4 * ((j - 1) \div 3)
             S(i) == Sextet[in[i]]
  <2>0. /\ j % 3 = 1 => Decoded(in, j) = First3(S(q + 1), S(q + 2))
        /\ j % 3 = 2 => Decoded(in, j) = Second3(S(q + 2), S(q + 3))
        /\ j % 3 \notin {1, 2} => Decoded(in, j) = Third3(S(q + 3), S(q + 4))
    BY DecodedAt
  <2>1. q \in 0..40 /\ (j % 3 \notin {1, 2} => q \in 0..36)
    OBVIOUS
  <2>2. \A i \in 1..43 : S(i) \in Sextets
    BY <1>2
  <2> HIDE DEF q, S
  <2>3. q + 1 \in 1..43 /\ q + 2 \in 1..43 /\ q + 3 \in 1..43
    BY <2>1
  <2>4. j % 3 \notin {1, 2} => q + 4 \in 1..43
    BY <2>1
  <2>5. S(q + 1) \in Sextets /\ S(q + 2) \in Sextets /\ S(q + 3) \in Sextets
    BY <2>2, <2>3
  <2>6. First3(S(q + 1), S(q + 2)) \in Bytes /\ Second3(S(q + 2), S(q + 3)) \in Bytes
    BY <2>5, ByteRange
  <2>7. ASSUME j % 3 \notin {1, 2} PROVE Third3(S(q + 3), S(q + 4)) \in Bytes
    <3>1. S(q + 4) \in Sextets
      BY <2>2, <2>4, <2>7
    <3>2. QED BY <2>5, <3>1, ByteRange
  <2>8. QED BY <2>0, <2>6, <2>7
<1> DEFINE f == [j \in 1..32 |-> Decoded(in, j)]
<1>4. f \in [1..32 -> Bytes]
  BY <1>3
<1>5. B64Decode(in) = f
  BY <1>1
<1> HIDE DEF f
<1>6. f \in Seq(Bytes) /\ Len(f) = 32
  <2> DEFINE k == 32
  <2>1. k \in Nat /\ f \in [1..k -> Bytes]
    BY <1>4
  <2> HIDE DEF k
  <2>2. f \in Seq(Bytes) /\ Len(f) = k
    BY <2>1, FunctionText
  <2>3. QED BY <2>2 DEF k
<1>7. QED BY <1>5, <1>6 DEF Bytes32

(* The four characters of a group of bytes; the last group lacks a byte.   *)
InGroup(e, g, x, y, z) ==
  /\ e[4 * g + 1] = Letter(First4(x)) /\ e[4 * g + 2] = Letter(Second4(x, y))
  /\ e[4 * g + 3] = Letter(Third4(y, z))
  /\ e[4 * g + 4] = IF g < 10 THEN Letter(Fourth4(z)) ELSE "="

(* 32 bytes are written in eleven groups.                                  *)
LEMMA EncodedGroups ==
  ASSUME NEW raw, Bytes32(raw)
  PROVE  /\ B64Encode(raw) = [c \in 1..44 |-> Encoded(raw, c)]
         /\ \A g \in 0..10 :
              /\ ByteOf(raw, 3 * g + 1) \in Bytes /\ ByteOf(raw, 3 * g + 2) \in Bytes /\ ByteOf(raw, 3 * g + 3) \in Bytes
              /\ InGroup(B64Encode(raw), g, ByteOf(raw, 3 * g + 1), ByteOf(raw, 3 * g + 2), ByteOf(raw, 3 * g + 3))
<1> DEFINE e == B64Encode(raw)
<1>0. Len(raw) = 32 /\ DOMAIN raw = 1..32 /\ \A i \in 1..32 : raw[i] \in Bytes
  <2>1. raw \in Seq(Bytes) /\ Len(raw) = 32
    BY DEF Bytes32
  <2>2. DOMAIN raw = 1..Len(raw) /\ \A i \in 1..Len(raw) : raw[i] \in Bytes
    BY <2>1, TextFunction
  <2>3. QED BY <2>1, <2>2
<1>1. e = [c \in 1..44 |-> Encoded(raw, c)]
  <2>1. 4 * ((Len(raw) + 2) \div 3) = 44
    BY <1>0
  <2>2. QED BY <2>1, EncodeIs
<1> HIDE DEF e
<1>2. \A i : ByteOf(raw, i) \in Bytes
  BY <1>0 DEF ByteOf, Bytes
<1>3. ASSUME NEW g \in 0..10
      PROVE InGroup(e, g, ByteOf(raw, 3 * g + 1), ByteOf(raw, 3 * g + 2), ByteOf(raw, 3 * g + 3))
  <2> DEFINE b(c) == 3 * ((c - 1) \div 4)
             v(c) == CASE c % 4 = 1 -> Letter(First4(ByteOf(raw, b(c) + 1)))
                       [] c % 4 = 2 -> Letter(Second4(ByteOf(raw, b(c) + 1), ByteOf(raw, b(c) + 2)))
                       [] c % 4 = 3 -> IF b(c) + 2 > Len(raw) THEN "=" ELSE Letter(Third4(ByteOf(raw, b(c) + 2), ByteOf(raw, b(c) + 3)))
                       [] OTHER     -> IF b(c) + 3 > Len(raw) THEN "=" ELSE Letter(Fourth4(ByteOf(raw, b(c) + 3)))
  <2>0. \A c \in 1..44 : e[c] = v(c)
    BY <1>1 DEF Encoded
  <2> HIDE DEF e
  <2>1. e[4 * g + 1] = Letter(First4(ByteOf(raw, 3 * g + 1)))
    <3> DEFINE c == 4 * g + 1
    <3>1. c \in 1..44 /\ b(c) = 3 * g /\ c % 4 = 1
      OBVIOUS
    <3>2. e[c] = v(c)
      BY <2>0, <3>1
    <3> HIDE DEF c
    <3>3. QED BY <3>1, <3>2 DEF c
  <2>2. e[4 * g + 2] = Letter(Second4(ByteOf(raw, 3 * g + 1), ByteOf(raw, 3 * g + 2)))
    <3> DEFINE c == 4 * g + 2
    <3>1. c \in 1..44 /\ b(c) = 3 * g /\ c % 4 = 2
      OBVIOUS
    <3>2. e[c] = v(c)
      BY <2>0, <3>1
    <3> HIDE DEF c
    <3>3. QED BY <3>1, <3>2 DEF c
  <2>3. e[4 * g + 3] = Letter(Third4(ByteOf(raw, 3 * g + 2), ByteOf(raw, 3 * g + 3)))
    <3> DEFINE c == 4 * g + 3
    <3>1. c \in 1..44 /\ b(c) = 3 * g /\ c % 4 = 3 /\ ~ (3 * g + 2 > 32)
      OBVIOUS
    <3>2. e[c] = v(c)
      BY <2>0, <3>1
    <3> HIDE DEF c
    <3>3. QED BY <1>0, <3>1, <3>2 DEF c
  <2>4. e[4 * g + 4] = IF g < 10 THEN Letter(Fourth4(ByteOf(raw, 3 * g + 3))) ELSE "="
    <3> DEFINE c == 4 * g + 4
    <3>1. c \in 1..44 /\ b(c) = 3 * g /\ c % 4 = 0 /\ (3 * g + 3 > 32 <=> ~ (g < 10))
      OBVIOUS
    <3>2. e[c] = v(c)
      BY <2>0, <3>1
    <3> HIDE DEF c
    <3>3. QED BY <1>0, <3>1, <3>2 DEF c
  <2>5. QED BY <2>1, <2>2, <2>3, <2>4 DEF InGroup
<1>4. QED BY <1>1, <1>2, <1>3 DEF e

(* Every place is in a group.                                              *)
LEMMA GroupOf ==
  ASSUME NEW c \in 1..44
  PROVE  \E g \in 0..10 : c \in {4 * g + 1, 4 * g + 2, 4 * g + 3, 4 * g + 4}
<1> DEFINE g == (c - 1) \div 4
           k == (c - 1) % 4
<1>1. g \in 0..10 /\ k \in 0..3 /\ c = 4 * g + k + 1
  OBVIOUS
<1> HIDE DEF g, k
<1>2. c \in {4 * g + 1, 4 * g + 2, 4 * g + 3, 4 * g + 4}
  BY <1>1
<1>3. QED BY <1>1, <1>2

(* 43 characters of base64 and a "=".                                      *)
LEMMA EncodedFacts ==
  ASSUME NEW raw, Bytes32(raw)
  PROVE  /\ B64Encode(raw) \in Tokens /\ Len(B64Encode(raw)) = 44 /\ B64Encode(raw)[44] = "="
         /\ \A c \in 1..43 : \E v \in Sextets : B64Encode(raw)[c] = Letter(v)
<1> DEFINE e == B64Encode(raw)
           X(g) == ByteOf(raw, 3 * g + 1)
           Y(g) == ByteOf(raw, 3 * g + 2)
           Z(g) == ByteOf(raw, 3 * g + 3)
<1>1. e = [c \in 1..44 |-> Encoded(raw, c)]
  BY EncodedGroups
<1>2. \A g \in 0..10 : X(g) \in Bytes /\ Y(g) \in Bytes /\ Z(g) \in Bytes /\ InGroup(e, g, X(g), Y(g), Z(g))
  BY EncodedGroups
<1> HIDE DEF e, X, Y, Z
<1>3. ASSUME NEW g \in 0..10
      PROVE  /\ \E v \in Sextets : e[4 * g + 1] = Letter(v)
             /\ \E v \in Sextets : e[4 * g + 2] = Letter(v)
             /\ \E v \in Sextets : e[4 * g + 3] = Letter(v)
             /\ g < 10 => \E v \in Sextets : e[4 * g + 4] = Letter(v)
             /\ ~ (g < 10) => e[4 * g + 4] = "="
  <2>1. InGroup(e, g, X(g), Y(g), Z(g)) /\ X(g) \in Bytes /\ Y(g) \in Bytes /\ Z(g) \in Bytes
    BY <1>2
  <2>2. First4(X(g)) \in Sextets /\ Second4(X(g), Y(g)) \in Sextets /\ Third4(Y(g), Z(g)) \in Sextets /\ Fourth4(Z(g)) \in Sextets
    <3> DEFINE x == X(g)
               y == Y(g)
               z == Z(g)
    <3>1. x \in Bytes /\ y \in Bytes /\ z \in Bytes
      BY <2>1
    <3> HIDE DEF x, y, z
    <3>2. First4(x) \in Sextets /\ Second4(x, y) \in Sextets /\ Third4(y, z) \in Sextets /\ Fourth4(z) \in Sextets
      BY <3>1, SextetRange
    <3>3. QED BY <3>2 DEF x, y, z
  <2>3. QED BY <2>1, <2>2 DEF InGroup
<1>4. ASSUME NEW c \in 1..43 PROVE \E v \in Sextets : e[c] = Letter(v)
  <2>1. PICK g \in 0..10 : c \in {4 * g + 1, 4 * g + 2, 4 * g + 3, 4 * g + 4}
    BY GroupOf
  <2>2. c = 4 * g + 4 => g < 10
    OBVIOUS
  <2>3. CASE c = 4 * g + 1
    BY <1>3, <2>3
  <2>4. CASE c = 4 * g + 2
    BY <1>3, <2>4
  <2>5. CASE c = 4 * g + 3
    BY <1>3, <2>5
  <2>6. CASE c = 4 * g + 4
    BY <1>3, <2>2, <2>6
  <2>7. QED BY <2>1, <2>3, <2>4, <2>5, <2>6
<1>5. e[44] = "="
  <2>1. 10 \in 0..10 /\ ~ (10 < 10) /\ 4 * 10 + 4 = 44
    OBVIOUS
  <2>2. QED BY <1>3, <2>1
<1>6. ASSUME NEW c \in 1..44 PROVE e[c] \in Token
  <2>1. CASE c = 44
    BY <1>5, <2>1 DEF Token, Other
  <2>2. CASE c \in 1..43
    <3>1. PICK v \in Sextets : e[c] = Letter(v)
      BY <1>4, <2>2
    <3>2. QED BY <3>1, LetterFacts DEF Sextets
  <2>3. QED BY <2>1, <2>2
<1>7. e \in [1..44 -> Token]
  BY <1>1, <1>6
<1>8. e \in Seq(Token) /\ Len(e) = 44
  <2>1. 44 \in Nat
    OBVIOUS
  <2>2. QED BY <1>7, <2>1, FunctionText
<1>9. QED BY <1>4, <1>5, <1>8 DEF e, Tokens

(* What a sequence holds stands somewhere in it.                           *)
LEMMA StandsAt ==
  ASSUME NEW S, NEW s \in Seq(S), NEW x \in ToSet(s)
  PROVE  \E i \in 1..Len(s) : s[i] = x
BY ToSetFacts

(* What a sequence never shows it does not hold.                           *)
LEMMA NowhereInside ==
  ASSUME NEW S, NEW s \in Seq(S), NEW x, \A i \in 1..Len(s) : s[i] # x
  PROVE  x \notin ToSet(s)
BY ToSetFacts

(* 44 characters that end in one "=" decode to 32 bytes.                   *)
LEMMA EncodedDecodes ==
  ASSUME NEW e \in Tokens, Len(e) = 44, e[44] = "=", \A c \in 1..43 : \E v \in Sextets : e[c] = Letter(v)
  PROVE  B64Decode(e) = [j \in 1..32 |-> Decoded(e, j)]
<1>1. \A c \in 1..43 : e[c] \in DOMAIN Sextet /\ e[c] # "="
  <2>1. ASSUME NEW c \in 1..43 PROVE e[c] \in DOMAIN Sextet /\ e[c] # "="
    <3>1. PICK v \in Sextets : e[c] = Letter(v)
      OBVIOUS
    <3>2. v \in 0..63 /\ "=" \in Other
      BY <3>1 DEF Sextets, Other
    <3>3. QED BY <3>1, <3>2, LetterFacts
  <2>2. QED BY <2>1
<1>2. Padding(e) = 1
  <2>1. e[43] # "="
    <3>1. 43 \in 1..43
      OBVIOUS
    <3>2. QED BY <1>1, <3>1
  <2>2. {i \in {43, 44} : e[i] = "="} = {44}
    BY <2>1
  <2>3. Cardinality({44}) = 1
    BY FS_Singleton
  <2>4. Len(e) - 1 = 43
    OBVIOUS
  <2>5. QED BY <2>2, <2>3, <2>4 DEF Padding
<1>3. Decodes(e)
  <2> DEFINE k == 43
             u == Upto(e, k)
  <2>1. k \in Nat /\ k < Len(e) /\ e \in Seq(Token)
    BY DEF Tokens
  <2> HIDE DEF k
  <2>2. u \in Seq(Token) /\ Len(u) = (IF k < Len(e) THEN k ELSE Len(e)) /\ \A j \in 1..Len(u) : u[j] = e[j]
    BY <2>1, UptoFacts
  <2> HIDE DEF u
  <2>3. Len(u) = 43 /\ u \in Seq(Token)
    BY <2>1, <2>2 DEF k
  <2>4. ASSUME NEW x \in ToSet(u) PROVE x \in DOMAIN Sextet
    <3>1. PICK j \in 1..Len(u) : u[j] = x
      BY <2>3, StandsAt
    <3>2. u[j] = e[j]
      <4>1. u \in Seq(Token) /\ \A i \in 1..Len(u) : u[i] = e[i]
        BY <2>2
      <4>2. Len(u) \in Nat
        BY <4>1
      <4>3. QED BY <4>1, <4>2
    <3>3. j \in 1..43
      BY <2>3
    <3>4. QED BY <1>1, <3>1, <3>2, <3>3
  <2>5. Len(e) - Padding(e) = k
    BY <1>2 DEF k
  <2>6. Len(e) > 0 /\ Len(e) % 4 = 0
    OBVIOUS
  <2>7. ToSet(Upto(e, Len(e) - Padding(e))) \subseteq DOMAIN Sextet
    BY <2>4, <2>5 DEF u
  <2>8. QED BY <2>6, <2>7 DEF Decodes
<1>4. (Len(e) \div 4) * 3 - Padding(e) = 32
  <2>1. 44 \div 4 = 11
    OBVIOUS
  <2>2. Len(e) \div 4 = 11
    BY <2>1
  <2>3. QED BY <1>2, <2>2
<1>5. QED BY <1>3, <1>4, DecodeIs

(* 32 bytes are read back as they were written.                            *)
LEMMA Base64Back ==
  ASSUME NEW raw, Bytes32(raw)
  PROVE  B64Decode(B64Encode(raw)) = raw
<1> DEFINE e == B64Encode(raw)
           X(g) == ByteOf(raw, 3 * g + 1)
           Y(g) == ByteOf(raw, 3 * g + 2)
           Z(g) == ByteOf(raw, 3 * g + 3)
<1>1. B64Decode(e) = [j \in 1..32 |-> Decoded(e, j)]
  BY EncodedFacts, EncodedDecodes
<1>2. \A g \in 0..10 : X(g) \in Bytes /\ Y(g) \in Bytes /\ Z(g) \in Bytes /\ InGroup(e, g, X(g), Y(g), Z(g))
  BY EncodedGroups
<1>3. raw \in Seq(Bytes) /\ Len(raw) = 32 /\ DOMAIN raw = 1..32
  <2>1. raw \in Seq(Bytes) /\ Len(raw) = 32
    BY DEF Bytes32
  <2>2. DOMAIN raw = 1..Len(raw)
    BY <2>1, TextFunction
  <2>3. QED BY <2>1, <2>2
<1> HIDE DEF e
<1>4. ASSUME NEW g \in 0..10
      PROVE  /\ First3(Sextet[e[4 * g + 1]], Sextet[e[4 * g + 2]]) = X(g)
             /\ Second3(Sextet[e[4 * g + 2]], Sextet[e[4 * g + 3]]) = Y(g)
             /\ g < 10 => Third3(Sextet[e[4 * g + 3]], Sextet[e[4 * g + 4]]) = Z(g)
  <2> DEFINE x == X(g)
             y == Y(g)
             z == Z(g)
  <2>1. InGroup(e, g, x, y, z) /\ x \in Bytes /\ y \in Bytes /\ z \in Bytes
    BY <1>2
  <2> HIDE DEF x, y, z
  <2>2. First4(x) \in Sextets /\ Second4(x, y) \in Sextets /\ Third4(y, z) \in Sextets /\ Fourth4(z) \in Sextets
    BY <2>1, SextetRange
  <2>3. \A v \in Sextets : Sextet[Letter(v)] = v
    BY LetterFacts DEF Sextets
  <2>4. /\ Sextet[e[4 * g + 1]] = First4(x) /\ Sextet[e[4 * g + 2]] = Second4(x, y)
        /\ Sextet[e[4 * g + 3]] = Third4(y, z) /\ (g < 10 => Sextet[e[4 * g + 4]] = Fourth4(z))
    BY <2>1, <2>2, <2>3 DEF InGroup
  <2>5. /\ First3(First4(x), Second4(x, y)) = x /\ Second3(Second4(x, y), Third4(y, z)) = y
        /\ Third3(Third4(y, z), Fourth4(z)) = z
    BY <2>1, BytesBack
  <2>6. QED BY <2>4, <2>5 DEF x, y, z
<1>5. ASSUME NEW j \in 1..32 PROVE Decoded(e, j) = raw[j]
  <2> DEFINE g == (j - 1) \div 3
             k == (j - 1) % 3
  <2>1. g \in 0..10 /\ k \in 0..2 /\ j = 3 * g + k + 1
    OBVIOUS
  <2>2. /\ j % 3 = 1 => Decoded(e, j) = First3(Sextet[e[4 * g + 1]], Sextet[e[4 * g + 2]])
        /\ j % 3 = 2 => Decoded(e, j) = Second3(Sextet[e[4 * g + 2]], Sextet[e[4 * g + 3]])
        /\ j % 3 \notin {1, 2} => Decoded(e, j) = Third3(Sextet[e[4 * g + 3]], Sextet[e[4 * g + 4]])
    BY DecodedAt
  <2> HIDE DEF g, k
  <2>3. ByteOf(raw, j) = raw[j]
    BY <1>3 DEF ByteOf
  <2>4. CASE k = 0
    <3>1. j % 3 = 1 /\ j = 3 * g + 1
      BY <2>1, <2>4
    <3>2. QED BY <1>4, <2>1, <2>2, <2>3, <3>1
  <2>5. CASE k = 1
    <3>1. j % 3 = 2 /\ j = 3 * g + 2
      BY <2>1, <2>5
    <3>2. QED BY <1>4, <2>1, <2>2, <2>3, <3>1
  <2>6. CASE k = 2
    <3>1. j % 3 = 0 /\ j = 3 * g + 3 /\ g < 10
      BY <2>1, <2>6
    <3>2. QED BY <1>4, <2>1, <2>2, <2>3, <3>1
  <2>7. QED BY <2>1, <2>4, <2>5, <2>6
<1>6. B64Decode(e) = raw
  <2>1. raw = [j \in 1..32 |-> raw[j]]
    BY <1>3
  <2>2. QED BY <1>1, <1>5, <2>1
<1>7. QED BY <1>6 DEF e

-----------------------------------------------------------------------------
(* A fingerprint in canonical form is taken as it is.                      *)

(* A label and what follows it.                                            *)
LEMMA Labelled ==
  ASSUME NEW label \in Token, NEW b \in Tokens, NEW n \in Nat, Size(b) = n
  PROVE  LET out == <<label>> \o b IN
         /\ out \in Tokens /\ out # << >> /\ out[1] = label /\ Tail(out) = b
         /\ Size(out) = Width(label) + n
         /\ \A x \in ToSet(out) : x = label \/ x \in ToSet(b)
<1> DEFINE s == <<label>>
           out == s \o b
<1>1. s \in Tokens /\ Len(s) = 1 /\ s[1] = label
  BY DEF Tokens
<1>2. /\ out \in Seq(Token) /\ Len(out) = Len(b) + 1 /\ out[1] = label /\ Tail(out) = b /\ out # << >>
      /\ \A i \in 1..Len(b) : out[i + 1] = b[i]
  BY HeadTail DEF Tokens
<1> HIDE DEF s
<1>3. Size(out) = Width(label) + n
  <2>1. Size(s) = Width(label)
    BY <1>1, SizeOne
  <2>2. QED BY <1>1, <2>1, SizeJoint
<1> HIDE DEF out
<1>4. b \in Seq(Token) /\ Len(b) \in Nat
  BY DEF Tokens
<1>5. ASSUME NEW x \in ToSet(out) PROVE x = label \/ x \in ToSet(b)
  <2>1. PICK i \in 1..Len(out) : out[i] = x
    BY <1>2, ToSetFacts
  <2>2. CASE i = 1
    BY <1>2, <2>1, <2>2
  <2>3. CASE i # 1
    <3>1. i - 1 \in 1..Len(b) /\ (i - 1) + 1 = i
      BY <1>2, <1>4, <2>3
    <3>2. out[i] = b[i - 1]
      BY <1>2, <3>1
    <3>3. b[i - 1] \in ToSet(b)
      BY <1>4, <3>1, ToSetFacts
    <3>4. QED BY <2>1, <3>2, <3>3
  <2>4. QED BY <2>2, <2>3
<1>6. QED BY <1>2, <1>3, <1>5 DEF out, s, Tokens

(* What a fingerprint is read as, label by label.                          *)
LEMMA FingerprintReads ==
  ASSUME NEW in \in Tokens, in # << >>, Size(in) < FprMax
  PROVE  /\ in[1] = "pin-sha256:" => CanonFingerprint(in) = CanonPin("pin-sha256:", B64Decode(Tail(in)))
         /\ in[1] = "sha1:" => CanonFingerprint(in) = CanonHex("sha1:", Tail(in), 40)
         /\ in[1] = "sha256:" => CanonFingerprint(in) = CanonHex("sha256:", Tail(in), 64)
         /\ in[1] \notin {"pin-sha256:", "sha1:", "sha256:"} => CanonFingerprint(in) = CanonBare(in)
<1> DEFINE l == in[1]
           pin == CanonPin(l, B64Decode(Tail(in)))
           short == CanonHex("sha1:", Tail(in), 40)
           long == CanonHex("sha256:", Tail(in), 64)
           bare == CanonBare(in)
<1>1. CanonFingerprint(in) = CASE l = "pin-sha256:" -> pin
                               [] l = "sha1:"       -> short
                               [] l = "sha256:"     -> long
                               [] OTHER             -> bare
  <2>1. ~ (in = << >> \/ Size(in) >= FprMax)
    <3>1. Size(in) \in Nat /\ FprMax \in Nat
      BY SizeFacts DEF FprMax
    <3>2. QED BY <3>1
  <2>2. QED BY <2>1 DEF CanonFingerprint
<1>2. l = "pin-sha256:" => pin = CanonPin("pin-sha256:", B64Decode(Tail(in)))
  OBVIOUS
<1> HIDE DEF l, pin, short, long, bare
<1>3. /\ l = "pin-sha256:" => CanonFingerprint(in) = pin
      /\ l = "sha1:" => CanonFingerprint(in) = short
      /\ l = "sha256:" => CanonFingerprint(in) = long
      /\ l \notin {"pin-sha256:", "sha1:", "sha256:"} => CanonFingerprint(in) = bare
  BY <1>1
<1>4. QED BY <1>2, <1>3 DEF l, short, long, bare

(* A fingerprint as it is kept.                                            *)
IsPinned(out) == CanonFingerprint(out) = out /\ out \in Tokens /\ out # << >> /\ "ctl" \notin ToSet(out)

(* A digest in hex is taken as it is.                                      *)
LEMMA HexStays ==
  ASSUME NEW body \in Tokens, NEW label, NEW digits,
         \/ label = "sha1:" /\ digits = 40
         \/ label = "sha256:" /\ digits = 64,
         CanonHex(label, body, digits) # << >>
  PROVE  IsPinned(CanonHex(label, body, digits))
<1> DEFINE b == Lowered(body)
           out == <<label>> \o b
<1>1. Size(body) = digits /\ ToSet(body) \subseteq Hex /\ CanonHex(label, body, digits) = out
  BY DEF CanonHex, Refused
<1>2. /\ b \in Tokens /\ Len(b) = Len(body) /\ Lowered(b) = b /\ Size(b) = digits
      /\ \A i \in 1..Len(body) : b[i] = Low(body[i]) /\ body[i] \in Token
  BY <1>1, LoweredFacts
<1> HIDE DEF b
<1>3. ToSet(b) \subseteq Hex
  <2>1. ASSUME NEW x \in ToSet(b) PROVE x \in Hex
    <3>1. PICK i \in 1..Len(b) : b[i] = x
      BY <1>2, ToSetFacts DEF Tokens
    <3>2. body[i] \in ToSet(body)
      BY <1>2, ToSetFacts DEF Tokens
    <3>3. body[i] \in Hex /\ body[i] \in Token /\ x = Low(body[i])
      BY <1>1, <1>2, <3>1, <3>2
    <3>4. QED BY <3>3, LowFacts
  <2>2. QED BY <2>1
<1>4. label \in Token /\ label # "ctl" /\ digits \in Nat
  BY DEF Token, Other
<1>5. /\ out \in Tokens /\ out # << >> /\ out[1] = label /\ Tail(out) = b
      /\ Size(out) = Width(label) + digits
      /\ \A x \in ToSet(out) : x = label \/ x \in ToSet(b)
  BY <1>2, <1>4, Labelled
<1>6. CanonHex(label, b, digits) = out
  BY <1>2, <1>3 DEF CanonHex
<1> HIDE DEF out
<1>7. Size(out) < FprMax
  <2>1. CASE label = "sha1:"
    <3>1. Width(label) = 5
      BY <2>1 DEF Width
    <3>2. digits = 40
      BY <2>1
    <3>3. QED BY <1>5, <3>1, <3>2 DEF FprMax
  <2>2. CASE label = "sha256:"
    <3>1. Width(label) = 7
      BY <2>2 DEF Width
    <3>2. digits = 64
      BY <2>2
    <3>3. QED BY <1>5, <3>1, <3>2 DEF FprMax
  <2>3. QED BY <2>1, <2>2
<1>8. CanonFingerprint(out) = out
  <2>1. CASE label = "sha1:"
    <3>1. CanonFingerprint(out) = CanonHex("sha1:", Tail(out), 40)
      BY <1>5, <1>7, <2>1, FingerprintReads
    <3>2. digits = 40
      BY <2>1
    <3>3. QED BY <1>5, <1>6, <2>1, <3>1, <3>2
  <2>2. CASE label = "sha256:"
    <3>1. CanonFingerprint(out) = CanonHex("sha256:", Tail(out), 64)
      BY <1>5, <1>7, <2>2, FingerprintReads
    <3>2. digits = 64
      BY <2>2
    <3>3. QED BY <1>5, <1>6, <2>2, <3>1, <3>2
  <2>3. QED BY <2>1, <2>2
<1>9. "ctl" \notin ToSet(out)
  BY <1>3, <1>4, <1>5, HexFacts
<1>10. QED BY <1>1, <1>5, <1>8, <1>9 DEF IsPinned

(* A pin is taken as it is.                                                *)
LEMMA PinStays ==
  ASSUME NEW raw, Bytes32(raw)
  PROVE  IsPinned(CanonPin("pin-sha256:", raw))
<1> DEFINE b == B64Encode(raw)
           label == "pin-sha256:"
           out == <<label>> \o b
<1>1. CanonPin(label, raw) = out
  BY DEF CanonPin, Bytes32
<1>2. b \in Tokens /\ Len(b) = 44 /\ b[44] = "=" /\ \A c \in 1..43 : \E v \in Sextets : b[c] = Letter(v)
  BY EncodedFacts
<1>3. B64Decode(b) = raw
  BY Base64Back
<1> HIDE DEF b
<1>4. ASSUME NEW i \in 1..44 PROVE Width(b[i]) = 1 /\ b[i] # "ctl"
  <2>1. CASE i = 44
    BY <1>2, <2>1 DEF Width
  <2>2. CASE i \in 1..43
    <3>1. PICK v \in Sextets : b[i] = Letter(v)
      BY <1>2, <2>2
    <3>2. v \in 0..63 /\ v + 1 \in 1..64
      BY <3>1 DEF Sextets
    <3>3. b[i] \notin Other /\ b[i] # "path" /\ b[i] # "ua128"
      BY <3>1, <3>2, LetterFacts, LongTokens DEF Letter
    <3>4. QED BY <3>3 DEF Width, Other
  <2>3. QED BY <2>1, <2>2
<1>5. Size(b) = 44
  <2>1. \A i \in 1..Len(b) : Width(b[i]) = 1
    BY <1>2, <1>4
  <2>2. QED BY <1>2, <2>1, SizeOfCharacters
<1>6. "ctl" \notin ToSet(b)
  <2>1. \A i \in 1..Len(b) : b[i] # "ctl"
    BY <1>2, <1>4
  <2>2. b \in Seq(Token)
    BY <1>2 DEF Tokens
  <2>3. QED BY <2>1, <2>2, NowhereInside
<1>7. label \in Token /\ label # "ctl" /\ Width(label) = 11
  BY DEF Token, Other, Width
<1>12. 44 \in Nat /\ b \in Tokens
  BY <1>2
<1> HIDE DEF label
<1>8. /\ out \in Tokens /\ out # << >> /\ out[1] = label /\ Tail(out) = b
      /\ Size(out) = Width(label) + 44
      /\ \A x \in ToSet(out) : x = label \/ x \in ToSet(b)
  BY <1>5, <1>7, <1>12, Labelled
<1>9. Size(out) < FprMax
  BY <1>7, <1>8 DEF FprMax
<1> HIDE DEF out
<1>13. label = "pin-sha256:"
  BY DEF label
<1>10. CanonFingerprint(out) = CanonPin(label, raw)
  BY <1>3, <1>8, <1>9, <1>13, FingerprintReads
<1>11. QED BY <1>1, <1>6, <1>7, <1>8, <1>10, <1>13 DEF IsPinned

(* A fingerprint that is taken is kept in a form that is taken as it is.   *)
LEMMA FingerprintStays ==
  ASSUME NEW in \in Tokens, CanonFingerprint(in) # << >>
  PROVE  IsPinned(CanonFingerprint(in))
<1>1. in # << >> /\ Size(in) < FprMax
  <2>1. Size(in) \in Nat /\ FprMax \in Nat
    BY SizeFacts DEF FprMax
  <2>2. QED BY <2>1 DEF CanonFingerprint, Refused
<1>2. Tail(in) \in Tokens
  BY <1>1 DEF Tokens
<1>3. CASE in[1] = "pin-sha256:"
  <2> DEFINE raw == B64Decode(Tail(in))
  <2>1. CanonFingerprint(in) = CanonPin("pin-sha256:", raw)
    BY <1>1, <1>3, FingerprintReads
  <2>2. Len(raw) = 32
    <3> HIDE DEF raw
    <3>1. QED BY <2>1 DEF CanonPin, Refused
  <2>3. Bytes32(raw)
    BY <1>2, <2>2, DecodedBytes
  <2> HIDE DEF raw
  <2>4. QED BY <2>1, <2>3, PinStays
<1>4. CASE in[1] = "sha1:"
  BY <1>1, <1>2, <1>4, FingerprintReads, HexStays
<1>5. CASE in[1] = "sha256:"
  BY <1>1, <1>2, <1>5, FingerprintReads, HexStays
<1>6. CASE in[1] \notin {"pin-sha256:", "sha1:", "sha256:"}
  <2>1. CanonFingerprint(in) = CanonBare(in)
    BY <1>1, <1>6, FingerprintReads
  <2>2. \/ CanonFingerprint(in) = CanonHex("sha1:", in, 40)
        \/ CanonFingerprint(in) = CanonHex("sha256:", in, 64)
    BY <2>1 DEF CanonBare
  <2>3. QED BY <2>2, HexStays
<1>7. QED BY <1>3, <1>4, <1>5, <1>6

-----------------------------------------------------------------------------
(* What vpn-up-admin approve is about to store reads back.                 *)

(* The version of a record is the number 1.                                *)
LEMMA VersionReads ==
  ASSUME NEW hi \in Nat, 1 <= hi
  PROVE  ParseBounded(<<"1">>, 1, hi) = 1
<1> DEFINE one == "1"
           t == <<one>>
           f == [i \in 0..1 |-> i]
<1>1. one = Letter(53)
  BY DEF Letter, Alphabet
<1>2. one \in Token /\ Sextet[one] = 53
  <2>1. 53 \in 0..63
    OBVIOUS
  <2>2. QED BY <1>1, <2>1, LetterFacts
<1>3. one \in Digits /\ one # "0"
  <2>1. 53 \in 52..61
    OBVIOUS
  <2>2. QED BY <1>1, <2>1 DEF Digits, Among
<1> HIDE DEF one
<1>4. t \in Tokens /\ Len(t) = 1 /\ t[1] = one /\ t # << >>
  BY <1>2 DEF Tokens
<1>5. \A x \in ToSet(t) : x = one
  <2>1. \A x \in ToSet(t) : \E i \in 1..Len(t) : t[i] = x
    BY <1>4, ToSetFacts DEF Tokens
  <2>2. QED BY <1>4, <2>1
<1> HIDE DEF t
<1>6. DOMAIN f = 0..Len(t) /\ f[0] = 0 /\ f[1] = 1 /\ f = [i \in 0..Len(t) |-> f[i]]
  BY <1>4
<1> HIDE DEF f
<1>7. Counted(f[0], t[1]) = 1
  BY <1>2, <1>4, <1>6 DEF Counted
<1>8. Counts(t, f)
  <2>1. \A i \in 1..Len(t) : f[i] = Counted(f[i - 1], t[i])
    BY <1>4, <1>6, <1>7
  <2>2. QED BY <1>6, <2>1 DEF Counts
<1>9. Number(t) = 1
  BY <1>4, <1>6, <1>8, NumberIs
<1>10. ToSet(t) \subseteq Digits
  BY <1>3, <1>5
<1>11. ParseBounded(t, 1, hi) = 1
  BY <1>3, <1>4, <1>9, <1>10 DEF ParseBounded
<1>12. QED BY <1>11 DEF t, one

(* The text of every approval is without control characters.               *)
Plain(text) == "ctl" \notin ToSet(text)

(* The blank line has no key of a record.                                  *)
LEMMA BlankIsNoField == BlankLine.key \notin ApprovalKeys
BY DEF BlankLine, Line, ApprovalKeys

(* A record of plain values is well formed and complete.                   *)
LEMMA RecordIsWellFormed ==
  ASSUME NEW a, NEW proxy, proxy = IF a.proxy = << >> THEN <<"NONE">> ELSE a.proxy,
         Plain(a.profile_id), Plain(a.protocol), Plain(a.origin), Plain(a.fingerprint), Plain(proxy)
  PROVE  /\ WellFormed(Serialise(a), ApprovalKeys)
         /\ \A key \in ApprovalKeys : HasKey(Serialise(a), key)
<1> DEFINE version == <<"1">>
           l1 == Line("version", version)
           l2 == Line("profile_id", a.profile_id)
           l3 == Line("protocol", a.protocol)
           l4 == Line("origin", a.origin)
           l5 == Line("fingerprint", a.fingerprint)
           l6 == Line("proxy", proxy)
           S  == {l1, l2, l3, l4, l5, l6}
           lines == <<l1, l2, l3, l4, l5, l6>>
<1>1. Serialise(a) = lines
  BY DEF Serialise
<1>0. Plain(version)
  <2> DEFINE c == "1"
             t == <<c>>
  <2>1. t \in Seq({c}) /\ Len(t) = 1 /\ t[1] = c /\ c # "ctl"
    OBVIOUS
  <2> HIDE DEF c, t
  <2>2. \A i \in 1..Len(t) : t[i] # "ctl"
    BY <2>1
  <2>3. "ctl" \notin ToSet(t)
    BY <2>1, <2>2, NowhereInside
  <2>4. QED BY <2>3 DEF Plain, t, c
<1> HIDE DEF version
<1>2. /\ l1.key = "version" /\ l2.key = "profile_id" /\ l3.key = "protocol" /\ l4.key = "origin"
      /\ l5.key = "fingerprint" /\ l6.key = "proxy"
      /\ l1.val = version /\ l2.val = a.profile_id /\ l3.val = a.protocol /\ l4.val = a.origin
      /\ l5.val = a.fingerprint /\ l6.val = proxy
  BY DEF Line
<1> HIDE DEF l1, l2, l3, l4, l5, l6
<1>3. /\ lines \in Seq(S) /\ Len(lines) = 6
      /\ lines[1] = l1 /\ lines[2] = l2 /\ lines[3] = l3 /\ lines[4] = l4 /\ lines[5] = l5 /\ lines[6] = l6
  OBVIOUS
<1> HIDE DEF lines, S
<1>4. \A i, j \in 1..6 : lines[i].key = lines[j].key => i = j
  BY <1>2, <1>3
<1>5. \A i \in 1..6 : lines[i].key \in ApprovalKeys
  BY <1>2, <1>3 DEF ApprovalKeys
<1>6. \A i \in 1..6 : Plain(lines[i].val)
  BY <1>0, <1>2, <1>3
<1>7. \A key \in ApprovalKeys : \E i \in 1..6 : lines[i].key = key
  BY <1>2, <1>3 DEF ApprovalKeys
<1>8. \A key \in ApprovalKeys : HasKey(lines, key)
  BY <1>3, <1>7, KeyFacts
<1>9. ASSUME NEW i \in 1..Len(lines)
      PROVE  /\ lines[i] # BlankLine /\ lines[i].key \in ApprovalKeys /\ "ctl" \notin ToSet(lines[i].val)
             /\ \A j \in 1..(i - 1) : lines[j].key # lines[i].key
  <2>1. i \in 1..6 /\ \A j \in 1..(i - 1) : j \in 1..6 /\ j # i
    BY <1>3
  <2>2. lines[i].key \in ApprovalKeys /\ "ctl" \notin ToSet(lines[i].val)
    BY <1>5, <1>6, <2>1 DEF Plain
  <2>3. lines[i] # BlankLine
    BY <2>2, BlankIsNoField
  <2>4. \A j \in 1..(i - 1) : lines[j].key # lines[i].key
    BY <1>4, <2>1
  <2>5. QED BY <2>2, <2>3, <2>4
<1>10. WellFormed(lines, ApprovalKeys)
  BY <1>3, <1>9, WellFormedIs
<1>11. QED BY <1>1, <1>8, <1>10

(* The conditions under which a record is read.                            *)
LEMMA RecordIsRead ==
  ASSUME NEW lines, WellFormed(lines, ApprovalKeys), \A key \in ApprovalKeys : HasKey(lines, key),
         FieldOf(lines, "version") = <<"1">>,
         NEW id, FieldOf(lines, "profile_id") = id, id # << >>, CanonProfileId(id) = id,
         NEW protocol, FieldOf(lines, "protocol") = protocol, ValidProtocol(protocol),
         NEW origin, FieldOf(lines, "origin") = origin, ParseUrl(origin).ok, ParseUrl(origin).origin = origin,
         NEW fpr, FieldOf(lines, "fingerprint") = fpr, fpr # << >>, CanonFingerprint(fpr) = fpr,
         FieldOf(lines, "proxy") # << >>, RecordProxy(lines) # << >> => CanonProxy(RecordProxy(lines)) = RecordProxy(lines)
  PROVE  ParseApproval(lines).ok
<1> DEFINE F(key) == FieldOf(lines, key)
           proxy  == RecordProxy(lines)
           top    == 1000000
           Fine ==
        /\ WellFormed(lines, ApprovalKeys)
        /\ \A key \in ApprovalKeys : HasKey(lines, key)
        /\ ParseBounded(F("version"), 1, top) = 1
        /\ F("profile_id") # << >> /\ CanonProfileId(F("profile_id")) = F("profile_id")
        /\ ValidProtocol(F("protocol"))
        /\ ParseUrl(F("origin")).ok /\ ParseUrl(F("origin")).origin = F("origin")
        /\ F("fingerprint") # << >> /\ CanonFingerprint(F("fingerprint")) = F("fingerprint")
        /\ F("proxy") # << >>
        /\ proxy # << >> => CanonProxy(proxy) = proxy
           record == [ok |-> TRUE, profile_id |-> F("profile_id"), protocol |-> F("protocol"),
                      origin |-> F("origin"), fingerprint |-> F("fingerprint"), proxy |-> proxy]
<1>1. ParseApproval(lines) = IF Fine THEN record ELSE NoApproval
  BY DEF ParseApproval, RecordProxy
<1>2. top \in Nat /\ 1 <= top
  OBVIOUS
<1>3. record.ok
  OBVIOUS
<1> HIDE DEF record, top, proxy
<1>4. ParseBounded(<<"1">>, 1, top) = 1
  BY <1>2, VersionReads
<1>5. ParseBounded(F("version"), 1, top) = 1
  BY <1>4
<1>6. Fine
  BY <1>5 DEF proxy
<1> HIDE DEF Fine
<1>7. QED BY <1>1, <1>3, <1>6

(* No protocol holds a control character.                                  *)
LEMMA ProtocolIsPlain ==
  ASSUME NEW p, ValidProtocol(p)
  PROVE  Plain(p)
<1>1. PICK w \in {"anyconnect", "nc", "gp", "pulse", "f5", "fortinet", "array"} : p = <<w>>
  BY DEF ValidProtocol
<1>2. w # "ctl"
  OBVIOUS
<1>3. <<w>> \in Seq({w}) /\ Len(<<w>>) = 1 /\ <<w>>[1] = w
  OBVIOUS
<1>4. p \in Seq({w}) /\ Len(p) = 1 /\ p[1] = w
  BY <1>1, <1>3
<1>5. \A i \in 1..Len(p) : p[i] # "ctl"
  BY <1>2, <1>4
<1>6. QED BY <1>4, <1>5, NowhereInside DEF Plain

(* What approve makes of its arguments is in canonical form throughout.    *)
LEMMA ApprovedIsCanonical ==
  ASSUME NEW argv \in Seq(Tokens), ApprovalFromArgv(argv).ok
  PROVE  LET a == ApprovalFromArgv(argv) IN
         /\ a.profile_id # << >> /\ CanonProfileId(a.profile_id) = a.profile_id /\ Plain(a.profile_id)
         /\ ValidProtocol(a.protocol)
         /\ ParseUrl(a.origin).ok /\ ParseUrl(a.origin).origin = a.origin /\ Plain(a.origin)
         /\ IsPinned(a.fingerprint)
         /\ a.proxy # << >> => CanonProxy(a.proxy) = a.proxy /\ Plain(a.proxy)
<1> DEFINE s == Scan(argv, ApproveSchema)
           a == ApprovalFromArgv(argv)
<1>1. a = ApprovalOf(s)
  BY DEF ApprovalFromArgv
<1>2. \A f \in {"--profile-id", "--endpoint", "--fingerprint", "--proxy"} : Given(s, f) => Value(s, f) \in Tokens
  <2>1. /\ ApproveSchema \in Schemas /\ "--fingerprint" \in ApproveSchema /\ "--proxy" \in ApproveSchema
        /\ "--profile-id" \in ApproveSchema /\ "--endpoint" \in ApproveSchema
    BY DEF ApproveSchema, Schemas, Flags
  <2>2. QED BY <2>1, ScanTyped
<1> HIDE DEF s, a
<1>3. /\ Given(s, "--profile-id") /\ Given(s, "--endpoint") /\ Given(s, "--fingerprint")
      /\ ApprovedId(s) # << >> /\ ApprovedUrl(s).ok /\ ApprovedPin(s) # << >>
      /\ Given(s, "--proxy") => ApprovedProxy(s) # << >>
      /\ ValidProtocol(Value(s, "--protocol"))
      /\ a = [ok |-> TRUE, profile_id |-> ApprovedId(s), protocol |-> Value(s, "--protocol"),
              origin |-> ApprovedUrl(s).origin, fingerprint |-> ApprovedPin(s), proxy |-> ApprovedProxy(s)]
  BY <1>1, ApprovalIs DEF AllGiven, a
<1>4. /\ a.profile_id = ApprovedId(s) /\ a.protocol = Value(s, "--protocol") /\ a.origin = ApprovedUrl(s).origin
      /\ a.fingerprint = ApprovedPin(s) /\ a.proxy = ApprovedProxy(s)
  BY <1>3
<1>5. a.profile_id # << >> /\ CanonProfileId(a.profile_id) = a.profile_id /\ Plain(a.profile_id)
  <2>1. Value(s, "--profile-id") \in Tokens /\ CanonProfileId(Value(s, "--profile-id")) # << >>
    BY <1>2, <1>3 DEF ApprovedId
  <2>2. PICK l : HexId(l) /\ CanonProfileId(Value(s, "--profile-id")) = Dashed(l)
    BY <2>1, ProfileIdIs
  <2>3. a.profile_id = Dashed(l)
    BY <1>4, <2>2 DEF ApprovedId
  <2>4. QED BY <2>2, <2>3, DashedStays DEF Plain
<1>6. ParseUrl(a.origin).ok /\ ParseUrl(a.origin).origin = a.origin /\ Plain(a.origin)
  <2> DEFINE url == ApprovedUrl(s)
  <2>1. UrlShaped(url)
    BY <1>2, <1>3, UrlFacts DEF ApprovedUrl
  <2>2. a.origin = url.origin
    BY <1>4
  <2> HIDE DEF url
  <2>3. QED BY <2>1, <2>2, OriginBack, OriginIsClean DEF Plain
<1>7. IsPinned(a.fingerprint)
  BY <1>2, <1>3, <1>4, FingerprintStays DEF ApprovedPin
<1>8. a.proxy # << >> => CanonProxy(a.proxy) = a.proxy /\ Plain(a.proxy)
  <2>1. CASE Given(s, "--proxy")
    <3>1. ApprovedProxy(s) = CanonProxy(Value(s, "--proxy"))
      BY <2>1 DEF ApprovedProxy
    <3>2. Value(s, "--proxy") \in Tokens /\ CanonProxy(Value(s, "--proxy")) # << >>
      BY <1>2, <1>3, <2>1, <3>1
    <3>3. a.proxy = CanonProxy(Value(s, "--proxy"))
      BY <1>4, <3>1
    <3>4. QED BY <3>2, <3>3, ProxyStays DEF Plain
  <2>2. CASE ~ Given(s, "--proxy")
    BY <1>4, <2>2 DEF ApprovedProxy
  <2>3. QED BY <2>1, <2>2
<1>9. QED BY <1>3, <1>4, <1>5, <1>6, <1>7, <1>8 DEF a

(* vpn-up-admin reads back what it is about to store; whatever the         *)
(* arguments, the reading never refuses or changes what approve made of    *)
(* them, so that a record is stored exactly when its arguments are taken.  *)
THEOREM ReadBackNeverRefuses ==
  \A argv \in Seq(Tokens) : Stored(argv) = ApprovalFromArgv(argv)
<1> SUFFICES ASSUME NEW argv \in Seq(Tokens) PROVE Stored(argv) = ApprovalFromArgv(argv)
  OBVIOUS
<1> DEFINE a == ApprovalFromArgv(argv)
           lines == Serialise(a)
           proxy == IF a.proxy = << >> THEN <<"NONE">> ELSE a.proxy
<1>1. Stored(argv) = IF a.ok THEN ParseApproval(lines) ELSE NoApproval
  BY DEF Stored, ReadBack
<1>2. CASE a.ok
  <2>1. /\ a.profile_id # << >> /\ CanonProfileId(a.profile_id) = a.profile_id /\ Plain(a.profile_id)
        /\ ValidProtocol(a.protocol)
        /\ ParseUrl(a.origin).ok /\ ParseUrl(a.origin).origin = a.origin /\ Plain(a.origin)
        /\ IsPinned(a.fingerprint)
        /\ a.proxy # << >> => CanonProxy(a.proxy) = a.proxy /\ Plain(a.proxy)
    BY <1>2, ApprovedIsCanonical
  <2>2. a.proxy # <<"NONE">>
    BY <1>2, ApprovalTyped
  <2> HIDE DEF a
  <2>3. Plain(proxy) /\ proxy # << >>
    <3>1. CASE a.proxy = << >>
      <4> DEFINE c == "NONE"
                 t == <<c>>
      <4>1. t \in Seq({c}) /\ Len(t) = 1 /\ t[1] = c /\ c # "ctl" /\ t # << >>
        OBVIOUS
      <4>2. proxy = t
        BY <3>1
      <4> HIDE DEF c, t, proxy
      <4>3. \A i \in 1..Len(t) : t[i] # "ctl"
        BY <4>1
      <4>4. "ctl" \notin ToSet(t)
        BY <4>1, <4>3, NowhereInside
      <4>5. QED BY <4>1, <4>2, <4>4 DEF Plain
    <3>2. CASE a.proxy # << >>
      BY <2>1, <3>2
    <3>3. QED BY <3>1, <3>2
  <2>4. Plain(a.protocol) /\ Plain(a.fingerprint) /\ a.fingerprint # << >> /\ CanonFingerprint(a.fingerprint) = a.fingerprint
    BY <2>1, ProtocolIsPlain DEF IsPinned, Plain
  <2>5. RecordProxy(lines) = a.proxy
    BY <2>2, WrittenFields DEF RecordProxy
  <2>6. /\ FieldOf(lines, "version") = <<"1">> /\ FieldOf(lines, "profile_id") = a.profile_id
        /\ FieldOf(lines, "protocol") = a.protocol /\ FieldOf(lines, "origin") = a.origin
        /\ FieldOf(lines, "fingerprint") = a.fingerprint /\ FieldOf(lines, "proxy") = proxy
    BY WrittenFields
  <2>7. WellFormed(lines, ApprovalKeys) /\ \A key \in ApprovalKeys : HasKey(lines, key)
    <3> DEFINE p == proxy
    <3>1. p = IF a.proxy = << >> THEN <<"NONE">> ELSE a.proxy
      OBVIOUS
    <3> HIDE DEF p
    <3>2. Plain(p)
      BY <2>3 DEF p
    <3>3. QED BY <2>1, <2>4, <3>1, <3>2, RecordIsWellFormed
  <2> HIDE DEF lines, proxy
  <2>8. ParseApproval(lines).ok
    BY <2>1, <2>3, <2>4, <2>5, <2>6, <2>7, RecordIsRead
  <2>9. Stored(argv).ok
    BY <1>1, <1>2, <2>8
  <2>10. QED BY <2>9, StoredIs DEF a
<1>3. CASE ~ a.ok
  <2>1. a = NoApproval
    <3> DEFINE s == Scan(argv, ApproveSchema)
    <3>1. a = ApprovalOf(s)
      BY DEF ApprovalFromArgv
    <3> HIDE DEF s, a
    <3>2. QED BY <1>3, <3>1 DEF ApprovalOf
  <2>2. QED BY <1>1, <1>3, <2>1
<1>4. QED BY <1>2, <1>3

=============================================================================
