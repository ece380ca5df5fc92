--------------------------- MODULE RegistryProofs ---------------------------
(***************************************************************************)
(* Proofs about the approval registry, for every set of processes,         *)
(* profiles and texts.                                                     *)
(***************************************************************************)
EXTENDS Registry, TLAPS

Known    == Texts \cup {Installed[p] : p \in DOMAIN Installed}
Contents == [kind : {"absent", "empty", "whole", "cut", "torn"}, of : Known \cup {None}, size : Nat]
Settled  == [op : {"idle", "approved", "refused", "got"}]
Putters  == [op : {"open", "write", "flush", "rename", "unlink"}, text : Texts, inode : Inodes \cup {None}]
Readers  == [op : {"read"}, profile : Profiles, inode : Inodes, may : SUBSET Known]
Listers  == [op : {"list", "listed"}, seen : SUBSET Profiles, found : SUBSET Profiles,
             changed : SUBSET Profiles, ok : BOOLEAN, cut : BOOLEAN]

TypeOK ==
  /\ record \in [Profiles -> Inodes \cup {None}]
  /\ tmp \in [Profiles -> Inodes \cup {None}]
  /\ data \in [Inodes -> Contents]
  /\ synced \subseteq Inodes
  /\ kept \in [Profiles -> Contents]
  /\ proc \in [Procs -> Settled \cup Putters \cup Readers \cup Listers]
  /\ current \in [Profiles -> SUBSET Known]
  /\ shared \subseteq Profiles

Writing(y) == proc[y].op \in {"write", "flush"}
Reading(y) == proc[y].op = "read"

(* No inode has two names.                                                 *)
NamesApart ==
  \A p, q \in Profiles :
    /\ record[p] # None => record[p] # tmp[q]
    /\ p # q /\ record[p] # None => record[p] # record[q]
    /\ p # q /\ tmp[p] # None => tmp[p] # tmp[q]

(* An inode that somebody writes has no name of another profile, and       *)
(* nobody writes it for another profile.                                   *)
WritersApart ==
  \A y \in Procs : Writing(y) =>
    /\ proc[y].inode \in Inodes
    /\ \A q \in Profiles \ {proc[y].text.profile} : record[q] # proc[y].inode /\ tmp[q] # proc[y].inode
    /\ \A z \in Procs : Writing(z) /\ proc[z].inode = proc[y].inode => proc[z].text.profile = proc[y].text.profile

(* An inode that somebody reads is no .tmp, no record of another profile,  *)
(* and is written for no other profile.                                    *)
ReadersApart ==
  \A x \in Procs : Reading(x) =>
    /\ \A q \in Profiles : tmp[q] # proc[x].inode
    /\ \A q \in Profiles \ {proc[x].profile} : record[q] # proc[x].inode
    /\ \A z \in Procs : Writing(z) /\ proc[z].inode = proc[x].inode => proc[z].text.profile = proc[x].profile

(* What is found under a profile's names is of that profile.               *)
OfProfile(c, p) == /\ c.of # None => c.of.profile = p
                   /\ c.kind \in {"whole", "cut"} => c.of # None

Labelled ==
  /\ \A p \in Profiles : /\ OfProfile(kept[p], p)
                         /\ record[p] # None => OfProfile(data[record[p]], p)
                         /\ tmp[p] # None => OfProfile(data[tmp[p]], p)
  /\ \A y \in Procs : /\ Writing(y) => OfProfile(data[proc[y].inode], proc[y].text.profile)
                      /\ Reading(y) => OfProfile(data[proc[y].inode], proc[y].profile)

(* Without a collision one process at a time puts a record; its .tmp is    *)
(* its own, and holds what it should at every step.                        *)
OneWriter == \A p \in Profiles \ shared : \A y, z \in Putting(p) : y = z

PutsWell(y) ==
  proc[y].op \in {"open", "write", "flush", "rename"} /\ proc[y].text.profile \notin shared =>
    LET t == proc[y].text
        i == proc[y].inode
    IN /\ t \in current[t.profile]
       /\ proc[y].op # "open" => i \in Inodes /\ tmp[t.profile] = i
       /\ proc[y].op = "write" => data[i] = Empty
       /\ proc[y].op \in {"flush", "rename"} => data[i] = Whole(t)
       /\ proc[y].op = "rename" => i \in synced

PutGoesWell == \A y \in Procs : PutsWell(y)

(* Then a record is whole, on the disk and off it, and so is what is read. *)
WholeOf(c, p, S) == \E t \in S : t \in Known /\ t.profile = p /\ c = Whole(t)

RecordsWhole ==
  \A p \in Profiles \ shared :
    /\ record[p] # None => record[p] \in synced /\ WholeOf(data[record[p]], p, current[p])
    /\ kept[p] = Absent \/ WholeOf(kept[p], p, Known)

ReadersWhole ==
  \A x \in Procs : Reading(x) /\ proc[x].profile \notin shared =>
    WholeOf(data[proc[x].inode], proc[x].profile, proc[x].may)

IndInv == /\ TypeOK /\ NamesApart /\ WritersApart /\ ReadersApart /\ Labelled
          /\ OneWriter /\ PutGoesWell /\ RecordsWhole /\ ReadersWhole

-----------------------------------------------------------------------------
States == Settled \cup Putters \cup Readers \cup Listers

(* What a process is doing says what it keeps. *)
LEMMA Shapes ==
  ASSUME NEW s \in States
  PROVE /\ s.op \in {"open", "write", "flush", "rename", "unlink"} => s \in Putters
        /\ s.op = "read" => s \in Readers
        /\ s.op \in {"list", "listed"} => s \in Listers
        /\ s \in Settled \cup Listers => s.op \notin {"open", "write", "flush", "rename", "unlink", "read"}
  BY DEF States, Settled, Putters, Readers, Listers

LEMMA KnownTexts ==
  /\ Texts \subseteq Known
  /\ \A t \in Known : IsText(t) /\ t.profile \in Profiles /\ t # None /\ t.size \in Nat \ {0}
  BY TextsAssumption DEF Known, IsText

(* The contents of a file are contents. *)
LEMMA ContentTypes ==
  /\ Absent \in Contents /\ Empty \in Contents
  /\ \A n \in Nat : Torn(n) \in Contents
  /\ \A t \in Known : Whole(t) \in Contents /\ Cut(t) \in Contents
  BY KnownTexts DEF Contents, Content, Absent, Empty, Torn, Whole, Cut

LEMMA WrittenType ==
  ASSUME NEW t \in Known, NEW c \in Contents, NEW full \in BOOLEAN
  PROVE Written(t, full, c) \in Contents
<1>1. c.size \in Nat
  BY DEF Contents
<1>2. QED BY <1>1, ContentTypes DEF Written

LEMMA WrittenIsLabelled ==
  ASSUME NEW t \in Known, NEW c \in Contents, NEW full \in BOOLEAN
  PROVE OfProfile(Written(t, full, c), t.profile)
  BY KnownTexts DEF Written, OfProfile, Whole, Cut, Torn, Content

(* A text that is written to an empty file in full is the file. *)
LEMMA WrittenToEmpty ==
  ASSUME NEW t \in Known PROVE Written(t, TRUE, Empty) = Whole(t)
<1>1. 0 <= t.size + 1
  BY KnownTexts
<1>2. QED BY <1>1 DEF Written, Empty, Content

(* Every profile has an inode of its own when the machine starts. *)
LEMMA PlaceIsOneToOne ==
  Place \in [Profiles -> Inodes] /\ \A p, q \in Profiles : Place[p] = Place[q] => p = q
  BY InodesAssumption DEF Place

LEMMA StartedData ==
  ASSUME NEW content \in [Profiles -> Contents]
  PROVE /\ Started(content).data \in [Inodes -> Contents]
        /\ \A p \in Profiles : Started(content).data[Place[p]] = content[p]
        /\ Started(content).record \in [Profiles -> Inodes \cup {None}]
        /\ \A p \in Profiles : Started(content).record[p] = IF content[p] = Absent THEN None ELSE Place[p]
<1> DEFINE At0(i) == IF \E p \in Profiles : Place[p] = i THEN content[CHOOSE p \in Profiles : Place[p] = i] ELSE Empty
<1>1. Started(content) = [record |-> [p \in Profiles |-> IF content[p] = Absent THEN None ELSE Place[p]],
                          data |-> [i \in Inodes |-> At0(i)]]
  BY DEF Started
<1>2. \A i \in Inodes : At0(i) \in Contents
  BY ContentTypes
<1>3. ASSUME NEW p \in Profiles PROVE At0(Place[p]) = content[p]
  BY PlaceIsOneToOne
<1> HIDE DEF At0
<1>4. QED BY <1>1, <1>2, <1>3, PlaceIsOneToOne

-----------------------------------------------------------------------------
(* Every step is one process's; what the others do for the registry, they  *)
(* go on doing, though a listing may notice the step.                      *)
PutOps == {"open", "write", "flush", "rename", "unlink"}

OnlySteps(x) == \A y \in Procs \ {x} : proc'[y].op \in PutOps \cup {"read"} => proc'[y] = proc[y]
Goes(y)      == proc[y].op \in PutOps \cup {"read"}
OnlyStop(x)  == \A y \in Procs \ {x} : Goes(y) => proc'[y] = proc[y]

LEMMA BecomeSteps ==
  ASSUME TypeOK, NEW x \in Procs, NEW s \in States, Become(x, s)
  PROVE proc' \in [Procs -> States] /\ proc'[x] = s /\ OnlySteps(x) /\ OnlyStop(x)
  BY DEF TypeOK, Become, OnlySteps, OnlyStop, States

LEMMA NoticedSteps ==
  ASSUME TypeOK, NEW x \in Procs, NEW s \in States, NEW p \in Profiles, NameChanges(x, s, p)
  PROVE proc' \in [Procs -> States] /\ proc'[x] = s /\ OnlySteps(x) /\ OnlyStop(x)
<1> DEFINE New(y) == CASE y = x -> s
                       [] y # x /\ proc[y].op \in {"list", "listed"} -> [proc[y] EXCEPT !.changed = @ \cup {p}]
                       [] OTHER -> proc[y]
<1>1. proc' = [y \in Procs |-> New(y)]
  BY DEF NameChanges
<1>2. New(x) = s
  OBVIOUS
<1>3. \A y \in Procs \ {x} :
        /\ proc[y].op \in {"list", "listed"} => New(y) = [proc[y] EXCEPT !.changed = @ \cup {p}]
        /\ proc[y].op \notin {"list", "listed"} => New(y) = proc[y]
  OBVIOUS
<1> HIDE DEF New
<1>4. ASSUME NEW y \in Procs, y # x PROVE New(y) \in States /\ (New(y) = proc[y] \/ (New(y) \in Listers /\ proc[y] \in Listers))
  <2>1. proc[y] \in States
    BY DEF TypeOK, States
  <2>2. CASE proc[y].op \in {"list", "listed"}
    <3>1. proc[y] \in Listers
      BY <2>1, <2>2, Shapes
    <3>2. New(y) = [proc[y] EXCEPT !.changed = @ \cup {p}]
      BY <2>2, <1>3, <1>4
    <3>3. New(y) \in Listers
      BY <3>1, <3>2 DEF Listers
    <3>4. QED BY <3>1, <3>3 DEF States
  <2>3. CASE proc[y].op \notin {"list", "listed"}
    BY <2>1, <2>3, <1>3, <1>4
  <2>4. QED BY <2>2, <2>3
<1>5. proc' \in [Procs -> States] /\ proc'[x] = s
  BY <1>1, <1>2, <1>4
<1>6. ASSUME NEW y \in Procs, y # x, proc'[y] # proc[y]
      PROVE proc[y].op \notin PutOps \cup {"read"} /\ proc'[y].op \notin PutOps \cup {"read"}
  <2>1. proc[y] \in Listers /\ proc'[y] \in Listers
    BY <1>1, <1>4, <1>6
  <2>2. QED BY <2>1 DEF Listers, PutOps
<1>7. QED BY <1>5, <1>6 DEF OnlySteps, OnlyStop, Goes

(* A process that stops putting or reading, or is left with its .tmp to    *)
(* remove, disturbs nothing.                                               *)
LEMMA QuietSteps ==
  ASSUME IndInv, NEW x \in Procs, NEW s \in States, proc' \in [Procs -> States], proc'[x] = s, OnlySteps(x),
         \/ s \in Settled \cup Listers
         \/ s.op = "unlink" /\ proc[x].op \in PutOps /\ s.text = proc[x].text,
         UNCHANGED <<files, current, shared>>
  PROVE IndInv'
<1>1. s.op \notin {"open", "write", "flush", "rename", "read"}
  BY Shapes
<1>2. \A y \in Procs : proc'[y].op \in {"open", "write", "flush", "rename", "read"} => proc'[y] = proc[y]
  BY <1>1 DEF OnlySteps, PutOps
<1> USE <1>2 DEF IndInv, files, Writing, Reading
<1>3. TypeOK'
  BY DEF TypeOK, States
<1>4. NamesApart'
  BY DEF NamesApart
<1>5. WritersApart'
  BY DEF WritersApart
<1>6. ReadersApart'
  BY DEF ReadersApart
<1>7. Labelled'
  BY DEF Labelled, OfProfile
<1>8. OneWriter'
  <2>1. ASSUME NEW p, NEW y \in Putting(p)' PROVE y \in Putting(p)
    BY <2>1, Shapes DEF Putting, OnlySteps, PutOps
  <2>2. QED BY <2>1 DEF OneWriter
<1>9. PutGoesWell'
  BY DEF PutGoesWell, PutsWell
<1>10. RecordsWhole'
  BY DEF RecordsWhole, WholeOf
<1>11. ReadersWhole'
  BY DEF ReadersWhole, WholeOf
<1>12. QED BY <1>3, <1>4, <1>5, <1>6, <1>7, <1>8, <1>9, <1>10, <1>11

(* approve begins: from now on two may write the profile. *)
LEMMA ApproveStep ==
  ASSUME IndInv, NEW x \in Procs, NEW t \in Texts, Approve(x, t)
  PROVE IndInv'
<1> DEFINE s == [op |-> "open", text |-> t, inode |-> None]
           p == t.profile
<1>1. s \in Putters
  BY DEF Putters
<1>2. proc' \in [Procs -> States] /\ proc'[x] = s /\ OnlySteps(x) /\ OnlyStop(x)
  BY <1>1, BecomeSteps DEF Approve, IndInv, States
<1>3. \A y \in Procs : proc'[y].op \in {"write", "flush", "rename", "read"} => proc'[y] = proc[y]
  BY <1>2 DEF OnlySteps, PutOps
<1>4. /\ UNCHANGED files
      /\ current' = [current EXCEPT ![p] = @ \cup {t}]
      /\ shared' = IF Putting(p) = {} THEN shared ELSE shared \cup {p}
  BY DEF Approve
<1>5. t \in Known /\ p \in Profiles
  BY KnownTexts
<1> HIDE DEF s
<1> USE <1>3, <1>4, <1>5 DEF IndInv, files, Writing, Reading
<1>6. TypeOK'
  BY <1>2 DEF TypeOK, States
<1>7. NamesApart'
  BY DEF NamesApart
<1>8. WritersApart'
  BY DEF WritersApart
<1>9. ReadersApart'
  BY DEF ReadersApart
<1>10. Labelled'
  BY DEF Labelled, OfProfile
<1>11. OneWriter'
  <2>1. ASSUME NEW q \in Profiles, NEW y \in Putting(q)' PROVE y \in Putting(q) \/ (y = x /\ q = p)
    BY <2>1, <1>2 DEF Putting, OnlySteps, PutOps, s
  <2>2. QED BY <2>1 DEF OneWriter
<1>12. PutGoesWell'
  <2>1. \A q \in Profiles : current[q] \subseteq current'[q]
    BY DEF TypeOK
  <2>2. ASSUME NEW y \in Procs, y # x, proc'[y].op \in {"open", "write", "flush", "rename"}
        PROVE proc'[y] = proc[y] /\ proc[y].text \in Known /\ proc[y].text.profile \in Profiles
    <3>1. proc'[y] = proc[y] /\ proc[y] \in States
      BY <2>2, <1>2 DEF OnlySteps, PutOps, TypeOK, States
    <3>2. proc[y] \in Putters
      BY <3>1, <2>2, Shapes
    <3>3. QED BY <3>1, <3>2, KnownTexts DEF Putters
  <2>3. \A q \in Profiles \ shared' : q \notin shared
    OBVIOUS
  <2>4. t \in current'[p]
    BY DEF TypeOK
  <2>5. ASSUME NEW y \in Procs, y # x, proc'[y].op \in {"open", "write", "flush", "rename"}, proc'[y].text.profile \notin shared'
        PROVE PutsWell(y)'
    BY <2>1, <2>2, <2>3, <2>5 DEF PutGoesWell, PutsWell
  <2>6. QED BY <2>4, <2>5, <1>2 DEF PutGoesWell, PutsWell, s
<1>13. RecordsWhole'
  BY DEF RecordsWhole, WholeOf, TypeOK
<1>14. ReadersWhole'
  BY DEF ReadersWhole, WholeOf
<1>15. QED BY <1>6, <1>7, <1>8, <1>9, <1>10, <1>11, <1>12, <1>13, <1>14

(* The .tmp is opened and truncated. *)
LEMMA OpenStep ==
  ASSUME IndInv, NEW x \in Procs, OpenTmp(x)
  PROVE IndInv'
<1> DEFINE t == proc[x].text
           p == t.profile
<1>1. proc[x] \in Putters /\ t \in Known /\ p \in Profiles /\ proc[x].op = "open"
  BY Shapes, KnownTexts DEF OpenTmp, IndInv, TypeOK, States, Putters
<1>2. PICK i \in TmpFiles(p) :
        /\ tmp' = [tmp EXCEPT ![p] = i]
        /\ data' = [data EXCEPT ![i] = Empty]
        /\ synced' = synced \ {i}
        /\ Become(x, [proc[x] EXCEPT !.op = "write", !.inode = i])
        /\ UNCHANGED <<record, kept, current, shared>>
  BY DEF OpenTmp
<1> DEFINE s == [proc[x] EXCEPT !.op = "write", !.inode = i]
<1>3. i \in Inodes /\ i # None /\ (tmp[p] = i \/ (tmp[p] = None /\ i \notin InUse))
  BY <1>1, <1>2, InodesAssumption DEF TmpFiles, IndInv, TypeOK
<1>4. s \in Putters /\ s.op = "write" /\ s.inode = i /\ s.text = t
  BY <1>1, <1>3 DEF Putters
<1>5. proc' \in [Procs -> States] /\ proc'[x] = s /\ OnlySteps(x) /\ OnlyStop(x)
  BY <1>2, <1>4, BecomeSteps DEF IndInv, States
<1>6. \A y \in Procs \ {x} : proc'[y].op \in {"open", "write", "flush", "rename", "read"} => proc'[y] = proc[y]
  BY <1>5 DEF OnlySteps, PutOps
(* What is opened is nobody's record, no other profile's .tmp, read by nobody and written by nobody else's put. *)
<1>7. /\ \A q \in Profiles : record[q] # i
      /\ \A q \in Profiles \ {p} : tmp[q] # i
      /\ \A y \in Procs : Reading(y) => proc[y].inode # i
      /\ \A y \in Procs : Writing(y) /\ proc[y].inode = i => proc[y].text.profile = p
  <2>1. CASE tmp[p] = i
    BY <2>1, <1>1, <1>3 DEF IndInv, NamesApart, WritersApart, ReadersApart
  <2>2. CASE i \notin InUse
    BY <2>2 DEF InUse, Reading, Writing
  <2>3. QED BY <2>1, <2>2, <1>3
<1> HIDE DEF s, t, p
<1> USE <1>1, <1>3, <1>4, <1>5, <1>6, <1>7
<1>8. /\ tmp' = [tmp EXCEPT ![p] = i] /\ data' = [data EXCEPT ![i] = Empty] /\ synced' = synced \ {i}
      /\ UNCHANGED <<record, kept, current, shared>>
  BY <1>2
<1> USE <1>8 DEF IndInv, Writing, Reading
<1>9. TypeOK'
  BY ContentTypes DEF TypeOK, States
<1>10. NamesApart'
  BY DEF NamesApart, TypeOK
<1>11. WritersApart'
  <2>1. ASSUME NEW y \in Procs, Writing(y)', NEW q \in Profiles \ {proc'[y].text.profile}
        PROVE proc'[y].inode \in Inodes /\ record'[q] # proc'[y].inode /\ tmp'[q] # proc'[y].inode
    <3>1. CASE y = x
      BY <2>1, <3>1 DEF TypeOK, p
    <3>2. CASE y # x
      BY <2>1, <3>2 DEF WritersApart, TypeOK
    <3>3. QED BY <3>1, <3>2
  <2>2. ASSUME NEW y \in Procs, Writing(y)', NEW z \in Procs, Writing(z)', proc'[z].inode = proc'[y].inode
        PROVE proc'[z].text.profile = proc'[y].text.profile
    BY <2>2 DEF WritersApart, p
  <2>3. \A y \in Procs : Writing(y)' => proc'[y].inode \in Inodes
    BY DEF WritersApart
  <2>4. QED BY <2>1, <2>2, <2>3 DEF WritersApart
<1>12. ReadersApart'
  BY DEF ReadersApart, TypeOK
<1>13. Labelled'
  BY DEF Labelled, OfProfile, TypeOK, Empty, Content
<1>14. OneWriter'
  <2>1. ASSUME NEW q \in Profiles, NEW y \in Putting(q)' PROVE y \in Putting(q)
    BY <2>1 DEF Putting, OnlySteps, PutOps, p, t
  <2>2. QED BY <2>1 DEF OneWriter
<1>15. PutGoesWell'
  <2>1. PutsWell(x)'
    BY DEF PutGoesWell, PutsWell, TypeOK, p, t
  <2>2. ASSUME NEW y \in Procs \ {x}, proc[y].op \in {"open", "write", "flush", "rename"}, proc[y].text.profile \notin shared
        PROVE proc[y].text.profile \in Profiles \ {p}
    <3>1. proc[y].text.profile \in Profiles
      BY <2>2, Shapes, KnownTexts DEF TypeOK, States, Putters
    <3>2. QED BY <2>2, <3>1 DEF OneWriter, Putting, p, t
  <2>3. ASSUME NEW y \in Procs \ {x} PROVE PutsWell(y)'
    BY <2>2 DEF PutGoesWell, PutsWell, TypeOK
  <2>4. QED BY <2>1, <2>3 DEF PutGoesWell
<1>16. RecordsWhole'
  BY DEF RecordsWhole, WholeOf, TypeOK
<1>17. ReadersWhole'
  BY DEF ReadersWhole, WholeOf, TypeOK
<1>18. QED BY <1>9, <1>10, <1>11, <1>12, <1>13, <1>14, <1>15, <1>16, <1>17

(* A write leaves another profile's files alone; of the profile's own, an  *)
(* empty .tmp becomes the text.                                            *)
LEMMA WriteStep ==
  ASSUME IndInv, NEW x \in Procs, Write(x)
  PROVE IndInv'
<1> DEFINE t == proc[x].text
           p == t.profile
           i == proc[x].inode
<1>1. PICK full \in BOOLEAN :
        /\ proc[x].op = "write"
        /\ data' = [data EXCEPT ![i] = Written(t, full, data[i])]
        /\ synced' = synced \ {i}
        /\ To(x, IF full THEN "flush" ELSE "unlink")
        /\ UNCHANGED <<record, tmp, kept, current, shared>>
  BY DEF Write
<1>2. proc[x] \in Putters /\ t \in Known /\ p \in Profiles
  BY <1>1, Shapes, KnownTexts DEF IndInv, TypeOK, States, Putters
<1> DEFINE op == IF full THEN "flush" ELSE "unlink"
           s  == [proc[x] EXCEPT !.op = op]
           c  == Written(t, full, data[i])
<1>3. s \in Putters /\ s.op = op /\ s.inode = i /\ s.text = t
  BY <1>2 DEF Putters
<1>4. proc' \in [Procs -> States] /\ proc'[x] = s /\ OnlySteps(x) /\ OnlyStop(x)
  BY <1>1, <1>3, BecomeSteps DEF IndInv, States, To
<1>5. \A y \in Procs \ {x} : proc'[y].op \in {"open", "write", "flush", "rename", "read"} => proc'[y] = proc[y]
  BY <1>4 DEF OnlySteps, PutOps
<1>6. /\ i \in Inodes /\ i # None
      /\ \A q \in Profiles \ {p} : record[q] # i /\ tmp[q] # i
      /\ \A y \in Procs : Reading(y) /\ proc[y].inode = i => proc[y].profile = p
      /\ \A y \in Procs : Writing(y) /\ proc[y].inode = i => proc[y].text.profile = p
  BY <1>1, InodesAssumption DEF IndInv, WritersApart, ReadersApart, Writing
<1>7. c \in Contents /\ OfProfile(c, p)
  BY <1>2, <1>6, WrittenType, WrittenIsLabelled DEF IndInv, TypeOK
<1>8. p \notin shared => tmp[p] = i /\ data[i] = Empty /\ t \in current[p]
  BY <1>1 DEF IndInv, PutGoesWell, PutsWell
<1>9. p \notin shared /\ full => c = Whole(t)
  BY <1>2, <1>8, WrittenToEmpty
<1>10. data' = [data EXCEPT ![i] = c]
  BY <1>1
<1>11. (op = "flush" /\ full) \/ (op = "unlink" /\ ~ full)
  OBVIOUS
<1> HIDE DEF s, t, p, i, op, c
<1> USE <1>2, <1>3, <1>4, <1>5, <1>6, <1>10, <1>11
<1>12. synced' = synced \ {i} /\ UNCHANGED <<record, tmp, kept, current, shared>> /\ proc[x].op = "write"
  BY <1>1 DEF i
<1> USE <1>12 DEF IndInv, Writing, Reading
<1>13. TypeOK'
  BY <1>7 DEF TypeOK, States
<1>14. NamesApart'
  BY DEF NamesApart
<1>15. WritersApart'
  BY DEF WritersApart, i, t, p
<1>16. ReadersApart'
  BY DEF ReadersApart, i, t, p
<1>17. Labelled'
  <2>1. ASSUME NEW q \in Profiles
        PROVE /\ OfProfile(kept'[q], q)
              /\ record'[q] # None => OfProfile(data'[record'[q]], q)
              /\ tmp'[q] # None => OfProfile(data'[tmp'[q]], q)
    BY <1>7 DEF Labelled, TypeOK
  <2>2. ASSUME NEW y \in Procs, Writing(y)' PROVE OfProfile(data'[proc'[y].inode], proc'[y].text.profile)
    BY <1>7, <2>2 DEF Labelled, TypeOK, WritersApart, p
  <2>3. ASSUME NEW y \in Procs, Reading(y)' PROVE OfProfile(data'[proc'[y].inode], proc'[y].profile)
    <3>1. y # x /\ proc'[y] = proc[y]
      BY <2>3
    <3>2. QED BY <1>7, <2>3, <3>1, Shapes DEF Labelled, TypeOK, States, Readers
  <2>4. QED BY <2>1, <2>2, <2>3 DEF Labelled
<1>18. OneWriter'
  <2>1. ASSUME NEW q \in Profiles, NEW y \in Putting(q)' PROVE y \in Putting(q)
    BY <2>1 DEF Putting, OnlySteps, PutOps, p, t
  <2>2. QED BY <2>1 DEF OneWriter
<1>19. PutGoesWell'
  <2>1. PutsWell(x)'
    BY <1>8, <1>9 DEF PutsWell, TypeOK, p, t
  <2>2. ASSUME NEW y \in Procs \ {x}, proc[y].op \in {"open", "write", "flush", "rename"}, proc[y].text.profile \notin shared
        PROVE proc[y].text.profile \in Profiles \ {p}
    <3>1. proc[y].text.profile \in Profiles
      BY <2>2, Shapes, KnownTexts DEF TypeOK, States, Putters
    <3>2. QED BY <2>2, <3>1 DEF OneWriter, Putting, p, t
  <2>3. ASSUME NEW y \in Procs \ {x} PROVE PutsWell(y)'
    BY <2>2 DEF PutGoesWell, PutsWell, TypeOK
  <2>4. QED BY <2>1, <2>3 DEF PutGoesWell
<1>20. RecordsWhole'
  BY <1>8 DEF RecordsWhole, WholeOf, TypeOK, NamesApart
<1>21. ReadersWhole'
  BY <1>8 DEF ReadersWhole, ReadersApart, WholeOf, TypeOK
<1>22. QED BY <1>13, <1>14, <1>15, <1>16, <1>17, <1>18, <1>19, <1>20, <1>21

(* The file that is renamed was flushed, whole. *)
LEMMA FlushStep ==
  ASSUME IndInv, NEW x \in Procs, Flush(x)
  PROVE IndInv'
<1> DEFINE t == proc[x].text
           p == t.profile
           i == proc[x].inode
<1>1. PICK ok \in BOOLEAN, flushed \in BOOLEAN :
        /\ proc[x].op = "flush" /\ (ok => flushed)
        /\ synced' = IF flushed THEN synced \cup {i} ELSE synced
        /\ To(x, IF ok THEN "rename" ELSE "unlink")
        /\ UNCHANGED <<record, tmp, data, kept, current, shared>>
  BY DEF Flush
<1> DEFINE op == IF ok THEN "rename" ELSE "unlink"
           s  == [proc[x] EXCEPT !.op = op]
<1>2. proc[x] \in Putters /\ t \in Known /\ p \in Profiles
  BY <1>1, Shapes, KnownTexts DEF IndInv, TypeOK, States, Putters
<1>3. s \in Putters /\ s.op = op /\ s.inode = i /\ s.text = t
  BY <1>2 DEF Putters
<1>4. proc' \in [Procs -> States] /\ proc'[x] = s /\ OnlySteps(x) /\ OnlyStop(x)
  BY <1>1, <1>3, BecomeSteps DEF IndInv, States, To
<1>5. \A y \in Procs \ {x} : proc'[y].op \in {"open", "write", "flush", "rename", "read"} => proc'[y] = proc[y]
  BY <1>4 DEF OnlySteps, PutOps
<1>6. i \in Inodes /\ synced \subseteq synced' /\ synced' \subseteq Inodes /\ (op = "rename" => i \in synced')
  BY <1>1 DEF IndInv, WritersApart, Writing, TypeOK
<1>7. op \in {"rename", "unlink"}
  OBVIOUS
<1> HIDE DEF s, op
<1> USE <1>2, <1>3, <1>4, <1>5, <1>6, <1>7
<1>8. UNCHANGED <<record, tmp, data, kept, current, shared>> /\ proc[x].op = "flush"
  BY <1>1
<1> USE <1>8 DEF IndInv, Writing, Reading
<1>9. TypeOK'
  BY DEF TypeOK, States
<1>10. NamesApart'
  BY DEF NamesApart
<1>11. WritersApart'
  BY DEF WritersApart
<1>12. ReadersApart'
  BY DEF ReadersApart
<1>13. Labelled'
  BY DEF Labelled, OfProfile
<1>14. OneWriter'
  <2>1. ASSUME NEW q \in Profiles, NEW y \in Putting(q)' PROVE y \in Putting(q)
    BY <2>1 DEF Putting, OnlySteps, PutOps
  <2>2. QED BY <2>1 DEF OneWriter
<1>15. PutGoesWell'
  <2>1. PutsWell(x)'
    BY DEF PutGoesWell, PutsWell
  <2>2. ASSUME NEW y \in Procs \ {x} PROVE PutsWell(y)'
    BY DEF PutGoesWell, PutsWell
  <2>3. QED BY <2>1, <2>2 DEF PutGoesWell
<1>16. RecordsWhole'
  BY DEF RecordsWhole, WholeOf
<1>17. ReadersWhole'
  BY DEF ReadersWhole, WholeOf
<1>18. QED BY <1>9, <1>10, <1>11, <1>12, <1>13, <1>14, <1>15, <1>16, <1>17

(* The .tmp becomes the record. *)
LEMMA InstallStep ==
  ASSUME IndInv, NEW x \in Procs, Install(x)
  PROVE IndInv'
<1> DEFINE t == proc[x].text
           p == t.profile
           i == tmp[p]
           s == [op |-> "approved"]
<1>1. /\ proc[x].op = "rename" /\ i # None
      /\ record' = [record EXCEPT ![p] = i] /\ tmp' = [tmp EXCEPT ![p] = None]
      /\ NameChanges(x, s, p)
      /\ UNCHANGED <<data, synced, kept, current, shared>>
  BY DEF Install
<1>2. proc[x] \in Putters /\ t \in Known /\ p \in Profiles
  BY <1>1, Shapes, KnownTexts DEF IndInv, TypeOK, States, Putters
<1>3. s \in Settled /\ s \in States
  BY DEF Settled, States
<1>4. proc' \in [Procs -> States] /\ proc'[x] = s /\ OnlySteps(x) /\ OnlyStop(x)
  BY <1>1, <1>2, <1>3, NoticedSteps DEF IndInv
<1>5. \A y \in Procs : proc'[y].op \in PutOps \cup {"read"} => proc'[y] = proc[y] /\ y # x
  BY <1>3, <1>4, Shapes DEF OnlySteps, PutOps
<1>6. i \in Inodes
  BY <1>1, <1>2 DEF IndInv, TypeOK
<1>7. p \notin shared => i \in synced /\ data[i] = Whole(t) /\ t \in current[p]
  BY <1>1 DEF IndInv, PutGoesWell, PutsWell
<1> HIDE DEF t, p, i, s
<1> USE <1>1, <1>2, <1>4, <1>5, <1>6 DEF IndInv, Writing, Reading, PutOps
<1>8. TypeOK'
  BY DEF TypeOK, States
<1>9. NamesApart'
  BY DEF NamesApart, TypeOK, i
<1>10. WritersApart'
  <2>1. ASSUME NEW y \in Procs, Writing(y)'
        PROVE /\ proc[y].inode \in Inodes /\ proc[y].inode # None
              /\ \A z \in Procs : Writing(z)' /\ proc'[z].inode = proc'[y].inode => proc'[z].text.profile = proc'[y].text.profile
    BY <2>1, InodesAssumption DEF WritersApart
  <2>2. ASSUME NEW y \in Procs, Writing(y)', NEW q \in Profiles \ {proc[y].text.profile}
        PROVE record'[q] # proc[y].inode /\ tmp'[q] # proc[y].inode
    <3>1. record[q] # proc[y].inode /\ tmp[q] # proc[y].inode
      BY <2>2 DEF WritersApart
    <3>2. QED BY <2>1, <2>2, <3>1 DEF TypeOK, i
  <2>3. QED BY <2>1, <2>2 DEF WritersApart
<1>11. ReadersApart'
  BY InodesAssumption, Shapes DEF ReadersApart, TypeOK, States, Readers, i
<1>12. Labelled'
  BY DEF Labelled, TypeOK, i
<1>13. OneWriter'
  <2>1. ASSUME NEW q \in Profiles, NEW y \in Putting(q)' PROVE y \in Putting(q)
    BY <2>1 DEF Putting
  <2>2. QED BY <2>1 DEF OneWriter
<1>14. PutGoesWell'
  <2>1. ASSUME NEW y \in Procs \ {x}, proc[y].op \in {"open", "write", "flush", "rename"}, proc[y].text.profile \notin shared
        PROVE proc[y].text.profile \in Profiles \ {p}
    <3>1. proc[y].text.profile \in Profiles
      BY <2>1, Shapes, KnownTexts DEF TypeOK, States, Putters
    <3>2. QED BY <2>1, <3>1 DEF OneWriter, Putting, p, t
  <2>2. ASSUME NEW y \in Procs PROVE PutsWell(y)'
    BY <2>1 DEF PutGoesWell, PutsWell, TypeOK
  <2>3. QED BY <2>2 DEF PutGoesWell
<1>15. RecordsWhole'
  BY <1>7 DEF RecordsWhole, WholeOf, TypeOK, p
<1>16. ReadersWhole'
  BY DEF ReadersWhole, WholeOf
<1>17. QED BY <1>8, <1>9, <1>10, <1>11, <1>12, <1>13, <1>14, <1>15, <1>16

(* The name of the .tmp goes. *)
LEMMA UnlinkStep ==
  ASSUME IndInv, NEW x \in Procs, Unlink(x)
  PROVE IndInv'
<1> DEFINE p == proc[x].text.profile
           s == [op |-> "refused"]
<1>1. /\ proc[x].op = "unlink"
      /\ tmp' = [tmp EXCEPT ![p] = None]
      /\ Become(x, s)
      /\ UNCHANGED <<record, data, synced, kept, current, shared>>
  BY DEF Unlink
<1>2. p \in Profiles
  BY <1>1, Shapes, KnownTexts DEF IndInv, TypeOK, States, Putters
<1>3. s \in Settled /\ s \in States
  BY DEF Settled, States
<1>4. proc' \in [Procs -> States] /\ proc'[x] = s /\ OnlySteps(x) /\ OnlyStop(x)
  BY <1>1, <1>3, BecomeSteps DEF IndInv
<1>5. \A y \in Procs : proc'[y].op \in PutOps \cup {"read"} => proc'[y] = proc[y] /\ y # x
  BY <1>3, <1>4, Shapes DEF OnlySteps, PutOps
<1> HIDE DEF p, s
<1> USE <1>1, <1>2, <1>4, <1>5 DEF IndInv, Writing, Reading, PutOps
<1>6. TypeOK'
  BY DEF TypeOK, States
<1>7. NamesApart'
  BY DEF NamesApart, TypeOK
<1>8. WritersApart'
  BY InodesAssumption DEF WritersApart, TypeOK
<1>9. ReadersApart'
  BY InodesAssumption, Shapes DEF ReadersApart, TypeOK, States, Readers
<1>10. Labelled'
  BY DEF Labelled, TypeOK
<1>11. OneWriter'
  <2>1. ASSUME NEW q \in Profiles, NEW y \in Putting(q)' PROVE y \in Putting(q)
    BY <2>1 DEF Putting
  <2>2. QED BY <2>1 DEF OneWriter
<1>12. PutGoesWell'
  <2>1. ASSUME NEW y \in Procs \ {x}, proc[y].op \in {"open", "write", "flush", "rename"}, proc[y].text.profile \notin shared
        PROVE proc[y].text.profile \in Profiles \ {p}
    <3>1. proc[y].text.profile \in Profiles
      BY <2>1, Shapes, KnownTexts DEF TypeOK, States, Putters
    <3>2. QED BY <2>1, <3>1 DEF OneWriter, Putting, p
  <2>2. ASSUME NEW y \in Procs PROVE PutsWell(y)'
    BY <2>1 DEF PutGoesWell, PutsWell, TypeOK
  <2>3. QED BY <2>2 DEF PutGoesWell
<1>13. RecordsWhole'
  BY DEF RecordsWhole, WholeOf
<1>14. ReadersWhole'
  BY DEF ReadersWhole, WholeOf
<1>15. QED BY <1>6, <1>7, <1>8, <1>9, <1>10, <1>11, <1>12, <1>13, <1>14

(* The record goes; those who put one now may still install it. *)
LEMMA RevokeStep ==
  ASSUME IndInv, NEW x \in Procs, NEW p \in Profiles, Revoke(x, p)
  PROVE IndInv'
<1>1. /\ proc[x].op = "idle"
      /\ record' = [record EXCEPT ![p] = None]
      /\ current' = Revoked(p)
      /\ NameChanges(x, proc[x], p)
      /\ UNCHANGED <<tmp, data, synced, kept, shared>>
  BY DEF Revoke
<1>2. proc' \in [Procs -> States] /\ OnlySteps(x) /\ proc'[x] = proc[x]
  BY <1>1, NoticedSteps DEF IndInv, TypeOK, States
<1>3. \A y \in Procs : proc'[y].op \in PutOps \cup {"read"} => proc'[y] = proc[y]
  BY <1>2 DEF OnlySteps
<1>4. \A y \in Putting(p) : proc[y].text \in Known
  BY Shapes, KnownTexts DEF Putting, IndInv, TypeOK, States, Putters
<1>5. current' = [current EXCEPT ![p] = {proc[y].text : y \in Putting(p)}]
  BY <1>1 DEF Revoked
<1>6. {proc[y].text : y \in Putting(p)} \in SUBSET Known
  BY <1>4
<1> USE <1>1, <1>2, <1>3, <1>5, <1>6 DEF IndInv, Writing, Reading, PutOps
<1>7. TypeOK'
  BY DEF TypeOK, States
<1>8. NamesApart'
  BY DEF NamesApart, TypeOK
<1>9. WritersApart'
  BY InodesAssumption DEF WritersApart, TypeOK
<1>10. ReadersApart'
  BY InodesAssumption, Shapes DEF ReadersApart, TypeOK, States, Readers
<1>11. Labelled'
  BY DEF Labelled, TypeOK
<1>12. OneWriter'
  <2>1. ASSUME NEW q \in Profiles, NEW y \in Putting(q)' PROVE y \in Putting(q)
    BY <2>1 DEF Putting
  <2>2. QED BY <2>1 DEF OneWriter
<1>13. PutGoesWell'
  <2>1. ASSUME NEW y \in Procs, proc'[y].op \in {"open", "write", "flush", "rename"}, proc'[y].text.profile \notin shared
        PROVE proc'[y].text \in current'[proc'[y].text.profile]
    <3>1. proc'[y] = proc[y] /\ proc[y].text.profile \in Profiles
      BY <2>1, Shapes, KnownTexts DEF TypeOK, States, Putters
    <3>2. CASE proc[y].text.profile = p
      BY <2>1, <3>1, <3>2 DEF TypeOK, Putting
    <3>3. CASE proc[y].text.profile # p
      BY <2>1, <3>1, <3>3 DEF TypeOK, PutGoesWell, PutsWell
    <3>4. QED BY <3>2, <3>3
  <2>2. ASSUME NEW y \in Procs PROVE PutsWell(y)'
    BY <2>1 DEF PutGoesWell, PutsWell
  <2>3. QED BY <2>2 DEF PutGoesWell
<1>14. RecordsWhole'
  BY DEF RecordsWhole, WholeOf, TypeOK
<1>15. ReadersWhole'
  BY DEF ReadersWhole, WholeOf
<1>16. QED BY <1>7, <1>8, <1>9, <1>10, <1>11, <1>12, <1>13, <1>14, <1>15

(* connect opens what is the record now. *)
LEMMA OpenRecordStep ==
  ASSUME IndInv, NEW x \in Procs, NEW p \in Profiles, OpenRecord(x, p)
  PROVE IndInv'
<1> DEFINE i == record[p]
           s == [op |-> "read", profile |-> p, inode |-> i, may |-> current[p]]
<1>1. proc[x].op = "idle" /\ i # None /\ Become(x, s) /\ UNCHANGED <<files, current, shared>>
  BY DEF OpenRecord
<1>2. s \in Readers /\ s \in States
  BY <1>1 DEF IndInv, TypeOK, Readers, States
<1>3. proc' \in [Procs -> States] /\ proc'[x] = s /\ OnlySteps(x)
  BY <1>1, <1>2, BecomeSteps DEF IndInv
<1>4. \A y \in Procs : proc'[y].op \in PutOps => proc'[y] = proc[y] /\ y # x
  BY <1>3 DEF OnlySteps, PutOps
<1>5. \A y \in Procs \ {x} : proc'[y].op = "read" => proc'[y] = proc[y]
  BY <1>3 DEF OnlySteps
<1>6. UNCHANGED <<record, tmp, data, synced, kept, current, shared>> /\ proc[x].op = "idle" /\ i # None
  BY <1>1 DEF files
<1>7. i \in Inodes
  BY <1>6 DEF IndInv, TypeOK
<1> HIDE DEF i
<1> USE <1>3, <1>4, <1>5, <1>6, <1>7 DEF IndInv, Writing, Reading, PutOps
<1>8. TypeOK'
  BY DEF TypeOK, States
<1>9. NamesApart'
  BY DEF NamesApart
<1>10. WritersApart'
  BY DEF WritersApart
<1>11. ReadersApart'
  <2>1. ASSUME NEW y \in Procs, y # x, Reading(y)'
        PROVE /\ \A q \in Profiles : tmp'[q] # proc'[y].inode
              /\ \A q \in Profiles \ {proc'[y].profile} : record'[q] # proc'[y].inode
              /\ \A z \in Procs : Writing(z)' /\ proc'[z].inode = proc'[y].inode => proc'[z].text.profile = proc'[y].profile
    BY <2>1 DEF ReadersApart
  <2>2. /\ \A q \in Profiles : tmp'[q] # i
        /\ \A q \in Profiles \ {p} : record'[q] # i
    BY DEF NamesApart, i
  <2>3. ASSUME NEW z \in Procs, Writing(z)', proc'[z].inode = i PROVE proc'[z].text.profile = p
    BY <2>3 DEF WritersApart, i
  <2>4. QED BY <2>1, <2>2, <2>3 DEF ReadersApart
<1>12. Labelled'
  BY DEF Labelled, OfProfile, i
<1>13. OneWriter'
  <2>1. ASSUME NEW q \in Profiles, NEW y \in Putting(q)' PROVE y \in Putting(q)
    BY <2>1 DEF Putting
  <2>2. QED BY <2>1 DEF OneWriter
<1>14. PutGoesWell'
  BY DEF PutGoesWell, PutsWell
<1>15. RecordsWhole'
  BY DEF RecordsWhole, WholeOf
<1>16. ReadersWhole'
  <2>1. p \notin shared => WholeOf(data[i], p, current[p])
    BY DEF RecordsWhole, i
  <2>2. ASSUME NEW y \in Procs, y # x, Reading(y)', proc'[y].profile \notin shared'
        PROVE WholeOf(data'[proc'[y].inode], proc'[y].profile, proc'[y].may)
    BY <2>2 DEF ReadersWhole
  <2>3. QED BY <2>1, <2>2 DEF ReadersWhole
<1>17. QED BY <1>8, <1>9, <1>10, <1>11, <1>12, <1>13, <1>14, <1>15, <1>16

(* The directory's entry on the disk becomes what is there now, or parts   *)
(* of a file that was not flushed.                                         *)
LEMMA WriteBackStep ==
  ASSUME IndInv, NEW p \in Profiles, WriteBack(p)
  PROVE IndInv'
<1>1. PICK c \in Left(p) : kept' = [kept EXCEPT ![p] = c]
  BY DEF WriteBack
<1>2. UNCHANGED <<record, tmp, data, synced, proc, current, shared>>
  BY DEF WriteBack
<1>3. c \in Contents /\ OfProfile(c, p)
  <2>1. At(p) \in Contents /\ OfProfile(At(p), p)
    BY ContentTypes DEF At, IndInv, TypeOK, Labelled, OfProfile, Absent, Content
  <2>2. Empty \in Contents /\ Torn(1) \in Contents /\ OfProfile(Empty, p) /\ OfProfile(Torn(1), p)
    BY ContentTypes DEF OfProfile, Empty, Torn, Content
  <2>3. QED BY <2>1, <2>2 DEF Left
<1>4. p \notin shared => c = Absent \/ WholeOf(c, p, Known)
  BY DEF Left, At, IndInv, RecordsWhole, WholeOf
<1> USE <1>1, <1>2, <1>3, <1>4 DEF IndInv, Writing, Reading
<1>5. TypeOK'
  BY DEF TypeOK
<1>6. NamesApart' /\ WritersApart' /\ ReadersApart'
  BY DEF NamesApart, WritersApart, ReadersApart
<1>7. Labelled'
  <2>1. \A q \in Profiles : OfProfile(kept'[q], q)
    BY DEF Labelled, TypeOK
  <2>2. QED BY <2>1 DEF Labelled
<1>8. OneWriter' /\ PutGoesWell' /\ ReadersWhole'
  BY DEF OneWriter, Putting, PutGoesWell, PutsWell, ReadersWhole
<1>9. RecordsWhole'
  BY DEF RecordsWhole, TypeOK
<1>10. QED BY <1>5, <1>6, <1>7, <1>8, <1>9

(* What the disk has is what the machine starts with. *)
LEMMA PowerLossStep ==
  ASSUME IndInv, PowerLoss
  PROVE IndInv'
<1>1. /\ record' = Started(kept).record /\ tmp' = [p \in Profiles |-> None]
      /\ data' = Started(kept).data /\ synced' = Inodes
      /\ proc' = [x \in Procs |-> [op |-> "idle"]]
      /\ current' = [p \in Profiles |-> current[p] \cup ({kept[p].of} \ {None})]
      /\ UNCHANGED <<kept, shared>>
  BY DEF PowerLoss
<1>2. kept \in [Profiles -> Contents]
  BY DEF IndInv, TypeOK
<1>3. /\ data' \in [Inodes -> Contents] /\ record' \in [Profiles -> Inodes \cup {None}]
      /\ \A p \in Profiles : record'[p] # None => record'[p] = Place[p] /\ kept[p] # Absent /\ data'[record'[p]] = kept[p]
  BY <1>1, <1>2, StartedData
<1>4. \A p \in Profiles : kept[p].of \in Known \cup {None}
  BY <1>2 DEF Contents
<1>5. \A y \in Procs : proc'[y].op = "idle" /\ proc'[y] \in Settled
  BY <1>1 DEF Settled
<1>6. ASSUME NEW p \in Profiles, NEW t \in Known, kept[p] = Whole(t) PROVE t \in current'[p]
  BY <1>1, <1>6, KnownTexts DEF Whole, Content
<1> USE <1>1, <1>3, <1>5, PlaceIsOneToOne, InodesAssumption DEF IndInv, Writing, Reading
<1>7. TypeOK'
  <2>1. current' \in [Profiles -> SUBSET Known]
    BY <1>4 DEF TypeOK
  <2>2. QED BY <1>2, <2>1 DEF TypeOK
<1>8. NamesApart' /\ WritersApart' /\ ReadersApart'
  BY DEF NamesApart, WritersApart, ReadersApart
<1>9. Labelled'
  BY DEF Labelled
<1>10. OneWriter' /\ PutGoesWell' /\ ReadersWhole'
  BY DEF OneWriter, Putting, PutGoesWell, PutsWell, ReadersWhole
<1>11. RecordsWhole'
  BY <1>6 DEF RecordsWhole, WholeOf
<1>12. QED BY <1>7, <1>8, <1>9, <1>10, <1>11

-----------------------------------------------------------------------------
LEMMA InitInv == Init => IndInv
<1> SUFFICES ASSUME Init PROVE IndInv
  OBVIOUS
<1> DEFINE content == [p \in Profiles |-> IF p \in DOMAIN Installed THEN Whole(Installed[p]) ELSE Absent]
<1>1. /\ record = Started(content).record /\ tmp = [p \in Profiles |-> None]
      /\ data = Started(content).data /\ synced = Inodes
      /\ kept = content
      /\ proc = [x \in Procs |-> [op |-> "idle"]]
      /\ current = [p \in Profiles |-> {content[p].of} \ {None}] /\ shared = {}
  BY DEF Init
<1>2. ASSUME NEW p \in Profiles
      PROVE /\ content[p] \in Contents /\ content[p].of \in Known \cup {None}
            /\ content[p] # Absent => WholeOf(content[p], p, current[p]) /\ WholeOf(content[p], p, Known)
            /\ OfProfile(content[p], p)
  <2>1. CASE p \in DOMAIN Installed
    <3>1. Installed[p] \in Known /\ Installed[p].profile = p /\ Installed[p] # None /\ content[p] = Whole(Installed[p])
      BY <2>1, TextsAssumption, KnownTexts DEF Known
    <3>2. content[p].of = Installed[p]
      BY <3>1 DEF Whole, Content
    <3>3. Installed[p] \in current[p]
      BY <1>1, <3>1, <3>2
    <3>4. QED BY <3>1, <3>2, <3>3, ContentTypes DEF WholeOf, OfProfile
  <2>2. CASE p \notin DOMAIN Installed
    BY <2>2, ContentTypes DEF Absent, Content, OfProfile
  <2>3. QED BY <2>1, <2>2
<1> HIDE DEF content
<1>3. content \in [Profiles -> Contents]
  BY <1>2 DEF content
<1>4. /\ data \in [Inodes -> Contents] /\ record \in [Profiles -> Inodes \cup {None}]
      /\ \A p \in Profiles : record[p] # None => record[p] = Place[p] /\ content[p] # Absent /\ data[record[p]] = content[p]
  BY <1>1, <1>3, StartedData
<1>5. \A y \in Procs : proc[y].op = "idle" /\ proc[y] \in Settled
  BY <1>1 DEF Settled
<1> USE <1>1, <1>2, <1>4, <1>5, PlaceIsOneToOne, InodesAssumption DEF Writing, Reading
<1>6. TypeOK
  BY <1>3 DEF TypeOK
<1>7. NamesApart /\ WritersApart /\ ReadersApart
  BY DEF NamesApart, WritersApart, ReadersApart
<1>8. Labelled
  BY DEF Labelled
<1>9. OneWriter /\ PutGoesWell /\ ReadersWhole
  BY DEF OneWriter, Putting, PutGoesWell, PutsWell, ReadersWhole
<1>10. RecordsWhole
  BY DEF RecordsWhole
<1>11. QED BY <1>6, <1>7, <1>8, <1>9, <1>10 DEF IndInv

LEMMA QuietActions ==
  ASSUME IndInv, NEW x \in Procs,
         \/ CannotOpen(x) \/ CannotInstall(x) \/ ReadRecord(x) \/ List(x) \/ ListEnd(x) \/ ListBreaks(x)
         \/ Exit(x)
         \/ \E p \in Profiles : ListEntry(x, p) \/ ListUnreadable(x, p)
  PROVE IndInv' /\ UNCHANGED <<files, shared>> /\ OnlyStop(x) /\ proc'[x].op # "approved"
<1>1. ASSUME NEW s \in States, Become(x, s), s.op # "approved", UNCHANGED <<files, current, shared>>,
             \/ s \in Settled \cup Listers
             \/ s.op = "unlink" /\ proc[x].op \in PutOps /\ s.text = proc[x].text
      PROVE IndInv' /\ UNCHANGED <<files, shared>> /\ OnlyStop(x) /\ proc'[x].op # "approved"
  <2>1. TypeOK
    BY DEF IndInv
  <2>2. proc' \in [Procs -> States] /\ proc'[x] = s /\ OnlySteps(x) /\ OnlyStop(x)
    BY <1>1, <2>1, BecomeSteps
  <2>3. QED BY <1>1, <2>2, QuietSteps
<1>2. CASE CannotOpen(x)
  BY <1>1, <1>2 DEF CannotOpen, Settled, States
<1>3. CASE CannotInstall(x)
  <2>1. proc[x] \in Putters /\ proc[x].op = "rename"
    BY <1>3, Shapes DEF CannotInstall, IndInv, TypeOK, States
  <2> DEFINE s == [proc[x] EXCEPT !.op = "unlink"]
  <2>2. s \in Putters /\ s.op = "unlink" /\ s.text = proc[x].text
    BY <2>1 DEF Putters
  <2>3. Become(x, s) /\ UNCHANGED <<files, current, shared>>
    BY <1>3 DEF CannotInstall, To
  <2> HIDE DEF s
  <2>4. QED BY <1>1, <2>1, <2>2, <2>3 DEF States, PutOps
<1>4. CASE ReadRecord(x)
  BY <1>1, <1>4 DEF ReadRecord, Settled, States
<1>5. CASE List(x)
  BY <1>1, <1>5 DEF List, Listers, States
<1>6. ASSUME proc[x].op = "list" PROVE proc[x] \in Listers
  BY <1>6, Shapes DEF IndInv, TypeOK, States
<1>7. CASE ListEnd(x)
  <2> DEFINE s == [proc[x] EXCEPT !.op = "listed"]
  <2>1. s \in Listers /\ s.op = "listed"
    BY <1>6, <1>7 DEF ListEnd, Listers
  <2>2. Become(x, s) /\ UNCHANGED <<files, current, shared>>
    BY <1>7 DEF ListEnd, To
  <2> HIDE DEF s
  <2>3. QED BY <1>1, <2>1, <2>2 DEF States
<1>8. CASE Exit(x)
  BY <1>1, <1>8 DEF Exit, Settled, States
<1>12. CASE ListBreaks(x)
  <2> DEFINE s == [proc[x] EXCEPT !.op = "listed", !.cut = TRUE]
  <2>1. s \in Listers /\ s.op = "listed"
    BY <1>6, <1>12 DEF ListBreaks, Listers
  <2>2. Become(x, s) /\ UNCHANGED <<files, current, shared>>
    BY <1>12 DEF ListBreaks
  <2> HIDE DEF s
  <2>3. QED BY <1>1, <2>1, <2>2 DEF States
<1>9. ASSUME NEW p \in Profiles, ListEntry(x, p)
      PROVE IndInv' /\ UNCHANGED <<files, shared>> /\ OnlyStop(x) /\ proc'[x].op # "approved"
  <2>1. PICK s : Become(x, s) /\ s \in Listers
    <3>1. [proc[x] EXCEPT !.op = "listed", !.ok = FALSE] \in Listers
      BY <1>6, <1>9 DEF ListEntry, Listers
    <3>2. [proc[x] EXCEPT !.seen = @ \cup {p}, !.found = IF Parses(At(p)) THEN @ \cup {p} ELSE @,
                          !.ok = @ /\ Parses(At(p))] \in Listers
      BY <1>6, <1>9 DEF ListEntry, Listers
    <3>3. QED BY <1>9, <3>1, <3>2 DEF ListEntry
  <2>2. UNCHANGED <<files, current, shared>> /\ s.op # "approved"
    BY <1>9, <2>1 DEF ListEntry, Listers
  <2>3. QED BY <1>1, <2>1, <2>2 DEF States
<1>10. ASSUME NEW p \in Profiles, ListUnreadable(x, p)
       PROVE IndInv' /\ UNCHANGED <<files, shared>> /\ OnlyStop(x) /\ proc'[x].op # "approved"
  <2> DEFINE s == [proc[x] EXCEPT !.seen = @ \cup {p}, !.ok = FALSE]
  <2>1. s \in Listers
    BY <1>6, <1>10 DEF ListUnreadable, Listers
  <2>2. Become(x, s) /\ UNCHANGED <<files, current, shared>>
    BY <1>10 DEF ListUnreadable
  <2> HIDE DEF s
  <2>3. s.op # "approved"
    BY <2>1 DEF Listers
  <2>4. QED BY <1>1, <2>1, <2>2, <2>3 DEF States
<1>11. QED BY <1>2, <1>3, <1>4, <1>5, <1>7, <1>8, <1>9, <1>10, <1>12

LEMMA NextInv == IndInv /\ [Next]_vars => IndInv'
<1> SUFFICES ASSUME IndInv, [Next]_vars PROVE IndInv'
  OBVIOUS
<1>1. CASE UNCHANGED vars
  BY <1>1 DEF vars, files, IndInv, TypeOK, NamesApart, WritersApart, ReadersApart, Writing, Reading, Labelled,
     OneWriter, Putting, PutGoesWell, PutsWell, RecordsWhole, ReadersWhole
<1>2. CASE Next
  BY <1>2, ApproveStep, OpenStep, WriteStep, FlushStep, InstallStep, UnlinkStep, RevokeStep, OpenRecordStep,
     QuietActions, WriteBackStep, PowerLossStep DEF Next
<1>3. QED BY <1>1, <1>2

(* The types, and what keeps the writers, the readers and the profiles of  *)
(* the registry apart, hold in every reachable state.                      *)
THEOREM IndInvAlways == Spec => []IndInv
<1>1. QED BY InitInv, NextInv, PTL DEF Spec

(* A record that one approve at a time has written is whole or not there,  *)
(* whoever is killed, whatever fails and whenever the power goes.          *)
THEOREM RecordsAreWhole == Spec => []WholeUnlessShared
<1>1. ASSUME IndInv, NEW p \in Profiles \ shared PROVE At(p) = Absent \/ At(p).kind = "whole"
  <2>1. CASE record[p] = None
    BY <2>1 DEF At
  <2>2. CASE record[p] # None
    <3>1. PICK t \in current[p] : data[record[p]] = Whole(t)
      BY <1>1, <2>2 DEF IndInv, RecordsWhole, WholeOf
    <3>2. QED BY <2>2, <3>1 DEF At, Whole, Content
  <2>3. QED BY <2>1, <2>2
<1>2. IndInv => WholeUnlessShared
  BY <1>1 DEF WholeUnlessShared
<1>3. QED BY <1>2, IndInvAlways, PTL

(* What connect reads and can parse was put for that profile, and, unless  *)
(* two approves shared the .tmp, was current when the record was opened.   *)
THEOREM ReadsAreCurrent == Spec => AcceptedIsCurrent
<1>1. ASSUME IndInv, NEW x \in Procs PROVE AcceptsCurrent(x)
  <2> DEFINE p == proc[x].profile
             c == data[proc[x].inode]
  <2>1. SUFFICES ASSUME proc[x].op = "read", Parses(c)
                 PROVE c.of.profile = p /\ (p \in shared \/ (c.kind = "whole" /\ c.of \in proc[x].may))
    BY DEF AcceptsCurrent
  <2>2. c.of.profile = p
    BY <1>1, <2>1 DEF IndInv, Labelled, Reading, OfProfile, Parses
  <2>3. ASSUME p \notin shared PROVE c.kind = "whole" /\ c.of \in proc[x].may
    <3>1. PICK t \in proc[x].may : c = Whole(t)
      BY <1>1, <2>1, <2>3 DEF IndInv, ReadersWhole, Reading, WholeOf
    <3>2. QED BY <3>1 DEF Whole, Content
  <2>4. QED BY <2>2, <2>3
<1>2. IndInv => [\A x \in Procs : AcceptsCurrent(x)]_vars
  BY <1>1
<1>3. QED BY <1>2, IndInvAlways, PTL DEF AcceptedIsCurrent

-----------------------------------------------------------------------------
(* A step of x that does not end in approved needs to keep the record.     *)
LEMMA NobodyApproved ==
  ASSUME NEW x \in Procs, OnlyStop(x), proc'[x].op # "approved", NEW p \in Profiles,
         At(p)' \in {At(p), Absent, kept[p]}
  PROVE Answers(p)
<1>1. ASSUME NEW y \in Putting(p) PROVE proc'[y].op # "approved"
  <2>1. y \in Procs /\ proc[y].op \in PutOps
    BY <1>1 DEF Putting, PutOps
  <2>2. CASE y = x
    BY <2>2
  <2>3. CASE y # x
    <3>1. proc'[y] = proc[y]
      BY <2>1, <2>3 DEF OnlyStop, Goes
    <3>2. QED BY <2>1, <3>1 DEF PutOps
  <2>4. QED BY <2>2, <2>3
<1>2. QED BY <1>1 DEF Answers

LEMMA FilesStay ==
  ASSUME UNCHANGED <<record, data>>, NEW p \in Profiles PROVE At(p)' = At(p)
  BY DEF At

LEMMA StepAnswers ==
  ASSUME IndInv, [Next]_vars, NEW p \in Profiles \ shared
  PROVE Answers(p)
<1> DEFINE Stays == At(p)' \in {At(p), Absent, kept[p]}
<1>1. UNCHANGED files => Stays
  BY FilesStay DEF files
<1>2. CASE UNCHANGED vars
  BY <1>1, <1>2 DEF vars, Answers, Putting
<1>3. ASSUME NEW x \in Procs, NEW s \in States, Become(x, s), s.op # "approved", Stays PROVE Answers(p)
  BY <1>3, BecomeSteps, NobodyApproved DEF IndInv
<1>4. ASSUME NEW x \in Procs, NEW t \in Texts, Approve(x, t) PROVE Answers(p)
  <2>1. [op |-> "open", text |-> t, inode |-> None] \in States
    BY DEF States, Putters
  <2>2. QED BY <1>1, <1>3, <1>4, <2>1 DEF Approve
<1>5. ASSUME NEW x \in Procs, proc[x].op \in PutOps
      PROVE proc[x] \in Putters /\ proc[x].text.profile \in Profiles
  BY <1>5, Shapes, KnownTexts DEF PutOps, IndInv, TypeOK, States, Putters
<1>6. ASSUME NEW x \in Procs, OpenTmp(x) PROVE Answers(p)
  <2> DEFINE q == proc[x].text.profile
  <2>1. PICK i \in TmpFiles(q) :
          /\ data' = [data EXCEPT ![i] = Empty]
          /\ Become(x, [proc[x] EXCEPT !.op = "write", !.inode = i])
          /\ UNCHANGED record
    BY <1>6 DEF OpenTmp
  <2>2. proc[x] \in Putters /\ q \in Profiles
    BY <1>5, <1>6 DEF OpenTmp, PutOps
  <2>3. i \in Inodes /\ record[p] # i
    BY <2>1, <2>2, InodesAssumption DEF TmpFiles, InUse, IndInv, TypeOK, NamesApart
  <2>4. Stays
    BY <2>1, <2>3 DEF At, IndInv, TypeOK
  <2> DEFINE s == [proc[x] EXCEPT !.op = "write", !.inode = i]
  <2>5. s \in Putters /\ s.op = "write"
    BY <2>2, <2>3 DEF Putters
  <2> HIDE DEF s
  <2>6. Become(x, s)
    BY <2>1 DEF s
  <2>7. QED BY <1>3, <2>4, <2>5, <2>6 DEF States
<1>7. ASSUME NEW x \in Procs, Write(x) PROVE Answers(p)
  <2> DEFINE i == proc[x].inode
  <2>1. PICK full \in BOOLEAN :
          /\ proc[x].op = "write"
          /\ data' = [data EXCEPT ![i] = Written(proc[x].text, full, data[i])]
          /\ To(x, IF full THEN "flush" ELSE "unlink")
          /\ UNCHANGED record
    BY <1>7 DEF Write
  <2>2. proc[x] \in Putters /\ proc[x].text.profile \in Profiles
    BY <1>5, <2>1 DEF PutOps
  <2>3. record[p] # i
    <3>1. CASE proc[x].text.profile = p
      BY <2>1, <3>1, InodesAssumption DEF IndInv, PutGoesWell, PutsWell, NamesApart
    <3>2. CASE proc[x].text.profile # p
      BY <2>1, <3>2 DEF IndInv, WritersApart, Writing
    <3>3. QED BY <3>1, <3>2
  <2>4. Stays
    BY <2>1, <2>3 DEF At, IndInv, TypeOK
  <2> DEFINE op == IF full THEN "flush" ELSE "unlink"
             s  == [proc[x] EXCEPT !.op = op]
  <2>5. s \in Putters /\ s.op # "approved"
    BY <2>2 DEF Putters
  <2> HIDE DEF s
  <2>6. Become(x, s)
    BY <2>1 DEF s, To
  <2>7. QED BY <1>3, <2>4, <2>5, <2>6 DEF States
<1>8. ASSUME NEW x \in Procs, Flush(x) PROVE Answers(p)
  <2>1. PICK ok \in BOOLEAN, flushed \in BOOLEAN :
          proc[x].op = "flush" /\ To(x, IF ok THEN "rename" ELSE "unlink") /\ UNCHANGED <<record, data>>
    BY <1>8 DEF Flush
  <2>2. proc[x] \in Putters
    BY <1>5, <2>1 DEF PutOps
  <2> DEFINE op == IF ok THEN "rename" ELSE "unlink"
             s  == [proc[x] EXCEPT !.op = op]
  <2>3. s \in Putters /\ s.op # "approved"
    BY <2>2 DEF Putters
  <2> HIDE DEF s
  <2>4. Become(x, s) /\ Stays
    BY <2>1, FilesStay DEF s, To
  <2>5. QED BY <1>3, <2>3, <2>4 DEF States
<1>9. ASSUME NEW x \in Procs, Install(x) PROVE Answers(p)
  <2> DEFINE t == proc[x].text
             q == t.profile
             s == [op |-> "approved"]
  <2>1. /\ proc[x].op = "rename"
        /\ record' = [record EXCEPT ![q] = tmp[q]]
        /\ NameChanges(x, s, q)
        /\ UNCHANGED <<data, shared, current>>
    BY <1>9 DEF Install
  <2>2. q \in Profiles
    BY <1>5, <2>1 DEF PutOps
  <2>3. s \in States
    BY DEF States, Settled
  <2>4. proc'[x] = s /\ OnlyStop(x)
    BY <2>1, <2>2, <2>3, NoticedSteps DEF IndInv
  <2>5. ASSUME NEW y \in Putting(p), proc'[y].op = "approved" PROVE y = x
    <3>1. y \in Procs /\ proc[y].op \in PutOps
      BY <2>5 DEF Putting, PutOps
    <3>2. QED BY <2>4, <2>5, <3>1 DEF OnlyStop, Goes, PutOps
  <2>6. CASE q = p
    <3>1. x \in Putting(p) /\ proc'[x].op = "approved"
      BY <2>1, <2>4, <2>6 DEF Putting
    <3>2. data[tmp[p]] = Whole(t) /\ tmp[p] \in Inodes
      BY <2>1, <2>6 DEF IndInv, PutGoesWell, PutsWell
    <3>3. At(p)' = Whole(t)
      BY <2>1, <2>2, <2>6, <3>2, InodesAssumption DEF At, IndInv, TypeOK
    <3> HIDE DEF t, q, s
    <3>4. QED BY <2>5, <3>1, <3>3 DEF Answers, t
  <2>7. CASE q # p
    <3>1. At(p)' = At(p)
      BY <2>1, <2>2, <2>7 DEF At, IndInv, TypeOK
    <3>2. x \notin Putting(p)
      BY <2>7 DEF Putting
    <3> HIDE DEF t, q, s
    <3>3. QED BY <2>5, <3>1, <3>2 DEF Answers
  <2>8. QED BY <2>6, <2>7
<1>10. ASSUME NEW x \in Procs, Unlink(x) PROVE Answers(p)
  <2>1. [op |-> "refused"] \in States
    BY DEF States, Settled
  <2>2. Stays
    BY <1>10, FilesStay DEF Unlink
  <2>3. QED BY <1>3, <1>10, <2>1, <2>2 DEF Unlink
<1>11. ASSUME NEW x \in Procs, NEW q \in Profiles, Revoke(x, q) PROVE Answers(p)
  <2>1. proc[x] \in States /\ NameChanges(x, proc[x], q) /\ proc[x].op = "idle"
    BY <1>11 DEF Revoke, IndInv, TypeOK, States
  <2>2. OnlyStop(x) /\ proc'[x].op # "approved"
    BY <2>1, NoticedSteps DEF IndInv
  <2>3. Stays
    BY <1>11 DEF Revoke, At, IndInv, TypeOK
  <2>4. QED BY <2>2, <2>3, NobodyApproved
<1>12. ASSUME NEW x \in Procs, NEW q \in Profiles, OpenRecord(x, q) PROVE Answers(p)
  <2> DEFINE s == [op |-> "read", profile |-> q, inode |-> record[q], may |-> current[q]]
  <2>1. s \in States
    BY <1>12 DEF OpenRecord, States, Readers, IndInv, TypeOK
  <2>2. QED BY <1>1, <1>3, <1>12, <2>1 DEF OpenRecord
<1>13. ASSUME NEW x \in Procs, UNCHANGED <<files, shared>>, OnlyStop(x), proc'[x].op # "approved" PROVE Answers(p)
  BY <1>1, <1>13, NobodyApproved
<1>14. ASSUME NEW q \in Profiles, WriteBack(q) PROVE Answers(p)
  BY <1>14, FilesStay DEF WriteBack, Answers, Putting
<1>15. CASE PowerLoss
  <2>1. /\ record' = Started(kept).record /\ data' = Started(kept).data /\ proc' = [x \in Procs |-> [op |-> "idle"]]
    BY <1>15 DEF PowerLoss
  <2>2. At(p)' \in {Absent, kept[p]}
    BY <2>1, StartedData, PlaceIsOneToOne, InodesAssumption DEF At, IndInv, TypeOK
  <2>3. \A y \in Putting(p) : proc'[y].op # "approved"
    BY <2>1 DEF Putting
  <2>4. QED BY <2>2, <2>3 DEF Answers
<1>16. QED BY <1>2, <1>4, <1>6, <1>7, <1>8, <1>9, <1>10, <1>11, <1>12, <1>13, <1>14, <1>15, QuietActions DEF Next

(* Approve says what it did, and only an approved put, a revocation and a  *)
(* power loss change a record.                                             *)
THEOREM AnswersAreTrue == Spec => AnswerIsTrue
<1>1. IndInv /\ [Next]_vars => [\A p \in Profiles \ shared : Answers(p)]_vars
  BY StepAnswers
<1>2. QED BY <1>1, IndInvAlways, PTL DEF Spec, AnswerIsTrue

-----------------------------------------------------------------------------
(* A listing that has met no error has found all it has seen.              *)
Lists(y) ==
  /\ proc[y].op \in {"list", "listed"} /\ proc[y].ok => proc[y].seen \subseteq proc[y].found
  /\ proc[y].op = "listed" /\ proc[y].ok /\ ~ proc[y].cut =>
       \A p \in Profiles : record[p] = None \/ p \in proc[y].found \cup proc[y].changed
ListInv == \A y \in Procs : Lists(y)

(* The steps of those who do not list, seen and not seen by those who do.  *)
LEMMA ListersDoNotNotice ==
  ASSUME TypeOK, ListInv, NEW x \in Procs, NEW s, s.op \notin {"list", "listed"}, Become(x, s), UNCHANGED record
  PROVE ListInv'
  BY DEF TypeOK, ListInv, Lists, Become

LEMMA ListersNotice ==
  ASSUME TypeOK, ListInv, NEW x \in Procs, NEW s, s.op \notin {"list", "listed"},
         NEW p \in Profiles, NameChanges(x, s, p), \A q \in Profiles \ {p} : record'[q] = record[q]
  PROVE ListInv'
<1> DEFINE New(y) == CASE y = x -> s
                       [] y # x /\ proc[y].op \in {"list", "listed"} -> [proc[y] EXCEPT !.changed = @ \cup {p}]
                       [] OTHER -> proc[y]
<1>1. proc' = [y \in Procs |-> New(y)]
  BY DEF NameChanges
<1>2. New(x) = s
  OBVIOUS
<1>3. \A y \in Procs \ {x} :
        /\ proc[y].op \in {"list", "listed"} => New(y) = [proc[y] EXCEPT !.changed = @ \cup {p}]
        /\ proc[y].op \notin {"list", "listed"} => New(y) = proc[y]
  OBVIOUS
<1> HIDE DEF New
<1>4. ASSUME NEW y \in Procs PROVE Lists(y)'
  <2>1. CASE y = x
    BY <2>1, <1>1, <1>2 DEF Lists
  <2>2. CASE y # x /\ proc[y].op \notin {"list", "listed"}
    BY <2>2, <1>1, <1>3 DEF Lists
  <2>3. CASE y # x /\ proc[y].op \in {"list", "listed"}
    <3>1. proc[y] \in Listers
      BY <2>3, Shapes DEF TypeOK, States
    <3>2. proc'[y] = [proc[y] EXCEPT !.changed = @ \cup {p}]
      BY <2>3, <1>1, <1>3
    <3>3. /\ proc'[y].op = proc[y].op /\ proc'[y].ok = proc[y].ok /\ proc'[y].seen = proc[y].seen
          /\ proc'[y].cut = proc[y].cut
          /\ proc'[y].found = proc[y].found /\ proc'[y].changed = proc[y].changed \cup {p}
      BY <3>1, <3>2 DEF Listers
    <3>4. QED BY <3>3 DEF ListInv, Lists
  <2>4. QED BY <2>1, <2>2, <2>3
<1>5. QED BY <1>4 DEF ListInv

LEMMA ListSteps ==
  ASSUME TypeOK, ListInv, NEW x \in Procs,
         \/ List(x) \/ ListEnd(x) \/ ListBreaks(x)
         \/ \E p \in Profiles : ListEntry(x, p) \/ ListUnreadable(x, p)
  PROVE ListInv'
<1>1. ASSUME NEW s, Become(x, s), UNCHANGED record,
             s.op \in {"list", "listed"} /\ s.ok => s.seen \subseteq s.found,
             s.op = "listed" /\ s.ok /\ ~ s.cut => \A p \in Profiles : record[p] = None \/ p \in s.found \cup s.changed
      PROVE ListInv'
  BY <1>1 DEF TypeOK, ListInv, Lists, Become
<1>2. ASSUME proc[x].op = "list" PROVE proc[x] \in Listers
  BY <1>2, Shapes DEF TypeOK, States
<1>3. CASE List(x)
  BY <1>1, <1>3 DEF List, files
<1>4. CASE ListEnd(x)
  <2> DEFINE s == [proc[x] EXCEPT !.op = "listed"]
  <2>1. /\ s.op = "listed" /\ s.ok = proc[x].ok /\ s.seen = proc[x].seen /\ s.cut = proc[x].cut
        /\ s.found = proc[x].found /\ s.changed = proc[x].changed
    BY <1>2, <1>4 DEF ListEnd, Listers
  <2>2. Become(x, s) /\ UNCHANGED record
    BY <1>4 DEF ListEnd, To, files
  <2> HIDE DEF s
  <2>3. QED BY <1>1, <1>4, <2>1, <2>2 DEF ListEnd, ListInv, Lists
<1>5. ASSUME NEW p \in Profiles, ListEntry(x, p) PROVE ListInv'
  <2>1. CASE Cardinality(proc[x].found) >= ListMax
    <3> DEFINE s == [proc[x] EXCEPT !.op = "listed", !.ok = FALSE]
    <3>1. s.ok = FALSE
      BY <1>2, <1>5 DEF ListEntry, Listers
    <3>2. Become(x, s) /\ UNCHANGED record
      BY <1>5, <2>1 DEF ListEntry, files
    <3> HIDE DEF s
    <3>3. QED BY <1>1, <3>1, <3>2
  <2>2. CASE ~ Cardinality(proc[x].found) >= ListMax
    <3> DEFINE s == [proc[x] EXCEPT !.seen = @ \cup {p}, !.found = IF Parses(At(p)) THEN @ \cup {p} ELSE @,
                                    !.ok = @ /\ Parses(At(p))]
    <3>1. /\ s.op = "list" /\ s.ok = (proc[x].ok /\ Parses(At(p))) /\ s.seen = proc[x].seen \cup {p}
          /\ Parses(At(p)) => s.found = proc[x].found \cup {p}
      BY <1>2, <1>5 DEF ListEntry, Listers
    <3>2. Become(x, s) /\ UNCHANGED record /\ proc[x].op = "list"
      BY <1>5, <2>2 DEF ListEntry, files
    <3> HIDE DEF s
    <3>3. QED BY <1>1, <3>1, <3>2 DEF ListInv, Lists
  <2>3. QED BY <2>1, <2>2
<1>6. ASSUME NEW p \in Profiles, ListUnreadable(x, p) PROVE ListInv'
  <2> DEFINE s == [proc[x] EXCEPT !.seen = @ \cup {p}, !.ok = FALSE]
  <2>1. s.ok = FALSE
    BY <1>2, <1>6 DEF ListUnreadable, Listers
  <2>2. Become(x, s) /\ UNCHANGED record
    BY <1>6 DEF ListUnreadable, files
  <2> HIDE DEF s
  <2>3. QED BY <1>1, <2>1, <2>2
<1>7. CASE ListBreaks(x)
  <2> DEFINE s == [proc[x] EXCEPT !.op = "listed", !.cut = TRUE]
  <2>1. /\ s.cut /\ s.ok = proc[x].ok /\ s.seen = proc[x].seen /\ s.found = proc[x].found
    BY <1>2, <1>7 DEF ListBreaks, Listers
  <2>2. Become(x, s) /\ UNCHANGED record
    BY <1>7 DEF ListBreaks, files
  <2> HIDE DEF s
  <2>3. QED BY <1>1, <1>7, <2>1, <2>2 DEF ListBreaks, ListInv, Lists
<1>8. QED BY <1>3, <1>4, <1>5, <1>6, <1>7

LEMMA NextLists == IndInv /\ ListInv /\ [Next]_vars => ListInv'
<1> SUFFICES ASSUME IndInv, ListInv, [Next]_vars PROVE ListInv'
  OBVIOUS
<1>1. TypeOK
  BY DEF IndInv
<1>2. CASE UNCHANGED vars
  BY <1>2 DEF vars, files, ListInv, Lists
<1>3. ASSUME NEW x \in Procs, NEW t \in Texts, Approve(x, t) PROVE ListInv'
  BY <1>1, <1>3, ListersDoNotNotice DEF Approve, files
<1>4. ASSUME NEW x \in Procs, CannotOpen(x) \/ ReadRecord(x) \/ Exit(x) PROVE ListInv'
  BY <1>1, <1>4, ListersDoNotNotice DEF CannotOpen, ReadRecord, Exit, files
<1>5. ASSUME NEW x \in Procs, NEW s, s.op \notin {"list", "listed"}, Become(x, s), UNCHANGED record PROVE ListInv'
  BY <1>1, <1>5, ListersDoNotNotice
<1>6. ASSUME NEW x \in Procs, proc[x].op \in PutOps PROVE proc[x] \in Putters
  BY <1>1, <1>6, Shapes DEF TypeOK, PutOps, States
<1>7. ASSUME NEW x \in Procs, OpenTmp(x) PROVE ListInv'
  <2>1. PICK i : Become(x, [proc[x] EXCEPT !.op = "write", !.inode = i]) /\ UNCHANGED record
    BY <1>7 DEF OpenTmp
  <2>2. [proc[x] EXCEPT !.op = "write", !.inode = i].op = "write"
    BY <1>6, <1>7 DEF OpenTmp, PutOps, Putters
  <2>3. QED BY <1>5, <2>1, <2>2
<1>8. ASSUME NEW x \in Procs, NEW op \in PutOps, proc[x].op \in PutOps, To(x, op), UNCHANGED record PROVE ListInv'
  <2>1. [proc[x] EXCEPT !.op = op].op = op
    BY <1>6, <1>8 DEF Putters
  <2>2. QED BY <1>5, <1>8, <2>1 DEF To, PutOps
<1>9. ASSUME NEW x \in Procs, Write(x) \/ Flush(x) \/ CannotInstall(x) PROVE ListInv'
  BY <1>8, <1>9 DEF Write, Flush, CannotInstall, PutOps, files
<1>10. ASSUME NEW x \in Procs, Install(x) PROVE ListInv'
  <2>1. proc[x].text.profile \in Profiles
    BY <1>6, <1>10, KnownTexts DEF Install, PutOps, Putters
  <2>2. QED BY <1>1, <1>10, <2>1, ListersNotice DEF Install, TypeOK
<1>11. ASSUME NEW x \in Procs, Unlink(x) PROVE ListInv'
  BY <1>5, <1>11 DEF Unlink
<1>12. ASSUME NEW x \in Procs, NEW p \in Profiles, Revoke(x, p) PROVE ListInv'
  BY <1>1, <1>12, ListersNotice DEF Revoke, TypeOK
<1>13. ASSUME NEW x \in Procs, NEW p \in Profiles, OpenRecord(x, p) PROVE ListInv'
  BY <1>5, <1>13 DEF OpenRecord, files
<1>14. ASSUME NEW p \in Profiles, WriteBack(p) PROVE ListInv'
  BY <1>14 DEF WriteBack, ListInv, Lists
<1>15. CASE PowerLoss
  BY <1>15 DEF PowerLoss, ListInv, Lists
<1>16. QED BY <1>1, <1>2, <1>3, <1>4, <1>7, <1>9, <1>10, <1>11, <1>12, <1>13, <1>14, <1>15, ListSteps DEF Next

(* A listing without an error, and without a readdir that failed, names    *)
(* every record that was there from its beginning to its end, whatever its *)
(* limit.                                                                  *)
THEOREM ListingsAreComplete == Spec => []ListIsComplete
<1>1. Init => ListInv
  BY DEF Init, ListInv, Lists
<1>2. ListInv => ListIsComplete
  BY DEF ListInv, Lists, ListIsComplete, Complete
<1>3. QED BY <1>1, <1>2, NextLists, IndInvAlways, PTL DEF Spec
=============================================================================
