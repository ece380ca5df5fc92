------------------------------- MODULE Registry -------------------------------
(***************************************************************************)
(* The approval registry of src/helper/src/registry.c, as the processes of *)
(* one user share it: vpn-up-admin approve, revoke and list, and           *)
(* vpn-up-helper connect, which only reads.  Any of them may be killed,    *)
(* any call may fail, and the power may go.  What a record says is the     *)
(* business of Requests; here a text is [profile, size, proxied].          *)
(***************************************************************************)
EXTENDS Integers, FiniteSets

CONSTANTS
  Procs,     \* the processes
  Profiles,  \* the canonical profile ids
  Texts,     \* what vu_registry_put may be given, serialised
  Installed, \* what earlier commands have left, by profile
  Inodes,    \* the inodes of the file system
  ListMax,   \* VU_APPROVAL_LIST_MAX
  None       \* no inode, no text

IsText(t) == t # None /\ t.profile \in Profiles /\ t.size \in Nat \ {0} /\ t.proxied \in BOOLEAN

ASSUME TextsAssumption == /\ \A t \in Texts : IsText(t)
                          /\ \A p \in DOMAIN Installed : IsText(Installed[p]) /\ Installed[p].profile = p
ASSUME InodesAssumption == /\ None \notin Inodes
                           /\ \E f \in [Profiles -> Inodes] : \A p, q \in Profiles : f[p] = f[q] => p = q

VARIABLES
  record,    \* profile -> the inode under its name
  tmp,       \* profile -> the inode under <name>.tmp
  data,      \* inode -> its content
  synced,    \* the inodes of which the disk has the whole content
  kept,      \* profile -> what the directory on the disk has under its name
  proc,      \* process -> what it is doing
  current,   \* history: profile -> the texts put since its last revocation ended
  shared     \* history: the profiles that two approve commands wrote at once

files == <<record, tmp, data, synced, kept>>
vars  == <<files, proc, current, shared>>

(* A content: a text, whole or cut in its last line, or parts of two texts.*)
Content(kind, of, size) == [kind |-> kind, of |-> of, size |-> size]
Absent   == Content("absent", None, 0)
Empty    == Content("empty", None, 0)
Whole(t) == Content("whole", t, t.size)
Cut(t)   == Content("cut", t, t.size - 1)
Torn(n)  == Content("torn", None, n)

(* One write of t, in full or not, at offset 0 of a file that may hold c   *)
(* again by now.  A last newline of c behind t is a blank last line.       *)
Written(t, full, c) ==
  CASE full /\ c.size <= t.size + 1 -> Whole(t)
    [] ~ full /\ c.size < t.size    -> Cut(t)
    [] OTHER                        -> Torn(c.size)

(* vu_approval_parse: what is left of the last line may still be a proxy,  *)
(* with another port.                                                      *)
Parses(c)  == c.kind = "whole" \/ (c.kind = "cut" /\ c.of.proxied)
At(p)      == IF record[p] = None THEN Absent ELSE data[record[p]]
Left(p)    == IF record[p] = None \/ record[p] \in synced THEN {At(p)} ELSE {At(p), Empty, Torn(1)}

(* One inode for each profile.                                             *)
Place == CHOOSE f \in [Profiles -> Inodes] : \A p, q \in Profiles : f[p] = f[q] => p = q

(* The files are those of a machine that has just been started.            *)
Started(content) ==
  LET At0(i) == IF \E p \in Profiles : Place[p] = i THEN content[CHOOSE p \in Profiles : Place[p] = i] ELSE Empty
  IN [record |-> [p \in Profiles |-> IF content[p] = Absent THEN None ELSE Place[p]],
      data |-> [i \in Inodes |-> At0(i)]]

Init == LET content == [p \in Profiles |-> IF p \in DOMAIN Installed THEN Whole(Installed[p]) ELSE Absent]
        IN /\ record = Started(content).record /\ tmp = [p \in Profiles |-> None]
           /\ data = Started(content).data /\ synced = Inodes
           /\ kept = content
           /\ proc = [x \in Procs |-> [op |-> "idle"]]
           /\ current = [p \in Profiles |-> {content[p].of} \ {None}] /\ shared = {}

-----------------------------------------------------------------------------
Become(x, state) == proc' = [proc EXCEPT ![x] = state]
To(x, op)        == Become(x, [proc[x] EXCEPT !.op = op])

(* A name appears, disappears or changes under those who list.             *)
NameChanges(x, state, p) ==
  proc' = [y \in Procs |-> CASE y = x -> state
                             [] y # x /\ proc[y].op \in {"list", "listed"} -> [proc[y] EXCEPT !.changed = @ \cup {p}]
                             [] OTHER -> proc[y]]

Putting(p)  == {y \in Procs : proc[y].op \in {"open", "write", "flush", "rename", "unlink"} /\ proc[y].text.profile = p}
InUse       == {record[p] : p \in Profiles} \cup {tmp[p] : p \in Profiles}
               \cup {proc[y].inode : y \in {z \in Procs : proc[z].op \in {"write", "flush", "read"}}}

(* The file that open(tmp, O_CREAT) finds or makes.                        *)
TmpFiles(p) == IF tmp[p] = None THEN Inodes \ InUse ELSE {tmp[p]}

-----------------------------------------------------------------------------
(* approve: vu_registry_put and write_record                               *)

(* Bound: after two commands have shared a .tmp, no third one begins.      *)
OneCollision(p) == p \notin shared

Approve(x, t) ==
  /\ proc[x].op = "idle" /\ OneCollision(t.profile)
  /\ Become(x, [op |-> "open", text |-> t, inode |-> None])
  /\ current' = [current EXCEPT ![t.profile] = @ \cup {t}]
  /\ shared' = IF Putting(t.profile) = {} THEN shared ELSE shared \cup {t.profile}
  /\ UNCHANGED files

(* The directories, their owners and modes, or the open itself.            *)
CannotOpen(x) ==
  /\ proc[x].op = "open"
  /\ Become(x, [op |-> "refused"])
  /\ UNCHANGED <<files, current, shared>>

(* Mutant: what an earlier command left under the name is not truncated.   *)
MutantNoTruncation(x) ==
  /\ proc[x].op = "open"
  /\ LET p == proc[x].text.profile
     IN \E i \in TmpFiles(p) :
          /\ tmp' = [tmp EXCEPT ![p] = i]
          /\ data' = IF tmp[p] = None THEN [data EXCEPT ![i] = Empty] ELSE data
          /\ synced' = synced \ {i}
          /\ Become(x, [proc[x] EXCEPT !.op = "write", !.inode = i])
          /\ UNCHANGED <<record, kept, current, shared>>

OpenTmp(x) ==
  /\ proc[x].op = "open"
  /\ LET p == proc[x].text.profile
     IN \E i \in TmpFiles(p) :
          /\ tmp' = [tmp EXCEPT ![p] = i]
          /\ data' = [data EXCEPT ![i] = Empty]
          /\ synced' = synced \ {i}
          /\ Become(x, [proc[x] EXCEPT !.op = "write", !.inode = i])
          /\ UNCHANGED <<record, kept, current, shared>>

Write(x) ==
  \E full \in BOOLEAN :
    LET i == proc[x].inode
        c == Written(proc[x].text, full, data[i])
    IN /\ proc[x].op = "write"
       /\ data' = [data EXCEPT ![i] = c]
       /\ synced' = synced \ {i}
       /\ To(x, IF full THEN "flush" ELSE "unlink")
       /\ UNCHANGED <<record, tmp, kept, current, shared>>

(* Mutant: close, but no fsync.                                            *)
MutantNoFlush(x) == /\ proc[x].op = "flush"
                    /\ To(x, "rename")
                    /\ UNCHANGED <<files, current, shared>>

(* fsync and close; one that fails may have done its work.                 *)
Flush(x) ==
  \E ok, flushed \in BOOLEAN :
    LET i == proc[x].inode
    IN /\ proc[x].op = "flush" /\ (ok => flushed)
       /\ synced' = IF flushed THEN synced \cup {i} ELSE synced
       /\ To(x, IF ok THEN "rename" ELSE "unlink")
       /\ UNCHANGED <<record, tmp, data, kept, current, shared>>

Install(x) ==
  LET p == proc[x].text.profile
  IN /\ proc[x].op = "rename" /\ tmp[p] # None
     /\ record' = [record EXCEPT ![p] = tmp[p]] /\ tmp' = [tmp EXCEPT ![p] = None]
     /\ NameChanges(x, [op |-> "approved"], p)
     /\ UNCHANGED <<data, synced, kept, current, shared>>

(* Another approve has renamed the file, or the rename fails.              *)
CannotInstall(x) == /\ proc[x].op = "rename"
                    /\ To(x, "unlink")
                    /\ UNCHANGED <<files, current, shared>>

(* unlink(tmp), whoever's it is by now                                     *)
Unlink(x) == /\ proc[x].op = "unlink"
             /\ tmp' = [tmp EXCEPT ![proc[x].text.profile] = None]
             /\ Become(x, [op |-> "refused"])
             /\ UNCHANGED <<record, data, synced, kept, current, shared>>

-----------------------------------------------------------------------------
(* revoke: vu_registry_delete                                              *)

Revoked(p) == [current EXCEPT ![p] = {proc[y].text : y \in Putting(p)}]

(* Mutant: a record that cannot be removed is reported as revoked.         *)
MutantRevokeAnyway(x, p) ==
  /\ proc[x].op = "idle"
  /\ current' = Revoked(p)
  /\ \/ /\ record' = [record EXCEPT ![p] = None]
           /\ NameChanges(x, proc[x], p)
     \/ UNCHANGED <<record, proc>>
  /\ UNCHANGED <<tmp, data, synced, kept, shared>>

Revoke(x, p) ==
  /\ proc[x].op = "idle"
  /\ record' = [record EXCEPT ![p] = None]
  /\ current' = Revoked(p)
  /\ NameChanges(x, proc[x], p)
  /\ UNCHANGED <<tmp, data, synced, kept, shared>>

-----------------------------------------------------------------------------
(* connect: vu_registry_get, the open and the read apart                   *)

OpenRecord(x, p) == /\ proc[x].op = "idle" /\ record[p] # None
                    /\ Become(x, [op |-> "read", profile |-> p, inode |-> record[p], may |-> current[p]])
                    /\ UNCHANGED <<files, current, shared>>

ReadRecord(x) == /\ proc[x].op = "read"
                 /\ Become(x, [op |-> "got"])
                 /\ UNCHANGED <<files, current, shared>>

-----------------------------------------------------------------------------
(* list: names that change meanwhile may be returned or not; those that    *)
(* begin with a dot or end in .tmp are passed over.                        *)

List(x) == /\ proc[x].op = "idle"
           /\ Become(x, [op |-> "list", seen |-> {}, found |-> {}, changed |-> {}, ok |-> TRUE, cut |-> FALSE])
           /\ UNCHANGED <<files, current, shared>>

(* Mutant: a listing that is full is cut without a word.                   *)
MutantCutListing(x, p) ==
  /\ proc[x].op = "list" /\ p \notin proc[x].seen /\ record[p] # None
  /\ IF Cardinality(proc[x].found) >= ListMax THEN To(x, "listed")
     ELSE Become(x, [proc[x] EXCEPT !.seen = @ \cup {p}, !.found = IF Parses(At(p)) THEN @ \cup {p} ELSE @,
                                    !.ok = @ /\ Parses(At(p))])
  /\ UNCHANGED <<files, current, shared>>

ListEntry(x, p) ==
  /\ proc[x].op = "list" /\ p \notin proc[x].seen /\ record[p] # None
  /\ IF Cardinality(proc[x].found) >= ListMax THEN Become(x, [proc[x] EXCEPT !.op = "listed", !.ok = FALSE])
     ELSE Become(x, [proc[x] EXCEPT !.seen = @ \cup {p}, !.found = IF Parses(At(p)) THEN @ \cup {p} ELSE @,
                                    !.ok = @ /\ Parses(At(p))])
  /\ UNCHANGED <<files, current, shared>>

(* A record that cannot be read, and the directory's end.                  *)
ListUnreadable(x, p) ==
  /\ proc[x].op = "list" /\ p \notin proc[x].seen /\ record[p] # None /\ Cardinality(proc[x].found) < ListMax
  /\ Become(x, [proc[x] EXCEPT !.seen = @ \cup {p}, !.ok = FALSE])
  /\ UNCHANGED <<files, current, shared>>

ListEnd(x) == /\ proc[x].op = "list"
              /\ \A p \in Profiles : record[p] = None \/ p \in proc[x].seen \cup proc[x].changed
              /\ To(x, "listed")
              /\ UNCHANGED <<files, current, shared>>

(* readdir fails, and its NULL is taken for the end of the directory.       *)
ListBreaks(x) == /\ proc[x].op = "list"
                 /\ Become(x, [proc[x] EXCEPT !.op = "listed", !.cut = TRUE])
                 /\ UNCHANGED <<files, current, shared>>

-----------------------------------------------------------------------------
(* A command ends or is killed, anywhere.                                  *)
Exit(x) == /\ proc[x].op # "idle"
           /\ Become(x, [op |-> "idle"])
           /\ UNCHANGED <<files, current, shared>>

(* Nobody syncs the directory: it is written back at some time or never.   *)
WriteBack(p) == /\ \E c \in Left(p) : kept' = [kept EXCEPT ![p] = c]
                /\ UNCHANGED <<record, tmp, data, synced, proc, current, shared>>

(* A .tmp that is left over is truncated before anybody uses it.           *)
PowerLoss == /\ record' = Started(kept).record /\ tmp' = [p \in Profiles |-> None]
             /\ data' = Started(kept).data /\ synced' = Inodes
             /\ proc' = [x \in Procs |-> [op |-> "idle"]]
             /\ current' = [p \in Profiles |-> current[p] \cup ({kept[p].of} \ {None})]
             /\ UNCHANGED <<kept, shared>>

Next == \/ \E x \in Procs :
             \/ \E t \in Texts : Approve(x, t)
             \/ CannotOpen(x) \/ OpenTmp(x) \/ Write(x) \/ Flush(x)
             \/ Install(x) \/ CannotInstall(x) \/ Unlink(x)
             \/ \E p \in Profiles : Revoke(x, p) \/ OpenRecord(x, p) \/ ListEntry(x, p) \/ ListUnreadable(x, p)
             \/ ReadRecord(x) \/ List(x) \/ ListEnd(x) \/ ListBreaks(x) \/ Exit(x)
        \/ \E p \in Profiles : WriteBack(p)
        \/ PowerLoss

Spec == Init /\ [][Next]_vars

-----------------------------------------------------------------------------
(* What connect takes for an approval was put by an approve command of     *)
(* that profile that had run after, or while, it was last revoked when     *)
(* connect opened it, whoever writes, dies or revokes meanwhile.  Two      *)
(* commands that share one .tmp may still install the text of a command    *)
(* that was killed before.                                                 *)
AcceptsCurrent(x) ==
  LET p == proc[x].profile
      c == data[proc[x].inode]
  IN (proc[x].op = "read" /\ proc'[x].op = "got" /\ Parses(c)) =>
       c.of.profile = p /\ (p \in shared \/ (c.kind = "whole" /\ c.of \in proc[x].may))

AcceptedIsCurrent == [][\A x \in Procs : AcceptsCurrent(x)]_vars

(* A record is whole or not there ("an approval that survives a crash only *)
(* sometimes is worse than one that fails to be written at all"): kills,   *)
(* failed calls and power losses do not leave parts of one, as long as one *)
(* approve command at a time writes it.                                    *)
WholeUnlessShared == \A p \in Profiles \ shared : At(p) = Absent \/ At(p).kind = "whole"

(* What approve answers is what it did: approved, and the record holds the *)
(* new text in full; otherwise, wherever it failed, the record is as it    *)
(* was.  Only a revocation and a power loss change it besides.             *)
Answers(p) ==
  LET Approved == {x \in Putting(p) : proc'[x].op = "approved"}
  IN /\ \A x \in Approved : At(p)' = Whole(proc[x].text)
     /\ Approved # {} \/ At(p)' \in {At(p), Absent, kept[p]}

AnswerIsTrue == [][\A p \in Profiles \ shared : Answers(p)]_vars

(* A listing that reports no error, and during which no readdir failed,    *)
(* leaves out no approval that was there from its beginning to its end,    *)
(* whatever other commands do to the directory meanwhile.                  *)
Complete(x) == \A p \in Profiles : record[p] = None \/ p \in proc[x].found \cup proc[x].changed

ListIsComplete ==
  \A x \in Procs : (proc[x].op = "listed" /\ proc[x].ok /\ ~ proc[x].cut) => Complete(x)

(* The comment at registry.c:449, "never silently truncate a security      *)
(* listing: a user who cannot see an approval cannot revoke it", of every  *)
(* listing that reports no error.                                          *)
NeverSilentlyTruncated ==
  \A x \in Procs : (proc[x].op = "listed" /\ proc[x].ok) => Complete(x)

(* The comment of vu_registry_put, "a malformed approval cannot exist on   *)
(* disk at all", of the name connect reads.                                *)
MalformedNeverExists == \A p \in Profiles : At(p) = Absent \/ Parses(At(p))
=============================================================================
