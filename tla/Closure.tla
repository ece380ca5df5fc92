------------------------------- MODULE Closure -------------------------------
(***************************************************************************)
(* The trusted execution closure of src/helper/src/closure.c: before every *)
(* execve, and on verify-closure, everything root is about to execute,     *)
(* source, load or search is looked at, and one thing that somebody else   *)
(* could write refuses it all.  The checks of paths are those of state.c.  *)
(* The libraries of a Mach-O binary are walked one by one, with the stack  *)
(* of check_dylib_closure; the other checks take one step each.            *)
(***************************************************************************)
EXTENDS Images, FiniteSets

CONSTANTS
  Machines,    \* what the walk may find
  DotD,        \* the names that end in .d
  ClosureMax,  \* VU_CLOSURE_MAX
  VisitedMax   \* VU_MACHO_VISITED_MAX

ASSUME ClosureNumbers == ClosureMax \in Nat /\ VisitedMax \in Nat

(* A machine is [at, loader, command, euid, caller, openconnect, script,   *)
(* shell, wrapper, candidate, hooks_root, path_env, preload, conf,         *)
(* conf_dir, libdirs, cached].  at maps the names that exist to objects    *)
(*   [kind, real, uid, loose, exec, shut, acl, holds, means, fit]:         *)
(* real is the path its links lead to, << >> when they dangle; loose says  *)
(* writable by group or others, shut that only root may open it, acl that  *)
(* the caller may write it all the same; holds is its content.  path_env   *)
(* is PATH at its colons, << >> when it is empty.  Only the properties use *)
(* means, the paths the loader, the shell or vpnc-script takes from that   *)
(* content, whether the check finds them or not, and fit, that it is the   *)
(* kind of object its use asks for.                                        *)

VARIABLES
  m,         \* the machine
  pc,        \* "binary", "libraries", "dylibs", "files", "verdict", "wrapper", "end"
  info,      \* what was read from the image under consideration
  todo,      \* the call stack of check_dylib_closure: dylibs still to enter
  visited,   \* the names it has entered
  report,    \* the rows so far; one more than ClosureMax says truncated
  answer     \* the verdict of each of the two reports

vars == <<m, pc, info, todo, visited, report, answer>>

Row(path, ok, checked) == [path |-> path, ok |-> ok, checked |-> checked]

-----------------------------------------------------------------------------
(* trusted_walk: the real path, component by component.                    *)

Exists(p) == p \in DOMAIN m.at
Leads(p)  == Exists(p) /\ m.at[p].real # << >>
Object(p) == m.at[m.at[p].real]

TrustedComponent(c, owner, kind) ==
  /\ m.at[c].kind = kind
  /\ m.at[c].uid \in {owner, 0}
  /\ ~ m.at[c].loose

Canonical(p) == /\ Len(p) > 1 /\ Absolute(p) /\ p[Len(p)] # ""
                /\ \A i \in 2..(Len(p) - 1) : p[i] \notin {".", ".."}

(* Mutant: the object itself is looked at, and not the way to it.          *)
MutantLeafOnly(p, owner, kind) == Canonical(p) /\ Leads(p) /\ TrustedComponent(m.at[p].real, owner, kind)

TrustedWalk(p, owner, kind) ==
  /\ Canonical(p) /\ Leads(p)
  /\ LET real == m.at[p].real
     IN \A k \in 2..Len(real) :
          TrustedComponent(SubSeq(real, 1, k), owner, IF k = Len(real) THEN kind ELSE "dir")

PathTrusted(p, owner, want_exec) == TrustedWalk(p, owner, "file") /\ (want_exec => Object(p).exec)
DirTrusted(p, owner)             == TrustedWalk(p, owner, "dir")

CheckFile(p, owner, want_exec) == << Row(p, PathTrusted(p, owner, want_exec), TRUE) >>
CheckDir(p)                    == << Row(p, DirTrusted(p, 0), TRUE) >>

Opens(p) == Leads(p) /\ (Object(p).shut => m.euid = 0)
Lists(p) == Opens(p) /\ Object(p).kind = "dir"
Reads(p) == Opens(p) /\ Object(p).kind = "file"

Visible(dir)        == Those(Object(dir).holds, LAMBDA name : name # ".hidden")

-----------------------------------------------------------------------------
(* The sections of the walk, as the rows they add.                         *)

CheckShebang(script, owner) ==
  IF Reads(script) /\ Absolute(Object(script).holds) THEN CheckFile(Object(script).holds, owner, TRUE) ELSE << >>

DotDirs(at, dirs) == Those(dirs, LAMBDA sub : Last(sub) \in DotD /\ at[sub].kind = "dir")

HookDirs(root) == LET names == Visible(root) IN DotDirs(m.at, [i \in DOMAIN names |-> Append(root, names[i])])

CheckHooks(root) ==
  LET Hook(sub) == CheckDir(sub) \o
        (IF Lists(sub) THEN Concat(Visible(sub), LAMBDA name : CheckFile(Append(sub, name), 0, FALSE)) ELSE << >>)
  IN IF ~ Exists(root) THEN << Row(root, TRUE, TRUE) >>
     ELSE CheckDir(root) \o
          (IF Lists(root) THEN Concat(HookDirs(root), Hook) ELSE << Row(root, FALSE, FALSE) >>)

(* The loop ends with the string: after a trailing colon is no entry.      *)
PathEntries == LET s == m.path_env IN IF Len(s) > 1 /\ Last(s) = << >> THEN Front(s) ELSE s

CheckPathEntries ==
  LET Entry(dir) == IF dir = << >> \/ ~ Absolute(dir) THEN << Row(dir, FALSE, TRUE) >>
                    ELSE IF Exists(dir) THEN CheckDir(dir)
                    ELSE << Row(dir, DirTrusted(DirnameOf(dir), 0), TRUE) >>
  IN IF m.path_env = << >> THEN << Row(<< >>, FALSE, TRUE) >> ELSE Concat(PathEntries, Entry)

CheckLdsoList(file, files) ==
  LET Line(s) == IF s = <<"include">> THEN << Row(s, TRUE, FALSE) >>
                 ELSE IF ~ Absolute(s) THEN << Row(s, FALSE, TRUE) >>
                 ELSE IF ~ Exists(s) THEN << >>
                 ELSE IF files THEN CheckFile(s, 0, FALSE) ELSE CheckDir(s)
  IN IF ~ Exists(file) THEN << Row(file, TRUE, TRUE) >>
     ELSE CheckFile(file, 0, FALSE)
          \o (IF ~ Opens(file) THEN << Row(file, FALSE, FALSE) >>
              ELSE IF Reads(file) THEN Concat(Object(file).holds, Line) ELSE << >>)

CheckConfDir(dir) ==
  IF ~ Exists(dir) THEN << >>
  ELSE CheckDir(dir) \o
       (IF Lists(dir) THEN Concat(Visible(dir), LAMBDA name : CheckLdsoList(Append(dir, name), FALSE)) ELSE << >>)

CheckIfExists(dir) == IF Exists(dir) THEN CheckDir(dir) ELSE << >>

Marked(path) == IF info.truncated THEN << Row(path, FALSE, TRUE) >> ELSE << >>

CheckElf ==
  Marked(m.openconnect) \o Concat(info.rpaths, CheckIfExists)
  \o CheckLdsoList(m.preload, TRUE) \o CheckLdsoList(m.conf, FALSE) \o CheckConfDir(m.conf_dir)
  \o Concat(m.libdirs, CheckIfExists)
  \o Concat(info.names, LAMBDA name : << Row(<<name>>, TRUE, FALSE) >>)

(* vu_writable_by, for the fixed objects; only root can ask for another.   *)
CheckAcls ==
  LET Probe(p) == IF Exists(p) THEN << Row(p, ~ (Leads(p) /\ Object(p).acl), TRUE) >> ELSE << >>
  IN Concat(<< m.openconnect, m.script, m.shell >>, Probe)

(* A Mach-O image: the rows it adds itself, and the dylibs to enter next.  *)
CheckMacho(path) ==
  Marked(path) \o Concat(info.rpaths, CheckIfExists)
  \o Concat(Those(info.names, LAMBDA d : ~ Absolute(d)), LAMBDA d : << Row(d, TRUE, FALSE) >>)

Needed == Those(info.names, Absolute)

Image(path) == IF ~ Reads(path) THEN Unreadable
               ELSE IF m.loader = "elf" THEN ElfDynamic(Object(path).holds, path)
               ELSE MachoDylibs(Object(path).holds, path, m.openconnect)

-----------------------------------------------------------------------------

Record(rows) == report' = Most(report \o rows, ClosureMax + 1)
Failed       == {r \in ToSet(report) : ~ r.ok}
Verdict      == Len(report) <= ClosureMax /\ Failed = {}

Init == /\ m \in Machines
        /\ pc = "binary" /\ info = Foreign
        /\ todo = << >> /\ visited = {} /\ report = << >> /\ answer = << >>

Go(to) == pc' = to /\ UNCHANGED <<m, answer>>

(* check_file of the binary; the image is read whatever that says.         *)
Binary == /\ pc = "binary"
          /\ Record(CheckFile(m.openconnect, 0, TRUE))
          /\ info' = IF m.loader = "none" THEN Unreadable ELSE Image(m.openconnect)
          /\ Go("libraries") /\ UNCHANGED <<todo, visited>>

NoLibraries == /\ pc = "libraries" /\ ~ (info.ok /\ info.is)
               /\ Record(<< Row(m.openconnect, FALSE, info.ok) >>)
               /\ Go("files") /\ UNCHANGED <<info, todo, visited>>

Libraries == /\ pc = "libraries" /\ info.ok /\ info.is
             /\ IF m.loader = "elf" THEN Record(CheckElf) /\ Go("files") /\ UNCHANGED todo
                ELSE Record(CheckMacho(m.openconnect)) /\ todo' = Needed /\ Go("dylibs")
             /\ info' = Foreign /\ UNCHANGED visited

(* check_dylib_closure: what happens before the image is read ...          *)
Skip == /\ pc = "dylibs" /\ todo # << >>
        /\ \/ todo[1] \in visited /\ UNCHANGED report
           \/ /\ todo[1] \notin visited /\ Cardinality(visited) >= VisitedMax
              /\ Record(<< Row(todo[1], FALSE, FALSE) >>)
        /\ todo' = Tail(todo)
        /\ Go("dylibs") /\ UNCHANGED <<info, visited>>

(* Mutant: a dylib on its own path of dependencies is entered again.       *)
MutantUnvisited ==
  LET path == todo[1]
  IN /\ pc = "dylibs" /\ todo # << >>
     /\ visited' = visited \cup {path}
     /\ Record(<< Row(path, PathTrusted(path, 0, FALSE), TRUE) >>)
     /\ info' = Image(path) /\ Go("image") /\ UNCHANGED todo

Enter == LET path  == todo[1]
             taken == path \in m.cached \/ PathTrusted(path, 0, FALSE)
         IN /\ pc = "dylibs" /\ todo # << >>
            /\ path \notin visited /\ Cardinality(visited) < VisitedMax
            /\ visited' = visited \cup {path}
            /\ Record(<< Row(path, taken, TRUE) >>)
            /\ IF taken /\ path \notin m.cached
               THEN info' = Image(path) /\ Go("image") /\ UNCHANGED todo
               ELSE todo' = Tail(todo) /\ Go("dylibs") /\ UNCHANGED info

(* ... and after.                                                          *)
Walk == /\ pc = "image"
        /\ Record(IF ~ info.ok THEN << Row(todo[1], FALSE, FALSE) >>
                  ELSE IF info.is THEN CheckMacho(todo[1]) ELSE << >>)
        /\ todo' = (IF info.ok /\ info.is THEN Needed ELSE << >>) \o Tail(todo)
        /\ info' = Foreign
        /\ Go("dylibs") /\ UNCHANGED visited

Return == pc = "dylibs" /\ todo = << >> /\ Go("files") /\ UNCHANGED <<info, todo, visited, report>>

Files == /\ pc = "files"
         /\ Record(CheckFile(m.shell, 0, TRUE) \o CheckFile(m.script, 0, TRUE) \o CheckShebang(m.script, 0)
                   \o CheckHooks(m.hooks_root) \o CheckPathEntries
                   \o (IF m.euid = 0 /\ m.caller # 0 THEN CheckAcls ELSE << >>))
         /\ Go("verdict") /\ UNCHANGED <<info, todo, visited>>

(* connect stops at a refusal; verify-closure checks the wrapper as well.  *)
Judge == /\ pc = "verdict"
         /\ answer' = << Verdict >>
         /\ IF Verdict \/ m.command = "verify" THEN pc' = "wrapper" /\ report' = << >>
            ELSE pc' = "end" /\ UNCHANGED report
         /\ UNCHANGED <<m, info, todo, visited>>

(* vu_wrapper_precheck; a staged candidate may belong to who checks it.    *)
WrapperPath == IF m.candidate = << >> THEN m.wrapper ELSE m.candidate

Wrapper == LET owner == IF m.candidate = << >> THEN 0 ELSE m.euid
           IN /\ pc = "wrapper"
              /\ report' = CheckFile(WrapperPath, owner, TRUE) \o CheckShebang(WrapperPath, owner)
              /\ answer' = Append(answer, \A r \in ToSet(report') : r.ok)
              /\ pc' = "end"
              /\ UNCHANGED <<m, info, todo, visited>>

Next == \/ Binary \/ NoLibraries \/ Libraries \/ Skip \/ Enter \/ Walk \/ Return
        \/ Files \/ Judge \/ Wrapper

Spec == Init /\ [][Next]_vars /\ WF_vars(Next)

-----------------------------------------------------------------------------
(* What root takes from the pinned names on, by the meaning of each object.*)

Parent(dir) == IF Exists(dir) \/ ~ Absolute(dir) THEN dir ELSE DirnameOf(dir)

Roots == {m.openconnect, m.shell, m.script, WrapperPath, m.hooks_root}
         \cup {Parent(dir) : dir \in ToSet(m.path_env)}
         \cup (IF m.loader = "elf" THEN {m.preload, m.conf, m.conf_dir} \cup ToSet(m.libdirs) ELSE {})

(* From base, by what next says of each name, as far as that leads.        *)
Closed(base, next) ==
  LET Grow(s) == LET more == (UNION {next[p] : p \in s.new \cap DOMAIN next}) \ s.all
                 IN [all |-> s.all \cup more, new |-> more]
      within[n \in 0..Cardinality(DOMAIN next)] ==
        IF n = 0 THEN [all |-> base, new |-> base] ELSE Grow(within[n - 1])
  IN within[Cardinality(DOMAIN next)].all

Names   == {p \in DOMAIN m.at : Leads(p)}
Reached == Closed(Roots, [p \in Names |-> Object(p).means])

(* Nobody but root can write it or put something else in its place.        *)
Harmless(p) == /\ Leads(p)
               /\ \A k \in 2..Len(m.at[p].real) :
                    LET c == m.at[SubSeq(m.at[p].real, 1, k)] IN c.uid = 0 /\ ~ c.loose

(* Nor can they make it, or turn the way of its name elsewhere.            *)
OutOfReach(p) == Absolute(p) /\ \A k \in 2..Len(p) : LET c == SubSeq(p, 1, k) IN Exists(c) => Harmless(c)

(* Two yeses to root, for the installed wrapper.                           *)
Accepted == pc = "end" /\ m.euid = 0 /\ m.candidate = << >> /\ answer = << TRUE, TRUE >>

(* The requirement as vu_closure.h states it: "Every executable, script,   *)
(* library, interpreter, sourced hook and search path reachable from the   *)
(* privileged OpenConnect execution must be outside the caller's write     *)
(* control."  The code does not live up to it: see Blind.                  *)
EverythingIsOutside == Accepted => \A p \in Reached \cup ToSet(m.path_env) : OutOfReach(p)

HookSubs == IF Lists(m.hooks_root) THEN ToSet(HookDirs(m.hooks_root)) ELSE {}

(* What the check does not look for in an object: a path relative to where *)
(* root happens to be (an empty RUNPATH item, a relative interpreter); a   *)
(* hook directory that is a link, which lstat does not call a directory    *)
(* and vpnc-script's [ -d ] does; what $ORIGIN stands for when openconnect *)
(* is a link, the directory of the link to elf.c and that of the file to   *)
(* ld.so; and what lies in a directory that is only searched.              *)
AtItsRealPlace(p) == LET i == ElfDynamic(Object(p).holds, m.at[p].real)
                     IN IF i.ok /\ i.is THEN ToSet(i.rpaths) ELSE {}

OnlySearched(p) == Object(p).kind = "dir" /\ p \notin HookSubs \cup {m.hooks_root, m.conf_dir}

Blind(p) ==
  {q \in Object(p).means :
     \/ ~ Absolute(q)
     \/ p = m.hooks_root /\ Exists(q) /\ m.at[q].kind = "link"
     \/ p = m.openconnect /\ m.loader = "elf" /\ m.at[p].kind = "link" /\ q \in AtItsRealPlace(p)
     \/ OnlySearched(p)}

InSight == Closed(Roots, [p \in Names |-> Object(p).means \ Blind(p)])

(* The verdict is sound as far as the check looks: when it says yes to     *)
(* root, whatever exists of all that root takes, blind spots apart, is     *)
(* harmless along the whole path its links lead to, the entries of PATH    *)
(* are absolute, and the fixed objects are not open to the caller by an    *)
(* ACL.  What is yet to be made, and who owns the links themselves, it     *)
(* does not look at either (trusted_walk, exists).                         *)
VerdictIsSound ==
  Accepted =>
    /\ \A p \in InSight : Exists(p) => Harmless(p)
    /\ m.path_env # << >> /\ \A dir \in ToSet(PathEntries) : Absolute(dir)
    /\ m.loader # "none"
    /\ m.caller # 0 => \A p \in {m.openconnect, m.script, m.shell} : ~ Object(p).acl

(* What the proof of it takes of the machine.  First, what it must be like *)
(* to be read: names lead to names that exist, below the root directory;   *)
(* what directories and loader files hold, and what a binary says, are     *)
(* lists; a library the loader has only in its cache "is not a standalone  *)
(* file this walk could open" (closure.c).                                 *)
IsList(s) == s \in Seq(ToSet(s))

RpathsOf(p) == LET i == Image(p) IN IF i.ok /\ i.is THEN ToSet(i.rpaths) ELSE {}
NamesOf(p)  == LET i == Image(p) IN IF i.ok /\ i.is THEN {d \in ToSet(i.names) : Absolute(d)} ELSE {}
Binaries    == IF m.loader = "macho" THEN Closed({m.openconnect}, [p \in DOMAIN m.at |-> NamesOf(p)])
               ELSE {m.openconnect}

Sees(dir) == IF Lists(dir) THEN {Append(dir, name) : name \in ToSet(Visible(dir))} ELSE {}

LoaderFiles == {m.preload, m.conf} \cup Sees(m.conf_dir)

WellMade ==
  /\ m.loader \in {"elf", "macho", "none"}
  /\ IsFiniteSet(DOMAIN m.at) /\ << >> \notin DOMAIN m.at /\ m.cached \cap DOMAIN m.at = {}
  /\ IsList(m.path_env) /\ IsList(m.libdirs)
  /\ \A p \in DOMAIN m.at : Leads(p) => IsList(m.at[p].real) /\ Len(m.at[p].real) > 1
  /\ \A p \in DOMAIN m.at : Lists(p) => IsList(Object(p).holds)
  /\ m.loader = "elf" => \A p \in LoaderFiles : Reads(p) => IsList(Object(p).holds)
  /\ \A p \in DOMAIN m.at \cap Binaries :
       LET i == Image(p) IN i.ok /\ i.is => IsList(i.rpaths) /\ IsList(i.names)

(* Then, what the check follows from an object, in the part the object     *)
(* plays: an interpreter, what directories and loader files name, the      *)
(* search path and the libraries of a binary.                              *)
Interpreter(p) == IF Reads(p) /\ Absolute(Object(p).holds) THEN {Object(p).holds} ELSE {}
Lines(file)    == IF Reads(file) THEN {s \in ToSet(Object(file).holds) : s # <<"include">> /\ Absolute(s)} ELSE {}

Followed(p) ==
  (IF p \in {m.script, WrapperPath} THEN Interpreter(p) ELSE {})
  \cup (IF p = m.hooks_root THEN HookSubs ELSE {})
  \cup (IF p \in HookSubs \/ (m.loader = "elf" /\ p = m.conf_dir) THEN Sees(p) ELSE {})
  \cup (IF m.loader = "elf" /\ p \in LoaderFiles THEN Lines(p) ELSE {})
  \cup (IF p \in Binaries THEN RpathsOf(p) ELSE {})
  \cup (IF p \in Binaries /\ m.loader = "macho" THEN NamesOf(p) ELSE {})

Walked == Closed(Roots, [p \in Names |-> Followed(p)])

(* An object that is no file or directory, or a binary that cannot be read *)
(* to its end, says nothing.                                               *)
Sighted(p) == /\ Reads(p) \/ Lists(p)
              /\ p \in Binaries => Image(p).ok /\ (Image(p).is => ~ Image(p).truncated)

ReadAsMeant == \A p \in InSight : Leads(p) /\ Sighted(p) => Object(p).means \ Blind(p) \subseteq Followed(p)

(* A yes to root is never for want of reading: where it is given, the      *)
(* check found in every object it sees all the paths the loader, the shell *)
(* and vpnc-script take from there, but for its blind spots: the tokens of *)
(* the loader are expanded as the loader does, nothing of a list is lost   *)
(* (elf.c, macho.c, check_shebang, check_hooks, check_ldso_list).          *)
NothingElseIsOverlooked == Accepted => ReadAsMeant

(* A refusal can be acted on ("refused without naming the object and the   *)
(* reason would be useless"): every failing row names something root does  *)
(* reach, and that is not harmless, not there, not what its use asks for,  *)
(* not named by a canonical path, or out of this walk's sight.             *)
RefusalIsDeserved ==
  LET checked == Reached \cup m.cached \cup {<< >>}
  IN \A r \in Failed :
       LET p == IF r.path \in ToSet(m.path_env) THEN Parent(r.path) ELSE r.path
       IN /\ p \in checked
          /\ \/ ~ Canonical(p) \/ ~ Exists(p) \/ ~ Harmless(p) \/ ~ Object(p).fit
             \/ Object(p).acl \/ (Object(p).shut /\ m.euid # 0)
             \/ m.loader = "none" \/ (~ r.checked /\ Cardinality(visited) = VisitedMax)

(* The walk ends, whatever the libraries depend on.                        *)
WalkEnds == <>(pc = "end")
=============================================================================
