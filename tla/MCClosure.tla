------------------------------ MODULE MCClosure ------------------------------
(* One trustworthy machine for each loader, and those that differ from it  *)
(* in one object, one link, or one part of what the check is told.  What   *)
(* an object means is written down here, and not taken from the check: it  *)
(* is what ld.so (an empty item of an rpath is the current directory,      *)
(* $ORIGIN the directory of the file executed), dyld, execve, the search   *)
(* of PATH and run_hooks of vpnc-script make of it.                        *)
EXTENDS Closure

MCDotD == {"connect.d", "post.d"}

Bin     == <<"", "bin">>
Lib     == <<"", "lib">>
Opt     == <<"", "opt">>
Oc      == <<"", "opt", "openconnect">>
Script  == <<"", "opt", "script">>
Shell   == <<"", "bin", "sh">>
Env     == <<"", "bin", "env">>
Shim == <<"", "opt", "wrapper">>
Staged  == <<"", "tmp", "staged">>
Hooks   == <<"", "vpnc">>
Events  == <<"", "vpnc", "connect.d">>
Hook    == <<"", "vpnc", "connect.d", "hook">>
PostD   == <<"", "vpnc", "post.d">>
Preload == <<"", "preload">>
Conf    == <<"", "conf">>
ConfD   == <<"", "conf.d">>
ConfA   == <<"", "conf.d", "a">>
LibA    == <<"", "lib", "a">>
LibB    == <<"", "lib", "b">>
LibC    == <<"", "lib", "libc">>
OptLib  == <<"", "opt", "lib">>
Absent  == <<"", "absent">>
Home    == <<"", "home", "x">>
HomeLib == <<"", "home", "lib">>

Obj(kind, exec, holds, means) ==
  [kind |-> kind, uid |-> 0, loose |-> FALSE, exec |-> exec, shut |-> FALSE, acl |-> FALSE,
   holds |-> holds, means |-> means, fit |-> TRUE]
Dir(names, means)  == Obj("dir", TRUE, names, means)
File(holds, means) == Obj("file", FALSE, holds, means)
Prog(holds, means) == Obj("file", TRUE, holds, means)
Text == [kind |-> "text"]

(* Objects at their own names, and links.                                  *)
At(objects, links) ==
  [p \in DOMAIN objects \cup DOMAIN links |->
     IF p \in DOMAIN objects THEN [real |-> p] @@ objects[p] ELSE [real |-> links[p]] @@ Obj("link", FALSE, << >>, {})]

Common ==
  Opt :> Dir(<< >>, {}) @@ Bin :> Dir(<< >>, {Env}) @@ Lib :> Dir(<< >>, {LibC}) @@ LibC :> File(Text, {}) @@ <<"", "tmp">> :> Dir(<< >>, {})
  @@ Script :> Prog(Env, {Env}) @@ Shell :> Prog(Text, {}) @@ Env :> Prog(Text, {})
  @@ Shim :> Prog(Shell, {Shell}) @@ Staged :> [Prog(Env, {Env}) EXCEPT !.uid = 501]
  @@ Hooks :> Dir(<<"connect.d", ".hidden", "post.d", "readme">>, {Events, PostD}) @@ Events :> Dir(<<"hook", ".hidden">>, {Hook})
  @@ Hook :> File(Text, {}) @@ <<"", "vpnc", "readme">> :> File(Text, {})

Machine(loader, objects, links) ==
  [at |-> At(objects, links), loader |-> loader, command |-> "connect", euid |-> 0, caller |-> 501,
   openconnect |-> Oc, script |-> Script, shell |-> Shell, wrapper |-> Shim, candidate |-> << >>,
   hooks_root |-> Hooks, path_env |-> << Bin, Opt >>, preload |-> Preload, conf |-> Conf, conf_dir |-> ConfD,
   libdirs |-> << Lib, <<"", "lib64">> >>, cached |-> { <<"", "system">> }]

Links == PostD :> Events

-----------------------------------------------------------------------------
(* The string table lies in the second segment, its tags behind the names. *)
Elf(value, needed) ==
  [kind |-> "elf", sane |-> TRUE, size |-> 40,
   segments |-> << [vaddr |-> 0, offset |-> 0, filesz |-> 10], [vaddr |-> 20, offset |-> 10, filesz |-> 20] >>,
   dynamic |-> << [tag |-> "NEEDED", val |-> 1], [tag |-> "RUNPATH", val |-> 3], [tag |-> "STRTAB", val |-> 22],
                  [tag |-> "STRSZ", val |-> 8], [tag |-> "NULL", val |-> 0], [tag |-> "RPATH", val |-> 7] >>,
   text |-> 13 :> needed @@ 15 :> value @@ 19 :> << <<"", "tmp">> >> @@ 25 :> << <<"", "tmp">> >>]

Origin == Elf(<< <<"$ORIGIN", "lib">>, Absent >>, "libc")
OriginAt(dir) == {Append(dir, "lib"), Absent}

ElfFiles(img, means) ==
  Oc :> Prog(img, means) @@ OptLib :> Dir(<< >>, {}) @@ Common
  @@ Preload :> File(<< LibA, Absent >>, {LibA, Absent}) @@ LibA :> File(Text, {})
  @@ Conf :> File(<< <<"include">>, Lib >>, {Lib}) @@ ConfD :> Dir(<<"a", ".hidden">>, {ConfA})
  @@ ConfA :> File(<< OptLib >>, {OptLib})

ElfBase == Machine("elf", ElfFiles(Origin, OriginAt(Opt)), Links)

ElfImages == {
  Machine("elf", ElfFiles([Origin EXCEPT !.dynamic = << >>], {}), Links),
  Machine("elf", ElfFiles([Origin EXCEPT !.dynamic[2].tag = "RPATH"], OriginAt(Opt)), Links),
  Machine("elf", ElfFiles(Elf(<< << >>, OptLib, << >>, OptLib >>, "libc"), {<< >>, OptLib}), Links) }

(* What cannot be read, resolved or listed is unfit.                       *)
ElfUnfit == {
  [Machine("elf", ElfFiles(img, OriginAt(Opt)), Links) EXCEPT !.at[Oc].fit = FALSE] : img \in {
    Text, [Origin EXCEPT !.sane = FALSE], [Origin EXCEPT !.size = 19], [Origin EXCEPT !.segments = Front(@)],
    [Origin EXCEPT !.dynamic = Front(Front(Front(@)))], [Origin EXCEPT !.dynamic[1].val = 8],
    Elf(<< <<"", "opt", "$LIB">> >>, "libc"), Elf(<< OptLib, OptLib, OptLib >>, "libc"),
    [Origin EXCEPT !.dynamic = << @[1], @[1], @[1] >> \o Tail(@)] } }

-----------------------------------------------------------------------------
Load(str)  == [cmd |-> "LC_LOAD_DYLIB", str |-> str]
Rpath(str) == [cmd |-> "LC_RPATH", str |-> str]
Slice(cpu, commands) == [cpu |-> cpu, sane |-> TRUE, commands |-> commands]
Thin(commands) == [kind |-> "macho", fat |-> FALSE, slices |-> << Slice("any", commands) >>]
Fat(commands)  == [kind |-> "macho", fat |-> TRUE,
                   slices |-> << Slice("other", << Load(<<"", "tmp", "x">>) >>), Slice("host", commands) >>]

(* openconnect needs a, a needs b by @executable_path, b needs a again.    *)
MachoFiles(top, topmeans, b, bmeans) ==
  Oc :> Prog(top, topmeans) @@ OptLib :> Dir(<< >>, {}) @@ Common
  @@ LibA :> File(Fat(<< [Load(<<"@executable_path", "b">>) EXCEPT !.cmd = "LC_REEXPORT_DYLIB"], [cmd |-> "LC_SYMTAB"] >>),
                  { <<"", "opt", "b">> })
  @@ <<"", "opt", "b">> :> File(b, bmeans) @@ LibB :> File(Text, {})

Top  == Thin(<< Rpath(<<"@loader_path", "lib">>), Rpath(<<"@rpath">>), Load(LibA), Load(<<"@rpath", "c">>), Load(<<"", "system">>) >>)
Back == Thin(<< Load(LibA), Rpath(Lib) >>)
MachoBase == Machine("macho", MachoFiles(Top, {OptLib, LibA}, Back, {LibA, Lib}), Links)

MachoImages == {
  Machine("macho", MachoFiles(Thin(<< >>), {}, Back, {LibA, Lib}), Links),
  Machine("macho", MachoFiles(Top, {OptLib, LibA}, Thin(<< Load(LibB), Load(LibA) >>), {LibA, LibB}), Links),
  Machine("macho", MachoFiles(Thin(<< Load(LibA), Load(LibB) >>), {LibA, LibB}, Thin(<< Load(Shell) >>), {Shell}), Links) }

MachoUnfit ==
  {[Machine("macho", MachoFiles(top, {OptLib, LibA}, Back, {LibA, Lib}), Links) EXCEPT !.at[Oc].fit = FALSE] : top \in {
     Text, [Top EXCEPT !.slices[1].sane = FALSE], [Top EXCEPT !.fat = TRUE],
     Thin(<< Load(LibA), Load(LibA), Load(LibA), Load(LibA) >>)}}
  \cup {[Machine("macho", MachoFiles(Top, {OptLib, LibA}, b, {LibA, Lib}), Links) EXCEPT !.at[<<"", "opt", "b">>].fit = FALSE] : b \in {
     [Back EXCEPT !.slices[1].sane = FALSE], Thin(<< Rpath(Lib), Rpath(Lib), Rpath(Lib) >>)}}

-----------------------------------------------------------------------------
(* One object changed.                                                     *)
Changed(mc, p) ==
  {[mc EXCEPT !.at[p].uid = 501], [mc EXCEPT !.at[p].uid = 7], [mc EXCEPT !.at[p].loose = TRUE],
   [mc EXCEPT !.at[p].exec = FALSE, !.at[p].fit = (@ /\ (mc.at[p].kind = "dir" \/ ~ mc.at[p].exec))],
   [mc EXCEPT !.at[p].acl = TRUE], [mc EXCEPT !.at[p].real = << >>]}
  \cup (IF mc.at[p].kind = "file"
        THEN {[mc EXCEPT !.at[p].kind = "special", !.at[p].fit = FALSE],
              [mc EXCEPT !.at = [q \in DOMAIN @ \ {p} |-> @[q]]]}
        ELSE {})

(* With a directory that is the user's, or root's.                         *)
WithHome(mc, uid) == [mc EXCEPT !.at = @ @@ Front(Home) :> ([real |-> Front(Home)] @@ [Dir(<<"x">>, {Home}) EXCEPT !.uid = uid])]

(* A link instead of it, to the same object under that prefix, or the      *)
(* other way round.                                                        *)
Linked(mc, p) ==
  {[h EXCEPT !.at =
      Home :> [h.at[p] EXCEPT !.real = Home,
                              !.means = IF mc.loader = "elf" /\ p = Oc THEN OriginAt(Front(Home)) ELSE @]
      @@ p :> [h.at[p] EXCEPT !.kind = "link", !.real = Home] @@ h.at] : h \in {WithHome(mc, 0), WithHome(mc, 501)}}

(* Hooks, or libraries, in the directory of somebody's home.               *)
Elsewhere(uid) == {
  [WithHome(ElfBase, uid) EXCEPT !.at[PostD].real = Front(Home), !.at = Home :> ([real |-> Home] @@ File(Text, {})) @@ @],
  WithHome(Machine("elf", ElfFiles(Elf(<< HomeLib >>, "libc"), {HomeLib}), Links), uid) }

Told(mc) ==
  {[mc EXCEPT !.path_env = << >>], [mc EXCEPT !.path_env = << Bin, << >> >>], [mc EXCEPT !.path_env = << << >>, << >> >>],
   [mc EXCEPT !.path_env = << Bin, << >>, Opt >>], [mc EXCEPT !.path_env = << <<"bin">> >>],
   [mc EXCEPT !.path_env = << Bin, <<"", "opt", "absent">> >>], [mc EXCEPT !.path_env = << Absent >>],
   [mc EXCEPT !.path_env = << <<"", "opt", "..", "bin">> >>], [mc EXCEPT !.hooks_root = Absent],
   [mc EXCEPT !.hooks_root = Env, !.at[Env].fit = FALSE], [mc EXCEPT !.conf = Opt, !.at[Opt].fit = FALSE],
   [mc EXCEPT !.at[Conf].holds = << <<"lib">> >>, !.at[Conf].means = { <<"lib">> }],
   [mc EXCEPT !.at[Script].holds = << >>, !.at[Script].means = {}], [mc EXCEPT !.at[Script].holds = <<"env">>, !.at[Script].means = { <<"env">> }],
   [mc EXCEPT !.at[Hooks].holds = @ \o @, !.path_env = @ \o @ \o @ \o @], [mc EXCEPT !.conf_dir = Absent],
   [mc EXCEPT !.loader = "none"], [mc EXCEPT !.caller = 0]}

(* verify-closure, by the user or by root.                                 *)
Verified(mc) == {[mc EXCEPT !.command = "verify", !.euid = uid, !.candidate = c] : uid \in {0, 501}, c \in {<< >>, Staged}}
Shut(mc, p)  == [mc EXCEPT !.at[p].shut = TRUE]

Bases == {ElfBase, MachoBase}
OneOff(mc) == UNION {Changed(mc, p) : p \in {q \in DOMAIN mc.at : mc.at[q].kind # "link"}}

MCMachines ==
  Bases \cup ElfImages \cup ElfUnfit \cup MachoImages \cup MachoUnfit
  \cup UNION {OneOff(mc) : mc \in Bases \cup MachoImages}
  \cup UNION {Linked(mc, p) : mc \in Bases, p \in {Oc, Script, Shell, Hook, Shim}}
  \cup UNION {Elsewhere(uid) : uid \in {0, 501}}
  \cup UNION {Told(ElfBase), Told([MachoBase EXCEPT !.at = @ @@ Conf :> ([real |-> Conf] @@ File(<< >>, {}))])}
  \cup UNION {Verified(mc) : mc \in Bases \cup {Shut(b, p) : b \in Bases, p \in {Hooks, Events, Oc, Script, Staged}}
                                    \cup {Shut(ElfBase, p) : p \in {Conf, ConfD, Preload}}
                                    \cup OneOff(ElfBase)}

(* Machines that differ in PATH and in where a hook directory leads.       *)
MCStated == {[mc EXCEPT !.path_env = path, !.caller = caller] :
               mc \in Bases \cup UNION {Elsewhere(uid) : uid \in {0, 501}}, caller \in {0, 501},
               path \in {<< Bin, Opt >>, << Bin >>, << Bin, << >> >>, << << >>, Bin >>}}
=============================================================================
