-------------------------------- MODULE Images --------------------------------
(***************************************************************************)
(* Where the dynamic loader finds the libraries of a binary, as read from  *)
(* the binary itself: the dynamic section of ELF (src/helper/src/elf.c)    *)
(* and the load commands of Mach-O (src/helper/src/macho.c).               *)
(* A path is a sequence of components; an absolute one begins with "".     *)
(* An image is a record of its headers, tables and strings, not of bytes.  *)
(***************************************************************************)
EXTENDS Integers, Sequences, SequencesExt

CONSTANTS
  NeededMax,  \* VU_ELF_NEEDED_MAX, VU_MACHO_DYLIB_MAX
  RpathMax    \* VU_ELF_RPATH_MAX, VU_MACHO_RPATH_MAX

(* F of e, with e evaluated once.                                          *)
Given(e, F(_)) == CHOOSE r \in {F(x) : x \in {e}} : TRUE

(* The sequences of a sequence, one after the other.                       *)
Flat(ss) == LET f[i \in 0..Len(ss)] == IF i = 0 THEN << >> ELSE f[i - 1] \o ss[i] IN f[Len(ss)]
Joined(ss) == Given(ss, Flat)

Concat(seq, F(_)) == Given(seq, LAMBDA s : Joined([i \in DOMAIN s |-> F(s[i])]))

(* SelectSeq, as what is said of Joined then holds of it too.              *)
Those(seq, Test(_)) == Concat(seq, LAMBDA x : IF Test(x) THEN << x >> ELSE << >>)

Absolute(path) == path # << >> /\ path[1] = ""
DirnameOf(path) == Front(path)

Unreadable == [ok |-> FALSE]
Foreign    == [ok |-> TRUE, is |-> FALSE]

Most(seq, n) == IF Len(seq) <= n THEN seq ELSE SubSeq(seq, 1, n)

(* out->rpath and its like: what does not fit is only marked.              *)
Listing(rpaths, names) ==
  [ok |-> TRUE, is |-> TRUE, rpaths |-> Most(rpaths, RpathMax),
   names |-> Most(names, NeededMax),
   truncated |-> Len(rpaths) > RpathMax \/ Len(names) > NeededMax]

-----------------------------------------------------------------------------
(* ELF: [kind, sane, size, segments, dynamic, text].  A segment is a       *)
(* PT_LOAD [vaddr, offset, filesz]; dynamic the entries of PT_DYNAMIC, or  *)
(* << >> in a static binary; text what is written at an offset of the file.*)
(* An rpath value is a sequence of items, each a path whose components may *)
(* be "$ORIGIN" or "$LIB" (or $PLATFORM).                                  *)

VaddrToOff(img, vaddr) ==
  LET Holds(s) == s.vaddr <= vaddr /\ vaddr - s.vaddr < s.filesz
      s == SelectInSeq(img.segments, Holds)
  IN IF s = 0 THEN -1 ELSE img.segments[s].offset + vaddr - img.segments[s].vaddr

(* The entries before DT_NULL, and the last value of a tag among them.     *)
Entries(img) == LET end == SelectInSeq(img.dynamic, LAMBDA d : d.tag = "NULL")
                IN IF end = 0 THEN img.dynamic ELSE SubSeq(img.dynamic, 1, end - 1)

Tagged(entries, tags) == SelectSeq(entries, LAMBDA d : d.tag \in tags)

Resolvable(item) == ToSet(item) \cap {"$LIB", "$PLATFORM"} = {}

(* The first $ORIGIN is expanded.                                          *)
ExpandOrigin(item, path) ==
  LET i == SelectInSeq(item, LAMBDA c : c = "$ORIGIN")
  IN IF i = 0 THEN item ELSE SubSeq(item, 1, i - 1) \o DirnameOf(path) \o SubSeq(item, i + 1, Len(item))

SplitRpath(value, path) ==
  Concat(SelectSeq(value, LAMBDA item : item # << >>), LAMBDA item : << ExpandOrigin(item, path) >>)

(* The last DT_STRTAB and DT_STRSZ count, wherever they stand; DT_STRTAB   *)
(* is an address, not an offset.                                           *)
ReadDynamic(img, path, entries) ==
  LET tables == Tagged(entries, {"STRTAB"})
      sizes  == Tagged(entries, {"STRSZ"})
      paths  == Tagged(entries, {"RPATH", "RUNPATH"})
      needed == Tagged(entries, {"NEEDED"})
      Read(base) ==
        LET Text(d) == img.text[base + d.val]
        IN IF /\ base >= 0 /\ base + Last(sizes).val <= img.size
              /\ \A d \in ToSet(paths \o needed) : d.val < Last(sizes).val /\ base + d.val \in DOMAIN img.text
              /\ \A d \in ToSet(paths) : \A item \in ToSet(Text(d)) : Resolvable(item)
           THEN Listing(Concat(paths, LAMBDA d : SplitRpath(Text(d), path)), Concat(needed, LAMBDA d : << Text(d) >>))
           ELSE Unreadable
  IN IF tables = << >> \/ sizes = << >> THEN Unreadable ELSE Given(VaddrToOff(img, Last(tables).val), Read)

ElfDynamic(img, path) ==
  CASE img.kind # "elf" -> Foreign
    [] img.kind = "elf" /\ ~ img.sane -> Unreadable
    [] img.kind = "elf" /\ img.sane /\ img.dynamic = << >> -> Listing(<< >>, << >>)
    [] OTHER -> Given(Entries(img), LAMBDA entries : ReadDynamic(img, path, entries))

-----------------------------------------------------------------------------
(* Mach-O: [kind, slices, sane, commands], a thin file being its only      *)
(* slice; a slice is [cpu, sane, commands], a command [cmd, str].          *)

DylibCommands == {"LC_LOAD_DYLIB", "LC_LOAD_WEAK_DYLIB", "LC_REEXPORT_DYLIB", "LC_LOAD_UPWARD_DYLIB"}

SelectSlice(img) == IF img.fat THEN SelectInSeq(img.slices, LAMBDA s : s.cpu = "host") ELSE 1

(* Mutant: both tokens stand for the directory of the file that is read.     *)
MutantFileRelative(str, path, exe) ==
  IF str[1] \in {"@loader_path", "@executable_path"} THEN DirnameOf(path) \o Tail(str) ELSE str

(* @loader_path is the file that is read, @executable_path the binary the  *)
(* walk began with; @rpath and absolute paths stay as they are.            *)
ExpandToken(str, path, exe) ==
  CASE str[1] = "@loader_path"     -> DirnameOf(path) \o Tail(str)
    [] str[1] = "@executable_path" -> DirnameOf(exe) \o Tail(str)
    [] OTHER -> str

MachoDylibs(img, path, exe) ==
  LET slice  == img.slices[SelectSlice(img)]
      Of(cmds) == Concat(SelectSeq(slice.commands, LAMBDA c : c.cmd \in cmds),
                         LAMBDA c : << ExpandToken(c.str, path, exe) >>)
  IN CASE img.kind # "macho" -> Foreign
       [] img.kind = "macho" /\ (SelectSlice(img) = 0 \/ ~ slice.sane) -> Unreadable
       [] OTHER -> Listing(Of({"LC_RPATH"}), Of(DylibCommands))
=============================================================================
