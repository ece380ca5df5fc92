------------------------------ MODULE MCRegistry ------------------------------
(* A short and a long text of one profile, and another profile's record.   *)
EXTENDS Registry, TLC

CONSTANTS prof1, prof2

MCProfiles  == {prof1, prof2}
MCInodes    == 1..6
MCTexts     == {[profile |-> prof1, size |-> 2, proxied |-> FALSE], [profile |-> prof1, size |-> 5, proxied |-> TRUE]}
MCNothing   == << >>
MCInstalled == prof2 :> [profile |-> prof2, size |-> 3, proxied |-> FALSE]

Symmetry   == Permutations(Procs)

(* Inodes have no names, and what is left in a free one makes no           *)
(* difference; nor does what a listing says that has reported an error or  *)
(* been cut, unless the run asks for it.                                   *)
Holders(i) == {<<"record", n>> : n \in {m \in Profiles : record[m] = i}} \cup {<<"tmp", n>> : n \in {m \in Profiles : tmp[m] = i}}
              \cup {<<"fd", z>> : z \in {w \in Procs : proc[w].op \in {"write", "flush", "read"} /\ proc[w].inode = i}}
View == <<{<<Holders(i), data[i], i \in synced>> : i \in InUse \ {None}},
          [z \in Procs |-> CASE "inode" \in DOMAIN proc[z] -> [proc[z] EXCEPT !.inode = None]
                               [] proc[z].op = "listed" /\ (proc[z].cut \/ ~ proc[z].ok) -> [op |-> "listed"]
                               [] OTHER -> proc[z]],
          kept, current, shared>>
=============================================================================
