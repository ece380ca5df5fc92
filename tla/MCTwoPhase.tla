----------------------------- MODULE MCTwoPhase -----------------------------
EXTENDS TwoPhase, TLC

(* Clients are interchangeable in the safety runs. *)
ClientSymmetry == Permutations(Clients)

(* What no later step and no property looks at makes no difference: the fields
   of a poller that is past their use, the request id and the final read of a
   client that is through with them, which lines were printed unless all had the
   prefix, and the order of announcements of different clients. *)
Remains(c) ==
  LET p == poller[c] IN
  [ client |-> client[c], verdict |-> verdict[c], helper |-> helper[c], orphan |-> orphan[c],
    policy |-> outcome[c] = "policy", confirmed |-> c \in confirmed, ran |-> c \in ran,
    hasId   |-> hasId[c] /\ (client[c] \in {"auth", "pipe", "join", "remove"} \/ helper[c] \in Held \cup {"asked"}),
    final   |-> IF client[c] = "readStatus" THEN final[c] ELSE None,
    refused |-> client[c] # "killed" /\ lines[c] = {"prefixed"},
    poller  |-> p.pc,
    attempt |-> IF p.pc \in {"readSession", "readStatus", "readPid"} THEN p.attempt ELSE 0,
    read    |-> IF p.pc = "readStatus" THEN p.session ELSE None,
    mine    |-> p.pc = "readPid" /\ p.mine,
    pid     |-> IF p.pc \in Commands \/ orphan[c] = "writePid" THEN p.pid ELSE None,
    said    |-> SelectSeq(said, LAMBDA s : s[2] = c) ]

View == <<[c \in Clients |-> Remains(c)], root, user>>
=============================================================================
