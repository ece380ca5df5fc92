----------------------------- MODULE Capability -----------------------------
(***************************************************************************)
(* One user's approvals and what they let the helper run: the shell of     *)
(* src/twophase.sh authenticates and hands on what OpenConnect printed,    *)
(* vpn-up-admin keeps or removes a record, vpn-up-helper turns a request   *)
(* and a record into a command line.  The parsers and the policy are those *)
(* of Requests.  Each command runs alone here; Registry lets them overlap. *)
(***************************************************************************)
EXTENDS Requests

CONSTANTS
  Approvals,   \* [argv, means]: arguments of vpn-up-admin approve and what they denote
  Outputs,     \* what openconnect --authenticate may print: sequences of lines
  Profiles,    \* [id, protocol, proxy, extra]: the profiles of the user
  Meaningless  \* what arguments denote of which some value has no meaning

Text   == Seq(STRING)

ASSUME TextsAreTexts ==
  /\ \A a \in Approvals : a.argv \in Seq(Text)
  /\ Outputs \subseteq Seq([key : STRING, val : Text])
  /\ Profiles \subseteq [id : Text, protocol : Text, proxy : Text, extra : Seq(Text)]

VARIABLES
  files,       \* canonical profile id -> the lines of its record
  auth,        \* the shell's AUTH_* and what they were read from, or NoAuth
  last         \* the last command and its answer

vars == <<files, auth, last>>

None == [cmd |-> "none"]

Init == files = << >> /\ auth = NoAuth /\ last = None

-----------------------------------------------------------------------------
(* The shell's own decoder.  $( ) drops the blank lines at the end.        *)

Captured(lines) ==
  LET end == SelectLastInSeq(lines, LAMBDA l : l # BlankLine) IN Upto(lines, end)

(* Mutant: the last of two values of a key counts.                         *)
MutantLastOneCounts(lines) ==
  LET text   == Captured(lines)
      F(key) == IF HasKey(text, key) THEN FieldOf(text, key) ELSE << >>
  IN IF /\ text # << >> /\ BlankLine \notin ToSet(text)
        /\ \A l \in ToSet(text) : l.key \in AuthKeys /\ ToSet(l.val) \cap {"'", "ctl"} = {}
     THEN [ok |-> TRUE, cookie |-> F("COOKIE"), url |-> F("CONNECT_URL"),
           fingerprint |-> F("FINGERPRINT"), resolve |-> F("RESOLVE")]
     ELSE NoAuth

ParseAuthOutput(lines) ==
  LET text   == Captured(lines)
      F(key) == IF HasKey(text, key) THEN FieldOf(text, key) ELSE << >>
  IN IF /\ text # << >> /\ BlankLine \notin ToSet(text)
        /\ \A i \in DOMAIN text :
             /\ text[i].key \in AuthKeys
             /\ ToSet(text[i].val) \cap {"'", "ctl"} = {}
             /\ \A j \in 1..(i - 1) : text[j].key # text[i].key
     THEN [ok |-> TRUE, cookie |-> F("COOKIE"), url |-> F("CONNECT_URL"),
           fingerprint |-> F("FINGERPRINT"), resolve |-> F("RESOLVE")]
     ELSE NoAuth

(* extraArgs: want is the flag whose value the next word is, "none" or     *)
(* "refused".                                                              *)
Valued == DOMAIN Ranges \cup {"useragent", "os"}

Extra(want, tunables, useragent) == [want |-> want, tunables |-> tunables, useragent |-> useragent]
NoExtra == Extra("none", << >>, << >>)

Take(s, name, v) ==
  CASE name = "useragent" -> Extra("none", s.tunables, v)
    [] name = "os"        -> Extra("none", s.tunables, s.useragent)
    [] OTHER -> Extra(IF v = << >> THEN "refused" ELSE "none",
                      s.tunables \o << <<"--tunable">>, <<name, "=">> \o v >>, s.useragent)

Word(s, w) ==
  LET Named(names) == Len(w) > 1 /\ w[1] = "--" /\ w[2] \in names
  IN CASE s.want = "refused" \/ (s.want = "none" /\ w = << >>) -> s
       [] s.want \in Valued -> Take(s, s.want, w)
       [] OTHER ->
            CASE Named(Booleans) -> Extra("none", s.tunables \o << <<"--tunable">>, <<w[2]>> >>, s.useragent)
              [] Named(Valued) -> IF From(w, 4) = << >> THEN Extra(w[2], s.tunables, s.useragent)
                                  ELSE Take(s, w[2], From(w, 4))
              [] OTHER -> Extra("refused", s.tunables, s.useragent)

TranslateExtraArgs(words) ==
  LET All(ws) == LET s[i \in 0..Len(ws)] == IF i = 0 THEN NoExtra ELSE Word(s[i - 1], ws[i]) IN s[Len(ws)]
      end == Once(words, All)
  IN IF end.want \in Valued THEN Take(end, end.want, << >>) ELSE end

Translates(words) == TranslateExtraArgs(words).want = "none"

Opt(flag, v) == IF v = << >> THEN << >> ELSE << <<flag>>, v >>

HelperArgs(profile, a) ==
  LET extra == TranslateExtraArgs(profile.extra)
  IN << <<"--profile-id">>, profile.id, <<"--protocol">>, profile.protocol, <<"--connect-url">>, a.url >>
     \o Opt("--resolve", a.resolve) \o Opt("--proxy", profile.proxy)
     \o Opt("--useragent", extra.useragent) \o extra.tunables

ApproveArgs(profile, a) ==
  << <<"--profile-id">>, profile.id, <<"--protocol">>, profile.protocol,
     <<"--endpoint">>, a.url, <<"--fingerprint">>, a.fingerprint >>
  \o (IF profile.proxy = << >> THEN << <<"--no-proxy">> >> ELSE << <<"--proxy">>, profile.proxy >>)

-----------------------------------------------------------------------------
(* vpn-up-admin approve: what is stored has been read back.                *)
ReadBack(appr) == IF appr.ok THEN ParseApproval(Serialise(appr)) ELSE NoApproval
Stored(argv)   == ReadBack(ApprovalFromArgv(argv))

Kept(appr) == [id \in DOMAIN files \cup {appr.profile_id} |->
                 IF id = appr.profile_id THEN Serialise(appr) ELSE files[id]]
Put(appr)  == files' = IF appr.ok THEN Kept(appr) ELSE files

Approve(a) == LET appr == Stored(a.argv)
              IN /\ last = None /\ ~ auth.ok
                 /\ Put(appr)
                 /\ last' = [cmd |-> "approve", means |-> a.means, ok |-> appr.ok,
                             id |-> IF appr.ok THEN appr.profile_id ELSE Refused]
                 /\ UNCHANGED auth

(* approve_profile, with what the gateway reported.                        *)
ApproveProfile(p) == /\ last = None /\ auth.ok
                     /\ Translates(p.extra)
                     /\ Put(Stored(ApproveArgs(p, auth)))
                     /\ auth' = NoAuth
                     /\ last' = None

Revoke(argv) == LET id == ProfileFromArgv(argv)
                IN /\ last = None /\ id \in DOMAIN files
                   /\ files' = [f \in DOMAIN files \ {id} |-> files[f]]
                   /\ last' = None
                   /\ UNCHANGED auth

(* phase_one_authenticate, with require_helper_auth_contract.              *)
Authenticate(lines) == LET a == ParseAuthOutput(lines)
                       IN /\ last = None /\ ~ auth.ok
                          /\ auth' = IF a.ok /\ a.cookie # << >> /\ a.fingerprint # << >> /\ a.url # << >>
                                     THEN a ELSE NoAuth
                          /\ last' = [cmd |-> "authenticate", lines |-> lines, read |-> a]
                          /\ UNCHANGED files

(* vu_registry_get                                                         *)
OfProfile(id, appr) == IF appr.ok /\ appr.profile_id = id THEN appr ELSE NoApproval
Lookup(id) == IF id \in DOMAIN files THEN OfProfile(id, ParseApproval(files[id])) ELSE NoApproval

(* run_openconnect_helper, and cmd_connect up to the execve.               *)
Executed(req) == IF req.ok THEN Command(req, Lookup(req.profile_id)) ELSE << >>

Connect(p) == /\ last = None /\ auth.ok
              /\ Translates(p.extra)
              /\ last' = [cmd |-> "connect", profile |-> p, auth |-> auth,
                          command |-> Executed(RequestFromArgv(HelperArgs(p, auth)))]
              /\ auth' = NoAuth
              /\ UNCHANGED files

(* The user has read the answer.                                           *)
Return == last # None /\ last' = None /\ UNCHANGED <<files, auth>>

Next == \/ \E a \in Approvals : Approve(a)
        \/ \E p \in Profiles : ApproveProfile(p) \/ Connect(p) \/ Revoke(<< <<"--profile-id">>, p.id >>)
        \/ \E lines \in Outputs : Authenticate(lines)
        \/ Return

Spec == Init /\ [][Next]_vars

-----------------------------------------------------------------------------
(* One spelling per capability: approve accepts exactly the arguments that *)
(* mean something, and two of them write the same record exactly when they *)
(* mean the same (the canonical forms of validate.c, "two spellings of one *)
(* pin cannot differ in the registry").                                    *)
RecordOf == [m \in {a.means : a \in Approvals} \ {Meaningless} |->
               Serialise(ApprovalFromArgv((CHOOSE a \in Approvals : a.means = m).argv))]

OneSpelling ==
  last.cmd = "approve" =>
    /\ last.ok <=> last.means # Meaningless
    /\ last.ok => \A m \in DOMAIN RecordOf : files[last.id] = RecordOf[m] <=> m = last.means

(* Whatever is executed is what was approved: read as OpenConnect reads    *)
(* it, the command line pins the fingerprint of the record, goes through   *)
(* its proxy or none, leads to its origin with the path and query of the   *)
(* session, resolves no other host, and gives no option twice.             *)
Values(command, flag) == {From(item, 3) : item \in {i \in ToSet(command) : Upto(i, 2) = <<flag, "=">>}}

CommandIsApproved ==
  (last.cmd = "connect" /\ last.command # << >>) =>
    LET command == last.command
        appr    == ParseApproval(files[CanonProfileId(last.profile.id)])
        given   == ParseUrl(last.auth.url)
        url     == ParseUrl(Last(command))
        Name(i) == LET eq == Find(command[i], {"="}) IN IF eq = 0 THEN command[i] ELSE Upto(command[i], eq - 1)
    IN /\ appr.ok
       /\ Values(command, "--servercert") = {appr.fingerprint}
       /\ Values(command, "--protocol") = {last.profile.protocol} /\ appr.protocol = last.profile.protocol
       /\ Values(command, "--proxy") = {appr.proxy} \ {<< >>}
       /\ appr.proxy = << >> <=> <<"--no-proxy">> \in ToSet(command)
       /\ last.profile.proxy = << >> <=> appr.proxy = << >>
       /\ url.origin = appr.origin /\ url.path = given.path /\ url.query = given.query
       /\ \A v \in Values(command, "--resolve") :
            /\ CanonResolve(v) = CanonResolve(last.auth.resolve)
            /\ <<"https://">> \o CanonResolve(v).host \o <<":">> = Upto(appr.origin, Len(CanonResolve(v).host) + 2)
       /\ \A i, j \in DOMAIN Front(command) : Name(i) = Name(j) => i = j

(* Approval is enough: when the record is the one approve_profile makes    *)
(* of the same profile and the same output, the helper starts OpenConnect; *)
(* apart from what the table of tunables refuses and from a URL so long    *)
(* that the explicit port does not fit.                                    *)
IsOnRecord(appr, resolve) ==
  /\ appr.ok
  /\ appr.profile_id \in DOMAIN files /\ files[appr.profile_id] = Serialise(appr)
  /\ resolve # << >> => CanonResolve(resolve).host = OriginHost(appr.origin)

ExtraIsFit(extra) ==
  LET kvs     == [i \in 1..(Len(extra.tunables) \div 2) |-> extra.tunables[2 * i]]
      Flag(i) == Upto(RenderTunable(kvs[i]), 2)
  IN /\ \A i, j \in DOMAIN kvs : Flag(i) # Refused /\ (Flag(i) = Flag(j) => i = j)
     /\ extra.useragent # << >> => ValidUseragent(extra.useragent) /\ ~ LooksLikeFlag(extra.useragent)

ApprovedIsEnough ==
  (/\ last.cmd = "connect"
   /\ IsOnRecord(Stored(ApproveArgs(last.profile, last.auth)), last.auth.resolve)
   /\ ExtraIsFit(TranslateExtraArgs(last.profile.extra))
   /\ Size(RebuiltUrl(ParseUrl(last.auth.url))) < UrlMax) => last.command # << >>

(* The two decoders of OpenConnect's output agree ("a divergence in the    *)
(* format rules fails a test", src/twophase.sh): what vu_parse_auth takes  *)
(* the shell takes with the same values, and what only the shell takes has *)
(* a value that vu_parse_auth finds unusable in itself.                    *)
DecodersAgree ==
  last.cmd = "authenticate" =>
    LET shell == last.read
        c     == ParseAuth(last.lines)
    IN /\ MeetsContract(c) =>
            /\ shell.ok
            /\ shell.cookie = c.cookie /\ shell.url = c.url /\ shell.resolve = c.resolve
            /\ CanonFingerprint(shell.fingerprint) = c.fingerprint
       /\ shell.ok /\ ~ ParseAuth(Captured(last.lines)).ok =>
            \/ shell.fingerprint # << >> /\ CanonFingerprint(shell.fingerprint) = Refused
            \/ shell.url # << >> /\ ~ ParseUrl(shell.url).ok
            \/ shell.resolve # << >> /\ CanonResolve(shell.resolve) = NoResolve
            \/ \E l \in ToSet(last.lines) \ {BlankLine} :
                 \/ Size(l.val) >= AuthCaps[l.key]
                 \/ l.val = << >> /\ l.key \in {"FINGERPRINT", "CONNECT_URL", "RESOLVE"}
=============================================================================
