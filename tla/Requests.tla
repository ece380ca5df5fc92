------------------------------ MODULE Requests ------------------------------
(***************************************************************************)
(* What the helper is asked for and on what authority: the closed argument *)
(* schemas, the approval record, the policy, the command line OpenConnect  *)
(* gets, and the parser of its --authenticate output.  src/helper/src:     *)
(* request.c, admin_main.c, registry.c, policy.c, exec.c, authparse.c.     *)
(* An argument is a text; a flag is a text of one token.                   *)
(***************************************************************************)
EXTENDS Inputs

-----------------------------------------------------------------------------
(* The scan shared by every subcommand.  got[f] lists the values of f.     *)

TunableMax == 8

Flags == {"--profile-id", "--protocol", "--connect-url", "--resolve", "--proxy", "--useragent",
          "--request-id", "--quiet", "--tunable", "--endpoint", "--fingerprint", "--no-proxy"}
Bare  == {"--quiet", "--no-proxy"}

LooksLikeFlag(v) == v # << >> /\ v[1] \in Flags \cup {"-", "--"}

MayGive(scan, f) == IF f = "--tunable" THEN Len(scan.got[f]) < TunableMax ELSE scan.got[f] = << >>

(* flag is the flag that waits for its value, "none" or "refused".         *)
Start(schema)    == [flag |-> "none", got |-> [f \in schema |-> << >>]]
Give(scan, f, v) == [flag |-> "none", got |-> [scan.got EXCEPT ![f] = Append(@, v)]]
Wait(scan, f)    == [flag |-> f, got |-> scan.got]
Refuse(scan)     == [flag |-> "refused", got |-> scan.got]

Argument(scan, a) ==
  CASE scan.flag = "refused" -> scan
    [] scan.flag \in DOMAIN scan.got -> IF LooksLikeFlag(a) THEN Refuse(scan) ELSE Give(scan, scan.flag, a)
    [] OTHER -> IF Len(a) = 1 /\ a[1] \in DOMAIN scan.got /\ MayGive(scan, a[1])
                THEN IF a[1] \in Bare THEN Give(scan, a[1], << >>) ELSE Wait(scan, a[1])
                ELSE Refuse(scan)

Scan(argv, schema) ==
  LET All(args) == LET scan[i \in 0..Len(args)] == IF i = 0 THEN Start(schema) ELSE Argument(scan[i - 1], args[i])
                   IN scan[Len(args)]
  IN Once(argv, All)

Complete(scan)         == scan.flag = "none"
Given(scan, f)         == scan.got[f] # << >>
Value(scan, f)         == scan.got[f][1]
AllGiven(scan, S)      == \A f \in S : Given(scan, f)
Checked(scan, f, V(_)) == Given(scan, f) => V(Value(scan, f))

-----------------------------------------------------------------------------
(* connect                                                                 *)

ConnectSchema == {"--profile-id", "--protocol", "--connect-url", "--resolve", "--proxy",
                  "--useragent", "--request-id", "--quiet", "--tunable"}

NoRequest == [ok |-> FALSE]

(* Mutant: two values of one setting are two settings.                     *)
MutantWholeKnob(tunable) == tunable

Knob(tunable) == Upto(tunable, 2)

RequestOf(scan) ==
  LET id       == CanonProfileId(Value(scan, "--profile-id"))
      url      == ParseUrl(Value(scan, "--connect-url"))
      resolve  == IF Given(scan, "--resolve") THEN CanonResolve(Value(scan, "--resolve")) ELSE NoResolve
      tunables == [i \in DOMAIN scan.got["--tunable"] |-> RenderTunable(scan.got["--tunable"][i])]
  IN IF /\ Complete(scan) /\ AllGiven(scan, {"--profile-id", "--protocol", "--connect-url"})
        /\ id # Refused /\ ValidProtocol(Value(scan, "--protocol")) /\ url.ok
        /\ Given(scan, "--resolve") => resolve # NoResolve
        /\ Checked(scan, "--proxy", LAMBDA v : CanonProxy(v) # Refused)
        /\ Checked(scan, "--useragent", ValidUseragent)
        /\ Checked(scan, "--request-id", ValidHexid)
        /\ \A i \in DOMAIN tunables : /\ tunables[i] # Refused
                                      /\ \A j \in 1..(i - 1) : Knob(tunables[j]) # Knob(tunables[i])
     THEN [ok |-> TRUE, profile_id |-> id, protocol |-> Value(scan, "--protocol"), url |-> url,
           fingerprint |-> << >>, resolve |-> resolve,
           proxy     |-> IF Given(scan, "--proxy") THEN CanonProxy(Value(scan, "--proxy")) ELSE << >>,
           useragent |-> IF Given(scan, "--useragent") THEN Value(scan, "--useragent") ELSE << >>,
           quiet |-> Given(scan, "--quiet"), tunables |-> tunables]
     ELSE NoRequest

RequestFromArgv(argv) == RequestOf(Scan(argv, ConnectSchema))

(* stop, event-status and revoke take one flag.                            *)
ProfileOf(scan) ==
  IF Complete(scan) /\ Given(scan, "--profile-id") THEN CanonProfileId(Value(scan, "--profile-id")) ELSE Refused

ProfileFromArgv(argv) == ProfileOf(Scan(argv, {"--profile-id"}))

-----------------------------------------------------------------------------
(* approve, and the record it stores                                       *)

ApproveSchema == {"--profile-id", "--protocol", "--endpoint", "--fingerprint", "--proxy", "--no-proxy"}

NoApproval == [ok |-> FALSE]

ApprovalOf(scan) ==
  LET id    == CanonProfileId(Value(scan, "--profile-id"))
      url   == ParseUrl(Value(scan, "--endpoint"))
      fpr   == CanonFingerprint(Value(scan, "--fingerprint"))
      proxy == IF Given(scan, "--proxy") THEN CanonProxy(Value(scan, "--proxy")) ELSE << >>
  IN IF /\ Complete(scan) /\ AllGiven(scan, {"--profile-id", "--protocol", "--endpoint", "--fingerprint"})
        /\ Given(scan, "--proxy") # Given(scan, "--no-proxy")
        /\ id # Refused /\ ValidProtocol(Value(scan, "--protocol")) /\ url.ok /\ fpr # Refused
        /\ Given(scan, "--proxy") => proxy # Refused
     THEN [ok |-> TRUE, profile_id |-> id, protocol |-> Value(scan, "--protocol"),
           origin |-> url.origin, fingerprint |-> fpr, proxy |-> proxy]
     ELSE NoApproval

ApprovalFromArgv(argv) == ApprovalOf(Scan(argv, ApproveSchema))

(* A line is its key and its value, or the blank line.                     *)
Line(key, val) == [key |-> key, val |-> val]
BlankLine      == Line("", << >>)

Serialise(a) ==
  << Line("version", <<"1">>), Line("profile_id", a.profile_id), Line("protocol", a.protocol),
     Line("origin", a.origin), Line("fingerprint", a.fingerprint),
     Line("proxy", IF a.proxy = << >> THEN <<"NONE">> ELSE a.proxy) >>

(* The loop both parsers of lines share: a blank line only at the very     *)
(* end, no unknown key, no key twice, no control byte.                     *)
WellFormed(lines, keys) ==
  \A i \in DOMAIN lines :
    IF lines[i] = BlankLine THEN i = Len(lines)
    ELSE /\ lines[i].key \in keys
         /\ "ctl" \notin ToSet(lines[i].val)
         /\ \A j \in 1..(i - 1) : lines[j].key # lines[i].key

HasKey(lines, key)  == \E l \in ToSet(lines) : l.key = key
FieldOf(lines, key) == (CHOOSE l \in ToSet(lines) : l.key = key).val

ApprovalKeys == {"version", "profile_id", "protocol", "origin", "fingerprint", "proxy"}

ParseApproval(lines) ==
  LET F(key) == FieldOf(lines, key)
      proxy  == IF F("proxy") = <<"NONE">> THEN << >> ELSE F("proxy")
  IN IF /\ WellFormed(lines, ApprovalKeys)
        /\ \A key \in ApprovalKeys : HasKey(lines, key)
        /\ ParseBounded(F("version"), 1, 1000000) = 1
        /\ F("profile_id") # << >> /\ CanonProfileId(F("profile_id")) = F("profile_id")
        /\ ValidProtocol(F("protocol"))
        /\ ParseUrl(F("origin")).ok /\ ParseUrl(F("origin")).origin = F("origin")
        /\ F("fingerprint") # << >> /\ CanonFingerprint(F("fingerprint")) = F("fingerprint")
        /\ F("proxy") # << >>
        /\ proxy # << >> => CanonProxy(proxy) = proxy
     THEN [ok |-> TRUE, profile_id |-> F("profile_id"), protocol |-> F("protocol"),
           origin |-> F("origin"), fingerprint |-> F("fingerprint"), proxy |-> proxy]
     ELSE NoApproval

-----------------------------------------------------------------------------
(* The policy, and the command line.                                       *)

(* Mutant: the host that is resolved is compared with host and port.       *)
MutantHostAndPort(req, appr) ==
  /\ req.profile_id = appr.profile_id
  /\ req.protocol = appr.protocol
  /\ req.url.origin = appr.origin
  /\ req.fingerprint = appr.fingerprint
  /\ req.proxy = appr.proxy
  /\ req.resolve # NoResolve => req.resolve.host = Tail(appr.origin)

PolicyAllows(req, appr) ==
  /\ req.profile_id = appr.profile_id
  /\ req.protocol = appr.protocol
  /\ req.url.origin = appr.origin
  /\ req.fingerprint = appr.fingerprint
  /\ req.proxy = appr.proxy
  /\ req.resolve # NoResolve => req.resolve.host = OriginHost(appr.origin)

RebuiltUrl(url) == url.origin \o url.path \o (IF url.query = << >> THEN << >> ELSE <<"?">> \o url.query)

BuildArgv(req, appr, url) ==
  LET KV(flag, val) == << <<flag, "=">> \o val >>
      When(b, items) == IF b THEN items ELSE << >>
  IN IF PolicyAllows(req, appr) /\ Size(url) < UrlMax
     THEN << <<"openconnect">>, <<"--cookie-on-stdin">>, <<"--non-inter">> >>
          \o KV("--protocol", req.protocol) \o KV("--servercert", appr.fingerprint)
          \o KV("--script", <<"wrapper">>)
          \o (IF appr.proxy = << >> THEN << <<"--no-proxy">> >> ELSE KV("--proxy", appr.proxy))
          \o When(req.resolve # NoResolve, KV("--resolve", req.resolve.host \o <<":">> \o req.resolve.ip))
          \o When(req.useragent # << >>, KV("--useragent", req.useragent))
          \o When(req.quiet, << <<"-q">> >>)
          \o req.tunables \o << url >>
     ELSE << >>

(* connect, from its request and the approval found: what is executed.     *)
Command(req, appr) ==
  IF req.ok /\ appr.ok
  THEN BuildArgv([req EXCEPT !.fingerprint = appr.fingerprint], appr, RebuiltUrl(req.url)) ELSE << >>

-----------------------------------------------------------------------------
(* What OpenConnect prints under --authenticate.  A value that is not in   *)
(* single quotes, or has one inside, is given the token "'".               *)

AuthKeys == {"COOKIE", "HOST", "CONNECT_URL", "FINGERPRINT", "RESOLVE"}
AuthCaps == [COOKIE |-> 8192, HOST |-> HostMax, CONNECT_URL |-> UrlMax, FINGERPRINT |-> FprMax, RESOLVE |-> 2 * HostMax]

NoAuth == [ok |-> FALSE]

ParseAuth(lines) ==
  LET F(key) == IF HasKey(lines, key) THEN FieldOf(lines, key) ELSE << >>
      fpr    == CanonFingerprint(F("FINGERPRINT"))
  IN IF /\ lines # << >> /\ WellFormed(lines, AuthKeys)
        /\ \A key \in AuthKeys : Size(F(key)) < AuthCaps[key] /\ "'" \notin ToSet(F(key))
        /\ HasKey(lines, "FINGERPRINT") => fpr # Refused
        /\ HasKey(lines, "CONNECT_URL") => ParseUrl(F("CONNECT_URL")).ok
        /\ HasKey(lines, "RESOLVE") => CanonResolve(F("RESOLVE")) # NoResolve
     THEN [ok |-> TRUE, cookie |-> F("COOKIE"), url |-> F("CONNECT_URL"), fingerprint |-> fpr,
           resolve |-> F("RESOLVE")]
     ELSE NoAuth

(* require_helper_contract                                                 *)
MeetsContract(auth) == auth.ok /\ auth.cookie # << >> /\ auth.fingerprint # Refused /\ auth.url # << >>
=============================================================================
