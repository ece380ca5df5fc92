---------------------------- MODULE MCCapability ----------------------------
(* Every spelling of a field next to good values of the others.            *)
EXTENDS Capability

CONSTANT none

MCMeaningless == <<none>>
Rep(c, n) == [i \in 1..n |-> c]

Id1    == Rep("a", 32)
Dashed == Rep("a", 8) \o <<"-">> \o Rep("a", 4) \o <<"-">> \o Rep("a", 4) \o <<"-">> \o Rep("a", 4) \o <<"-">> \o Rep("a", 12)
Pin    == <<"pin-sha256:">> \o Rep("B", 42)

(* Each list is [means |-> set of spellings]; "" is no meaning.            *)
Ids == "id1" :> {Id1, Rep("A", 32), Dashed} @@ "id2" :> {Rep("b", 32)}
       @@ "" :> {Rep("a", 31), Id1 \o <<"-">>, Rep("a", 31) \o <<"vpn">>, << >>}

Protocols == "anyconnect" :> {<<"anyconnect">>} @@ "gp" :> {<<"gp">>} @@ "" :> {<<"vpn">>, << >>}

Endpoints ==
  "vpn.a" :> {<<"https://", "vpn", ".", "a">>, <<"HTTPS://", "VPN", ".", "A", ".">>,
              <<"https://", "vpn", ".", "a", ":", "4", "4", "3", "/", "?">>, <<"https://", "vpn", ".", "a", "?", ":", "@">>}
  @@ "vpn.a:8" :> {<<"https://", "vpn", ".", "a", ":", "8">>}
  @@ "six:65535" :> {<<"https://", "[", "2001:db8::1", "]", ":", "6", "5", "5", "3", "5">>,
                     <<"https://", "[", "2001:DB8::1", "]", ":", "6", "5", "5", "3", "5", "/", "a">>}
  @@ "six" :> {<<"https://", "[", "2001:db8::1", "]">>}
  @@ "quad" :> {<<"https://", "1", ".", "0", ".", "0", ".", "1">>, <<"https://", "1", ".", "0", ".", "0", ".", "1", ":", "4", "4", "3">>}
  @@ "" :> {<<"https://">>, <<"vpn", ".", "a">>, <<"http://", "vpn">>, <<"https://", "vpn", ":", "0">>,
            <<"https://", "vpn", ":", "0", "1">>, <<"https://", "vpn", ":", "6", "5", "5", "3", "6">>, <<"https://", "vpn", ":">>,
            <<"https://", "1", ".", "0", ".", "0", ".", "1", ".">>, <<"https://", "1", ".", "0", ".", "4", "4", "3">>,
            <<"https://", "vpn", ".", "8">>, <<"https://", "-", "vpn">>, <<"https://", "vpn", ".", ".">>,
            <<"https://", "l64", ".", "a">>, <<"https://", "l63", ".", "l63", ".", "l63", ".", "l63">>,
            <<"https://", "2001:db8::1">>, <<"https://", "[", "2001:db8::1">>, <<"https://", "[", "vpn", "]">>,
            <<"https://", "[", "2001:db8::1", "]", "4", "4", "3">>, <<"https://", "a", "@", "vpn">>,
            <<"https://", "vpn", "/", "#">>, <<"https://", "vpn", "/", "sp">>, <<"https://", ":", "4", "4", "3">>,
            <<"https://", "vpn", ":", "4", "4", "3", ":", "4", "4", "3">>}

Fingerprints ==
  "pin" :> {Pin \o <<"A", "=">>, Pin \o <<"B", "=">>, Pin \o <<"D", "=">>}
  @@ "pin'" :> {Pin \o <<"E", "=">>} @@ "pin''" :> {Pin \o <<"8", "=">>, Pin \o <<"/", "=">>}
  @@ "sha1" :> {Rep("a", 40), Rep("A", 40), <<"sha1:">> \o Rep("A", 40)}
  @@ "sha256" :> {Rep("a", 64), <<"sha256:">> \o Rep("A", 64)}
  @@ "" :> {Pin, Pin \o <<"=", "=">>, Pin \o <<"A">>, Pin \o <<"=", "A">>, Pin \o <<"A", "sp">>, Pin \o <<"A", "A">>,
            <<"sha1:">> \o Rep("a", 64), <<"sha256:">> \o Rep("a", 40), Rep("a", 39), Rep("a", 39) \o <<"-">>, << >>}

Proxies ==
  "http" :> {<<"http://", "vpn", ":", "8", "0">>, <<"http://", "VPN", ".", ":", "8", "0">>}
  @@ "socks" :> {<<"socks5://", "[", "2001:DB8::1", "]", ":", "8">>}
  @@ "" :> {<<"http://", "vpn">>, <<"https://", "vpn", ":", "8">>, <<"http://", "a", "@", "vpn", ":", "8">>,
            <<"http://", "vpn", ":", "8", "/">>, <<"http://", "[", "2001:db8::1", "]">>, << >>}

Flag(f) == <<f>>
Argv(id, protocol, endpoint, fpr, proxy) ==
  << Flag("--profile-id"), id, Flag("--protocol"), protocol, Flag("--endpoint"), endpoint, Flag("--fingerprint"), fpr >>
  \o (IF proxy = <<"direct">> THEN << Flag("--no-proxy") >> ELSE << Flag("--proxy"), proxy >>)

Base == <<"id1", "anyconnect", "vpn.a", "sha1", "direct">>
Means(i, m) == IF m = "" THEN <<none>> ELSE [Base EXCEPT ![i] = m]
Good == Argv(Id1, <<"anyconnect">>, <<"https://", "vpn", ".", "a">>, Rep("a", 40), <<"direct">>)
With(i, spellings) == UNION {{[argv |-> [Good EXCEPT ![2 * i] = t], means |-> Means(i, m)] : t \in spellings[m]} : m \in DOMAIN spellings}

Malformed == {Front(Good), Front(Good) \o << Flag("--proxy") >>, Good \o << Flag("--no-proxy") >>,
              Good \o << Flag("--profile-id"), Id1 >>, Good \o << Flag("--proxy"), <<"http://", "vpn", ":", "8">> >>,
              Good \o << Flag("--quiet") >>, Tail(Good), Good \o << <<"vpn">> >>,
              << Flag("--profile-id") >> \o Tail(Tail(Good)), [Good EXCEPT ![2] = Flag("--protocol")]}

MCApprovals ==
  With(1, Ids) \cup With(2, Protocols) \cup With(3, Endpoints) \cup With(4, Fingerprints)
  \cup UNION {{[argv |-> Front(Good) \o << Flag("--proxy"), t >>, means |-> Means(5, m)] : t \in Proxies[m]} : m \in DOMAIN Proxies}
  \cup {[argv |-> bad, means |-> <<none>>] : bad \in Malformed}

Out(cookie, url, fpr) == << Line("COOKIE", cookie), Line("CONNECT_URL", url), Line("FINGERPRINT", fpr) >>
Url    == <<"https://", "vpn", ".", "a", "/", "a", "?", "b">>
Output == Out(<<"a">>, Url, Rep("a", 40))

MCOutputs ==
  {Out(<<"a">>, u, Rep("a", 40)) : u \in {Url, <<"HTTPS://", "VPN", ".", "a", ":", "4", "4", "3">>, <<"https://", "vpn", "/", "path">>,
                                          <<"https://", "vpn", ".", "a", "/", "path">>, <<"vpn", ".", "a">>, << >>,
                                          <<"https://", "[", "2001:DB8::1", "]">>, <<"https://", "1", ".", "0", ".", "0", ".", "1">>}}
  \cup {Out(<<"a">>, Url, f) : f \in {Pin \o <<"B", "=">>, Rep("a", 39), <<"'">>, <<"ctl">>, << >>}}
  \cup {Output \o << Line("RESOLVE", r) >> : r \in {<<"VPN", ".", "a", ":", "1", ".", "0", ".", "0", ".", "1">>,
          <<"vpn", ".", "a", ":", "[", "2001:DB8::1", "]">>, <<"vpn", ":", "2001:db8::1">>, <<"vpn", ".", "a">>, <<"vpn", ".", "a", ":", "vpn">>}}
  \cup {Output \o << BlankLine >>, << BlankLine >> \o Output, << BlankLine >>, << >>, Output \o << BlankLine, BlankLine >>,
        Output \o << Line("COOKIE", <<"a">>) >>, Output \o << Line("HOST", <<"1">>) >>, Output \o << Line("USER", <<"a">>) >>,
        Tail(Output), Front(Output), Out(<< >>, Url, Rep("a", 40)), Out(<<"path", "path", "path", "path", "path">>, Url, Rep("a", 40)),
        Out(<<"a">>, <<"https://", "[", "2001:db8::1", "]", ":", "8">>, Rep("a", 40)) \o << Line("RESOLVE", <<"[", "2001:db8::1", "]", ":", "2001:db8::1">>) >>}

Profile(id, protocol, proxy, extra) == [id |-> id, protocol |-> protocol, proxy |-> proxy, extra |-> extra]
O(name) == <<"--", name>>
MCProfiles ==
  {Profile(Id1, <<"anyconnect">>, << >>, e) : e \in {<< >>, << O("mtu"), <<"5", "7", "6">>, O("no-dtls") >>,
      << O("mtu") \o <<"=", "5", "7", "6">>, O("mtu") \o <<"=", "6", "5", "5", "3">> >>, << O("mtu") \o <<"=", "4", "4", "3">> >>, << O("mtu") >>,
      << O("no-dtls"), O("no-dtls") \o <<"=", "1">> >>, << O("useragent"), <<"ua128">>, O("os"), <<"a">> >>,
      << O("useragent") \o <<"=", "-">>, O("force-dpd"), <<"0">> >>, << O("script"), <<"a">> >>,
      << O("useragent"), <<"ua128", "a">> >>}}
  \cup {Profile(Dashed, <<"gp">>, << >>, << >>),
        Profile(Id1, <<"anyconnect">>, <<"http://", "VPN", ":", "8">>, << >>), Profile(Id1, <<"anyconnect">>, <<"socks5://", "vpn", ":", "8">>, << >>),
        Profile(Rep("a", 31), <<"anyconnect">>, << >>, << >>)}
=============================================================================
