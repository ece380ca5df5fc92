------------------------------- MODULE Inputs -------------------------------
(***************************************************************************)
(* The validators of src/helper/src/validate.c as operators.  A text is a  *)
(* sequence of tokens; a token stands for the run of characters it is      *)
(* written as, or, in Width, for a longer one.  A validator that refuses  *)
(* returns the empty text, which none of them returns on success.          *)
(***************************************************************************)
EXTENDS Integers, FiniteSets, SequencesExt

Refused == << >>

HostMax == 256
UrlMax  == 2048
UaMax   == 129
FprMax  == 128

Width(t) ==
  CASE t \in {"vpn", "VPN"}                                -> 3
    [] t = "sha1:"                                          -> 5
    [] t \in {"http://", "sha256:"}                         -> 7
    [] t \in {"https://", "HTTPS://"}                       -> 8
    [] t = "socks5://"                                      -> 9
    [] t \in {"2001:db8::1", "2001:DB8::1", "pin-sha256:"}  -> 11
    [] t = "l63" -> 63 [] t = "l64" -> 64 [] t = "ua128" -> 128 [] t = "path" -> 2031
    [] OTHER -> 1

(* F of e, with e evaluated once.                                          *)
Once(e, F(_)) == CHOOSE r \in {F(x) : x \in {e}} : TRUE

Total(text) == LET sum[i \in 0..Len(text)] == IF i = 0 THEN 0 ELSE sum[i - 1] + Width(text[i])
               IN sum[Len(text)]
Size(text)  == Once(text, Total)

(* The characters, in the order of base64: b64_val, its table, lower,      *)
(* is_hex and the ranges of valid_label and parse_bounded.                 *)
Alphabet ==
  << "A", "B", "C", "D", "E", "F", "G", "H", "I", "J", "K", "L", "M", "N", "O", "P", "Q", "R", "S", "T", "U", "V", "W", "X", "Y", "Z",
     "a", "b", "c", "d", "e", "f", "g", "h", "i", "j", "k", "l", "m", "n", "o", "p", "q", "r", "s", "t", "u", "v", "w", "x", "y", "z",
     "0", "1", "2", "3", "4", "5", "6", "7", "8", "9", "+", "/" >>

Letter(v)   == Alphabet[v + 1]
Sextet      == [c \in ToSet(Alphabet) |-> (CHOOSE i \in 1..64 : Alphabet[i] = c) - 1]
Among(S)    == {Letter(v) : v \in S}
Digits      == Among(52..61)
LowerHex    == Digits \cup Among(26..31)
Hex         == LowerHex \cup Among(0..5)
LabelChars  == Among(0..61) \cup {"vpn", "VPN", "l63", "l64", "-"}
V6          == {"2001:db8::1", "2001:DB8::1"}

Low(c) == CASE c \in Among(0..25) -> Letter(Sextet[c] + 26)
            [] c = "HTTPS://"       -> "https://"
            [] c = "VPN"            -> "vpn"
            [] c = "2001:DB8::1"    -> "2001:db8::1"
            [] OTHER                -> c
Lowered(text) == [i \in DOMAIN text |-> Low(text[i])]

Find(text, S)     == SelectInSeq(text, LAMBDA t : t \in S)
FindLast(text, S) == SelectLastInSeq(text, LAMBDA t : t \in S)
From(text, i)     == SubSeq(text, i, Len(text))
Upto(text, i)     == SubSeq(text, 1, IF i < Len(text) THEN i ELSE Len(text))

Printable(text, lo, hi) == /\ "ctl" \notin ToSet(text)
                           /\ Size(text) \in lo..hi

-----------------------------------------------------------------------------
(* Numbers.  A value above 100000 is out of every range of the code.       *)

Refusal == -1

Counted(n, digit) == IF n > 100000 THEN n ELSE 10 * n + Sextet[digit] - 52

Value10(text) == LET n[i \in 0..Len(text)] == IF i = 0 THEN 0 ELSE Counted(n[i - 1], text[i])
                 IN n[Len(text)]
Number(text)  == Once(text, Value10)

ParseBounded(text, lo, hi) ==
  IF /\ text # << >>
     /\ ToSet(text) \subseteq Digits
     /\ text[1] = "0" => Len(text) = 1
     /\ Number(text) \in lo..hi
  THEN Number(text)
  ELSE Refusal

(* What snprintf("%u") writes of a number of at most five digits.          *)
Tens == <<1, 10, 100, 1000, 10000>>

Decimal(n) ==
  LET digits == CHOOSE k \in 1..5 : n < 10 * Tens[k] /\ (k = 1 \/ n >= Tens[k])
  IN [i \in 1..digits |-> Letter(52 + ((n \div Tens[digits - i + 1]) % 10))]

-----------------------------------------------------------------------------
(* Base64.                                                                 *)

B64Decode(in) ==
  LET n    == Len(in)
      pad  == Cardinality({i \in {n - 1, n} : in[i] = "="})
      S(i) == Sextet[in[i]]
      Byte(j) == LET q == 4 * ((j - 1) \div 3)
                 IN CASE j % 3 = 1 -> 4 * S(q + 1) + S(q + 2) \div 16
                      [] j % 3 = 2 -> 16 * (S(q + 2) % 16) + S(q + 3) \div 4
                      [] OTHER     -> 64 * (S(q + 3) % 4) + S(q + 4)
  IN IF n > 0 /\ n % 4 = 0 /\ ToSet(Upto(in, n - pad)) \subseteq DOMAIN Sextet
     THEN [j \in 1..((n \div 4) * 3 - pad) |-> Byte(j)]
     ELSE << >>

B64Encode(raw) ==
  LET B(i)    == IF i \in DOMAIN raw THEN raw[i] ELSE 0
      Char(c) == LET b == 3 * ((c - 1) \div 4)
                 IN CASE c % 4 = 1 -> Letter(B(b + 1) \div 4)
                      [] c % 4 = 2 -> Letter(16 * (B(b + 1) % 4) + B(b + 2) \div 16)
                      [] c % 4 = 3 -> IF b + 2 > Len(raw) THEN "=" ELSE Letter(4 * (B(b + 2) % 16) + B(b + 3) \div 64)
                      [] OTHER     -> IF b + 3 > Len(raw) THEN "=" ELSE Letter(B(b + 3) % 64)
  IN [c \in 1..(4 * ((Len(raw) + 2) \div 3)) |-> Char(c)]

-----------------------------------------------------------------------------
(* Hosts and URLs.  inet_pton and inet_ntop are outside the repository: a  *)
(* quad has one spelling, the IPv6 address two, of which one is canonical. *)

(* What is between two dots, or a dot and an end.                          *)
Dots(name)   == {i \in DOMAIN name : name[i] = "."}
Labels(name) ==
  LET ends == {0, Len(name) + 1} \cup Dots(name)
  IN {SubSeq(name, p[1] + 1, p[2] - 1) :
        p \in {q \in ends \X ends : q[1] < q[2] /\ \A k \in Dots(name) : k <= q[1] \/ q[2] <= k}}

IsQuad(host) == /\ Cardinality(Dots(host)) = 3
                /\ \A l \in Labels(host) : ParseBounded(l, 0, 255) # Refusal

CanonV6(addr) == IF Len(addr) = 1 /\ ToSet(addr) \subseteq V6 THEN Lowered(addr) ELSE Refused

ValidLabel(label) ==
  /\ label # << >> /\ Size(label) <= 63
  /\ ToSet(label) \subseteq LabelChars
  /\ label[1] # "-" /\ Last(label) # "-"

ValidLabels(name) == /\ \A l \in Labels(name) : ValidLabel(l)
                     /\ ~ ToSet(From(name, FindLast(name, {"."}) + 1)) \subseteq Digits

CanonName(host) ==
  LET name == IF Last(host) = "." THEN Front(host) ELSE host
  IN IF Size(name) \in 1..253 /\ ValidLabels(name) THEN Lowered(name) ELSE Refused

CanonLiteral(host) == LET addr == CanonV6(SubSeq(host, 2, Len(host) - 1))
                      IN IF Last(host) = "]" /\ addr # Refused THEN <<"[">> \o addr \o <<"]">> ELSE Refused

CanonHost(host) ==
  IF host = << >> \/ Size(host) >= HostMax THEN Refused
  ELSE IF host[1] = "[" THEN CanonLiteral(host)
  ELSE IF Find(host, V6 \cup {":"}) > 0 THEN Refused
  ELSE IF IsQuad(host) THEN host ELSE CanonName(host)

(* A bracketed host ends at its bracket, another one at the last colon.    *)
HostPort(text) ==
  LET close == Find(text, {"]"})
      colon == IF text # << >> /\ text[1] = "["
               THEN IF close \in 1..(Len(text) - 1) /\ text[close + 1] = ":" THEN close + 1 ELSE 0
               ELSE FindLast(text, {":"})
  IN IF colon = 0 THEN [host |-> text, has_port |-> FALSE, port |-> << >>]
     ELSE [host |-> Upto(text, colon - 1), has_port |-> TRUE, port |-> From(text, colon + 1)]

OriginHost(origin) ==
  IF origin # << >> /\ origin[1] = "https://" /\ HostPort(Tail(origin)).has_port
  THEN HostPort(Tail(origin)).host ELSE Refused

(* Where it leads: a host, and a port or the default.                      *)
Endpoint(hp, default) ==
  [host |-> CanonHost(hp.host), port |-> IF hp.has_port THEN ParseBounded(hp.port, 1, 65535) ELSE default]
Leads(end) == end.host # Refused /\ end.port # Refusal
At(end)    == end.host \o <<":">> \o Decimal(end.port)

NoUrl == [ok |-> FALSE, host |-> << >>, origin |-> << >>, path |-> << >>, query |-> << >>]

UrlOf(in, auth, rest, end) ==
  LET mark == Find(rest, {"?"})
  IN IF /\ in # << >> /\ Size(in) < UrlMax
        /\ ToSet(in) \cap {"sp", "ctl", "#"} = {}
        /\ Lowered(in)[1] = "https://"
        /\ auth # << >> /\ Size(auth) < HostMax + 8 /\ "@" \notin ToSet(auth)
        /\ Leads(end)
     THEN [ok |-> TRUE, host |-> end.host, origin |-> <<"https://">> \o At(end),
           path  |-> IF mark = 0 THEN rest ELSE Upto(rest, mark - 1),
           query |-> IF mark = 0 THEN << >> ELSE From(rest, mark + 1)]
     ELSE NoUrl

ParseUrl(in) ==
  LET stop == Find(in, {"/", "?"})
      auth == IF stop = 0 THEN Tail(in) ELSE SubSeq(in, 2, stop - 1)
  IN UrlOf(in, auth, IF stop = 0 THEN << >> ELSE From(in, stop), Endpoint(HostPort(auth), 443))

-----------------------------------------------------------------------------
(* Fingerprints and the closed fields.                                     *)

CanonHex(label, body, digits) ==
  IF Size(body) = digits /\ ToSet(body) \subseteq Hex THEN <<label>> \o Lowered(body) ELSE Refused

CanonBare(in) == IF Size(in) = 40 THEN CanonHex("sha1:", in, 40) ELSE CanonHex("sha256:", in, 64)
CanonPin(label, raw) == IF Len(raw) = 32 THEN <<label>> \o B64Encode(raw) ELSE Refused

(* Mutant: the base64 of a pin is checked and kept as it was spelled.      *)
MutantPinAsSpelled(in) ==
  IF in = << >> \/ Size(in) >= FprMax THEN Refused
  ELSE CASE in[1] = "pin-sha256:" -> IF Len(B64Decode(Tail(in))) = 32 THEN in ELSE Refused
         [] in[1] = "sha1:"       -> CanonHex("sha1:", Tail(in), 40)
         [] in[1] = "sha256:"     -> CanonHex("sha256:", Tail(in), 64)
         [] OTHER                 -> CanonBare(in)

CanonFingerprint(in) ==
  IF in = << >> \/ Size(in) >= FprMax THEN Refused
  ELSE CASE in[1] = "pin-sha256:" -> CanonPin(in[1], B64Decode(Tail(in)))
         [] in[1] = "sha1:"       -> CanonHex("sha1:", Tail(in), 40)
         [] in[1] = "sha256:"     -> CanonHex("sha256:", Tail(in), 64)
         [] OTHER                 -> CanonBare(in)

CanonProfileId(in) ==
  LET dashes == {i \in DOMAIN in : in[i] = "-"}
      hex    == IF dashes = {} THEN in
                ELSE SubSeq(in, 1, 8) \o SubSeq(in, 10, 13) \o SubSeq(in, 15, 18) \o SubSeq(in, 20, 23) \o From(in, 25)
      low    == Lowered(hex)
  IN IF Len(hex) = 32 /\ ToSet(hex) \subseteq Hex /\ dashes \in {{}, {9, 14, 19, 24}}
     THEN SubSeq(low, 1, 8) \o <<"-">> \o SubSeq(low, 9, 12) \o <<"-">> \o SubSeq(low, 13, 16) \o <<"-">>
          \o SubSeq(low, 17, 20) \o <<"-">> \o SubSeq(low, 21, 32)
     ELSE Refused

ValidHexid(in) == Size(in) = 32 /\ ToSet(in) \subseteq LowerHex

ValidProtocol(in) ==
  in \in {<<p>> : p \in {"anyconnect", "nc", "gp", "pulse", "f5", "fortinet", "array"}}

ValidUseragent(in) == Printable(in, 1, UaMax - 1)

ProxyOf(in, end) ==
  IF /\ in # << >> /\ Printable(in, 1, 319)
     /\ in[1] \in {"http://", "socks5://"}
     /\ ToSet(Tail(in)) \cap {"@", "/", "?", "#"} = {}
     /\ Leads(end)
  THEN <<in[1]>> \o At(end) ELSE Refused

CanonProxy(in) == ProxyOf(in, Endpoint(HostPort(Tail(in)), Refusal))

NoResolve == [host |-> << >>, ip |-> << >>]

Bracketed(given) == Len(given) > 2 /\ given[1] = "[" /\ Last(given) = "]"
Address(given)   == IF IsQuad(given) THEN given
                    ELSE CanonV6(IF Bracketed(given) THEN Tail(Front(given)) ELSE given)

Pair(host, ip) == IF host # Refused /\ ip # Refused THEN [host |-> host, ip |-> ip] ELSE NoResolve

CanonResolve(in) ==
  LET close == Find(in, {"]"})
      sep   == IF in # << >> /\ in[1] = "["
               THEN IF close \in 1..(Len(in) - 1) /\ in[close + 1] = ":" THEN close + 1 ELSE 0
               ELSE Find(in, {":"})
  IN IF sep > 0 THEN Pair(CanonHost(Upto(in, sep - 1)), Address(From(in, sep + 1))) ELSE NoResolve

-----------------------------------------------------------------------------
Booleans == {"no-dtls", "no-http-keepalive", "disable-ipv6"}
Ranges   == [name \in {"mtu", "base-mtu", "reconnect-timeout", "force-dpd"} |->
               CASE name = "reconnect-timeout" -> <<1, 3600>>
                 [] name = "force-dpd"         -> <<0, 3600>>
                 [] OTHER                      -> <<576, 9000>>]

RenderTunable(kv) ==
  LET eq   == Find(kv, {"="})
      name == IF eq = 0 THEN kv ELSE Upto(kv, eq - 1)
      val  == IF eq = 0 THEN << >> ELSE From(kv, eq + 1)
      v    == IF Len(name) = 1 /\ name[1] \in DOMAIN Ranges
              THEN ParseBounded(val, Ranges[name[1]][1], Ranges[name[1]][2]) ELSE Refusal
  IN CASE Len(name) # 1 -> Refused
       [] Len(name) = 1 /\ name[1] \in Booleans /\ (eq = 0 \/ val \in {<<"true">>, <<"1">>}) -> <<"--", name[1]>>
       [] v # Refusal -> <<"--", name[1], "=">> \o Decimal(v)
       [] OTHER -> Refused
=============================================================================
